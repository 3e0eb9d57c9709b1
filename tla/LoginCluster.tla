----------------------------- MODULE LoginCluster -----------------------------
(***************************************************************************)
(* The login master (lualib/snax/login_server.lua, service/login/logind.lua)*)
(* and the gates (service/gated.lua) of several game nodes.  Agents and      *)
(* clients, which Gated models, appear as logouts that happen at any time.   *)
(*                                                                         *)
(* The login master is one service whose coroutines yield in cluster.call.   *)
(* The calls a gate makes to it arrive in order; they are not ordered with   *)
(* the answers the gate gives.                                              *)
(***************************************************************************)
EXTENDS Naturals, FiniteSets, Sequences, SequencesExt

CONSTANTS
  Token,       \* accounts, as clients name them (sdkid and token)
  Node,        \* game nodes
  Conn,        \* connections to the login server
  None,        \* Lua nil
  Worlds,      \* the kinds of trouble to consider, see world
  MaxUid,      \* bound: uids given out
  MaxId,       \* bound, per world: logins start while a node drew fewer ids
  MaxNotices   \* bound: and while fewer calls wait for the login master

\* "crash": nodes crash and restart; "late": and what a node sent before its
\* crash may arrive long after it; "lost": a cluster.call of a live node may
\* fail; "register": the accounts have no row yet.
ASSUME WorldsAssumption == Worlds \subseteq {"crash", "late", "lost", "register"}
ASSUME BoundAssumption == (\A w \in Worlds : MaxId[w] \in Nat) /\ MaxNotices \in Nat
ASSUME UidAssumption ==
  MaxUid \in Nat /\ IsFiniteSet(Token) /\ Cardinality(Token) <= MaxUid
ASSUME NoneAssumption ==
  None \notin Conn /\ None \notin Node /\ None \notin [server : Node, subid : Nat]

VARIABLES
  \* account database
  nextid,      \* last uid given out
  row,         \* token -> uid of its row, 0 if it has none
  \* login master
  user_login,  \* keys of the logins in progress
  user_online, \* key -> [server, subid], or None
  flow,        \* connection -> where its accept() is
  notices,     \* node -> logout calls of its gate on their way, in order
  \* game nodes
  up,          \* node -> whether it runs
  internal_id, \* node -> last subid drawn
  users,       \* node -> sessions in the gate's table users
  world,       \* the trouble there is; never changes
  logins       \* login_handlers of gates that yield: [node, key, name, for]

dbvars == << nextid, row >>
gatevars == << up, internal_id, users, logins >>
vars == << nextid, row, user_login, user_online, flow, notices, up, internal_id,
           users, logins, world >>

\* A uid is a number when register() returns it and a string when it is read
\* from the database: different keys of a Lua table.
Uid == 0 .. MaxUid
Key == [uid : Uid, type : {"number", "string"}]

(* The string that a username carries, and auth_handler looks up.           *)
AsString(k) == [k EXCEPT !.type = "string"]

Last0 == [server |-> None, subid |-> 0]
Idle == [st |-> "idle", token |-> None, node |-> None, key |-> None,
         last |-> Last0, subid |-> 0]

Init ==
  /\ world \in Worlds
  /\ IF world # "register"
       THEN /\ nextid = Cardinality(Token)
            /\ row \in [Token -> 1 .. Cardinality(Token)]
            /\ \A t, v \in Token : row[t] = row[v] => t = v
       ELSE nextid = 0 /\ row = [t \in Token |-> 0]
  /\ user_login = {}
  /\ user_online = [k \in Key |-> None]
  /\ flow = [c \in Conn |-> Idle]
  /\ notices = [n \in Node |-> << >>]
  /\ up = [n \in Node |-> TRUE]
  /\ internal_id = [n \in Node |-> 0]
  /\ users = [n \in Node |-> {}]
  /\ logins = {}

-----------------------------------------------------------------------------
(* Login slave: auth() of logind.lua over accountdb_snax.                   *)

(* A client connects and names its account and a node; the row of the       *)
(* account is read.                                                         *)
AuthGet(c) ==
  /\ flow[c].st = "idle"
  /\ \A n \in Node : Len(notices[n]) < MaxNotices
  /\ \E t \in Token, n \in Node :
       /\ internal_id[n] < MaxId[world]
       /\ flow' = [flow EXCEPT ![c] =
            [Idle EXCEPT !.st = IF row[t] = 0 THEN "nextid" ELSE "accept",
               !.token = t, !.node = n,
               !.key = IF row[t] = 0 THEN None
                       ELSE [uid |-> row[t], type |-> "string"]]]
  /\ UNCHANGED << dbvars, user_login, user_online, notices, gatevars >>

(* register(): accountdb_snax.req.get_nextid                                *)
RegisterId(c) ==
  /\ flow[c].st = "nextid" /\ nextid < MaxUid
  /\ nextid' = nextid + 1
  /\ flow' = [flow EXCEPT ![c].st = "add", ![c].key = [uid |-> nextid', type |-> "number"]]
  /\ UNCHANGED << row, user_login, user_online, notices, gatevars >>

(* register(): accountdb_snax.req.add, which writes over an existing row.   *)
RegisterAdd(c) ==
  /\ flow[c].st = "add"
  /\ row' = [row EXCEPT ![flow[c].token] = flow[c].key.uid]
  /\ flow' = [flow EXCEPT ![c].st = "accept"]
  /\ UNCHANGED << nextid, user_login, user_online, notices, gatevars >>

-----------------------------------------------------------------------------
(* Login master: accept() and login_handler().                              *)

(* accept() after the slave's answer: 406 while the uid is logging in, else *)
(* the uid is marked and login_handler runs up to its first call.           *)
Accept(c) ==
  /\ flow[c].st = "accept"
  /\ LET k == flow[c].key IN
       \/ /\ k \in user_login
          /\ flow' = [flow EXCEPT ![c] = Idle]
          /\ UNCHANGED user_login
       \/ /\ k \notin user_login
          /\ user_login' = user_login \cup {k}
          /\ flow' = [flow EXCEPT
               ![c].st = IF user_online[k] = None THEN "login" ELSE "kick",
               ![c].last = IF user_online[k] = None THEN @ ELSE user_online[k]]
  /\ UNCHANGED << dbvars, user_online, notices, gatevars >>

\* mutated: an error jumps over it
MutFinish(c) ==
  /\ flow' = [flow EXCEPT ![c] = Idle]
  /\ user_login' = IF flow[c].st = "done" THEN user_login \ {flow[c].key} ELSE user_login

(* The end of accept(): 200 or 403, and the mark is taken away.             *)
Finish(c) ==
  /\ flow' = [flow EXCEPT ![c] = Idle]
  /\ user_login' = user_login \ {flow[c].key}

\* mutated: a failed kick is taken for a success
MutAfterKick(c) ==
  /\ flow[c].st \in {"kicked", "kickfailed"}
  /\ user_online' = [user_online EXCEPT ![flow[c].key] = None]
  /\ flow' = [flow EXCEPT ![c].st = "login"]
  /\ UNCHANGED << dbvars, user_login, notices, gatevars >>

(* login_handler after the kick: an error clears the entry; a user who is   *)
(* still online is refused.                                                 *)
AfterKick(c) ==
  /\ flow[c].st \in {"kicked", "kickfailed"}
  /\ LET k == flow[c].key
         still == flow[c].st = "kicked" /\ user_online[k] # None
     IN  /\ user_online' = [user_online EXCEPT ![k] = IF still THEN @ ELSE None]
         /\ IF still THEN Finish(c)
            ELSE flow' = [flow EXCEPT ![c].st = "login"] /\ UNCHANGED user_login
  /\ UNCHANGED << dbvars, notices, gatevars >>

\* mutated: the session is not recorded
MutLoginDone(c) ==
  /\ flow[c].st = "done"
  /\ Finish(c)
  /\ UNCHANGED << dbvars, user_online, notices, gatevars >>

(* login_handler after the login on the gate.                               *)
LoginDone(c) ==
  /\ flow[c].st = "done"
  /\ user_online' = [user_online EXCEPT ![flow[c].key] =
       [server |-> flow[c].node, subid |-> flow[c].subid]]
  /\ Finish(c)
  /\ UNCHANGED << dbvars, notices, gatevars >>

\* mutated: the gate is not answered
MutNotice(n) ==
  /\ notices[n] # << >>
  /\ notices' = [notices EXCEPT ![n] = Tail(@)]
  /\ user_online' = [user_online EXCEPT ![Head(notices[n]).key] = None]
  /\ UNCHANGED << dbvars, user_login, flow, gatevars >>

(* CMD.logout for the first call of a gate: forgets the session of the uid  *)
(* whatever its subid, and lets the kick that made the call return.         *)
Notice(n) ==
  /\ notices[n] # << >>
  /\ notices' = [notices EXCEPT ![n] = Tail(@)]
  /\ LET m == Head(notices[n]) IN
       /\ user_online' = [user_online EXCEPT ![m.key] = None]
       /\ flow' = IF m.for = None THEN flow
                  ELSE [flow EXCEPT ![m.for].st = "kicked"]
  /\ UNCHANGED << dbvars, user_login, gatevars >>

-----------------------------------------------------------------------------
(* Gates.                                                                   *)

Session(n, k) == {s \in users[n] : s.key = k}
Tell(n, k, c) == notices' = [notices EXCEPT ![n] = Append(@, [key |-> k, for |-> c])]

(* kick_handler: the user named is told to log out, an unknown one is        *)
(* reported to the login master; another subid makes its assert fail.       *)
Kick(c) ==
  /\ flow[c].st = "kick"
  /\ LET n == flow[c].last.server
         S == Session(n, flow[c].key)
     IN  /\ up[n]
         /\ IF S = {}
              THEN /\ Tell(n, flow[c].key, c)
                   /\ flow' = [flow EXCEPT ![c].st = "notify"]
              ELSE /\ flow' = [flow EXCEPT ![c].st =
                        IF \A s \in S : s.name = flow[c].last.subid
                          THEN "kickwait" ELSE "kickfailed"]
                   /\ UNCHANGED notices
  /\ UNCHANGED << dbvars, user_login, user_online, gatevars >>

(* The agent's logout comes back to the gate: logout_handler takes the user *)
(* out and tells the login master; the kick returns when that was answered. *)
KickLogout(c) ==
  /\ flow[c].st = "kickwait"
  /\ LET n == flow[c].last.server
         S == Session(n, flow[c].key)
     IN  IF S = {}
           THEN /\ flow' = [flow EXCEPT ![c].st = "kicked"]
                /\ UNCHANGED << notices, users >>
           ELSE /\ users' = [users EXCEPT ![n] = @ \ S]
                /\ Tell(n, flow[c].key, c)
                /\ flow' = [flow EXCEPT ![c].st = "notify"]
  /\ UNCHANGED << dbvars, user_login, user_online, up, internal_id, logins >>


(* logout_handler for an agent whose user was idle.                         *)
IdleLogout(n, s) ==
  /\ s \in users[n]
  /\ users' = [users EXCEPT ![n] = @ \ {s}]
  /\ Tell(n, s.key, None)
  /\ UNCHANGED << dbvars, user_login, user_online, flow, up, internal_id, logins >>

(* login_handler of the gate up to its yields: a user of the node is         *)
(* refused, another one draws an internal_id for its username.              *)
LoginCall(c) ==
  /\ flow[c].st = "login" /\ up[flow[c].node]
  /\ LET n == flow[c].node IN
       IF Session(n, flow[c].key) # {}
         THEN Finish(c) /\ UNCHANGED << internal_id, logins >>
         ELSE /\ internal_id' = [internal_id EXCEPT ![n] = @ + 1]
              /\ logins' = logins \cup
                   {[node |-> n, key |-> flow[c].key, name |-> internal_id'[n], for |-> c]}
              /\ flow' = [flow EXCEPT ![c].st = "loggingin"]
              /\ UNCHANGED user_login
  /\ UNCHANGED << dbvars, user_online, notices, up, users >>

(* login_handler of the gate after its yields: the session is filed and     *)
(* internal_id, as it is now, returned to a caller that still waits.        *)
LoginReturn(l) ==
  /\ logins' = logins \ {l}
  /\ users' = [users EXCEPT ![l.node] = (@ \ Session(l.node, l.key))
                              \cup {[key |-> l.key, name |-> l.name]}]
  /\ flow' = IF l.for = None THEN flow
             ELSE [flow EXCEPT ![l.for].st = "done",
                               ![l.for].subid = internal_id[l.node]]
  /\ UNCHANGED << dbvars, user_login, user_online, notices, up, internal_id >>

-----------------------------------------------------------------------------
(* Failures.                                                                *)

Kicking == {"kick", "kickwait", "notify"}

\* The node that connection c waits for
Callee(c) == IF flow[c].st \in Kicking THEN flow[c].last.server
             ELSE IF flow[c].st \in {"login", "loggingin", "done"} THEN flow[c].node
             ELSE None

(* A cluster.call raises: login_handler goes on after the kick's pcall, or  *)
(* fails (403) after the login's.                                           *)
CallFails(c) ==
  /\ IF flow[c].st \in Kicking
       THEN flow' = [flow EXCEPT ![c].st = "kickfailed"] /\ UNCHANGED user_login
       ELSE flow[c].st \in {"login", "loggingin"} /\ Finish(c)
  /\ UNCHANGED << dbvars, user_online, up, internal_id, users >>

\* What a gate does for connection c goes on without a caller.
Orphan(m, c) == IF m.for = c THEN [m EXCEPT !.for = None] ELSE m
OrphanNotices(c) ==
  [n \in Node |-> [i \in DOMAIN notices[n] |-> Orphan(notices[n][i], c)]]

(* A call of a node that is down raises.                                    *)
CallDown(c) ==
  /\ Callee(c) # None /\ ~up[Callee(c)]
  /\ CallFails(c)
  /\ UNCHANGED << notices, logins >>

(* The connection to a live node breaks during a call.                      *)
CallLost(c) ==
  /\ world = "lost"
  /\ Callee(c) # None /\ up[Callee(c)]
  /\ CallFails(c)
  /\ notices' = OrphanNotices(c)
  /\ logins' = {Orphan(l, c) : l \in logins}

(* A node crashes.  Every call it was to answer raises; of the calls it      *)
(* sent a beginning still arrives, if that may take so long.                *)
Crash(n) ==
  /\ world \in {"crash", "late"} /\ up[n]
  /\ up' = [up EXCEPT ![n] = FALSE]
  /\ users' = [users EXCEPT ![n] = {}]
  /\ logins' = {l \in logins : l.node # n}
  /\ \E i \in 0 .. IF world = "late" THEN Len(notices[n]) ELSE 0 :
       notices' = [notices EXCEPT ![n] =
         [j \in 1 .. i |-> [notices[n][j] EXCEPT !.for = None]]]
  /\ flow' = [c \in Conn |->
       IF Callee(c) # n \/ flow[c].st = "done" THEN flow[c]
       ELSE IF flow[c].st \in Kicking THEN [flow[c] EXCEPT !.st = "kickfailed"]
       ELSE Idle]
  /\ user_login' = user_login \
       {flow[c].key : c \in {d \in Conn : flow[d].st # "idle" /\ flow'[d] = Idle}}
  /\ UNCHANGED << dbvars, user_online, internal_id >>

(* It restarts with an empty gate that counts from zero.                    *)
Restart(n) ==
  /\ ~up[n]
  /\ up' = [up EXCEPT ![n] = TRUE]
  /\ internal_id' = [internal_id EXCEPT ![n] = 0]
  /\ UNCHANGED << dbvars, user_login, user_online, flow, notices, users, logins >>

-----------------------------------------------------------------------------

Step(c) ==
  \/ RegisterId(c) \/ RegisterAdd(c) \/ Accept(c) \/ AfterKick(c) \/ LoginDone(c)
  \/ Kick(c) \/ KickLogout(c) \/ LoginCall(c) \/ CallDown(c)

Handler ==
  \/ \E c \in Conn : AuthGet(c) \/ Step(c) \/ CallLost(c)
  \/ \E l \in logins : LoginReturn(l)
  \/ \E n \in Node : Notice(n) \/ Crash(n) \/ Restart(n)
  \/ \E n \in Node : \E s \in users[n] : IdleLogout(n, s)

Next == Handler /\ UNCHANGED world

Spec == Init /\ [][Next]_vars

(* Every service serves the messages it has; clients, crashes, restarts and *)
(* idle users owe nothing.                                                  *)
Fairness ==
  /\ \A c \in Conn : WF_vars(Step(c) /\ UNCHANGED world)
  /\ \A n \in Node : WF_vars(Notice(n) /\ UNCHANGED world)
  /\ \A c \in Conn :
       WF_vars((\E l \in logins : l.for = c /\ LoginReturn(l)) /\ UNCHANGED world)

FairSpec == Spec /\ Fairness

-----------------------------------------------------------------------------

TypeOK ==
  /\ nextid \in Uid /\ row \in [Token -> Uid]
  /\ user_login \subseteq Key
  /\ user_online \in [Key -> [server : Node, subid : Nat] \cup {None}]
  /\ \A c \in Conn :
       flow[c].st \notin {"idle", "nextid"} => flow[c].key \in Key
  /\ notices \in [Node -> Seq([key : Key, for : Conn \cup {None}])]
  /\ up \in [Node -> BOOLEAN] /\ internal_id \in [Node -> Nat]
  /\ users \in [Node -> SUBSET [key : Key, name : Nat]]
  /\ logins \subseteq [node : Node, key : Key, name : Nat, for : Conn \cup {None}]

(* logind.lua:74 "only one can login, because disallow multilogin": an      *)
(* account has at most one session on all game nodes together, though the    *)
(* nodes crash and restart at any point of a login, kick or logout.         *)
SingleSession ==
  world \in {"crash", "late"} =>
    \A m, n \in Node : \A s \in users[m], t \in users[n] :
      s.key.uid = t.key.uid => m = n /\ s = t

(* logind.lua:75-80: whatever crashed, the next login can kick a session,   *)
(* for the login master knows its node and subid or is about to be told.    *)
SessionKnown ==
  world = "crash" => \A n \in Node : \A s \in users[n] :
    \/ user_online[s.key] = [server |-> n, subid |-> s.name]
    \/ \E c \in Conn : flow[c].st = "done" /\ flow[c].key = s.key
                       /\ flow[c].node = n /\ flow[c].subid = s.name

\* accept() let c into login_handler
Admitted(c) == flow[c].st \notin {"idle", "nextid", "add", "accept"}

(* login_server.lua:144 "while a user is logging in, the same user may not  *)
(* log in elsewhere".                                                       *)
OneLogin ==
  \A c, d \in Conn : Admitted(c) /\ Admitted(d) /\ flow[c].token = flow[d].token => c = d

(* login_server.lua:145-157: a uid is marked exactly while one login of it  *)
(* is under way, however calls fail, so that a mark keeps nobody out for    *)
(* ever and is never shared.                                                *)
MarkExact ==
  /\ user_login = {flow[c].key : c \in {d \in Conn : Admitted(d)}}
  /\ \A c, d \in Conn : Admitted(c) /\ Admitted(d) /\ flow[c].key = flow[d].key => c = d

(* gated.lua:44 "login server disallow multi login, so login_handler never  *)
(* be reentry": one login of a user at a time on a gate.                    *)
NeverReentry ==
  \A l, m \in logins : l.node = m.node /\ l.key = m.key => l = m

(* msg_server.lua:46, gated.lua:31-36: auth_handler finds the user that the *)
(* username of a session names.                                             *)
AuthFindsUser ==
  \A n \in Node : \A s \in users[n] : Session(n, AsString(s.key)) # {}

(* login_server.lua:132-167: a connection that asked for a login gets its    *)
(* answer, whatever crashes.                                                *)
LoginAnswered == \A c \in Conn : flow[c].st # "idle" ~> flow[c].st = "idle"
==============================================================================
