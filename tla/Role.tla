-------------------------------- MODULE Role --------------------------------
(***************************************************************************)
(* The life of a role in the agents: service/agent/cmd.lua, apis/role_api.lua, *)
(* cls/role.lua, with the timer of lualib/timer.lua and the session lock of  *)
(* lualib/session_lock.lua (whose own correctness is module SessionLock), the *)
(* rows of gamedb_snax and the list of online_snax.                         *)
(*                                                                         *)
(* A role is the set of the changes made to it.  The gates and the login     *)
(* master appear as what they do to the agents; they are module Gated.       *)
(*                                                                         *)
(* A behaviour runs in one of Worlds, the set of what happens in it besides  *)
(* logins, requests, kicks and saves:                                       *)
(*   "reuse"      an agent serves again after a logout                      *)
(*   "reconnect"  a client comes back on a new connection                   *)
(*   "idle"       the agent logs a user out by itself                       *)
(*   "early"      a user is kicked while its role loads                     *)
(*   "quick"      an account returns within five minutes                    *)
(*   "center"     the center node cannot be reached                         *)
(***************************************************************************)
EXTENDS Naturals, FiniteSets, Sequences, SequencesExt

CONSTANTS
  Account,
  Agent,
  None,       \* Lua nil
  Worlds,
  MaxChange,  \* bound: changes made to roles in each world
  MaxLock     \* bound: session locks an agent makes

ASSUME WorldsAssumption ==
  Worlds \subseteq SUBSET {"reuse", "reconnect", "idle", "early", "quick", "center"}
ASSUME BoundAssumption == MaxChange \in [Worlds -> Nat] /\ MaxLock \in Nat

VARIABLES
  world,
  gate,    \* account -> its session as the gates see it, and the last agent of it
  db,      \* account -> its row in gamedb, or None
  online,  \* account -> the agent online_snax lists for it, or None
  made,    \* history: account -> changes made to its role
  ag       \* agent -> its state

vars == << world, gate, db, online, made, ag >>

Change == UNION {1 .. MaxChange[w] : w \in Worlds}
Row == SUBSET Change
RoleOf == [account : Account, td : Row]
ASSUME NoneAssumption ==
  None \notin Account \cup Agent \cup RoleOf /\ \A td \in Row : None # td

Coroutine == {"timer", "client"}

FreshAgent ==
  [used    |-> FALSE,
   uid     |-> None,      \* env.uid
   client  |-> FALSE,     \* a zinc_client forwards requests
   role    |-> None,      \* env.role: account and changes
   load    |-> "none",    \* load_role: "get", "create", "online"
   for     |-> None,      \* env.account
   timer   |-> FALSE,     \* env.timer runs and has the intervals of the role
   lock    |-> 0,         \* env.session_lock: its number
   quit    |-> FALSE,     \* lock_quit was called on it
   \* session function of a coroutine: 0, or its lock; it runs or waits
   session |-> [c \in Coroutine |-> 0],
   runs    |-> {},
   closed  |-> FALSE,     \* alread_close
   close   |-> "none",    \* cmd.close: "offline", "quit", "save", "done"
   loop    |-> FALSE,     \* the forked loop of cmd.close is waiting
   sets    |-> << >>]     \* calls of gamedb's set on their way

Init ==
  /\ world \in Worlds
  /\ gate = [x \in Account |-> [st |-> "out", agent |-> None]]
  /\ db = [x \in Account |-> None]
  /\ online = [x \in Account |-> None]
  /\ made = [x \in Account |-> {}]
  /\ ag = [a \in Agent |-> FreshAgent]

Count == Cardinality(UNION {made[x] : x \in Account})

\* A call of gamedb's set has not been answered yet.
Waits(r, by) == \E i \in DOMAIN r.sets : r.sets[i].by = by

-----------------------------------------------------------------------------
(* Gates: which agent serves whom.                                          *)

Serves(a) == \E x \in Account : gate[x].st = "in" /\ gate[x].agent = a

(* login_handler of a gate and CMD.login: a session starts on a free agent. *)
Login(x) ==
  /\ gate[x].st = "out"
  /\ "quick" \in world \/ \A a \in Agent :
       ag[a].role # None /\ ag[a].role.account = x => ~ag[a].loop /\ ag[a].sets = << >>
  /\ \E a \in Agent :
       /\ ~Serves(a)
       /\ ~ag[a].used \/ "reuse" \in world
       /\ gate' = [gate EXCEPT ![x] = [st |-> "in", agent |-> a]]
       /\ ag' = [ag EXCEPT ![a].used = TRUE]
  /\ UNCHANGED << world, db, online, made >>

(* CMD.auth and cmd.start: also when the client of the session reconnects,   *)
(* the agent gets a new timer without intervals and a new session lock.      *)
Start(x) ==
  /\ gate[x].st = "in"
  /\ LET a == gate[x].agent IN
       /\ ag[a].lock < MaxLock
       /\ ag[a].client => "reconnect" \in world
       /\ ag' = [ag EXCEPT ![a] =
            [ag[a] EXCEPT !.uid = x, !.client = TRUE, !.timer = FALSE,
                          !.lock = ag[a].lock + 1, !.quit = FALSE]]
  /\ UNCHANGED << world, gate, db, online, made >>

-----------------------------------------------------------------------------
(* cmd.close, up to its first yield: nothing if it ran before, nothing to do *)
(* without a role.  The loop it forks remains.                              *)

Closing(r) ==
  IF r.closed
    THEN [r EXCEPT !.client = FALSE]
    ELSE [r EXCEPT !.client = FALSE, !.closed = TRUE, !.loop = TRUE,
                   !.close = IF r.role = None THEN "done" ELSE "offline"]

\* Whether the logout is over with that first part.
AtOnce(r) == r.closed \/ r.role = None

(* kick_handler and CMD.logout: the gate takes the agent back first; the     *)
(* kick is answered when cmd.close returned.  Without a zinc_client the      *)
(* logout raises before it.                                                 *)
Kick(x) ==
  /\ gate[x].st = "in"
  /\ LET a == gate[x].agent
         r == ag[a]
     IN  /\ r.load = "none" \/ "early" \in world
         /\ \/ /\ ~r.client
               /\ gate' = [gate EXCEPT ![x].st = "out"]
               /\ UNCHANGED ag
            \/ /\ r.client
               /\ gate' = [gate EXCEPT ![x].st = IF AtOnce(r) THEN "out" ELSE "kicking"]
               /\ ag' = [ag EXCEPT ![a] = Closing(r)]
  /\ UNCHANGED << world, db, online, made >>

(* idle() in the agent's worker: the gate forgets the session, and then the  *)
(* agent closes, with nobody waiting for it.                                *)
IdleLogout(x) ==
  /\ "idle" \in world
  /\ gate[x].st = "in"
  /\ LET a == gate[x].agent IN
       /\ ag[a].client /\ ag[a].load = "none"
       /\ ag' = [ag EXCEPT ![a] = Closing(ag[a])]
  /\ gate' = [gate EXCEPT ![x].st = "out"]
  /\ UNCHANGED << world, db, online, made >>

-----------------------------------------------------------------------------
(* load_role, under its own lock.                                           *)

Empty(x) == [account |-> x, td |-> {}]

(* load_role up to gamedb's get; with a role it answers at once.            *)
LoadRole(a) ==
  /\ ag[a].load = "none" /\ ag[a].uid # None
  /\ ag[a].client \/ "early" \in world
  /\ ag[a].role = None
  /\ ag' = [ag EXCEPT ![a] = [ag[a] EXCEPT !.load = "get", !.for = ag[a].uid]]
  /\ UNCHANGED << world, gate, db, online, made >>

\* mutated: the intervals are not set
MutLoaded(r, td) ==
  [r EXCEPT !.role = [account |-> r.for, td |-> td], !.load = "online"]

\* _load_role, then role:online up to its call: with the intervals of the role
\* the timer of the agent runs.
Loaded(r, td) ==
  [r EXCEPT !.role = [account |-> r.for, td |-> td], !.timer = TRUE, !.load = "online"]

(* The row arrived, or there is none: create_role adds it.                  *)
LoadGot(a) ==
  /\ ag[a].load = "get"
  /\ LET row == db[ag[a].for] IN
       ag' = [ag EXCEPT ![a] =
         IF row # None THEN Loaded(ag[a], row)
         ELSE [ag[a] EXCEPT !.load = "create",
                            !.sets = Append(ag[a].sets, [by |-> "load", role |-> Empty(ag[a].for)])]]
  /\ UNCHANGED << world, gate, db, online, made >>

Created(a) ==
  /\ ag[a].load = "create" /\ ~Waits(ag[a], "load")
  /\ ag' = [ag EXCEPT ![a] = Loaded(ag[a], {})]
  /\ UNCHANGED << world, gate, db, online, made >>

(* online_snax answers; if it cannot be reached, load_role raises.          *)
Online(a) ==
  /\ ag[a].load = "online"
  /\ \/ online' = [online EXCEPT ![ag[a].uid] = a]
     \/ "center" \in world /\ UNCHANGED online
  /\ ag' = [ag EXCEPT ![a].load = "none"]
  /\ UNCHANGED << world, gate, db, made >>

-----------------------------------------------------------------------------
(* Changes to a role.                                                       *)

Changed(a, c) ==
  /\ Count < MaxChange[world]
  /\ made' = [made EXCEPT ![ag[a].role.account] = @ \cup {Count + 1}]
  /\ c = Count + 1

(* A request that works on the role without the session lock (read_mail,     *)
(* gm, ...).                                                                *)
Request(a) ==
  /\ ag[a].client /\ ag[a].role # None
  /\ \E c \in Change :
       /\ Changed(a, c)
       /\ ag' = [ag EXCEPT ![a].role.td = @ \cup {c}]
  /\ UNCHANGED << world, gate, db, online >>

\* The session lock of number l is held by a session or by lock_quit.
Held(r, l) == \E c \in r.runs : r.session[c] = l

(* lock_session of update_mailbox or daily_update, from a request or from    *)
(* the timer: refused after lock_quit.                                      *)
Session(a, c) ==
  /\ ag[a].role # None /\ ag[a].session[c] = 0 /\ ~ag[a].quit
  /\ IF c = "client" THEN ag[a].client ELSE ag[a].timer
  /\ ag' = [ag EXCEPT ![a].session[c] = ag[a].lock]
  /\ UNCHANGED << world, gate, db, online, made >>

(* It gets the lock, and calls the mailbox service.                         *)
SessionRuns(a, c) ==
  /\ ag[a].session[c] # 0 /\ c \notin ag[a].runs
  /\ ~Held(ag[a], ag[a].session[c])
  /\ ag' = [ag EXCEPT ![a].runs = @ \cup {c}]
  /\ UNCHANGED << world, gate, db, online, made >>


(* It changes the role, if there were mails, and releases the lock.          *)
SessionEnds(a, c) ==
  /\ c \in ag[a].runs
  /\ LET r == [ag[a] EXCEPT !.runs = @ \ {c}, !.session[c] = 0] IN
       \/ \E n \in Change :
            Changed(a, n) /\ ag' = [ag EXCEPT ![a] = [r EXCEPT !.role.td = @ \cup {n}]]
       \/ ag' = [ag EXCEPT ![a] = r] /\ UNCHANGED made
  /\ UNCHANGED << world, gate, db, online >>

-----------------------------------------------------------------------------
(* save_db, and gamedb.                                                     *)

\* mutated: nothing is sent
MutSaving(r, by) == r
Saving(r, by) == [r EXCEPT !.sets = Append(@, [by |-> by, role |-> r.role])]


(* The role's interval of a minute; one such call at a time, as the timer    *)
(* waits for the answer.                                                    *)
TimerSave(a) ==
  /\ ag[a].timer /\ ag[a].session["timer"] = 0
  /\ ~Waits(ag[a], "timer")
  /\ ag' = [ag EXCEPT ![a] = Saving(ag[a], "timer")]
  /\ UNCHANGED << world, gate, db, online, made >>

(* gamedb_snax stores the row.                                              *)
Set(a) ==
  /\ ag[a].sets # << >>
  /\ LET s == Head(ag[a].sets).role IN db' = [db EXCEPT ![s.account] = s.td]
  /\ ag' = [ag EXCEPT ![a].sets = Tail(@)]
  /\ UNCHANGED << world, gate, online, made >>

(* The loop that cmd.close forked, five minutes later: it saves the role     *)
(* that is there, whether the close failed or not.                          *)
ForceSave(a) ==
  /\ ag[a].loop
  /\ ag' = [ag EXCEPT ![a] =
       IF ag[a].role = None THEN [ag[a] EXCEPT !.loop = FALSE]
                            ELSE Saving([ag[a] EXCEPT !.loop = FALSE], "loop")]
  /\ UNCHANGED << world, gate, db, online, made >>

-----------------------------------------------------------------------------
(* role:offline, in cmd.close.                                              *)

\* mutated: online_snax is not told
MutOffline(a) ==
  /\ ag[a].close = "offline"
  /\ ag' = [ag EXCEPT ![a] = [@ EXCEPT !.close = "quit", !.timer = FALSE, !.quit = TRUE]]
  /\ UNCHANGED << world, gate, db, online, made >>

\* mutated: neither the timer is stopped nor the lock shut
MutOfflineOpen(a) ==
  /\ ag[a].close = "offline"
  /\ online' = [online EXCEPT ![ag[a].uid] = None]
  /\ ag' = [ag EXCEPT ![a] = [@ EXCEPT !.close = "quit"]]
  /\ UNCHANGED << world, gate, db, made >>

(* online_snax forgets the user, the timer stops, lock_quit begins.  If the  *)
(* center cannot be reached the role is just saved.                         *)
Offline(a) ==
  /\ ag[a].close = "offline"
  /\ \/ /\ online' = [online EXCEPT ![ag[a].uid] = None]
        /\ ag' = [ag EXCEPT ![a] =
             [ag[a] EXCEPT !.close = "quit", !.timer = FALSE, !.quit = TRUE]]
     \/ /\ "center" \in world
        /\ ag' = [ag EXCEPT ![a] = [Saving(ag[a], "close") EXCEPT !.close = "save"]]
        /\ UNCHANGED online
  /\ UNCHANGED << world, gate, db, made >>

\* mutated: the lock is not waited for
MutQuit(a) ==
  /\ ag[a].close = "quit"
  /\ ag' = [ag EXCEPT ![a] = [Saving(@, "close") EXCEPT !.close = "save"]]
  /\ UNCHANGED << world, gate, db, online, made >>

(* lock_quit returns after the sessions it found on its lock; the role is    *)
(* saved.                                                                   *)
Quit(a) ==
  /\ ag[a].close = "quit"
  /\ \A c \in Coroutine : ag[a].session[c] # ag[a].lock
  /\ ag' = [ag EXCEPT ![a] = [Saving(ag[a], "close") EXCEPT !.close = "save"]]
  /\ UNCHANGED << world, gate, db, online, made >>

(* The row is stored and cmd.close returns; a kick is answered.             *)
Saved(a) ==
  /\ ag[a].close = "save" /\ ~Waits(ag[a], "close")
  /\ ag' = [ag EXCEPT ![a].close = "done"]
  /\ gate' = [x \in Account |->
       IF gate[x] = [st |-> "kicking", agent |-> a] THEN [gate[x] EXCEPT !.st = "out"]
                                                   ELSE gate[x]]
  /\ UNCHANGED << world, db, online, made >>

-----------------------------------------------------------------------------

LoadStep(a) == LoadGot(a) \/ Created(a) \/ Online(a)
CloseStep(a) == Offline(a) \/ Quit(a) \/ Saved(a)
SessionStep(a, c) == SessionRuns(a, c) \/ SessionEnds(a, c)

Next ==
  \/ \E x \in Account : Login(x) \/ Start(x) \/ Kick(x) \/ IdleLogout(x)
  \/ \E a \in Agent :
       LoadRole(a) \/ Request(a) \/ TimerSave(a) \/ Set(a)
         \/ ForceSave(a) \/ LoadStep(a) \/ CloseStep(a)
  \/ \E a \in Agent, c \in Coroutine : Session(a, c) \/ SessionStep(a, c)

Spec == Init /\ [][Next]_vars

(* Services answer and some coroutine of an agent is scheduled.  The timer    *)
(* serves its intervals in turn and the session lock its coroutines, hence SF. *)
FairSpec ==
  /\ Spec
  /\ \A a \in Agent :
       /\ WF_vars(LoadStep(a) \/ CloseStep(a)) /\ WF_vars(Set(a))
       /\ WF_vars(\E c \in Coroutine : SessionStep(a, c))
       /\ SF_vars(SessionRuns(a, "timer")) /\ SF_vars(TimerSave(a))

-----------------------------------------------------------------------------

TypeOK ==
  /\ world \in Worlds
  /\ gate \in [Account -> [st : {"out", "in", "kicking"}, agent : Agent \cup {None}]]
  /\ db \in [Account -> Row \cup {None}]
  /\ online \in [Account -> Agent \cup {None}]
  /\ made \in [Account -> Row]
  /\ \A a \in Agent :
       /\ ag[a].role # None => ag[a].role \in RoleOf
       /\ ag[a].runs \subseteq {c \in Coroutine : ag[a].session[c] # 0}
       /\ ag[a].load # "none" => ag[a].uid # None

ChangesSeen ==
  \A x \in Account :
    LET r == ag[gate[x].agent].role IN gate[x].st = "in" /\ r # None => r.td = made[x]
RowComplete ==
  \A x \in Account : gate[x].st = "out" /\ db[x] # None => db[x] = made[x]
Listed ==
  \A x \in Account :
    /\ gate[x].st = "in" /\ ag[gate[x].agent].role # None
         /\ ag[gate[x].agent].load = "none" => online[x] = gate[x].agent
    /\ gate[x].st = "out" => online[x] = None

(* role_api.lua:41-49, role.lua:101-120, cmd.lua:64-71: when a kick has been   *)
(* answered the row of the account has every change, those of the last       *)
(* sessions included, and nothing takes one out of it again; whoever works   *)
(* on the role next works on all the changes ever made to it.               *)
ChangesKept == world = {} => RowComplete /\ ChangesSeen

(* role.lua:93-94, 104-105: while a user plays, online_snax lists its agent, *)
(* and lists it no more after a kick.                                       *)
OnlineListed ==
  world \cap {"idle", "center", "early", "reuse"} = {} => Listed

(* cmd.lua:66-71, role.lua:112: a kick is always answered.                  *)
KickAnswered ==
  \A x \in Account : gate[x].st = "kicking" ~> gate[x].st = "out"

(* role_api.lua:17-19: a change reaches the row though its user plays on.    *)
EventuallySaved ==
  \A x \in Account, c \in Change :
    world = {} /\ c \in made[x] ~> db[x] # None /\ c \in db[x]

(* msgagent.lua:88-89 "unloads the player's data; the agent is not exited so *)
(* that it can be reused": an agent serves a client the role of its account. *)
ServesOwnRole ==
  \A x \in Account :
    LET r == ag[gate[x].agent] IN
      gate[x].st = "in" /\ r.client /\ r.role # None /\ r.load = "none" => r.role.account = x
=============================================================================
