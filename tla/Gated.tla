-------------------------------- MODULE Gated --------------------------------
(***************************************************************************)
(* One game node: the gate (service/gated.lua), its agents                 *)
(* (service/agent/msgagent.lua) and the login master's part in the          *)
(* conversation (login_server.lua accept, logind.lua login_handler).        *)
(*                                                                         *)
(* The gate, each agent and the login master are single threaded; their     *)
(* coroutines interleave where they yield: newservice and skynet.call.  A    *)
(* handler is therefore split at its yields.  An agent reads one mailbox in  *)
(* order: commands of the gate and answers to its own calls.  The commands   *)
(* run one after another under the queue cs; the worker's idle logout does   *)
(* not go through cs.                                                      *)
(***************************************************************************)
EXTENDS Integers, Sequences, SequencesExt

CONSTANTS
  Uid,         \* accounts
  Agent,       \* agent services that exist or can be spawned
  None,        \* Lua nil
  maxclient,   \* the node's setting of that name
  Reconnects,  \* whether clients come back on a new connection
  MaxId,       \* bound: logins start until so many internal_ids are drawn
  MaxWorkers,  \* bound: worker coroutines of one agent
  MaxInbox     \* bound: clients connect while fewer commands wait at the agent

ASSUME MaxAssumption == maxclient \in Nat /\ MaxId \in Nat
ASSUME BoundAssumption == MaxWorkers \in Nat /\ MaxInbox \in Nat
ASSUME ReconnectsAssumption == Reconnects \in BOOLEAN

VARIABLES
  \* login master
  online,      \* user_online[uid].subid of logind.lua, or None
  flow,        \* the login in progress for uid (user_login admits one)
  \* gate
  users,       \* uid -> u, or None
  username_map,\* set of the u filed under their usernames
  internal_id,
  agent_pool,  \* stack of free agents
  curr_agent,
  logouts,     \* logout_handler coroutines that yield in cluster.call
  notices,     \* logout notices on their way to the login master
  spawned,     \* agents created so far
  \* clients
  ticket,      \* subid the client of uid got with its last 200 answer
  conn,        \* uid's connection: "never" made, "up" or "down"
  \* agents
  ag

gvars == << users, username_map, internal_id, agent_pool, curr_agent, spawned >>
vars == << online, flow, users, username_map, internal_id, agent_pool,
           curr_agent, logouts, notices, spawned, ticket, conn, ag >>

max_agent == 2 * maxclient
Precreated == maxclient \div 10

\* A username is the pair of the uid and the internal_id drawn for it; u keeps
\* the subid read after the spawn as well.
U == [uid : Uid, name : Nat, subid : Nat, agent : Agent]

ASSUME NoneAssumption ==
  /\ None \notin Agent /\ None \notin Nat /\ None \notin U
  /\ None \notin [uid : Uid, subid : Nat]

Workers == 1 .. MaxWorkers

Idle == [st |-> "idle", id |-> 0, subid |-> 0, agent |-> None]

FreshAgent ==
  [sess    |-> None,    \* UID and SUB_ID (and gate) while logged in
   running |-> FALSE,
   afk     |-> FALSE,   \* afktime > 0
   client  |-> FALSE,   \* zinc_client was launched
   inbox   |-> << >>,
   outbox  |-> << >>,   \* logout calls on their way to the gate
   cs      |-> << >>,   \* commands waiting for the queue
   csst    |-> "idle",  \* CMD.logout in the queue: "gate" or "closing"
   worker  |-> [w \in Workers |-> "none"]]

Init ==
  /\ online = [uid \in Uid |-> None]
  /\ flow = [uid \in Uid |-> Idle]
  /\ users = [uid \in Uid |-> None]
  /\ username_map = {}
  /\ internal_id = 0
  /\ agent_pool \in [1 .. Precreated -> Agent]
  /\ \A i, j \in 1 .. Precreated : agent_pool[i] = agent_pool[j] => i = j
  /\ spawned = ToSet(agent_pool)
  /\ curr_agent = Precreated
  /\ logouts = {}
  /\ notices = << >>
  /\ ticket = [uid \in Uid |-> None]
  /\ conn = [uid \in Uid |-> "never"]
  /\ ag = [a \in Agent |-> FreshAgent]

-----------------------------------------------------------------------------
(* Messages to an agent.                                                    *)

Send(a, m) == ag' = [ag EXCEPT ![a].inbox = Append(@, m)]

LoginMsg(uid, id) == [t |-> "login", uid |-> uid, subid |-> id]
LogoutMsg(uid) == [t |-> "logout", uid |-> uid]
AuthMsg == [t |-> "auth"]
AfkMsg == [t |-> "afk"]
Answer(by, ok) == [t |-> "answer", by |-> by, ok |-> ok]

-----------------------------------------------------------------------------
(* Login master: accept() and login_handler.                                *)

(* accept() admits one login per uid; login_handler kicks the session it    *)
(* knows of, or logs in at once.                                            *)
LoginStart(uid) ==
  /\ flow[uid].st = "idle"
  /\ internal_id < MaxId
  /\ flow' = [flow EXCEPT ![uid] =
       IF online[uid] = None
         THEN [Idle EXCEPT !.st = "login"]
         ELSE [Idle EXCEPT !.st = "kick", !.subid = online[uid]]]
  /\ UNCHANGED << online, gvars, logouts, notices, ticket, conn, ag >>

\* mutated: the second look at user_online[uid] is dropped
MutAfterKick(uid) ==
  /\ flow[uid].st \in {"kicked", "kickfailed"}
  /\ flow' = [flow EXCEPT ![uid] = [Idle EXCEPT !.st = "login"]]
  /\ UNCHANGED << online, gvars, logouts, notices, ticket, conn, ag >>

(* login_handler after the kick: a failed kick clears user_online[uid]; if  *)
(* the user is still online the login is refused (403).                     *)
AfterKick(uid) ==
  /\ flow[uid].st \in {"kicked", "kickfailed"}
  /\ LET still == IF flow[uid].st = "kickfailed" THEN None ELSE online[uid]
     IN  /\ online' = [online EXCEPT ![uid] = still]
         /\ flow' = [flow EXCEPT ![uid] =
              IF still = None THEN [Idle EXCEPT !.st = "login"] ELSE Idle]
  /\ UNCHANGED << gvars, logouts, notices, ticket, conn, ag >>

(* login_handler after the gate's login: records the session, answers 200.  *)
LoginDone(uid) ==
  /\ flow[uid].st = "loggedin"
  /\ online' = [online EXCEPT ![uid] = flow[uid].subid]
  /\ ticket' = [ticket EXCEPT ![uid] = flow[uid].subid]
  /\ flow' = [flow EXCEPT ![uid] = Idle]
  /\ UNCHANGED << gvars, logouts, notices, conn, ag >>

-----------------------------------------------------------------------------
(* Gate: kick_handler and login_handler.                                    *)

\* uid is logged in under the username made of uid and subid
Names(uid, subid) == users[uid] # None /\ users[uid].name = subid

(* kick_handler up to its yield.  The subid may be stale: then the assert   *)
(* on the username fails and the caller's pcall sees an error.              *)
KickHandler(uid) ==
  /\ flow[uid].st = "kick"
  /\ LET u == users[uid] IN
       \/ /\ Names(uid, flow[uid].subid)
          /\ flow' = [flow EXCEPT ![uid].st = "kickwait"]
          /\ Send(u.agent, LogoutMsg(uid))
          /\ UNCHANGED notices
       \/ /\ u # None /\ ~Names(uid, flow[uid].subid)
          /\ flow' = [flow EXCEPT ![uid].st = "kickfailed"]
          /\ UNCHANGED << notices, ag >>
       \/ /\ u = None
          /\ flow' = [flow EXCEPT ![uid].st = "kicknotify"]
          /\ notices' = Append(notices, [uid |-> uid, for |-> "kick"])
          /\ UNCHANGED ag
  /\ UNCHANGED << online, gvars, logouts, ticket, conn >>

(* login_handler: already logged in, the call fails (403).                  *)
LoginAlready(uid) ==
  /\ users[uid] # None
  /\ flow' = [flow EXCEPT ![uid] = Idle]
  /\ UNCHANGED << gvars, ag >>

(* login_handler with a free agent, up to the yield in its login call.      *)
LoginPooled(uid) ==
  /\ users[uid] = None
  /\ agent_pool # << >>
  /\ internal_id' = internal_id + 1
  /\ agent_pool' = Front(agent_pool)
  /\ flow' = [flow EXCEPT ![uid] = [st |-> "calling", id |-> internal_id',
                                    subid |-> internal_id',
                                    agent |-> Last(agent_pool)]]
  /\ Send(Last(agent_pool), LoginMsg(uid, internal_id'))
  /\ UNCHANGED << users, username_map, curr_agent, spawned >>

(* login_handler without a free agent, up to the yield in newservice.       *)
LoginSpawn(uid) ==
  /\ users[uid] = None
  /\ agent_pool = << >>
  /\ curr_agent < max_agent
  /\ internal_id' = internal_id + 1
  /\ flow' = [flow EXCEPT ![uid] = [Idle EXCEPT !.st = "spawn", !.id = internal_id']]
  /\ UNCHANGED << users, username_map, agent_pool, curr_agent, spawned, ag >>

(* login_handler: too many agents, the call fails (403).                    *)
LoginTooMany(uid) ==
  /\ users[uid] = None
  /\ agent_pool = << >>
  /\ curr_agent >= max_agent
  /\ internal_id' = internal_id + 1
  /\ flow' = [flow EXCEPT ![uid] = Idle]
  /\ UNCHANGED << users, username_map, agent_pool, curr_agent, spawned, ag >>

LoginHandler(uid) ==
  /\ flow[uid].st = "login"
  /\ \/ LoginAlready(uid)
     \/ LoginPooled(uid)
     \/ LoginSpawn(uid)
     \/ LoginTooMany(uid)
  /\ UNCHANGED << online, logouts, notices, ticket, conn >>

\* mutated: another internal_id is drawn for the subid
MutSpawnDone(uid) ==
  /\ flow[uid].st = "spawn"
  /\ \E a \in Agent \ spawned :
       /\ spawned' = spawned \cup {a}
       /\ internal_id' = internal_id + 1
       /\ flow' = [flow EXCEPT ![uid].st = "calling", ![uid].subid = internal_id',
                               ![uid].agent = a]
       /\ Send(a, LoginMsg(uid, internal_id'))
  /\ curr_agent' = curr_agent + 1
  /\ UNCHANGED << online, users, username_map, agent_pool,
                  logouts, notices, ticket, conn >>

(* newservice returned: the subid is read now, the username was not.        *)
SpawnDone(uid) ==
  /\ flow[uid].st = "spawn"
  /\ \E a \in Agent \ spawned :
       /\ spawned' = spawned \cup {a}
       /\ flow' = [flow EXCEPT ![uid].st = "calling", ![uid].subid = internal_id,
                               ![uid].agent = a]
       /\ Send(a, LoginMsg(uid, internal_id))
  /\ curr_agent' = curr_agent + 1
  /\ UNCHANGED << online, users, username_map, internal_id, agent_pool,
                  logouts, notices, ticket, conn >>

(* The agent answered the login call: the tables are filled and             *)
(* internal_id, as it is by now, is returned.                               *)
LoginReturn(uid) ==
  /\ flow[uid].st = "called"
  /\ LET u == [uid |-> uid, name |-> flow[uid].id, subid |-> flow[uid].subid,
               agent |-> flow[uid].agent]
     IN  /\ users' = [users EXCEPT ![uid] = u]
         /\ username_map' = username_map \cup {u}
  /\ flow' = [flow EXCEPT ![uid] =
       [Idle EXCEPT !.st = "loggedin", !.subid = internal_id]]
  /\ conn' = [conn EXCEPT ![uid] = "never"]
  /\ UNCHANGED << online, internal_id, agent_pool, curr_agent, logouts, notices,
                  spawned, ticket, ag >>

-----------------------------------------------------------------------------
(* Gate: logout_handler for the call c of agent a, made by its CMD.logout   *)
(* (c.by = 0) or by one of its workers.  The gate reads the calls of one     *)
(* agent in the order in which they were made.                              *)

AnswerNow(a, c, ok) ==
  ag' = [ag EXCEPT ![a].outbox = Tail(@), ![a].inbox = Append(@, Answer(c.by, ok))]

\* mutated: a call for an unknown user is dropped instead of answered
MutLogoutRefused(a, c) ==
  /\ ~Names(c.uid, c.subid)
  /\ ag' = [ag EXCEPT ![a].outbox = Tail(@)]
  /\ UNCHANGED << users, username_map, conn, logouts, notices >>

(* Nobody is logged in under this uid: nothing to do.  Or the assert on the *)
(* username fails: the agent's call raises.                                 *)
LogoutRefused(a, c) ==
  /\ ~Names(c.uid, c.subid)
  /\ AnswerNow(a, c, users[c.uid] = None)
  /\ UNCHANGED << users, username_map, conn, logouts, notices >>

(* The user is taken out of the tables and its connection closed; the call  *)
(* then yields while it tells the login master.                             *)
LogoutForget(a, c) ==
  /\ Names(c.uid, c.subid)
  /\ users' = [users EXCEPT ![c.uid] = None]
  /\ username_map' = username_map \ {users[c.uid]}
  /\ conn' = [conn EXCEPT ![c.uid] = "down"]
  /\ LET l == [from |-> a, by |-> c.by, agent |-> users[c.uid].agent, st |-> "notify"]
     IN  /\ logouts' = logouts \cup {l}
         /\ notices' = Append(notices, [uid |-> c.uid, for |-> "logout", l |-> l])
  /\ ag' = [ag EXCEPT ![a].outbox = Tail(@)]

LogoutHandler(a) ==
  /\ ag[a].outbox # << >>
  /\ LET c == Head(ag[a].outbox)
     IN  LogoutRefused(a, c) \/ LogoutForget(a, c)
  /\ UNCHANGED << online, flow, internal_id, agent_pool, curr_agent, spawned, ticket >>

(* logind.lua CMD.logout, for a notice of logout_handler or of a            *)
(* kick_handler that found no user: it forgets the session of the uid,       *)
(* whatever its subid.  The callers' pcall hides a call that was lost.       *)
Notice ==
  /\ notices # << >>
  /\ notices' = Tail(notices)
  /\ LET n == Head(notices) IN
       /\ online' = [online EXCEPT ![n.uid] = None] \/ UNCHANGED online
       /\ \/ /\ n.for = "kick"
             /\ flow' = [flow EXCEPT ![n.uid].st = "kicked"]
             /\ UNCHANGED logouts
          \/ /\ n.for = "logout"
             /\ logouts' = (logouts \ {n.l}) \cup {[n.l EXCEPT !.st = "notified"]}
             /\ UNCHANGED flow
  /\ UNCHANGED << gvars, ticket, conn, ag >>

\* mutated: the agent is not given back
MutLogoutLeak(l) ==
  /\ l.st = "notified"
  /\ logouts' = logouts \ {l}
  /\ Send(l.from, Answer(l.by, TRUE))
  /\ UNCHANGED << online, flow, gvars, notices, ticket, conn >>

\* mutated: the agent is given back before the last yield of the handler
MutLogoutReturn(l) ==
  /\ l.st = "notified"
  /\ \/ /\ l.agent # None
        /\ agent_pool' = Append(agent_pool, l.agent)
        /\ logouts' = (logouts \ {l}) \cup {[l EXCEPT !.agent = None]}
        /\ UNCHANGED ag
     \/ /\ l.agent = None
        /\ logouts' = logouts \ {l}
        /\ Send(l.from, Answer(l.by, TRUE))
        /\ UNCHANGED agent_pool
  /\ UNCHANGED << online, flow, users, username_map, internal_id, curr_agent,
                  spawned, notices, ticket, conn >>

(* logout_handler after its yield: the agent may be reused, the caller is   *)
(* answered.                                                                *)
LogoutReturn(l) ==
  /\ l.st = "notified"
  /\ agent_pool' = Append(agent_pool, l.agent)
  /\ logouts' = logouts \ {l}
  /\ Send(l.from, Answer(l.by, TRUE))
  /\ UNCHANGED << online, flow, users, username_map, internal_id, curr_agent,
                  notices, spawned, ticket, conn >>

-----------------------------------------------------------------------------
(* Clients, through msg_server.lua.                                         *)

(* do_auth: the client names its session; auth_handler tells the agent that *)
(* users holds for the uid.                                                 *)
Auth(uid) ==
  /\ conn[uid] = "never" \/ (Reconnects /\ conn[uid] = "down")
  /\ \E u \in username_map : u.uid = uid /\ u.name = ticket[uid]
  /\ Len(ag[users[uid].agent].inbox) + Len(ag[users[uid].agent].cs) < MaxInbox
  /\ conn' = [conn EXCEPT ![uid] = "up"]
  /\ Send(users[uid].agent, AuthMsg)
  /\ UNCHANGED << online, flow, gvars, logouts, notices, ticket >>

(* handler.disconnect and disconnect_handler.                               *)
Disconnect(uid) ==
  /\ conn[uid] = "up"
  /\ conn' = [conn EXCEPT ![uid] = "down"]
  /\ \E u \in username_map :
       u.uid = uid /\ u.name = ticket[uid] /\ Send(u.agent, AfkMsg)
  /\ UNCHANGED << online, flow, gvars, logouts, notices, ticket >>

-----------------------------------------------------------------------------
(* Agents.                                                                  *)

\* A coroutine that was handed the queue runs before the next message.
Quiet(a) == ag[a].csst # "idle" \/ ag[a].cs = << >>

\* logout() up to its call of the gate.
CallGate(r, by) ==
  [r EXCEPT !.running = FALSE,
            !.outbox = Append(@, [by |-> by, uid |-> r.sess.uid, subid |-> r.sess.subid])]

(* logout() after the gate's answer: the session is forgotten and           *)
(* zinc_client killed, which raises if there is none and so skips cmd.close. *)
Forget(r) == [r EXCEPT !.sess = None, !.afk = FALSE, !.client = FALSE]

(* CMD.login                                                                *)
CmdLogin(a, r, m) ==
  /\ ag' = [ag EXCEPT ![a] =
       [r EXCEPT !.sess = [uid |-> m.uid, subid |-> m.subid], !.afk = FALSE]]
  /\ flow' = [flow EXCEPT ![m.uid].st = "called"]

\* mutated: the test on running is inverted
MutCmdAuth(a, r) ==
  /\ ag' = [ag EXCEPT ![a] = [r EXCEPT !.client = TRUE]]
  /\ UNCHANGED flow

(* CMD.auth: starts the worker unless one is thought to run.                *)
CmdAuth(a, r) ==
  /\ \/ /\ r.running
        /\ ag' = [ag EXCEPT ![a] = [r EXCEPT !.client = TRUE]]
     \/ /\ ~r.running
        /\ \E w \in Workers :
             /\ r.worker[w] = "none"
             /\ ag' = [ag EXCEPT ![a] = [r EXCEPT !.client = TRUE, !.running = TRUE,
                                                  !.worker[w] = "sleep"]]
  /\ UNCHANGED flow

(* CMD.afk                                                                  *)
CmdAfk(a, r) ==
  /\ ag' = [ag EXCEPT ![a] = [r EXCEPT !.afk = TRUE]]
  /\ UNCHANGED flow

(* CMD.logout up to its first yield: the call of the gate, or, if the agent *)
(* was logged out meanwhile, cmd.close; the kick is answered at its end.    *)
CmdLogout(a, r, m) ==
  IF r.sess # None
    THEN /\ ag' = [ag EXCEPT ![a] =
                [CallGate(r, 0) EXCEPT !.csst = "gate", !.cs = << m >> \o @]]
         /\ UNCHANGED flow
    ELSE /\ ag' = [ag EXCEPT ![a] = [Forget(r) EXCEPT !.running = FALSE,
                     !.csst = IF r.client THEN "closing" ELSE "idle",
                     !.cs = IF r.client THEN << m >> \o @ ELSE @]]
         /\ flow' = IF r.client THEN flow ELSE [flow EXCEPT ![m.uid].st = "kicked"]

Command(a, r, m) ==
  \/ m.t = "login" /\ CmdLogin(a, r, m)
  \/ m.t = "auth" /\ CmdAuth(a, r)
  \/ m.t = "afk" /\ CmdAfk(a, r)
  \/ m.t = "logout" /\ CmdLogout(a, r, m)

\* The agent's record without the head of its mailbox, or of its queue.
Taken(a) == [ag[a] EXCEPT !.inbox = Tail(@)]
Dequeued(a) == [ag[a] EXCEPT !.cs = Tail(@)]

(* A command arrives: it runs, or waits for the queue.                      *)
Receive(a) ==
  /\ ag[a].inbox # << >> /\ Head(ag[a].inbox).t # "answer"
  /\ Quiet(a)
  /\ \/ ag[a].csst = "idle" /\ Command(a, Taken(a), Head(ag[a].inbox))
     \/ /\ ag[a].csst # "idle"
        /\ ag' = [ag EXCEPT ![a] =
             [Taken(a) EXCEPT !.cs = Append(@, Head(ag[a].inbox))]]
        /\ UNCHANGED flow
  /\ UNCHANGED << online, gvars, logouts, notices, ticket, conn >>

(* The queue is handed to the next command.                                 *)
RunQueued(a) ==
  /\ ~Quiet(a)
  /\ Command(a, Dequeued(a), Head(ag[a].cs))
  /\ UNCHANGED << online, gvars, logouts, notices, ticket, conn >>

(* CMD.logout goes on after the gate's answer: an error ends it with the    *)
(* session as it was, otherwise it comes to skynet.kill and cmd.close.      *)
LogoutAnswered(a, r, ok) ==
  LET close == ok /\ r.client
      s == IF ok THEN Forget(r) ELSE r
  IN  /\ ag' = [ag EXCEPT ![a] =
           IF close THEN [s EXCEPT !.csst = "closing"]
                    ELSE [s EXCEPT !.csst = "idle", !.cs = Tail(@)]]
      /\ flow' = IF close THEN flow
                 ELSE [flow EXCEPT ![Head(r.cs).uid].st = "kicked"]

(* The same in a worker: it sleeps again after cmd.close, or died of the    *)
(* error.                                                                   *)
WorkerAnswered(a, r, w, ok) ==
  /\ ag' = [ag EXCEPT ![a] =
       [(IF ok THEN Forget(r) ELSE r) EXCEPT
          !.worker[w] = IF ok /\ r.client THEN "sleep" ELSE "none"]]
  /\ UNCHANGED flow

(* The gate's answer to a logout call arrives.                              *)
ReceiveAnswer(a) ==
  /\ ag[a].inbox # << >> /\ Head(ag[a].inbox).t = "answer"
  /\ Quiet(a)
  /\ LET m == Head(ag[a].inbox) IN
       \/ m.by = 0 /\ LogoutAnswered(a, Taken(a), m.ok)
       \/ m.by # 0 /\ WorkerAnswered(a, Taken(a), m.by, m.ok)
  /\ UNCHANGED << online, gvars, logouts, notices, ticket, conn >>

(* cmd.close of CMD.logout returned: the kick is answered.                  *)
CloseDone(a) ==
  /\ ag[a].csst = "closing"
  /\ ag' = [ag EXCEPT ![a] = [ag[a] EXCEPT !.csst = "idle", !.cs = Tail(@)]]
  /\ flow' = [flow EXCEPT ![Head(ag[a].cs).uid].st = "kicked"]
  /\ UNCHANGED << online, gvars, logouts, notices, ticket, conn >>

(* idle() in a worker, a minute after afk: logout() up to its first yield,  *)
(* or up to cmd.close if the agent was logged out meanwhile.                *)
WorkerIdle(a, w) ==
  /\ ag[a].worker[w] = "sleep"
  /\ ag[a].running /\ ag[a].afk
  /\ Quiet(a)
  /\ \/ /\ ag[a].sess # None
        /\ ag' = [ag EXCEPT ![a] = [CallGate(ag[a], w) EXCEPT !.worker[w] = "gate"]]
     \/ /\ ag[a].sess = None
        /\ ag' = [ag EXCEPT ![a] = [Forget(ag[a]) EXCEPT !.running = FALSE,
                     !.worker[w] = IF ag[a].client THEN "sleep" ELSE "none"]]
  /\ UNCHANGED << online, flow, gvars, logouts, notices, ticket, conn >>

(* The worker leaves its loop.                                              *)
WorkerExit(a, w) ==
  /\ ag[a].worker[w] = "sleep"
  /\ ~ag[a].running
  /\ ag' = [ag EXCEPT ![a].worker[w] = "none"]
  /\ UNCHANGED << online, flow, gvars, logouts, notices, ticket, conn >>

-----------------------------------------------------------------------------

MasterStep(uid) == AfterKick(uid) \/ LoginDone(uid)
GateStep(uid) ==
  KickHandler(uid) \/ LoginHandler(uid) \/ SpawnDone(uid)
    \/ LoginReturn(uid)
AgentStep(a) == Receive(a) \/ RunQueued(a) \/ ReceiveAnswer(a) \/ CloseDone(a)

Next ==
  \/ \E uid \in Uid : LoginStart(uid) \/ MasterStep(uid) \/ GateStep(uid)
                        \/ Auth(uid) \/ Disconnect(uid)
  \/ Notice
  \/ \E l \in logouts : LogoutReturn(l)
  \/ \E a \in Agent : LogoutHandler(a) \/ AgentStep(a)
  \/ \E a \in Agent, w \in Workers : WorkerIdle(a, w) \/ WorkerExit(a, w)

Spec == Init /\ [][Next]_vars

(* The services run and answer, and time passes for an idle worker; clients *)
(* do what they like.                                                       *)
Fairness ==
  /\ \A uid \in Uid : WF_vars(MasterStep(uid)) /\ WF_vars(GateStep(uid))
  /\ \A a \in Agent : WF_vars(AgentStep(a)) /\ WF_vars(LogoutHandler(a))
  /\ \A a \in Agent, w \in Workers : WF_vars(WorkerIdle(a, w) \/ WorkerExit(a, w))
  /\ \A a \in Agent, by \in Workers \cup {0} :
       WF_vars(\E l \in logouts : l.from = a /\ l.by = by /\ LogoutReturn(l))
  /\ WF_vars(Notice)

FairSpec == Spec /\ Fairness

-----------------------------------------------------------------------------

FlowSt == {"idle", "kick", "kickwait", "kicknotify", "kicked", "kickfailed",
           "login", "spawn", "calling", "called", "loggedin"}

TypeOK ==
  /\ online \in [Uid -> Nat \cup {None}]
  /\ flow \in [Uid -> [st : FlowSt, id : Nat, subid : Nat, agent : Agent \cup {None}]]
  /\ users \in [Uid -> U \cup {None}]
  /\ username_map \subseteq U
  /\ internal_id \in Nat
  /\ agent_pool \in Seq(Agent)
  /\ curr_agent \in Nat
  /\ spawned \subseteq Agent
  /\ \A l \in logouts :
       /\ l.from \in Agent /\ l.by \in Workers \cup {0}
       /\ l.agent \in Agent
       /\ l.st \in {"notify", "notified"}
  /\ ticket \in [Uid -> Nat \cup {None}]
  /\ conn \in [Uid -> {"never", "up", "down"}]

(* Everything that holds agent a: a place in the pool, a logged-in user, a  *)
(* login in progress, a logout that has not yet given it back.              *)
Holders(a) ==
  {<< "pool", i >> : i \in {j \in DOMAIN agent_pool : agent_pool[j] = a}}
    \cup {<< "user", uid >> :
            uid \in {v \in Uid : users[v] # None /\ users[v].agent = a}}
    \cup {<< "login", uid >> :
            uid \in {v \in Uid : flow[v].st \in {"calling", "called"} /\ flow[v].agent = a}}
    \cup {<< "logout", l >> :
            l \in {k \in logouts : k.agent = a}}

(* gated.lua: no agent is lost and none is given out twice.  Every agent    *)
(* ever created is in exactly one place, through all yields of login and     *)
(* logout and whoever calls logout twice.                                   *)
AgentConserved ==
  \A a \in Agent :
    IF a \in spawned THEN \E h \in Holders(a) : Holders(a) = {h}
                     ELSE Holders(a) = {}

(* gated.lua:78-79, 95-99 with msgagent.lua:110-112, 77-79: the agent filed  *)
(* for a user serves that very session; no late logout of the agent's        *)
(* previous user takes it away.                                             *)
SessionBinding ==
  /\ \A uid \in Uid : users[uid] # None =>
       ag[users[uid].agent].sess = [uid |-> uid, subid |-> users[uid].subid]
  /\ username_map = {users[uid] : uid \in {v \in Uid : users[v] # None}}

(* gated.lua:93, 110: the asserts on the username hold, whichever way logins,*)
(* kicks, idle logouts and lost notices of one account interleave.          *)
UsernameAsserts ==
  /\ \A uid \in Uid : flow[uid].st # "kickfailed"
  /\ \A a \in Agent : \A i \in DOMAIN ag[a].inbox :
       ag[a].inbox[i].t = "answer" => ag[a].inbox[i].ok

(* logind.lua:99, 109 with gated.lua:98, 115: between logins the login      *)
(* master knows the session of every user logged in at the gate under the    *)
(* name the gate uses, so that the next login can kick it.                   *)
KickCanFind ==
  \A uid \in Uid : users[uid] # None /\ flow[uid].st = "idle" =>
    online[uid] = users[uid].name

(* login_server.lua:155-166: every login is answered, whatever it has to    *)
(* kick, wait for or spawn.                                                 *)
LoginAnswered == \A uid \in Uid : flow[uid].st # "idle" ~> flow[uid].st = "idle"

(* msgagent.lua:96 "one minute after the connection broke the player is      *)
(* forced out": a user that stays disconnected leaves the gate's tables.    *)
AfkReleases ==
  \A uid \in Uid : users[uid] # None /\ conn[uid] = "down" ~>
                     users[uid] = None \/ conn[uid] = "up"

(* gated.lua:83 "you should return unique subid".                           *)
UniqueSubid ==
  \A u, v \in Uid : u # v /\ ticket[u] # None => ticket[u] # ticket[v]

(* gated.lua:58-63: a node never runs more than max_agent agents.           *)
AgentLimit == curr_agent <= max_agent

(* msgagent.lua:96: only a player whose connection is broken is forced out  *)
(* for idleness.                                                            *)
OnlyAfkForcedOut ==
  [][\A a \in Agent, w \in Workers :
       ag[a].worker[w] = "sleep" /\ ag'[a].worker[w] = "gate" =>
         conn[ag[a].sess.uid] # "up"]_vars
==============================================================================
