-------------------------------- MODULE Chat --------------------------------
(***************************************************************************)
(* Chat: service/chat_speaker.lua of the center node, service/               *)
(* chat_listener.lua of every node, and what agents tell them                *)
(* (service/lualib/chat_cli.lua, agent/apis/chat_api.lua).                   *)
(*                                                                         *)
(* A listener registers again whenever its connector goes through its        *)
(* connected_cb (module Monitor has the connector).  A message is its number  *)
(* in the order in which the speaker got it.  Whom a node sends it on to       *)
(* depends on who is subscribed there; subscriptions are followed in other    *)
(* behaviours than messages are, as the two meet only in sending to clients.  *)
(* The life of an agent is that of module Role, without the role's data.      *)
(*                                                                         *)
(* In a behaviour happens, besides logins, loads and kicks, what its world     *)
(* has:                                                                    *)
(*   "reuse"      an agent serves again after a logout                      *)
(*   "reconnect"  a client comes back on a new connection                   *)
(*   "idle"       an agent logs a user out by itself                        *)
(*   "early"      a user is kicked while its role loads                     *)
(*   "center"     online_snax cannot be reached                             *)
(***************************************************************************)
EXTENDS Naturals, FiniteSets, FiniteSetsExt, Sequences, SequencesExt

CONSTANTS
  Node,              \* game nodes
  Uuid,              \* roles
  Agent,
  Home,              \* agent -> its node
  Channel,           \* CHAT_CHANNEL_KEYS
  World,             \* the channel of them that is broadcast once a second
  None,              \* Lua nil
  chat_max_buffer,   \* 256 in the code
  Budgets            \* bounds: what happens in a behaviour, one of these

\* What is assumed of them.
Constants ==
  /\ Home \in [Agent -> Node] /\ World \in Channel
  /\ None \notin Agent \cup Uuid \cup [agent : Agent, zinc_client : Nat]
  /\ chat_max_buffer \in Nat \ {0}
  /\ \A b \in Budgets :
       b \in [chat : Nat, login : Nat, crash : Nat,
              world : SUBSET {"reuse", "reconnect", "idle", "early", "center"}]

VARIABLES
  budget,
  up,          \* nodes whose listener runs
  \* speaker
  chat_cache,  \* channel -> messages since the last dispatch
  listeners,
  calls,       \* node -> dispatch calls on their way: [channel, buffer]
  \* listeners
  world_cache, \* node -> chat_cache[CHAT_TYPE_WORLD]
  players,     \* node -> uuid -> who subscribed it: agent and zinc_client, or None
  inbox,       \* node -> subscribe and unsubscribe messages, in order
  \* agents
  gate,        \* uuid -> its session as the gates see it, and the last agent of it
  ag,          \* agent -> its state
  \* history: messages per channel in order; those that a node was not told,
  \* or forgot in a crash; those a listener is done with
  spoken, missed, handled

speaker == << chat_cache, listeners, calls >>
listener == << world_cache, players, inbox >>
agents == << gate, ag >>
history == << spoken, missed, handled >>
vars == << budget, up, speaker, listener, agents, history >>

Nobody == [u \in Uuid |-> None]
NoMessages == [ch \in Channel |-> << >>]

FreshAgent ==
  [used   |-> FALSE,
   uid    |-> None,      \* env.uid
   client |-> FALSE,     \* a zinc_client forwards requests
   conn   |-> 0,         \* env.zinc_client: the last of that many, alive or not
   role   |-> None,      \* env.role
   load   |-> "none",    \* load_role: "get", "online"
   for    |-> None,      \* env.account
   closed |-> FALSE,     \* alread_close
   close  |-> "none"]    \* cmd.close: "offline", "quit", "save", "done"

Init ==
  /\ budget \in Budgets
  /\ up = Node
  /\ chat_cache = NoMessages /\ listeners = {} /\ calls = [n \in Node |-> << >>]
  /\ world_cache = [n \in Node |-> << >>]
  /\ players = [n \in Node |-> Nobody]
  /\ inbox = [n \in Node |-> << >>]
  /\ gate = [u \in Uuid |-> [st |-> "out", agent |-> None]]
  /\ ag = [a \in Agent |-> FreshAgent]
  /\ spoken = NoMessages
  /\ missed = [n \in Node |-> {}]
  /\ handled = [n \in Node |-> NoMessages]

-----------------------------------------------------------------------------
(* Speaker.                                                                *)

\* connected_speaker_cb of a listener
register_listener(n) ==
  /\ n \in up
  /\ listeners' = listeners \cup {n}
  /\ UNCHANGED << budget, up, chat_cache, calls, listener, agents, history >>

\* Messages of all channels together are numbered.
Count == Max({0} \cup UNION {ToSet(spoken[ch]) : ch \in Channel})

(* Cmd.world, private and system.                                           *)
new_chat(ch) ==
  /\ Count < budget.chat
  /\ chat_cache' = [chat_cache EXCEPT ![ch] = Append(@, Count + 1)]
  /\ spoken' = [spoken EXCEPT ![ch] = Append(@, Count + 1)]
  /\ UNCHANGED << budget, up, listeners, calls, listener, agents, missed, handled >>

\* mutated: a last buffer that is not full is forgotten
MutBuffers(cache) ==
  [k \in 1 .. Len(cache) \div chat_max_buffer |->
     SubSeq(cache, (k - 1) * chat_max_buffer + 1, k * chat_max_buffer)]

\* The cache in buffers of at most chat_max_buffer messages.
Buffers(cache) ==
  [k \in 1 .. (Len(cache) + chat_max_buffer - 1) \div chat_max_buffer |->
     SubSeq(cache, (k - 1) * chat_max_buffer + 1, Min({k * chat_max_buffer, Len(cache)}))]

(* repeater.dispatch and its forks: every listener gets the buffers; a call   *)
(* of a node that does not run fails.                                       *)
dispatch(ch) ==
  /\ chat_cache[ch] # << >>
  /\ LET bufs == Buffers(chat_cache[ch])
         told == listeners \cap up
     IN  /\ calls' = [n \in Node |-> IF n \in told
               THEN calls[n] \o [i \in DOMAIN bufs |-> [channel |-> ch, buffer |-> bufs[i]]]
               ELSE calls[n]]
         /\ missed' = [n \in Node |-> IF n \in told THEN missed[n]
                                      ELSE missed[n] \cup ToSet(chat_cache[ch])]
  /\ chat_cache' = [chat_cache EXCEPT ![ch] = << >>]
  /\ UNCHANGED << budget, up, listeners, listener, agents, spoken, handled >>

-----------------------------------------------------------------------------
(* Listeners.                                                              *)

(* Cmd.dispatch: world messages are kept for the broadcast, others are sent  *)
(* to players at once.                                                     *)
Dispatched(n) ==
  /\ n \in up /\ calls[n] # << >>
  /\ LET c == Head(calls[n]) IN
       IF c.channel = World
         THEN /\ world_cache' = [world_cache EXCEPT ![n] = @ \o c.buffer]
              /\ UNCHANGED handled
         ELSE /\ handled' = [handled EXCEPT ![n][c.channel] = @ \o c.buffer]
              /\ UNCHANGED world_cache
  /\ calls' = [calls EXCEPT ![n] = Tail(@)]
  /\ UNCHANGED << budget, up, chat_cache, listeners, players, inbox, agents, spoken, missed >>

(* update_world_chat: the last GLOBAL_CHAT_BROADCAST_MAX_NUM messages are     *)
(* sent to all players, the ones before them are cut.                       *)
update_world_chat(n) ==
  /\ n \in up /\ world_cache[n] # << >>
  /\ handled' = [handled EXCEPT ![n][World] = @ \o world_cache[n]]
  /\ world_cache' = [world_cache EXCEPT ![n] = << >>]
  /\ UNCHANGED << budget, up, speaker, players, inbox, agents, spoken, missed >>

\* mutated: the entry stays
MutSubscription(p, m) == IF m.t = "subscribe" THEN [p EXCEPT ![m.uuid] = m.player] ELSE p

\* Cmd.subscribe, Cmd.unsubscribe
Subscription(p, m) == [p EXCEPT ![m.uuid] = IF m.t = "subscribe" THEN m.player ELSE None]

Subscribed(n) ==
  /\ n \in up /\ inbox[n] # << >>
  /\ players' = [players EXCEPT ![n] = Subscription(@, Head(inbox[n]))]
  /\ inbox' = [inbox EXCEPT ![n] = Tail(@)]
  /\ UNCHANGED << budget, up, speaker, world_cache, agents, history >>

-----------------------------------------------------------------------------
(* Agents.                                                                 *)

\* CMD.login: a session starts on a free agent.
Login(u, a) ==
  /\ budget.login > 0 /\ Home[a] \in up
  /\ gate[u].st = "out"
  /\ \A v \in Uuid : gate[v] # [st |-> "in", agent |-> a]
  /\ ~ag[a].used \/ "reuse" \in budget.world
  /\ budget' = [budget EXCEPT !.login = @ - 1]
  /\ gate' = [gate EXCEPT ![u] = [st |-> "in", agent |-> a]]
  /\ ag' = [ag EXCEPT ![a].used = TRUE]
  /\ UNCHANGED << up, speaker, listener, history >>

(* CMD.auth and cmd.start, with a new zinc_client; also when the client of    *)
(* the session reconnects, which counts as a login.                          *)
Start(u) ==
  /\ gate[u].st = "in"
  /\ LET a == gate[u].agent IN
       /\ IF ag[a].client
            THEN /\ "reconnect" \in budget.world /\ budget.login > 0
                 /\ budget' = [budget EXCEPT !.login = @ - 1]
            ELSE UNCHANGED budget
       /\ ag' = [ag EXCEPT ![a] =
            [ag[a] EXCEPT !.uid = u, !.client = TRUE, !.conn = ag[a].conn + 1]]
  /\ UNCHANGED << up, speaker, listener, gate, history >>

(* load_role up to gamedb's get; with a role it answers at once.            *)
LoadRole(a) ==
  /\ ag[a].load = "none" /\ ag[a].uid # None /\ ag[a].role = None
  /\ ag[a].client \/ "early" \in budget.world
  /\ ag' = [ag EXCEPT ![a] = [ag[a] EXCEPT !.load = "get", !.for = ag[a].uid]]
  /\ UNCHANGED << budget, up, speaker, listener, gate, history >>

(* The row arrived or was made; role:online up to its call.                  *)
LoadGot(a) ==
  /\ ag[a].load = "get"
  /\ ag' = [ag EXCEPT ![a] = [ag[a] EXCEPT !.load = "online", !.role = ag[a].for]]
  /\ UNCHANGED << budget, up, speaker, listener, gate, history >>

\* chat_cli.subscribe and unsubscribe, for the role of an agent
Tell(a, t) ==
  inbox' = [inbox EXCEPT ![Home[a]] = Append(@,
    [t |-> t, uuid |-> ag[a].role, player |-> [agent |-> a, zinc_client |-> ag[a].conn]])]

(* online_snax answers, and EVT_ONLINE subscribes the role; if it cannot be   *)
(* reached, load_role raises.                                               *)
Online(a) ==
  /\ ag[a].load = "online"
  /\ \/ Tell(a, "subscribe")
     \/ "center" \in budget.world /\ UNCHANGED inbox
  /\ ag' = [ag EXCEPT ![a].load = "none"]
  /\ UNCHANGED << budget, up, speaker, world_cache, players, gate, history >>

(* cmd.close up to its first yield: nothing if it ran before, nothing to do   *)
(* without a role.                                                         *)
Closing(r) ==
  IF r.closed THEN [r EXCEPT !.client = FALSE]
  ELSE [r EXCEPT !.client = FALSE, !.closed = TRUE,
                 !.close = IF r.role = None THEN "done" ELSE "offline"]

(* kick_handler and CMD.logout: the kick is answered when cmd.close returned.  *)
(* Without a zinc_client the logout raises before it.                        *)
Kick(u) ==
  /\ gate[u].st = "in"
  /\ LET a == gate[u].agent
         r == ag[a]
         waits == r.client /\ ~r.closed /\ r.role # None
     IN  /\ r.load = "none" \/ "early" \in budget.world
         /\ gate' = [gate EXCEPT ![u].st = IF waits THEN "kicking" ELSE "out"]
         /\ ag' = [ag EXCEPT ![a] = IF r.client THEN Closing(r) ELSE r]
  /\ UNCHANGED << budget, up, speaker, listener, history >>

(* idle() in the agent's worker: the gate forgets the session, and then the  *)
(* agent closes, with nobody waiting for it.                                *)
IdleLogout(u) ==
  /\ "idle" \in budget.world
  /\ gate[u].st = "in"
  /\ LET a == gate[u].agent IN
       /\ ag[a].client /\ ag[a].load = "none"
       /\ ag' = [ag EXCEPT ![a] = Closing(ag[a])]
  /\ gate' = [gate EXCEPT ![u].st = "out"]
  /\ UNCHANGED << budget, up, speaker, listener, history >>

(* role:offline in cmd.close: online_snax forgets the user and lock_quit      *)
(* begins.  If the center cannot be reached the role is just saved.          *)
Offline(a) ==
  /\ ag[a].close = "offline"
  /\ \E c \in {"quit"} \cup (IF "center" \in budget.world THEN {"save"} ELSE {}) :
       ag' = [ag EXCEPT ![a].close = c]
  /\ UNCHANGED << budget, up, speaker, listener, gate, history >>

(* lock_quit returns, EVT_OFFLINE unsubscribes the role, and it is saved.     *)
Quit(a) ==
  /\ ag[a].close = "quit"
  /\ Tell(a, "unsubscribe")
  /\ ag' = [ag EXCEPT ![a].close = "save"]
  /\ UNCHANGED << budget, up, speaker, world_cache, players, gate, history >>

(* The row is stored and cmd.close returns; a kick is answered.             *)
Saved(a) ==
  /\ ag[a].close = "save"
  /\ ag' = [ag EXCEPT ![a].close = "done"]
  /\ gate' = [u \in Uuid |->
       IF gate[u] = [st |-> "kicking", agent |-> a] THEN [gate[u] EXCEPT !.st = "out"]
                                                   ELSE gate[u]]
  /\ UNCHANGED << budget, up, speaker, listener, history >>

-----------------------------------------------------------------------------

(* A node crashes with its listener and its agents.                         *)
Crash(n) ==
  /\ budget.crash > 0 /\ n \in up
  /\ budget' = [budget EXCEPT !.crash = @ - 1]
  /\ up' = up \ {n}
  /\ missed' = [missed EXCEPT ![n] = @ \cup ToSet(world_cache[n])
                  \cup UNION {ToSet(c.buffer) : c \in ToSet(calls[n])}]
  /\ calls' = [calls EXCEPT ![n] = << >>]
  /\ world_cache' = [world_cache EXCEPT ![n] = << >>]
  /\ players' = [players EXCEPT ![n] = Nobody]
  /\ inbox' = [inbox EXCEPT ![n] = << >>]
  /\ gate' = [u \in Uuid |->
       IF gate[u].st # "out" /\ Home[gate[u].agent] = n THEN [gate[u] EXCEPT !.st = "out"]
                                                        ELSE gate[u]]
  /\ ag' = [a \in Agent |-> IF Home[a] = n THEN FreshAgent ELSE ag[a]]
  /\ UNCHANGED << chat_cache, listeners, spoken, handled >>

Restart(n) ==
  /\ n \notin up
  /\ up' = up \cup {n}
  /\ UNCHANGED << budget, speaker, listener, agents, history >>

(* The speaker crashes and starts again: what it had not sent is lost, and    *)
(* it knows no listeners.                                                  *)
SpeakerCrash ==
  /\ budget.crash > 0
  /\ budget' = [budget EXCEPT !.crash = @ - 1]
  /\ chat_cache' = NoMessages
  /\ listeners' = {}
  /\ missed' = [n \in Node |->
       missed[n] \cup UNION {ToSet(chat_cache[ch]) : ch \in Channel}]
  /\ UNCHANGED << up, calls, listener, agents, spoken, handled >>

Next ==
  \/ \E ch \in Channel : new_chat(ch) \/ dispatch(ch)
  \/ \E n \in Node :
       \/ register_listener(n) \/ Dispatched(n) \/ update_world_chat(n) \/ Subscribed(n)
       \/ Crash(n) \/ Restart(n)
  \/ \E u \in Uuid : Start(u) \/ Kick(u) \/ IdleLogout(u) \/ \E a \in Agent : Login(u, a)
  \/ \E a \in Agent :
       LoadRole(a) \/ LoadGot(a) \/ Online(a) \/ Offline(a) \/ Quit(a) \/ Saved(a)
  \/ SpeakerCrash

Spec == Init /\ [][Next]_vars

-----------------------------------------------------------------------------

\* What node n has got and is to get in channel ch, from the first part on.
Parts(n, ch) ==
  << handled[n][ch], IF ch = World THEN world_cache[n] ELSE << >> >>
    \o [i \in DOMAIN calls[n] |->
          IF calls[n][i].channel = ch THEN calls[n][i].buffer ELSE << >>]
    \o << chat_cache[ch] >>

\* A listener is told of each message once and in order, chunk after chunk and
\* broadcast after broadcast: the numbers grow, in each part and from each to
\* the next.  It misses only what was sent while it was not registered or what
\* a crash took.
InOrder ==
  \A n \in Node, ch \in Channel :
    LET p == Parts(n, ch) IN
      /\ \A k \in DOMAIN p : \A i, j \in DOMAIN p[k] : i < j => p[k][i] < p[k][j]
      /\ \A k, l \in DOMAIN p : k < l => \A x \in ToSet(p[k]), y \in ToSet(p[l]) : x < y
      /\ UNION {ToSet(p[k]) : k \in DOMAIN p} = ToSet(spoken[ch]) \ missed[n]

\* An agent of the node is between online_snax and the listener.
Settling(n) ==
  \E a \in Agent : Home[a] = n /\ (ag[a].load = "online" \/ ag[a].close \in {"offline", "quit"})

\* The player of a role that is loaded in the agent that serves it.
Present(n, u) ==
  LET a == gate[u].agent IN
    IF gate[u].st = "in" /\ Home[a] = n /\ ag[a].role = u
      THEN [agent |-> a, zinc_client |-> ag[a].conn] ELSE None

\* The players of a listener when all that was sent to it has arrived.
Subscriptions ==
  \A n \in up : inbox[n] = << >> /\ ~Settling(n) =>
    players[n] = [u \in Uuid |-> Present(n, u)]

(* chat_speaker.lua:40-62, chat_listener.lua:51-102, chat_api.lua:121-130:     *)
(* through crashes of nodes and of the speaker, messages reach the listeners  *)
(* once and in order, and the players that a listener sends them to are those *)
(* whose roles are loaded on its node, each by its own connection, though      *)
(* another agent served them a moment before.                               *)
Delivered == InOrder /\ (budget.world = {} => Subscriptions)
=============================================================================
