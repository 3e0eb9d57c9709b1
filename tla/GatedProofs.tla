----------------------------- MODULE GatedProofs -----------------------------
(***************************************************************************)
(* Proofs about module Gated, for any accounts, agents, settings and bounds:  *)
(* no agent is lost and none given out twice; while the logins of the node    *)
(* do not overlap, agents serve the sessions they are filed for and the login *)
(* master knows the gate's users.                                           *)
(***************************************************************************)
EXTENDS Gated, SequenceTheorems, TLAPS

Out == [from : Agent, by : Workers \cup {0}, agent : Agent, st : {"notify", "notified"}]
Call == [by : Workers \cup {0}, uid : Uid, subid : Nat]
Msg == [t : {"login"}, uid : Uid, subid : Nat] \cup [t : {"logout"}, uid : Uid]
         \cup [t : {"auth", "afk"}] \cup [t : {"answer"}, by : Workers \cup {0}, ok : BOOLEAN]
Told == [uid : Uid, for : {"kick"}] \cup [uid : Uid, for : {"logout"}, l : Out]
AgentState ==
  [sess : [uid : Uid, subid : Nat] \cup {None}, running : BOOLEAN, afk : BOOLEAN,
   client : BOOLEAN, inbox : Seq(Msg), outbox : Seq(Call), cs : Seq(Msg),
   csst : {"idle", "gate", "closing"}, worker : [Workers -> {"none", "sleep", "gate"}]]

Typed ==
  /\ flow \in [Uid -> [st : FlowSt, id : Nat, subid : Nat, agent : Agent \cup {None}]]
  /\ users \in [Uid -> U \cup {None}] /\ username_map \subseteq U
  /\ internal_id \in Nat /\ agent_pool \in Seq(Agent) /\ spawned \subseteq Agent
  /\ online \in [Uid -> Nat \cup {None}]
  /\ logouts \subseteq Out /\ notices \in Seq(Told) /\ ag \in [Agent -> AgentState]

-----------------------------------------------------------------------------
(* What is on its way, in a queue s: messages of a set X.                   *)

Has(s, X) == \E i \in DOMAIN s : s[i] \in X
Once(s, X) == \A i, j \in DOMAIN s : s[i] \in X /\ s[j] \in X => i = j

LoginOf(uid) == {m \in Msg : m.t = "login" /\ m.uid = uid}
LogoutOf(uid) == {m \in Msg : m.t = "logout" /\ m.uid = uid}
Answer0 == {m \in Msg : m.t = "answer" /\ m.by = 0}
Call0 == {c \in Call : c.by = 0}
KickNote(uid) == {m \in Told : m.for = "kick" /\ m.uid = uid}
LogoutNote(l) == {m \in Told : m.for = "logout" /\ m.l = l}

\* Agent state r has a command of X, and no second one.
At(r, X) == Has(r.inbox, X) \/ Has(r.cs, X)
Alone(r, X) == Once(r.inbox, X) /\ Once(r.cs, X) /\ ~(Has(r.inbox, X) /\ Has(r.cs, X))

(* One command of X at most is on its way, and only while uid's login waits  *)
(* for it in state st.                                                      *)
Carried(X, uid, st) ==
  /\ \A a \in Agent : Alone(ag[a], X) /\ (At(ag[a], X) => flow[uid].st = st)
  /\ \A a, b \in Agent : At(ag[a], X) /\ At(ag[b], X) => a = b

(* What moves a login is a message that it waits for.                       *)
Awaited ==
  \A uid \in Uid : /\ Carried(LoginOf(uid), uid, "calling")
                   /\ Carried(LogoutOf(uid), uid, "kickwait")
                   /\ Once(notices, KickNote(uid))
                   /\ Has(notices, KickNote(uid)) => flow[uid].st = "kicknotify"

\* A logout_handler answers the CMD.logout of agent a.
Asked(a) == \E l \in logouts : l.from = a /\ l.by = 0

(* CMD.logout in the queue of an agent waits for the one answer there is.    *)
QueueFor(a) ==
  /\ Once(ag[a].inbox, Answer0) /\ Once(ag[a].outbox, Call0)
  /\ Has(ag[a].inbox, Answer0) \/ Has(ag[a].outbox, Call0) \/ Asked(a) => ag[a].csst = "gate"
  /\ ~(Has(ag[a].inbox, Answer0) /\ Has(ag[a].outbox, Call0))
  /\ ~(Has(ag[a].inbox, Answer0) /\ Asked(a)) /\ ~(Has(ag[a].outbox, Call0) /\ Asked(a))
  /\ ag[a].csst # "idle" => ag[a].cs # << >> /\ Head(ag[a].cs).t = "logout"

AskedOnce == \A k, l \in logouts : k.from = l.from /\ k.by = 0 /\ l.by = 0 => k = l

QueueOK == AskedOnce /\ \A a \in Agent : QueueFor(a)

(* A logout call of the gate is about a logout_handler that waits for it.    *)
NotedOnce ==
  \A l \in Out : /\ Once(notices, LogoutNote(l))
                 /\ Has(notices, LogoutNote(l)) => l \in logouts /\ l.st = "notify"

InPool(a) == Has(agent_pool, {a})
Serves(a) == \E uid \in Uid : users[uid] # None /\ users[uid].agent = a
Calls(uid) == flow[uid].st \in {"calling", "called"}
LogsIn(a) == \E uid \in Uid : Calls(uid) /\ flow[uid].agent = a
LogsOut(a) == \E l \in logouts : l.agent = a

(* AgentConserved, place by place; and the user that a login is to file is   *)
(* not there yet.                                                           *)
Conserved ==
  /\ \A a \in Agent : Once(agent_pool, {a})
  /\ \A u, v \in Uid : users[u] # None /\ users[v] # None /\ users[u].agent = users[v].agent => u = v
  /\ \A u, v \in Uid : Calls(u) /\ Calls(v) /\ flow[u].agent = flow[v].agent => u = v
  /\ \A k, l \in logouts : k.agent = l.agent => k = l
  /\ \A a \in Agent :
       /\ a \in spawned <=> InPool(a) \/ Serves(a) \/ LogsIn(a) \/ LogsOut(a)
       /\ ~(InPool(a) /\ (Serves(a) \/ LogsIn(a) \/ LogsOut(a)))
       /\ ~(Serves(a) /\ (LogsIn(a) \/ LogsOut(a))) /\ ~(LogsIn(a) /\ LogsOut(a))
  /\ \A uid \in Uid : flow[uid].st \in {"spawn", "calling", "called"} => users[uid] = None
  /\ \A uid \in Uid : Calls(uid) => flow[uid].agent # None

IInv == Typed /\ Awaited /\ QueueOK /\ NotedOnce /\ Conserved

-----------------------------------------------------------------------------
(* What the operations on queues do to the messages in them.                *)

LEMMA SeqAppend ==
  ASSUME NEW S, NEW s \in Seq(S), NEW m \in S
  PROVE  /\ Append(s, m) \in Seq(S) /\ Append(s, m) # << >>
         /\ s # << >> => Head(Append(s, m)) = Head(s)
         /\ \A X : Has(Append(s, m), X) <=> Has(s, X) \/ m \in X
         /\ \A X : Once(s, X) /\ ~(Has(s, X) /\ m \in X) => Once(Append(s, m), X)
<1> DEFINE t == Append(s, m)
<1>1. /\ Len(s) \in Nat /\ DOMAIN s = 1 .. Len(s)
      /\ t \in Seq(S) /\ t # << >> /\ DOMAIN t = 1 .. Len(s) + 1
      /\ \A i \in 1 .. Len(s) : t[i] = s[i]
      /\ t[Len(s) + 1] = m
  OBVIOUS
<1>2. s # << >> => Head(t) = Head(s)
  OBVIOUS
<1> HIDE DEF t
<1>3. ASSUME NEW X PROVE Has(t, X) <=> Has(s, X) \/ m \in X
  <2>1. \A i \in DOMAIN t : i \in DOMAIN s \/ i = Len(s) + 1
    BY <1>1
  <2>2. \A i \in DOMAIN s : i \in DOMAIN t
    BY <1>1
  <2>3. Len(s) + 1 \in DOMAIN t
    BY <1>1
  <2> QED
    BY <1>1, <2>1, <2>2, <2>3 DEF Has
<1>4. ASSUME NEW X, Once(s, X), ~(Has(s, X) /\ m \in X) PROVE Once(t, X)
  <2>1. \A i \in DOMAIN t : i \in DOMAIN s \/ i = Len(s) + 1
    BY <1>1
  <2> QED
    BY <1>1, <1>4, <2>1 DEF Has, Once
<1> QED
  BY <1>1, <1>2, <1>3, <1>4 DEF t

LEMMA SeqTail ==
  ASSUME NEW S, NEW s \in Seq(S), s # << >>
  PROVE  /\ Tail(s) \in Seq(S) /\ Head(s) \in S
         /\ \A X : Has(s, X) <=> Head(s) \in X \/ Has(Tail(s), X)
         /\ \A X : Once(s, X) => Once(Tail(s), X) /\ ~(Head(s) \in X /\ Has(Tail(s), X))
<1> DEFINE t == Tail(s)
<1>1. /\ Len(s) \in Nat /\ DOMAIN s = 1 .. Len(s) /\ 1 \in DOMAIN s
      /\ t \in Seq(S) /\ DOMAIN t = 1 .. Len(s) - 1
      /\ \A i \in 1 .. Len(s) - 1 : t[i] = s[i + 1]
      /\ Head(s) = s[1] /\ Head(s) \in S
  OBVIOUS
<1> HIDE DEF t
<1>2. \A i \in DOMAIN t : i + 1 \in DOMAIN s /\ i + 1 # 1 /\ t[i] = s[i + 1] /\ i \in Int
  BY <1>1
<1>3. \A i \in DOMAIN s : i = 1 \/ (i - 1 \in DOMAIN t /\ t[i - 1] = s[i])
  BY <1>1
<1>4. ASSUME NEW X PROVE Has(s, X) <=> Head(s) \in X \/ Has(t, X)
  BY <1>1, <1>2, <1>3 DEF Has
<1>5. ASSUME NEW X, Once(s, X) PROVE Once(t, X) /\ ~(Head(s) \in X /\ Has(t, X))
  <2>1. ASSUME NEW i \in DOMAIN t, NEW j \in DOMAIN t, t[i] \in X, t[j] \in X PROVE i = j
    <3>1. i + 1 = j + 1
      BY <1>2, <1>5, <2>1 DEF Once
    <3> QED
      BY <1>2, <3>1
  <2>2. ~(Head(s) \in X /\ Has(t, X))
    BY <1>1, <1>2, <1>5 DEF Once, Has
  <2> QED
    BY <2>1, <2>2 DEF Once
<1> QED
  BY <1>1, <1>4, <1>5 DEF t

LEMMA SeqPush ==
  ASSUME NEW S, NEW s \in Seq(S), NEW m \in S
  PROVE  /\ << m >> \o s \in Seq(S) /\ << m >> \o s # << >> /\ Head(<< m >> \o s) = m
         /\ \A X : Has(<< m >> \o s, X) <=> Has(s, X) \/ m \in X
         /\ \A X : Once(s, X) /\ ~(Has(s, X) /\ m \in X) => Once(<< m >> \o s, X)
<1> DEFINE t == << m >> \o s
<1>1. /\ Len(s) \in Nat /\ DOMAIN s = 1 .. Len(s)
      /\ t \in Seq(S) /\ DOMAIN t = 1 .. Len(s) + 1
      /\ \A i \in 1 .. Len(s) : t[i + 1] = s[i]
      /\ t[1] = m
  OBVIOUS
<1>2. t # << >> /\ Head(t) = m
  OBVIOUS
<1> HIDE DEF t
<1>3. \A i \in DOMAIN t : i = 1 \/ (i - 1 \in DOMAIN s /\ t[i] = s[i - 1] /\ i \in Int)
  <2>1. ASSUME NEW i \in DOMAIN t, i # 1 PROVE i - 1 \in DOMAIN s /\ t[i] = s[i - 1]
    <3>1. i - 1 \in 1 .. Len(s) /\ (i - 1) + 1 = i
      BY <1>1, <2>1
    <3>2. t[(i - 1) + 1] = s[i - 1]
      BY <1>1, <3>1
    <3> QED
      BY <1>1, <3>1, <3>2
  <2> QED
    BY <1>1, <2>1
<1>4. \A i \in DOMAIN s : i + 1 \in DOMAIN t /\ t[i + 1] = s[i]
  BY <1>1
<1>5. 1 \in DOMAIN t
  BY <1>1
<1>6. ASSUME NEW X PROVE Has(t, X) <=> Has(s, X) \/ m \in X
  BY <1>1, <1>3, <1>4, <1>5 DEF Has
<1>7. ASSUME NEW X, Once(s, X), ~(Has(s, X) /\ m \in X) PROVE Once(t, X)
  <2>1. ASSUME NEW i \in DOMAIN t, NEW j \in DOMAIN t, t[i] \in X, t[j] \in X PROVE i = j
    <3>1. CASE i # 1 /\ j # 1
      <4>1. i - 1 = j - 1
        BY <1>3, <1>7, <2>1, <3>1 DEF Once
      <4> QED
        BY <1>3, <3>1, <4>1
    <3>2. CASE i = 1 \/ j = 1
      BY <1>1, <1>3, <1>7, <2>1, <3>2 DEF Has
    <3> QED
      BY <3>1, <3>2
  <2> QED
    BY <2>1 DEF Once
<1> QED
  BY <1>1, <1>2, <1>6, <1>7 DEF t

LEMMA SeqFront ==
  ASSUME NEW S, NEW s \in Seq(S), s # << >>
  PROVE  /\ Front(s) \in Seq(S) /\ Last(s) \in S
         /\ \A X : Has(s, X) <=> Last(s) \in X \/ Has(Front(s), X)
         /\ \A X : Once(s, X) => Once(Front(s), X) /\ ~(Last(s) \in X /\ Has(Front(s), X))
<1> DEFINE t == Front(s)
<1>1. /\ Len(s) \in Nat /\ DOMAIN s = 1 .. Len(s) /\ Len(s) \in DOMAIN s
      /\ t \in Seq(S) /\ DOMAIN t = 1 .. Len(s) - 1
      /\ \A i \in 1 .. Len(s) - 1 : t[i] = s[i]
      /\ Last(s) = s[Len(s)] /\ Last(s) \in S
  BY DEF Front, Last
<1> HIDE DEF t
<1>2. \A i \in DOMAIN t : i \in DOMAIN s /\ i # Len(s) /\ t[i] = s[i]
  BY <1>1
<1>3. \A i \in DOMAIN s : i = Len(s) \/ i \in DOMAIN t
  BY <1>1
<1>4. ASSUME NEW X PROVE Has(s, X) <=> Last(s) \in X \/ Has(t, X)
  BY <1>1, <1>2, <1>3 DEF Has
<1>5. ASSUME NEW X, Once(s, X) PROVE Once(t, X) /\ ~(Last(s) \in X /\ Has(t, X))
  BY <1>1, <1>2, <1>5 DEF Has, Once
<1> QED
  BY <1>1, <1>4, <1>5 DEF t

-----------------------------------------------------------------------------
(* The messages, and which sets they are in.                                *)

LEMMA Kinds ==
  /\ \A m \in Msg : m.t = "login" => m.uid \in Uid /\ m.subid \in Nat
  /\ \A m \in Msg : m.t = "logout" => m.uid \in Uid
  /\ \A m \in Msg : m.t = "answer" => m.by \in Workers \cup {0} /\ m.ok \in BOOLEAN
  /\ \A m \in Told : m.uid \in Uid /\ m.for \in {"kick", "logout"}
  /\ \A m \in Told : m.for = "logout" => m.l \in Out
BY DEF Msg, Told

LEMMA Messages ==
  /\ \A uid \in Uid, id \in Nat :
       /\ LoginMsg(uid, id) \in Msg /\ LoginMsg(uid, id) \notin Answer0
       /\ \A v \in Uid : LoginMsg(uid, id) \notin LogoutOf(v)
       /\ \A v \in Uid : LoginMsg(uid, id) \in LoginOf(v) <=> v = uid
  /\ \A uid \in Uid :
       /\ LogoutMsg(uid) \in Msg /\ LogoutMsg(uid) \notin Answer0
       /\ \A v \in Uid : LogoutMsg(uid) \notin LoginOf(v)
       /\ \A v \in Uid : LogoutMsg(uid) \in LogoutOf(v) <=> v = uid
  /\ \A m \in {AuthMsg, AfkMsg} :
       m \in Msg /\ m \notin Answer0 /\ \A v \in Uid : m \notin LoginOf(v) /\ m \notin LogoutOf(v)
  /\ \A by \in Workers \cup {0}, ok \in BOOLEAN :
       /\ Answer(by, ok) \in Msg /\ (Answer(by, ok) \in Answer0 <=> by = 0)
       /\ \A v \in Uid : Answer(by, ok) \notin LoginOf(v) /\ Answer(by, ok) \notin LogoutOf(v)
BY DEF LoginMsg, LogoutMsg, AuthMsg, AfkMsg, Answer, LoginOf, LogoutOf, Answer0, Msg

LEMMA Notes ==
  /\ \A uid \in Uid : LET m == [uid |-> uid, for |-> "kick"] IN
       /\ m \in Told /\ \A v \in Uid : m \in KickNote(v) <=> v = uid
       /\ \A l \in Out : m \notin LogoutNote(l)
  /\ \A uid \in Uid, l \in Out : LET m == [uid |-> uid, for |-> "logout", l |-> l] IN
       /\ m \in Told /\ \A v \in Uid : m \notin KickNote(v)
       /\ \A k \in Out : m \in LogoutNote(k) <=> k = l
BY DEF Told, KickNote, LogoutNote

-----------------------------------------------------------------------------
(* What a step leaves as it is.                                             *)

\* Of the commands of X, r2 has those of r or fewer.
Fewer(r2, r, X) == (At(r2, X) => At(r, X)) /\ (Alone(r, X) => Alone(r2, X))

LEMMA CarriedFewer ==
  ASSUME NEW X, NEW uid \in Uid, NEW st, Carried(X, uid, st),
         \A a \in Agent : Fewer(ag'[a], ag[a], X),
         flow[uid].st = st => flow'[uid].st = st
  PROVE  Carried(X, uid, st)'
BY DEF Carried, Fewer, At, Alone, Has, Once

LEMMA CarriedTaken ==
  ASSUME NEW X, NEW uid \in Uid, NEW st, Carried(X, uid, st), NEW a \in Agent,
         At(ag[a], X), ~At(ag'[a], X), Alone(ag'[a], X),
         \A b \in Agent : b # a => ag'[b] = ag[b]
  PROVE  Carried(X, uid, st)'
BY DEF Carried, At, Alone, Has, Once

LEMMA CarriedSent ==
  ASSUME NEW X, NEW uid \in Uid, NEW st, Carried(X, uid, st), NEW a \in Agent,
         flow[uid].st # st, flow'[uid].st = st,
         \A b \in Agent : b # a => ag'[b] = ag[b],
         ag'[a].cs = ag[a].cs, Has(ag'[a].inbox, X), Once(ag'[a].inbox, X)
  PROVE  Carried(X, uid, st)'
BY DEF Carried, At, Alone, Has, Once

\* Agent a's queue and calls, and the gate's answers to it, are as they were.
LEMMA QueueKept ==
  ASSUME NEW a \in Agent, QueueFor(a), logouts' = logouts,
         ag'[a].inbox = ag[a].inbox, ag'[a].outbox = ag[a].outbox,
         ag'[a].cs = ag[a].cs, ag'[a].csst = ag[a].csst
  PROVE  QueueFor(a)'
BY DEF QueueFor, Has, Once, Asked

(* The places of the agents are as they were.                               *)
LEMMA ConservedKept ==
  ASSUME Conserved, UNCHANGED << users, agent_pool, logouts, spawned >>,
         \A uid \in Uid : /\ Calls(uid)' <=> Calls(uid)
                          /\ Calls(uid) => flow'[uid].agent = flow[uid].agent
                          /\ flow'[uid].st = "spawn" => users[uid] = None
  PROVE  Conserved'
<1>1. \A a \in Agent : LogsIn(a)' <=> LogsIn(a)
  BY DEF LogsIn
<1>2. \A a \in Agent : InPool(a)' <=> InPool(a)
  BY DEF InPool, Has
<1>3. \A a \in Agent : Serves(a)' <=> Serves(a)
  BY DEF Serves
<1>4. \A a \in Agent : LogsOut(a)' <=> LogsOut(a)
  BY DEF LogsOut
<1>5. (\A u, v \in Uid : Calls(u) /\ Calls(v) /\ flow[u].agent = flow[v].agent => u = v)'
  BY DEF Conserved
<1>6. (\A uid \in Uid : flow[uid].st \in {"spawn", "calling", "called"} => users[uid] = None)'
  BY DEF Conserved, Calls
<1>7. (\A a \in Agent : Once(agent_pool, {a}))'
  BY DEF Conserved, Once
<1>8. (\A uid \in Uid : Calls(uid) => flow[uid].agent # None)'
  BY DEF Conserved
<1> QED
  BY <1>1, <1>2, <1>3, <1>4, <1>5, <1>6, <1>7, <1>8 DEF Conserved

\* States of a login in which it neither holds an agent nor waits for a message.
Resting == {"idle", "kick", "kicked", "kickfailed", "login", "spawn", "loggedin"}

(* Only the login of uid moves, from one resting state to another.          *)
LEMMA FlowMove ==
  ASSUME IInv, NEW uid \in Uid, NEW f,
         flow[uid].st \in Resting, f.st \in Resting,
         f \in [st : FlowSt, id : Nat, subid : Nat, agent : Agent \cup {None}],
         f.st = "spawn" => users[uid] = None,
         flow' = [flow EXCEPT ![uid] = f],
         internal_id' \in Nat, online' \in [Uid -> Nat \cup {None}],
         UNCHANGED << users, username_map, agent_pool, logouts, notices, spawned, ag >>
  PROVE  IInv'
<1>1. /\ flow'[uid] = f /\ \A v \in Uid : v # uid => flow'[v] = flow[v]
      /\ flow' \in [Uid -> [st : FlowSt, id : Nat, subid : Nat, agent : Agent \cup {None}]]
  BY DEF IInv, Typed
<1>2. Typed'
  BY <1>1 DEF IInv, Typed
<1>3. Awaited'
  <2> SUFFICES ASSUME NEW v \in Uid
               PROVE  /\ Carried(LoginOf(v), v, "calling")' /\ Carried(LogoutOf(v), v, "kickwait")'
                      /\ (Once(notices, KickNote(v)))'
                      /\ (Has(notices, KickNote(v)) => flow[v].st = "kicknotify")'
    BY DEF Awaited
  <2>1. /\ Carried(LoginOf(v), v, "calling") /\ Carried(LogoutOf(v), v, "kickwait")
        /\ Once(notices, KickNote(v))
        /\ Has(notices, KickNote(v)) => flow[v].st = "kicknotify"
    BY DEF IInv, Awaited
  <2>2. \A st \in {"calling", "kickwait", "kicknotify"} : flow[v].st = st => flow'[v].st = st
    BY <1>1 DEF Resting
  <2>3. \A X : \A a \in Agent : Fewer(ag'[a], ag[a], X)
    BY DEF Fewer
  <2>4. Carried(LoginOf(v), v, "calling")'
    BY <2>1, <2>2, <2>3, CarriedFewer
  <2>5. Carried(LogoutOf(v), v, "kickwait")'
    BY <2>1, <2>2, <2>3, CarriedFewer
  <2> QED
    BY <2>1, <2>2, <2>4, <2>5 DEF Once, Has
<1>4. QueueOK'
  BY QueueKept DEF IInv, QueueOK, AskedOnce
<1>5. NotedOnce'
  BY DEF IInv, NotedOnce, Once, Has
<1>6. Conserved'
  <2>1. \A v \in Uid : /\ Calls(v)' <=> Calls(v)
                       /\ Calls(v) => flow'[v].agent = flow[v].agent
                       /\ flow'[v].st = "spawn" => users[v] = None
    BY <1>1 DEF IInv, Conserved, Calls, Resting
  <2> QED
    BY <2>1, ConservedKept DEF IInv
<1> QED
  BY <1>2, <1>3, <1>4, <1>5, <1>6 DEF IInv

(* Agent a alone moves: its queue and the messages on their way are the      *)
(* obligations that its move leaves.                                        *)
LEMMA AgentMove ==
  ASSUME IInv, NEW a \in Agent, NEW r \in AgentState, ag' = [ag EXCEPT ![a] = r],
         flow' \in [Uid -> [st : FlowSt, id : Nat, subid : Nat, agent : Agent \cup {None}]],
         UNCHANGED << online, users, username_map, internal_id, agent_pool,
                      logouts, notices, spawned >>,
         \A v \in Uid : /\ Carried(LoginOf(v), v, "calling")'
                        /\ Carried(LogoutOf(v), v, "kickwait")'
                        /\ flow[v].st = "kicknotify" => flow'[v].st = "kicknotify"
                        /\ Calls(v)' <=> Calls(v)
                        /\ Calls(v) => flow'[v].agent = flow[v].agent
                        /\ flow'[v].st = "spawn" => users[v] = None,
         QueueFor(a)'
  PROVE  IInv'
<1>1. ag' \in [Agent -> AgentState] /\ ag'[a] = r /\ \A b \in Agent : b # a => ag'[b] = ag[b]
  BY DEF IInv, Typed
<1>2. Typed'
  BY <1>1 DEF IInv, Typed
<1>3. Awaited'
  BY DEF IInv, Awaited, Has, Once
<1>4. QueueOK'
  <2>1. \A b \in Agent : QueueFor(b)'
    BY <1>1, QueueKept DEF IInv, QueueOK
  <2> QED
    BY <2>1 DEF IInv, QueueOK, AskedOnce
<1>5. NotedOnce'
  BY DEF IInv, NotedOnce, Once, Has
<1>6. Conserved'
  BY ConservedKept DEF IInv
<1> QED
  BY <1>2, <1>3, <1>4, <1>5, <1>6 DEF IInv

\* Agent a has of X what it had, or fewer; the logins may go on.
LEMMA AgentFewer ==
  ASSUME NEW X, NEW uid \in Uid, NEW st, Carried(X, uid, st),
         NEW a \in Agent, NEW r \in AgentState, ag \in [Agent -> AgentState],
         ag' = [ag EXCEPT ![a] = r], Fewer(r, ag[a], X),
         flow[uid].st = st => flow'[uid].st = st
  PROVE  Carried(X, uid, st)'
<1>1. \A b \in Agent : Fewer(ag'[b], ag[b], X)
  BY DEF Fewer
<1> QED
  BY <1>1, CarriedFewer

\* A message of no X reaches the mailbox of agent a.
LEMMA Received ==
  ASSUME NEW r \in AgentState, NEW m \in Msg
  PROVE  LET r2 == [r EXCEPT !.inbox = Append(@, m)] IN
         /\ r2 \in AgentState
         /\ r2.cs = r.cs /\ r2.csst = r.csst /\ r2.outbox = r.outbox
         /\ \A X : Has(r2.inbox, X) <=> Has(r.inbox, X) \/ m \in X
         /\ \A X : Once(r.inbox, X) /\ ~(Has(r.inbox, X) /\ m \in X) => Once(r2.inbox, X)
         /\ \A X : m \notin X => Fewer(r2, r, X)
<1> DEFINE r2 == [r EXCEPT !.inbox = Append(@, m)]
<1>1. r.inbox \in Seq(Msg)
  BY DEF AgentState
<1>2. /\ Append(r.inbox, m) \in Seq(Msg)
      /\ \A X : Has(Append(r.inbox, m), X) <=> Has(r.inbox, X) \/ m \in X
      /\ \A X : Once(r.inbox, X) /\ ~(Has(r.inbox, X) /\ m \in X) => Once(Append(r.inbox, m), X)
  BY <1>1, SeqAppend
<1>3. /\ r2 \in AgentState /\ r2.inbox = Append(r.inbox, m)
      /\ r2.cs = r.cs /\ r2.csst = r.csst /\ r2.outbox = r.outbox
  BY <1>2 DEF AgentState
<1> HIDE DEF r2
<1>4. \A X : m \notin X => Fewer(r2, r, X)
  BY <1>2, <1>3 DEF Fewer, At, Alone
<1> QED
  BY <1>2, <1>3, <1>4 DEF r2

\* Agent a moves and no login does.
LEMMA AgentQuiet ==
  ASSUME IInv, NEW a \in Agent, NEW r \in AgentState, ag' = [ag EXCEPT ![a] = r],
         UNCHANGED << online, flow, users, username_map, internal_id, agent_pool,
                      logouts, notices, spawned >>,
         \A v \in Uid : Fewer(r, ag[a], LoginOf(v)) /\ Fewer(r, ag[a], LogoutOf(v)),
         QueueFor(a)'
  PROVE  IInv'
<1>1. ASSUME NEW v \in Uid
      PROVE  Carried(LoginOf(v), v, "calling")' /\ Carried(LogoutOf(v), v, "kickwait")'
  <2>1. Carried(LoginOf(v), v, "calling") /\ Carried(LogoutOf(v), v, "kickwait")
    BY DEF IInv, Awaited
  <2>2. ag \in [Agent -> AgentState]
    BY DEF IInv, Typed
  <2>3. Carried(LoginOf(v), v, "calling")'
    BY <2>1, <2>2, AgentFewer
  <2>4. Carried(LogoutOf(v), v, "kickwait")'
    BY <2>1, <2>2, AgentFewer
  <2> QED
    BY <2>3, <2>4
<1>2. \A v \in Uid : /\ Calls(v)' <=> Calls(v)
                     /\ flow'[v].st = "spawn" => users[v] = None
  BY DEF IInv, Conserved, Calls
<1>3. flow' \in [Uid -> [st : FlowSt, id : Nat, subid : Nat, agent : Agent \cup {None}]]
  BY DEF IInv, Typed
<1> QED
  BY <1>1, <1>2, <1>3, AgentMove

(* Agent a has served the message of X, kept in state st for it, by which    *)
(* the login of u goes on to state f.                                       *)
LEMMA AgentServes ==
  ASSUME IInv, NEW a \in Agent, NEW r \in AgentState, ag' = [ag EXCEPT ![a] = r],
         NEW u \in Uid,
         \/ /\ At(ag[a], LoginOf(u)) /\ ~At(r, LoginOf(u))
            /\ flow' = [flow EXCEPT ![u].st = "called"]
         \/ /\ At(ag[a], LogoutOf(u)) /\ ~At(r, LogoutOf(u))
            /\ flow' = [flow EXCEPT ![u].st = "kicked"],
         UNCHANGED << online, users, username_map, internal_id, agent_pool,
                      logouts, notices, spawned >>,
         \A v \in Uid : Fewer(r, ag[a], LoginOf(v)) /\ Fewer(r, ag[a], LogoutOf(v)),
         QueueFor(a)'
  PROVE  IInv'
<1>1. \A v \in Uid : /\ Carried(LoginOf(v), v, "calling") /\ Carried(LogoutOf(v), v, "kickwait")
                     /\ flow[v].st \in FlowSt
  BY DEF IInv, Awaited, Typed
<1>2. /\ ag \in [Agent -> AgentState] /\ ag'[a] = r /\ \A b \in Agent : b # a => ag'[b] = ag[b]
      /\ flow \in [Uid -> [st : FlowSt, id : Nat, subid : Nat, agent : Agent \cup {None}]]
  BY DEF IInv, Typed
<1>3. At(ag[a], LoginOf(u)) => flow[u].st = "calling"
  BY <1>1 DEF Carried
<1>4. At(ag[a], LogoutOf(u)) => flow[u].st = "kickwait"
  BY <1>1 DEF Carried
<1>5. /\ flow' \in [Uid -> [st : FlowSt, id : Nat, subid : Nat, agent : Agent \cup {None}]]
      /\ \A v \in Uid : v # u => flow'[v] = flow[v]
      /\ flow'[u].agent = flow[u].agent
      /\ \/ At(ag[a], LoginOf(u)) /\ ~At(r, LoginOf(u)) /\ flow'[u].st = "called"
         \/ At(ag[a], LogoutOf(u)) /\ ~At(r, LogoutOf(u)) /\ flow'[u].st = "kicked"
  BY <1>2 DEF FlowSt
<1>6. ASSUME NEW v \in Uid PROVE Carried(LoginOf(v), v, "calling")'
  <2>1. CASE flow[v].st = "calling" => flow'[v].st = "calling"
    BY <1>1, <1>2, <2>1, AgentFewer
  <2>2. CASE v = u /\ At(ag[a], LoginOf(u)) /\ ~At(r, LoginOf(u))
    <3>1. Alone(ag[a], LoginOf(v))
      BY <1>1 DEF Carried
    <3>2. Alone(ag'[a], LoginOf(v)) /\ ~At(ag'[a], LoginOf(v))
      BY <1>2, <2>2, <3>1 DEF Fewer
    <3> QED
      BY <1>1, <1>2, <2>2, <3>2, CarriedTaken
  <2> QED
    BY <1>3, <1>4, <1>5, <2>1, <2>2
<1>7. ASSUME NEW v \in Uid PROVE Carried(LogoutOf(v), v, "kickwait")'
  <2>1. CASE flow[v].st = "kickwait" => flow'[v].st = "kickwait"
    BY <1>1, <1>2, <2>1, AgentFewer
  <2>2. CASE v = u /\ At(ag[a], LogoutOf(u)) /\ ~At(r, LogoutOf(u))
    <3>1. Alone(ag[a], LogoutOf(v))
      BY <1>1 DEF Carried
    <3>2. Alone(ag'[a], LogoutOf(v)) /\ ~At(ag'[a], LogoutOf(v))
      BY <1>2, <2>2, <3>1 DEF Fewer
    <3> QED
      BY <1>1, <1>2, <2>2, <3>2, CarriedTaken
  <2> QED
    BY <1>3, <1>4, <1>5, <2>1, <2>2
<1>8. \A v \in Uid : /\ flow[v].st = "kicknotify" => flow'[v].st = "kicknotify"
                     /\ Calls(v)' <=> Calls(v)
                     /\ Calls(v) => flow'[v].agent = flow[v].agent
                     /\ flow'[v].st = "spawn" => users[v] = None
  BY <1>3, <1>4, <1>5 DEF IInv, Conserved, Calls
<1> QED
  BY <1>5, <1>6, <1>7, <1>8, AgentMove

(* The gate sends an agent a message that nobody waits for: auth and afk.    *)
LEMMA ToldAgent ==
  ASSUME IInv, NEW a \in Agent, NEW m \in {AuthMsg, AfkMsg}, Send(a, m),
         UNCHANGED << online, flow, users, username_map, internal_id, agent_pool,
                      logouts, notices, spawned >>
  PROVE  IInv'
<1> DEFINE r == [ag[a] EXCEPT !.inbox = Append(@, m)]
<1>1. /\ ag[a] \in AgentState /\ m \in Msg /\ m \notin Answer0
      /\ \A v \in Uid : m \notin LoginOf(v) /\ m \notin LogoutOf(v)
  BY Messages DEF IInv, Typed
<1>2. /\ r \in AgentState
      /\ r.cs = ag[a].cs /\ r.csst = ag[a].csst /\ r.outbox = ag[a].outbox
      /\ \A X : Has(r.inbox, X) <=> Has(ag[a].inbox, X) \/ m \in X
      /\ \A X : Once(ag[a].inbox, X) /\ ~(Has(ag[a].inbox, X) /\ m \in X) => Once(r.inbox, X)
      /\ \A X : m \notin X => Fewer(r, ag[a], X)
  BY <1>1, Received
<1>3. ag' = [ag EXCEPT ![a] = r]
  BY DEF IInv, Typed, Send
<1>4. ag'[a] = r
  BY <1>3 DEF IInv, Typed
<1> HIDE DEF r
<1>5. \A v \in Uid : Fewer(r, ag[a], LoginOf(v)) /\ Fewer(r, ag[a], LogoutOf(v))
  BY <1>1, <1>2
<1>6. QueueFor(a)'
  BY <1>1, <1>2, <1>4 DEF IInv, QueueOK, QueueFor, Asked
<1> QED
  BY <1>2, <1>3, <1>5, <1>6, AgentQuiet

-----------------------------------------------------------------------------
(* The agents.                                                              *)

\* Agent a has taken m from its mailbox or its queue, to run it: r is left.
Consumed(a, r, m) ==
  /\ r \in AgentState /\ m \in Msg
  /\ ag[a].csst = "idle" /\ r.csst = "idle" /\ r.outbox = ag[a].outbox
  /\ Has(r.inbox, Answer0) => Has(ag[a].inbox, Answer0)
  /\ Once(ag[a].inbox, Answer0) => Once(r.inbox, Answer0)
  /\ \A X : Fewer(r, ag[a], X)
  /\ \A X : m \in X => At(ag[a], X) /\ (Alone(ag[a], X) => ~At(r, X))

LEMMA TakenConsumed ==
  ASSUME Typed, NEW a \in Agent, ag[a].inbox # << >>, Quiet(a), ag[a].csst = "idle"
  PROVE  Consumed(a, Taken(a), Head(ag[a].inbox))
<1> DEFINE r == Taken(a)
           m == Head(ag[a].inbox)
<1>1. ag[a] \in AgentState /\ ag[a].inbox \in Seq(Msg) /\ ag[a].cs = << >>
  BY DEF Typed, AgentState, Quiet
<1>2. /\ Tail(ag[a].inbox) \in Seq(Msg) /\ m \in Msg
      /\ \A X : Has(ag[a].inbox, X) <=> m \in X \/ Has(Tail(ag[a].inbox), X)
      /\ \A X : Once(ag[a].inbox, X) =>
           Once(Tail(ag[a].inbox), X) /\ ~(m \in X /\ Has(Tail(ag[a].inbox), X))
  BY <1>1, SeqTail
<1>3. /\ r \in AgentState /\ r.inbox = Tail(ag[a].inbox) /\ r.cs = ag[a].cs
      /\ r.csst = "idle" /\ r.outbox = ag[a].outbox
  BY <1>1, <1>2 DEF Taken, AgentState
<1>4. \A X : ~Has(r.cs, X) /\ ~Has(ag[a].cs, X)
  BY <1>1, <1>3 DEF Has
<1> HIDE DEF r, m
<1>5. \A X : Fewer(r, ag[a], X)
  BY <1>2, <1>3, <1>4 DEF Fewer, At, Alone
<1>6. \A X : m \in X => At(ag[a], X) /\ (Alone(ag[a], X) => ~At(r, X))
  BY <1>2, <1>3, <1>4 DEF At, Alone
<1>7. Consumed(a, r, m)
  BY <1>2, <1>3, <1>5, <1>6 DEF Consumed
<1> QED
  BY <1>7 DEF r, m

LEMMA DequeuedConsumed ==
  ASSUME Typed, NEW a \in Agent, ~Quiet(a)
  PROVE  Consumed(a, Dequeued(a), Head(ag[a].cs))
<1> DEFINE r == Dequeued(a)
           m == Head(ag[a].cs)
<1>1. ag[a] \in AgentState /\ ag[a].cs \in Seq(Msg) /\ ag[a].cs # << >> /\ ag[a].csst = "idle"
  BY DEF Typed, AgentState, Quiet
<1>2. /\ Tail(ag[a].cs) \in Seq(Msg) /\ m \in Msg
      /\ \A X : Has(ag[a].cs, X) <=> m \in X \/ Has(Tail(ag[a].cs), X)
      /\ \A X : Once(ag[a].cs, X) => Once(Tail(ag[a].cs), X) /\ ~(m \in X /\ Has(Tail(ag[a].cs), X))
  BY <1>1, SeqTail
<1>3. /\ r \in AgentState /\ r.inbox = ag[a].inbox /\ r.cs = Tail(ag[a].cs)
      /\ r.csst = "idle" /\ r.outbox = ag[a].outbox
  BY <1>1, <1>2 DEF Dequeued, AgentState
<1> HIDE DEF r, m
<1>4. \A X : Fewer(r, ag[a], X)
  BY <1>2, <1>3 DEF Fewer, At, Alone
<1>5. \A X : m \in X => At(ag[a], X) /\ (Alone(ag[a], X) => ~At(r, X))
  BY <1>2, <1>3 DEF At, Alone
<1>6. Consumed(a, r, m)
  BY <1>1, <1>2, <1>3, <1>4, <1>5 DEF Consumed
<1> QED
  BY <1>6 DEF r, m

LEMMA CommandStep ==
  ASSUME IInv, NEW a \in Agent, NEW r, NEW m, Consumed(a, r, m), Command(a, r, m),
         UNCHANGED << online, gvars, logouts, notices >>
  PROVE  IInv'
<1>1. /\ r \in AgentState /\ m \in Msg /\ ag[a].csst = "idle" /\ r.csst = "idle"
      /\ r.outbox = ag[a].outbox
      /\ \A X : Fewer(r, ag[a], X)
      /\ \A X : m \in X => At(ag[a], X) /\ (Alone(ag[a], X) => ~At(r, X))
  BY DEF Consumed
<1>2. /\ UNCHANGED << online, users, username_map, internal_id, agent_pool,
                      logouts, notices, spawned >>
      /\ ag \in [Agent -> AgentState]
  BY DEF IInv, Typed, gvars
<1>3. /\ ~Has(r.inbox, Answer0) /\ Once(r.inbox, Answer0)
      /\ ~Has(r.outbox, Call0) /\ Once(r.outbox, Call0) /\ ~Asked(a)
  BY <1>1 DEF IInv, QueueOK, QueueFor, Consumed
<1>4. ASSUME NEW q \in AgentState, q.inbox = r.inbox, q.cs = r.cs, q.outbox = r.outbox,
             q.csst = "idle", ag' = [ag EXCEPT ![a] = q]
      PROVE  QueueFor(a)' /\ \A X : Fewer(q, ag[a], X) /\ (At(q, X) => At(r, X))
  <2>1. \A X : Fewer(q, ag[a], X) /\ (At(q, X) => At(r, X))
    BY <1>1, <1>4 DEF Fewer, At, Alone
  <2>2. ag'[a] = q
    BY <1>2, <1>4
  <2>3. QueueFor(a)'
    BY <1>2, <1>3, <1>4, <2>2 DEF QueueFor, Asked
  <2> QED
    BY <2>1, <2>3
<1>5. CASE m.t = "login" /\ CmdLogin(a, r, m)
  <2>1. m.uid \in Uid /\ m.subid \in Nat /\ m \in LoginOf(m.uid)
    BY <1>1, <1>5, Kinds DEF LoginOf
  <2> DEFINE q == [r EXCEPT !.sess = [uid |-> m.uid, subid |-> m.subid], !.afk = FALSE]
  <2>2. /\ q \in AgentState /\ q.inbox = r.inbox /\ q.cs = r.cs /\ q.outbox = r.outbox
        /\ q.csst = "idle" /\ ag' = [ag EXCEPT ![a] = q]
    BY <1>1, <1>5, <2>1 DEF CmdLogin, AgentState
  <2>3. flow' = [flow EXCEPT ![m.uid].st = "called"]
    BY <1>5 DEF CmdLogin
  <2> HIDE DEF q
  <2>4. QueueFor(a)' /\ \A X : Fewer(q, ag[a], X) /\ (At(q, X) => At(r, X))
    BY <1>4, <2>2
  <2>5. Alone(ag[a], LoginOf(m.uid))
    BY <2>1 DEF IInv, Awaited, Carried
  <2>6. At(ag[a], LoginOf(m.uid)) /\ ~At(q, LoginOf(m.uid))
    BY <1>1, <2>1, <2>4, <2>5
  <2> QED
    BY <1>2, <2>1, <2>2, <2>3, <2>4, <2>6, AgentServes
<1>6. CASE m.t = "auth" /\ CmdAuth(a, r)
  <2>1. PICK q \in AgentState :
          /\ q.inbox = r.inbox /\ q.cs = r.cs /\ q.outbox = r.outbox
          /\ q.csst = "idle" /\ ag' = [ag EXCEPT ![a] = q]
    <3>1. CASE r.running
      <4> DEFINE q == [r EXCEPT !.client = TRUE]
      <4>1. /\ q \in AgentState /\ q.inbox = r.inbox /\ q.cs = r.cs /\ q.outbox = r.outbox
            /\ q.csst = "idle" /\ ag' = [ag EXCEPT ![a] = q]
        BY <1>1, <1>6, <3>1 DEF CmdAuth, AgentState
      <4> QED
        BY <4>1
    <3>2. CASE ~r.running
      <4>1. PICK w \in Workers :
              ag' = [ag EXCEPT ![a] = [r EXCEPT !.client = TRUE, !.running = TRUE,
                                                !.worker[w] = "sleep"]]
        BY <1>6, <3>2 DEF CmdAuth
      <4> DEFINE q == [r EXCEPT !.client = TRUE, !.running = TRUE, !.worker[w] = "sleep"]
      <4>2. /\ q \in AgentState /\ q.inbox = r.inbox /\ q.cs = r.cs /\ q.outbox = r.outbox
            /\ q.csst = "idle" /\ ag' = [ag EXCEPT ![a] = q]
        BY <1>1, <4>1 DEF AgentState
      <4> QED
        BY <4>2
    <3> QED
      BY <3>1, <3>2
  <2>2. QueueFor(a)' /\ \A X : Fewer(q, ag[a], X)
    BY <1>4, <2>1
  <2>3. flow' = flow
    BY <1>6 DEF CmdAuth
  <2> QED
    BY <1>2, <2>1, <2>2, <2>3, AgentQuiet
<1>7. CASE m.t = "afk" /\ CmdAfk(a, r)
  <2> DEFINE q == [r EXCEPT !.afk = TRUE]
  <2>1. /\ q \in AgentState /\ q.inbox = r.inbox /\ q.cs = r.cs /\ q.outbox = r.outbox
        /\ q.csst = "idle" /\ ag' = [ag EXCEPT ![a] = q]
    BY <1>1, <1>7 DEF CmdAfk, AgentState
  <2>2. flow' = flow
    BY <1>7 DEF CmdAfk
  <2> HIDE DEF q
  <2>3. QueueFor(a)' /\ \A X : Fewer(q, ag[a], X)
    BY <1>4, <2>1
  <2> QED
    BY <1>2, <2>1, <2>2, <2>3, AgentQuiet
<1>8. CASE m.t = "logout" /\ CmdLogout(a, r, m)
  <2>1. m.uid \in Uid /\ m \in LogoutOf(m.uid)
    BY <1>1, <1>8, Kinds DEF LogoutOf
  <2>2. Alone(ag[a], LogoutOf(m.uid))
    BY <2>1 DEF IInv, Awaited, Carried
  <2>3. r.cs \in Seq(Msg) /\ r.outbox \in Seq(Call)
    BY <1>1 DEF AgentState
  <2>4. /\ << m >> \o r.cs \in Seq(Msg) /\ << m >> \o r.cs # << >> /\ Head(<< m >> \o r.cs) = m
        /\ \A X : Has(<< m >> \o r.cs, X) <=> Has(r.cs, X) \/ m \in X
        /\ \A X : Once(r.cs, X) /\ ~(Has(r.cs, X) /\ m \in X) => Once(<< m >> \o r.cs, X)
    BY <1>1, <2>3, SeqPush
  <2>5. ASSUME NEW q \in AgentState, q.inbox = r.inbox, q.cs = << m >> \o r.cs
        PROVE  \A X : Fewer(q, ag[a], X)
    <3> SUFFICES ASSUME NEW X PROVE Fewer(q, ag[a], X)
      OBVIOUS
    <3>1. At(q, X) => At(ag[a], X)
      BY <1>1, <2>4, <2>5 DEF At, Fewer
    <3>2. ASSUME Alone(ag[a], X) PROVE Alone(q, X)
      <4>1. Alone(r, X) /\ (m \in X => ~At(r, X))
        BY <1>1, <3>2 DEF Fewer
      <4> QED
        BY <2>4, <2>5, <4>1 DEF Alone, At
    <3> QED
      BY <3>1, <3>2 DEF Fewer
  <2>6. CASE r.sess # None
    <3> DEFINE c == [by |-> 0, uid |-> r.sess.uid, subid |-> r.sess.subid]
               q == [CallGate(r, 0) EXCEPT !.csst = "gate", !.cs = << m >> \o @]
    <3>1. c \in Call
      BY <1>1, <2>6 DEF AgentState, Call
    <3>2. /\ Append(r.outbox, c) \in Seq(Call)
          /\ \A X : Once(r.outbox, X) /\ ~(Has(r.outbox, X) /\ c \in X) => Once(Append(r.outbox, c), X)
      BY <2>3, <3>1, SeqAppend
    <3>3. /\ q \in AgentState /\ q.inbox = r.inbox /\ q.cs = << m >> \o r.cs
          /\ q.outbox = Append(r.outbox, c) /\ q.csst = "gate"
      BY <1>1, <2>4, <3>2 DEF CallGate, AgentState
    <3>4. ag' = [ag EXCEPT ![a] = q] /\ flow' = flow
      BY <1>8, <2>6 DEF CmdLogout
    <3> HIDE DEF q, c
    <3>5. ag'[a] = q
      BY <1>2, <3>4
    <3>6. QueueFor(a)'
      BY <1>2, <1>3, <1>8, <2>4, <3>2, <3>3, <3>5 DEF QueueFor, Asked
    <3>7. \A X : Fewer(q, ag[a], X)
      BY <2>5, <3>3
    <3> QED
      BY <1>2, <3>3, <3>4, <3>6, <3>7, AgentQuiet
  <2>7. CASE r.sess = None /\ r.client
    <3> DEFINE q == [Forget(r) EXCEPT !.running = FALSE, !.csst = "closing", !.cs = << m >> \o @]
    <3>1. /\ q \in AgentState /\ q.inbox = r.inbox /\ q.cs = << m >> \o r.cs
          /\ q.outbox = r.outbox /\ q.csst = "closing"
      BY <1>1, <2>4 DEF Forget, AgentState
    <3>2. ag' = [ag EXCEPT ![a] = q] /\ flow' = flow
      BY <1>8, <2>7 DEF CmdLogout, Forget
    <3> HIDE DEF q
    <3>3. ag'[a] = q
      BY <1>2, <3>2
    <3>4. QueueFor(a)'
      BY <1>2, <1>3, <1>8, <2>4, <3>1, <3>3 DEF QueueFor, Asked
    <3>5. \A X : Fewer(q, ag[a], X)
      BY <2>5, <3>1
    <3> QED
      BY <1>2, <3>1, <3>2, <3>4, <3>5, AgentQuiet
  <2>8. CASE r.sess = None /\ ~r.client
    <3> DEFINE q == [Forget(r) EXCEPT !.running = FALSE, !.csst = "idle"]
    <3>1. /\ q \in AgentState /\ q.inbox = r.inbox /\ q.cs = r.cs
          /\ q.outbox = r.outbox /\ q.csst = "idle"
      BY <1>1 DEF Forget, AgentState
    <3>2. ag' = [ag EXCEPT ![a] = q] /\ flow' = [flow EXCEPT ![m.uid].st = "kicked"]
      BY <1>1, <1>8, <2>8 DEF CmdLogout, Forget, AgentState
    <3> HIDE DEF q
    <3>3. QueueFor(a)' /\ \A X : Fewer(q, ag[a], X) /\ (At(q, X) => At(r, X))
      BY <1>4, <3>1, <3>2
    <3>4. At(ag[a], LogoutOf(m.uid)) /\ ~At(q, LogoutOf(m.uid))
      BY <1>1, <2>1, <2>2, <3>3
    <3> QED
      BY <1>2, <2>1, <3>1, <3>2, <3>3, <3>4, AgentServes
  <2> QED
    BY <2>6, <2>7, <2>8
<1> QED
  BY <1>5, <1>6, <1>7, <1>8 DEF Command

LEMMA ReceiveStep ==
  ASSUME IInv, NEW a \in Agent, Receive(a)
  PROVE  IInv'
<1>1. /\ ag[a] \in AgentState /\ ag[a].inbox \in Seq(Msg) /\ ag[a].cs \in Seq(Msg)
      /\ ag \in [Agent -> AgentState] /\ Typed
  BY DEF IInv, Typed, AgentState
<1>2. CASE ag[a].csst = "idle"
  BY <1>1, <1>2, TakenConsumed, CommandStep DEF Receive
<1>3. CASE ag[a].csst # "idle"
  <2> DEFINE m == Head(ag[a].inbox)
             q == [Taken(a) EXCEPT !.cs = Append(@, m)]
  <2>1. /\ Tail(ag[a].inbox) \in Seq(Msg) /\ m \in Msg /\ m \notin Answer0
        /\ \A X : Has(ag[a].inbox, X) <=> m \in X \/ Has(Tail(ag[a].inbox), X)
        /\ \A X : Once(ag[a].inbox, X) =>
             Once(Tail(ag[a].inbox), X) /\ ~(m \in X /\ Has(Tail(ag[a].inbox), X))
    BY <1>1, SeqTail DEF Receive, Answer0
  <2>2. /\ Append(ag[a].cs, m) \in Seq(Msg) /\ Append(ag[a].cs, m) # << >>
        /\ ag[a].cs # << >> => Head(Append(ag[a].cs, m)) = Head(ag[a].cs)
        /\ \A X : Has(Append(ag[a].cs, m), X) <=> Has(ag[a].cs, X) \/ m \in X
        /\ \A X : Once(ag[a].cs, X) /\ ~(Has(ag[a].cs, X) /\ m \in X) => Once(Append(ag[a].cs, m), X)
    BY <1>1, <2>1, SeqAppend
  <2>3. /\ q \in AgentState /\ q.inbox = Tail(ag[a].inbox) /\ q.cs = Append(ag[a].cs, m)
        /\ q.outbox = ag[a].outbox /\ q.csst = ag[a].csst
    BY <1>1, <2>1, <2>2 DEF Taken, AgentState
  <2>4. ag' = [ag EXCEPT ![a] = q] /\ flow' = flow
    BY <1>3 DEF Receive
  <2> HIDE DEF q, m
  <2>5. ag'[a] = q
    BY <1>1, <2>4
  <2>6. \A X : Fewer(q, ag[a], X)
    BY <2>1, <2>2, <2>3 DEF Fewer, At, Alone
  <2>7. /\ UNCHANGED << online, users, username_map, internal_id, agent_pool,
                        logouts, notices, spawned >>
    BY DEF Receive, gvars
  <2>8. QueueFor(a)'
    BY <2>1, <2>2, <2>3, <2>5, <2>7 DEF IInv, QueueOK, QueueFor, Asked
  <2> QED
    BY <2>3, <2>4, <2>6, <2>7, <2>8, AgentQuiet
<1> QED
  BY <1>2, <1>3

LEMMA RunQueuedStep ==
  ASSUME IInv, NEW a \in Agent, RunQueued(a)
  PROVE  IInv'
BY DequeuedConsumed, CommandStep DEF RunQueued, IInv

\* The command at the head of agent a's queue, a logout, is over.
LEMMA QueueServed ==
  ASSUME IInv, NEW a \in Agent, ag[a].csst # "idle", NEW q \in AgentState,
         ag' = [ag EXCEPT ![a] = q], q.cs = Tail(ag[a].cs),
         \A X : /\ Has(q.inbox, X) => Has(ag[a].inbox, X)
                /\ Once(ag[a].inbox, X) => Once(q.inbox, X),
         flow' = [flow EXCEPT ![Head(ag[a].cs).uid].st = "kicked"],
         UNCHANGED << online, users, username_map, internal_id, agent_pool,
                      logouts, notices, spawned >>,
         QueueFor(a)'
  PROVE  IInv'
<1> DEFINE m == Head(ag[a].cs)
<1>1. /\ ag[a] \in AgentState /\ ag[a].cs \in Seq(Msg) /\ ag[a].cs # << >> /\ m.t = "logout"
  BY DEF IInv, Typed, AgentState, QueueOK, QueueFor
<1>2. /\ Tail(ag[a].cs) \in Seq(Msg) /\ m \in Msg
      /\ \A X : Has(ag[a].cs, X) <=> m \in X \/ Has(Tail(ag[a].cs), X)
      /\ \A X : Once(ag[a].cs, X) => Once(Tail(ag[a].cs), X) /\ ~(m \in X /\ Has(Tail(ag[a].cs), X))
  BY <1>1, SeqTail
<1>3. m.uid \in Uid /\ m \in LogoutOf(m.uid)
  BY <1>1, <1>2, Kinds DEF LogoutOf
<1>4. Alone(ag[a], LogoutOf(m.uid))
  BY <1>3 DEF IInv, Awaited, Carried
<1>5. At(ag[a], LogoutOf(m.uid)) /\ ~At(q, LogoutOf(m.uid))
  BY <1>2, <1>3, <1>4 DEF At, Alone
<1>6. \A X : Fewer(q, ag[a], X)
  BY <1>2 DEF Fewer, At, Alone
<1> QED
  BY <1>3, <1>5, <1>6, AgentServes

LEMMA CloseDoneStep ==
  ASSUME IInv, NEW a \in Agent, CloseDone(a)
  PROVE  IInv'
<1> DEFINE q == [ag[a] EXCEPT !.csst = "idle", !.cs = Tail(@)]
<1>1. /\ ag[a] \in AgentState /\ ag[a].cs \in Seq(Msg) /\ ag[a].csst = "closing"
      /\ ag[a].cs # << >> /\ ag \in [Agent -> AgentState]
  BY DEF IInv, Typed, AgentState, CloseDone, QueueOK, QueueFor
<1>2. Tail(ag[a].cs) \in Seq(Msg)
  BY <1>1, SeqTail
<1>3. /\ q \in AgentState /\ q.inbox = ag[a].inbox /\ q.cs = Tail(ag[a].cs)
      /\ q.outbox = ag[a].outbox /\ q.csst = "idle"
  BY <1>1, <1>2 DEF AgentState
<1>4. ag' = [ag EXCEPT ![a] = q]
  BY <1>1 DEF CloseDone
<1>5. /\ flow' = [flow EXCEPT ![Head(ag[a].cs).uid].st = "kicked"]
      /\ UNCHANGED << online, users, username_map, internal_id, agent_pool,
                      logouts, notices, spawned >>
  BY DEF CloseDone, gvars
<1> HIDE DEF q
<1>6. ag'[a] = q
  BY <1>1, <1>4
<1>7. QueueFor(a)'
  BY <1>1, <1>3, <1>5, <1>6 DEF IInv, QueueOK, QueueFor, Asked
<1> QED
  BY <1>1, <1>3, <1>4, <1>5, <1>7, QueueServed

LEMMA ReceiveAnswerStep ==
  ASSUME IInv, NEW a \in Agent, ReceiveAnswer(a)
  PROVE  IInv'
<1> DEFINE m == Head(ag[a].inbox)
           r == Taken(a)
<1>1. /\ ag[a] \in AgentState /\ ag[a].inbox \in Seq(Msg) /\ ag[a].cs \in Seq(Msg)
      /\ ag \in [Agent -> AgentState]
      /\ ag[a].inbox # << >> /\ m.t = "answer"
      /\ UNCHANGED << online, users, username_map, internal_id, agent_pool,
                      logouts, notices, spawned >>
  BY DEF IInv, Typed, AgentState, ReceiveAnswer, gvars
<1>2. /\ Tail(ag[a].inbox) \in Seq(Msg) /\ m \in Msg
      /\ \A X : Has(ag[a].inbox, X) <=> m \in X \/ Has(Tail(ag[a].inbox), X)
      /\ \A X : Once(ag[a].inbox, X) =>
           Once(Tail(ag[a].inbox), X) /\ ~(m \in X /\ Has(Tail(ag[a].inbox), X))
  BY <1>1, SeqTail
<1>3. /\ r \in AgentState /\ r.inbox = Tail(ag[a].inbox) /\ r.cs = ag[a].cs
      /\ r.csst = ag[a].csst /\ r.outbox = ag[a].outbox
  BY <1>1, <1>2 DEF Taken, AgentState
<1>4. m.by \in Workers \cup {0} /\ m.ok \in BOOLEAN
  BY <1>1, <1>2, Kinds
<1>5. m.by = 0 => m \in Answer0
  BY <1>1, <1>2 DEF Answer0
<1>6. \/ m.by = 0 /\ LogoutAnswered(a, r, m.ok)
      \/ m.by # 0 /\ WorkerAnswered(a, r, m.by, m.ok)
  BY DEF ReceiveAnswer
<1> HIDE DEF m, r
<1>7. ASSUME NEW q \in AgentState, q.inbox = r.inbox, q.cs = r.cs
      PROVE  \A X : Fewer(q, ag[a], X)
  BY <1>2, <1>3, <1>7 DEF Fewer, At, Alone
<1>8. CASE m.by = 0 /\ LogoutAnswered(a, r, m.ok)
  <2>1. /\ Has(ag[a].inbox, Answer0) /\ ~Has(r.inbox, Answer0) /\ Once(r.inbox, Answer0)
        /\ Once(ag[a].outbox, Call0)
        /\ ag[a].csst = "gate" /\ ~Has(ag[a].outbox, Call0) /\ ~Asked(a)
        /\ ag[a].cs # << >> /\ Head(ag[a].cs).t = "logout"
    BY <1>2, <1>3, <1>5, <1>8 DEF IInv, QueueOK, QueueFor
  <2> DEFINE s == IF m.ok THEN Forget(r) ELSE r
  <2>2. /\ s \in AgentState /\ s.inbox = r.inbox /\ s.cs = r.cs /\ s.outbox = r.outbox
        /\ s.csst = r.csst
    BY <1>3 DEF Forget, AgentState
  <2>3. CASE m.ok /\ r.client
    <3> DEFINE q == [s EXCEPT !.csst = "closing"]
    <3>1. /\ q \in AgentState /\ q.inbox = r.inbox /\ q.cs = r.cs /\ q.outbox = r.outbox
          /\ q.csst = "closing"
      BY <2>2 DEF AgentState
    <3>2. ag' = [ag EXCEPT ![a] = q] /\ flow' = flow
      BY <1>8, <2>3 DEF LogoutAnswered
    <3> HIDE DEF q, s
    <3>3. ag'[a] = q
      BY <1>1, <3>2
    <3>4. QueueFor(a)'
      BY <1>1, <1>3, <2>1, <3>1, <3>3 DEF QueueFor, Asked
    <3> QED
      BY <1>1, <1>7, <3>1, <3>2, <3>4, AgentQuiet
  <2>4. CASE ~(m.ok /\ r.client)
    <3> DEFINE q == [s EXCEPT !.csst = "idle", !.cs = Tail(@)]
    <3>1. Tail(ag[a].cs) \in Seq(Msg)
      BY <1>1, <2>1, SeqTail
    <3>2. /\ q \in AgentState /\ q.inbox = r.inbox /\ q.cs = Tail(ag[a].cs) /\ q.outbox = r.outbox
          /\ q.csst = "idle"
      BY <1>1, <1>3, <2>2, <3>1 DEF AgentState
    <3>3. /\ ag' = [ag EXCEPT ![a] = q]
          /\ flow' = [flow EXCEPT ![Head(ag[a].cs).uid].st = "kicked"]
      BY <1>3, <1>8, <2>4 DEF LogoutAnswered
    <3> HIDE DEF q, s
    <3>4. ag'[a] = q
      BY <1>1, <3>3
    <3>5. QueueFor(a)'
      BY <1>1, <1>3, <2>1, <3>2, <3>4 DEF QueueFor, Asked
    <3>6. \A X : /\ Has(q.inbox, X) => Has(ag[a].inbox, X)
                 /\ Once(ag[a].inbox, X) => Once(q.inbox, X)
      BY <1>2, <1>3, <3>2
    <3> QED
      BY <1>1, <2>1, <3>2, <3>3, <3>5, <3>6, QueueServed
  <2> QED
    BY <2>3, <2>4
<1>9. CASE m.by # 0 /\ WorkerAnswered(a, r, m.by, m.ok)
  <2> DEFINE s == IF m.ok THEN Forget(r) ELSE r
             q == [s EXCEPT !.worker[m.by] = IF m.ok /\ r.client THEN "sleep" ELSE "none"]
  <2>1. /\ s \in AgentState /\ s.inbox = r.inbox /\ s.cs = r.cs /\ s.outbox = r.outbox
        /\ s.csst = r.csst
    BY <1>3 DEF Forget, AgentState
  <2>2. /\ q \in AgentState /\ q.inbox = r.inbox /\ q.cs = r.cs /\ q.outbox = r.outbox
        /\ q.csst = r.csst
    BY <1>4, <2>1 DEF AgentState
  <2>3. ag' = [ag EXCEPT ![a] = q] /\ flow' = flow
    BY <1>9 DEF WorkerAnswered
  <2> HIDE DEF q, s
  <2>4. ag'[a] = q
    BY <1>1, <2>3
  <2>5. m \notin Answer0
    BY <1>9 DEF Answer0
  <2>6. QueueFor(a)'
    BY <1>1, <1>2, <1>3, <2>2, <2>4, <2>5 DEF IInv, QueueOK, QueueFor, Asked
  <2> QED
    BY <1>1, <1>7, <2>2, <2>3, <2>6, AgentQuiet
<1> QED
  BY <1>6, <1>8, <1>9

LEMMA WorkerStep ==
  ASSUME IInv, NEW a \in Agent, NEW w \in Workers, WorkerIdle(a, w) \/ WorkerExit(a, w)
  PROVE  IInv'
<1>1. /\ ag[a] \in AgentState /\ ag \in [Agent -> AgentState] /\ ag[a].outbox \in Seq(Call)
      /\ UNCHANGED << online, flow, users, username_map, internal_id, agent_pool,
                      logouts, notices, spawned >>
  BY DEF IInv, Typed, AgentState, WorkerIdle, WorkerExit, gvars
<1>2. ASSUME NEW q \in AgentState, ag' = [ag EXCEPT ![a] = q],
             q.inbox = ag[a].inbox, q.cs = ag[a].cs, q.csst = ag[a].csst,
             Has(q.outbox, Call0) => Has(ag[a].outbox, Call0),
             Once(ag[a].outbox, Call0) => Once(q.outbox, Call0)
      PROVE  IInv'
  <2>1. ag'[a] = q
    BY <1>1, <1>2
  <2>2. QueueFor(a)'
    BY <1>1, <1>2, <2>1 DEF IInv, QueueOK, QueueFor, Asked
  <2>3. \A X : Fewer(q, ag[a], X)
    BY <1>2 DEF Fewer, At, Alone
  <2> QED
    BY <1>1, <1>2, <2>2, <2>3, AgentQuiet
<1>3. CASE WorkerIdle(a, w) /\ ag[a].sess # None
  <2> DEFINE c == [by |-> w, uid |-> ag[a].sess.uid, subid |-> ag[a].sess.subid]
             q == [CallGate(ag[a], w) EXCEPT !.worker[w] = "gate"]
  <2>1. c \in Call /\ c \notin Call0
    BY <1>1, <1>3 DEF AgentState, Call, Call0, Workers
  <2>2. /\ Append(ag[a].outbox, c) \in Seq(Call)
        /\ \A X : Has(Append(ag[a].outbox, c), X) <=> Has(ag[a].outbox, X) \/ c \in X
        /\ \A X : Once(ag[a].outbox, X) /\ ~(Has(ag[a].outbox, X) /\ c \in X) =>
             Once(Append(ag[a].outbox, c), X)
    BY <1>1, <2>1, SeqAppend
  <2>3. /\ q \in AgentState /\ q.inbox = ag[a].inbox /\ q.cs = ag[a].cs /\ q.csst = ag[a].csst
        /\ q.outbox = Append(ag[a].outbox, c)
    BY <1>1, <2>2 DEF CallGate, AgentState
  <2>4. ag' = [ag EXCEPT ![a] = q]
    BY <1>3 DEF WorkerIdle
  <2> HIDE DEF q, c
  <2> QED
    BY <1>2, <2>1, <2>2, <2>3, <2>4
<1>4. CASE WorkerIdle(a, w) /\ ag[a].sess = None
  <2> DEFINE q == [Forget(ag[a]) EXCEPT !.running = FALSE,
                     !.worker[w] = IF ag[a].client THEN "sleep" ELSE "none"]
  <2>1. /\ q \in AgentState /\ q.inbox = ag[a].inbox /\ q.cs = ag[a].cs /\ q.csst = ag[a].csst
        /\ q.outbox = ag[a].outbox
    BY <1>1 DEF Forget, AgentState
  <2>2. ag' = [ag EXCEPT ![a] = q]
    BY <1>4 DEF WorkerIdle
  <2> HIDE DEF q
  <2> QED
    BY <1>2, <2>1, <2>2
<1>5. CASE WorkerExit(a, w)
  <2> DEFINE q == [ag[a] EXCEPT !.worker[w] = "none"]
  <2>1. /\ q \in AgentState /\ q.inbox = ag[a].inbox /\ q.cs = ag[a].cs /\ q.csst = ag[a].csst
        /\ q.outbox = ag[a].outbox
    BY <1>1 DEF AgentState
  <2>2. ag' = [ag EXCEPT ![a] = q]
    BY <1>1, <1>5 DEF WorkerExit
  <2> HIDE DEF q
  <2> QED
    BY <1>2, <2>1, <2>2
<1> QED
  BY <1>3, <1>4, <1>5

-----------------------------------------------------------------------------
(* The clients and the login master.                                        *)

LEMMA Stutter ==
  ASSUME IInv,
         UNCHANGED << online, flow, users, username_map, internal_id, agent_pool,
                      logouts, notices, spawned, ag >>
  PROVE  IInv'
<1>1. Typed'
  BY DEF IInv, Typed
<1>2. Awaited'
  <2>1. ASSUME NEW v \in Uid
        PROVE  Carried(LoginOf(v), v, "calling")' /\ Carried(LogoutOf(v), v, "kickwait")'
    <3>1. \A X : \A a \in Agent : Fewer(ag'[a], ag[a], X)
      BY DEF Fewer
    <3>2. Carried(LoginOf(v), v, "calling")'
      BY <3>1, CarriedFewer DEF IInv, Awaited
    <3>3. Carried(LogoutOf(v), v, "kickwait")'
      BY <3>1, CarriedFewer DEF IInv, Awaited
    <3> QED
      BY <3>2, <3>3
  <2> QED
    BY <2>1 DEF IInv, Awaited, Has, Once
<1>3. QueueOK'
  BY QueueKept DEF IInv, QueueOK, AskedOnce
<1>4. NotedOnce'
  BY DEF IInv, NotedOnce, Once, Has
<1>5. Conserved'
  <2>1. \A v \in Uid : (Calls(v)' <=> Calls(v)) /\ (flow'[v].st = "spawn" => users[v] = None)
    BY DEF IInv, Conserved, Calls
  <2> QED
    BY <2>1, ConservedKept DEF IInv
<1> QED
  BY <1>1, <1>2, <1>3, <1>4, <1>5 DEF IInv

LEMMA ClientStep ==
  ASSUME IInv, NEW uid \in Uid, Auth(uid) \/ Disconnect(uid)
  PROVE  IInv'
<1>1. /\ UNCHANGED << online, flow, users, username_map, internal_id, agent_pool,
                      logouts, notices, spawned >>
      /\ ag \in [Agent -> AgentState]
  BY DEF IInv, Typed, Auth, Disconnect, gvars
<1>2. PICK m \in {AuthMsg, AfkMsg} : \E x : Send(x, m)
  <2>1. CASE Auth(uid)
    BY <2>1 DEF Auth
  <2>2. CASE Disconnect(uid)
    BY <2>2 DEF Disconnect
  <2> QED
    BY <2>1, <2>2
<1>3. PICK b : Send(b, m)
  BY <1>2
<1>4. CASE b \in Agent
  BY <1>1, <1>3, <1>4, ToldAgent
<1>5. CASE b \notin Agent
  <2>1. ag' = ag
    BY <1>1, <1>3, <1>5 DEF Send
  <2> QED
    BY <1>1, <2>1, Stutter
<1> QED
  BY <1>4, <1>5

LEMMA LoginStartStep ==
  ASSUME IInv, NEW uid \in Uid, LoginStart(uid)
  PROVE  IInv'
<1> DEFINE f == IF online[uid] = None
                  THEN [Idle EXCEPT !.st = "login"]
                  ELSE [Idle EXCEPT !.st = "kick", !.subid = online[uid]]
<1>1. /\ f \in [st : FlowSt, id : Nat, subid : Nat, agent : Agent \cup {None}]
      /\ f.st \in Resting /\ f.st # "spawn" /\ flow[uid].st \in Resting
  BY DEF IInv, Typed, Idle, FlowSt, Resting, LoginStart
<1>2. /\ flow' = [flow EXCEPT ![uid] = f]
      /\ internal_id' \in Nat /\ online' \in [Uid -> Nat \cup {None}]
      /\ UNCHANGED << users, username_map, agent_pool, logouts, notices, spawned, ag >>
  BY DEF LoginStart, IInv, Typed, gvars
<1> QED
  BY <1>1, <1>2, FlowMove

LEMMA MasterMove ==
  ASSUME IInv, NEW uid \in Uid, MasterStep(uid)
  PROVE  IInv'
<1>1. PICK f \in {[Idle EXCEPT !.st = "login"], Idle} : flow' = [flow EXCEPT ![uid] = f]
  BY DEF MasterStep, AfterKick, LoginDone
<1>2. /\ f \in [st : FlowSt, id : Nat, subid : Nat, agent : Agent \cup {None}]
      /\ f.st \in Resting /\ f.st # "spawn"
  BY DEF Idle, FlowSt, Resting
<1>3. flow[uid].st \in Resting
  BY DEF MasterStep, AfterKick, LoginDone, Resting
<1>4. /\ internal_id' \in Nat /\ online' \in [Uid -> Nat \cup {None}]
      /\ UNCHANGED << users, username_map, agent_pool, logouts, notices, spawned, ag >>
  BY DEF MasterStep, AfterKick, LoginDone, IInv, Typed, gvars
<1> QED
  BY <1>1, <1>2, <1>3, <1>4, FlowMove

-----------------------------------------------------------------------------
(* The gate.                                                                *)

(* The login of uid goes on to wait for the message that agent b is sent:    *)
(* its login, or the logout of the session that it kicks.                   *)
LEMMA Dispatch ==
  ASSUME IInv, NEW uid \in Uid, NEW b \in Agent, NEW m \in Msg, NEW f, Send(b, m),
         flow[uid].st \notin {"calling", "kickwait", "kicknotify"},
         flow' = [flow EXCEPT ![uid] = f],
         \/ f.st = "calling" /\ \E id \in Nat : m = LoginMsg(uid, id)
         \/ f.st = "kickwait" /\ m = LogoutMsg(uid),
         UNCHANGED << logouts, notices >>
  PROVE  ag' \in [Agent -> AgentState] /\ Awaited' /\ QueueOK' /\ NotedOnce'
<1> DEFINE r == [ag[b] EXCEPT !.inbox = Append(@, m)]
<1>1. ag[b] \in AgentState /\ ag \in [Agent -> AgentState]
  BY DEF IInv, Typed
<1>2. /\ r \in AgentState
      /\ r.cs = ag[b].cs /\ r.csst = ag[b].csst /\ r.outbox = ag[b].outbox
      /\ \A X : Has(r.inbox, X) <=> Has(ag[b].inbox, X) \/ m \in X
      /\ \A X : Once(ag[b].inbox, X) /\ ~(Has(ag[b].inbox, X) /\ m \in X) => Once(r.inbox, X)
      /\ \A X : m \notin X => Fewer(r, ag[b], X)
  BY <1>1, Received
<1>3. ag' = [ag EXCEPT ![b] = r]
  BY <1>1 DEF Send
<1> HIDE DEF r
<1>4. ag' \in [Agent -> AgentState] /\ ag'[b] = r /\ \A c \in Agent : c # b => ag'[c] = ag[c]
  BY <1>1, <1>2, <1>3
<1>5. flow'[uid] = f /\ \A v \in Uid : v # uid => flow'[v] = flow[v]
  BY DEF IInv, Typed
<1>6. /\ m \notin Answer0
      /\ f.st = "calling" => \A v \in Uid : m \notin LogoutOf(v) /\ (m \in LoginOf(v) <=> v = uid)
      /\ f.st = "kickwait" => \A v \in Uid : m \notin LoginOf(v) /\ (m \in LogoutOf(v) <=> v = uid)
  BY Messages
<1>7. ASSUME NEW X, NEW st \in {"calling", "kickwait"}, NEW v \in Uid, Carried(X, v, st),
             m \in X => v = uid /\ f.st = st
      PROVE  Carried(X, v, st)'
  <2>1. CASE m \notin X
    <3>1. flow[v].st = st => flow'[v].st = st
      BY <1>5
    <3> QED
      BY <1>1, <1>2, <1>3, <1>7, <2>1, <3>1, AgentFewer
  <2>2. CASE m \in X
    <3>1. ~At(ag[b], X) /\ Alone(ag[b], X)
      BY <1>7, <2>2 DEF Carried
    <3>2. Has(ag'[b].inbox, X) /\ Once(ag'[b].inbox, X)
      BY <1>2, <1>4, <2>2, <3>1 DEF At, Alone
    <3> QED
      BY <1>2, <1>4, <1>5, <1>7, <2>2, <3>2, CarriedSent
  <2> QED
    BY <2>1, <2>2
<1>8. Awaited'
  <2> SUFFICES ASSUME NEW v \in Uid
               PROVE  /\ Carried(LoginOf(v), v, "calling")' /\ Carried(LogoutOf(v), v, "kickwait")'
                      /\ (Once(notices, KickNote(v)))'
                      /\ (Has(notices, KickNote(v)) => flow[v].st = "kicknotify")'
    BY DEF Awaited
  <2>1. /\ Carried(LoginOf(v), v, "calling") /\ Carried(LogoutOf(v), v, "kickwait")
        /\ Once(notices, KickNote(v))
        /\ Has(notices, KickNote(v)) => flow[v].st = "kicknotify"
    BY DEF IInv, Awaited
  <2>2. Carried(LoginOf(v), v, "calling")'
    BY <1>6, <1>7, <2>1
  <2>3. Carried(LogoutOf(v), v, "kickwait")'
    BY <1>6, <1>7, <2>1
  <2> QED
    BY <1>5, <2>1, <2>2, <2>3 DEF Once, Has
<1>9. QueueOK'
  <2>1. ASSUME NEW c \in Agent PROVE QueueFor(c)'
    <3>1. QueueFor(c)
      BY DEF IInv, QueueOK
    <3>2. CASE c # b
      BY <1>4, <3>1, <3>2, QueueKept
    <3>3. CASE c = b
      BY <1>2, <1>4, <1>6, <3>1, <3>3 DEF QueueFor, Asked
    <3> QED
      BY <3>2, <3>3
  <2> QED
    BY <2>1 DEF IInv, QueueOK, AskedOnce
<1>10. NotedOnce'
  BY DEF IInv, NotedOnce, Once, Has
<1> QED
  BY <1>4, <1>8, <1>9, <1>10

LEMMA KickHandlerStep ==
  ASSUME IInv, NEW uid \in Uid, KickHandler(uid)
  PROVE  IInv'
<1>1. /\ flow[uid].st = "kick"
      /\ UNCHANGED << online, users, username_map, internal_id, agent_pool,
                      logouts, spawned >>
      /\ flow \in [Uid -> [st : FlowSt, id : Nat, subid : Nat, agent : Agent \cup {None}]]
      /\ ag \in [Agent -> AgentState] /\ notices \in Seq(Told)
  BY DEF KickHandler, gvars, IInv, Typed
<1>2. CASE /\ Names(uid, flow[uid].subid)
           /\ flow' = [flow EXCEPT ![uid].st = "kickwait"]
           /\ Send(users[uid].agent, LogoutMsg(uid))
           /\ UNCHANGED notices
  <2> DEFINE f == [flow[uid] EXCEPT !.st = "kickwait"]
  <2>1. /\ f \in [st : FlowSt, id : Nat, subid : Nat, agent : Agent \cup {None}]
        /\ f.st = "kickwait" /\ flow' = [flow EXCEPT ![uid] = f]
    BY <1>1, <1>2 DEF FlowSt
  <2>2. users[uid].agent \in Agent
    BY <1>2 DEF Names, IInv, Typed, U
  <2>3. LogoutMsg(uid) \in Msg
    BY Messages
  <2> HIDE DEF f
  <2>4. ag' \in [Agent -> AgentState] /\ Awaited' /\ QueueOK' /\ NotedOnce'
    BY <1>1, <1>2, <2>1, <2>2, <2>3, Dispatch
  <2>5. \A v \in Uid : /\ Calls(v)' <=> Calls(v)
                       /\ Calls(v) => flow'[v].agent = flow[v].agent
                       /\ flow'[v].st = "spawn" => users[v] = None
    BY <1>1, <2>1 DEF IInv, Conserved, Calls
  <2>6. Conserved'
    BY <1>1, <2>5, ConservedKept DEF IInv
  <2>7. Typed'
    BY <1>1, <1>2, <2>1, <2>4 DEF IInv, Typed
  <2> QED
    BY <2>4, <2>6, <2>7 DEF IInv
<1>3. CASE /\ flow' = [flow EXCEPT ![uid].st = "kickfailed"]
           /\ UNCHANGED << notices, ag >>
  <2> DEFINE f == [flow[uid] EXCEPT !.st = "kickfailed"]
  <2>1. /\ f \in [st : FlowSt, id : Nat, subid : Nat, agent : Agent \cup {None}]
        /\ f.st \in Resting /\ f.st # "spawn" /\ flow[uid].st \in Resting
        /\ flow' = [flow EXCEPT ![uid] = f]
    BY <1>1, <1>3 DEF FlowSt, Resting
  <2>2. internal_id' \in Nat /\ online' \in [Uid -> Nat \cup {None}]
    BY <1>1 DEF IInv, Typed
  <2> QED
    BY <1>1, <1>3, <2>1, <2>2, FlowMove
<1>4. CASE /\ flow' = [flow EXCEPT ![uid].st = "kicknotify"]
           /\ notices' = Append(notices, [uid |-> uid, for |-> "kick"])
           /\ UNCHANGED ag
  <2> DEFINE n == [uid |-> uid, for |-> "kick"]
  <2>1. /\ n \in Told /\ \A v \in Uid : n \in KickNote(v) <=> v = uid
        /\ \A l \in Out : n \notin LogoutNote(l)
    BY Notes
  <2>2. /\ notices' \in Seq(Told)
        /\ \A X : Has(notices', X) <=> Has(notices, X) \/ n \in X
        /\ \A X : Once(notices, X) /\ ~(Has(notices, X) /\ n \in X) => Once(notices', X)
    BY <1>1, <1>4, <2>1, SeqAppend
  <2> HIDE DEF n
  <2>3. /\ flow' \in [Uid -> [st : FlowSt, id : Nat, subid : Nat, agent : Agent \cup {None}]]
        /\ flow'[uid].st = "kicknotify" /\ \A v \in Uid : v # uid => flow'[v] = flow[v]
    BY <1>1, <1>4 DEF FlowSt
  <2>4. Typed'
    BY <1>1, <1>4, <2>2, <2>3 DEF IInv, Typed
  <2>5. Awaited'
    <3> SUFFICES ASSUME NEW v \in Uid
                 PROVE  /\ Carried(LoginOf(v), v, "calling")' /\ Carried(LogoutOf(v), v, "kickwait")'
                        /\ (Once(notices, KickNote(v)))'
                        /\ (Has(notices, KickNote(v)) => flow[v].st = "kicknotify")'
      BY DEF Awaited
    <3>1. /\ Carried(LoginOf(v), v, "calling") /\ Carried(LogoutOf(v), v, "kickwait")
          /\ Once(notices, KickNote(v))
          /\ Has(notices, KickNote(v)) => flow[v].st = "kicknotify"
      BY DEF IInv, Awaited
    <3>2. \A X : \A a \in Agent : Fewer(ag'[a], ag[a], X)
      BY <1>4 DEF Fewer
    <3>3. \A st \in {"calling", "kickwait"} : flow[v].st = st => flow'[v].st = st
      BY <1>1, <2>3
    <3>4. Carried(LoginOf(v), v, "calling")'
      BY <3>1, <3>2, <3>3, CarriedFewer
    <3>5. Carried(LogoutOf(v), v, "kickwait")'
      BY <3>1, <3>2, <3>3, CarriedFewer
    <3>6. Once(notices', KickNote(v)) /\ (Has(notices', KickNote(v)) => flow'[v].st = "kicknotify")
      BY <1>1, <2>1, <2>2, <2>3, <3>1
    <3> QED
      BY <3>4, <3>5, <3>6
  <2>6. QueueOK'
    BY <1>1, <1>4, QueueKept DEF IInv, QueueOK, AskedOnce
  <2>7. NotedOnce'
    BY <1>1, <2>1, <2>2 DEF IInv, NotedOnce
  <2>8. \A v \in Uid : /\ Calls(v)' <=> Calls(v)
                       /\ Calls(v) => flow'[v].agent = flow[v].agent
                       /\ flow'[v].st = "spawn" => users[v] = None
    BY <1>1, <2>3 DEF IInv, Conserved, Calls
  <2>9. Conserved'
    BY <1>1, <2>8, ConservedKept DEF IInv
  <2> QED
    BY <2>4, <2>5, <2>6, <2>7, <2>9 DEF IInv
<1> QED
  BY <1>2, <1>3, <1>4 DEF KickHandler

(* Agent b, which login uid has taken from the pool or created, is held by   *)
(* that login and by nothing else.                                          *)
LEMMA TakenByLogin ==
  ASSUME Conserved, NEW uid \in Uid, NEW b \in Agent, ~Calls(uid), users[uid] = None,
         flow'[uid].st = "calling", flow'[uid].agent = b, b # None,
         \A v \in Uid : v # uid => flow'[v] = flow[v],
         UNCHANGED << users, logouts >>,
         ~Serves(b), ~LogsIn(b), ~LogsOut(b), ~InPool(b)',
         \A a \in Agent : a # b => (InPool(a)' <=> InPool(a)) /\ (a \in spawned' <=> a \in spawned),
         b \in spawned',
         \A a \in Agent : Once(agent_pool', {a})
  PROVE  Conserved'
<1>1. \A a \in Agent : LogsIn(a)' <=> LogsIn(a) \/ a = b
  BY DEF LogsIn, Calls
<1>2. \A a \in Agent : Serves(a)' <=> Serves(a)
  BY DEF Serves
<1>3. \A a \in Agent : LogsOut(a)' <=> LogsOut(a)
  BY DEF LogsOut
<1>4. (\A u, v \in Uid : Calls(u) /\ Calls(v) /\ flow[u].agent = flow[v].agent => u = v)'
  <2> SUFFICES ASSUME NEW u \in Uid, NEW v \in Uid, Calls(u)', Calls(v)',
                      flow'[u].agent = flow'[v].agent, u # v
               PROVE  FALSE
    OBVIOUS
  <2>1. CASE u # uid /\ v # uid
    BY <2>1 DEF Conserved, Calls
  <2>2. CASE u = uid \/ v = uid
    BY <2>2 DEF LogsIn, Calls
  <2> QED
    BY <2>1, <2>2
<1>5. (\A v \in Uid : flow[v].st \in {"spawn", "calling", "called"} => users[v] = None)'
  BY DEF Conserved
<1>6. (\A v \in Uid : Calls(v) => flow[v].agent # None)'
  <2> SUFFICES ASSUME NEW v \in Uid, Calls(v)' PROVE flow'[v].agent # None
    OBVIOUS
  <2> QED
    BY DEF Conserved, Calls
<1>7. ASSUME NEW a \in Agent
      PROVE  /\ a \in spawned' <=> InPool(a)' \/ Serves(a)' \/ LogsIn(a)' \/ LogsOut(a)'
             /\ ~(InPool(a)' /\ (Serves(a)' \/ LogsIn(a)' \/ LogsOut(a)'))
             /\ ~(Serves(a)' /\ (LogsIn(a)' \/ LogsOut(a)')) /\ ~(LogsIn(a)' /\ LogsOut(a)')
  BY <1>1, <1>2, <1>3 DEF Conserved
<1> QED
  BY <1>4, <1>5, <1>6, <1>7 DEF Conserved

LEMMA LoginPooledStep ==
  ASSUME IInv, NEW uid \in Uid, flow[uid].st = "login", LoginPooled(uid),
         UNCHANGED << online, logouts, notices >>
  PROVE  IInv'
<1>0. PICK b \in Agent : b = Last(agent_pool)
  BY SeqFront DEF IInv, Typed, LoginPooled
<1> DEFINE f == [st |-> "calling", id |-> internal_id', subid |-> internal_id', agent |-> b]
<1>1. /\ agent_pool' \in Seq(Agent)
      /\ \A X : Has(agent_pool, X) <=> b \in X \/ Has(agent_pool', X)
      /\ \A X : Once(agent_pool, X) => Once(agent_pool', X) /\ ~(b \in X /\ Has(agent_pool', X))
  BY <1>0, SeqFront DEF IInv, Typed, LoginPooled
<1>2. /\ internal_id' \in Nat
      /\ f \in [st : FlowSt, id : Nat, subid : Nat, agent : Agent \cup {None}]
      /\ flow' = [flow EXCEPT ![uid] = f] /\ f.st = "calling" /\ f.agent = b
      /\ Send(b, LoginMsg(uid, internal_id'))
      /\ UNCHANGED << users, username_map, spawned >> /\ users[uid] = None
  BY <1>0 DEF IInv, Typed, LoginPooled, FlowSt
<1> HIDE DEF f
<1>3. LoginMsg(uid, internal_id') \in Msg
  BY <1>2, Messages
<1>4. ag' \in [Agent -> AgentState] /\ Awaited' /\ QueueOK' /\ NotedOnce'
  BY <1>1, <1>2, <1>3, Dispatch
<1>5. /\ flow' \in [Uid -> [st : FlowSt, id : Nat, subid : Nat, agent : Agent \cup {None}]]
      /\ flow'[uid] = f /\ \A v \in Uid : v # uid => flow'[v] = flow[v]
  BY <1>2 DEF IInv, Typed
<1>6. Typed'
  BY <1>1, <1>2, <1>4, <1>5 DEF IInv, Typed
<1>7. Conserved'
  <2>1. Conserved /\ b # None /\ ~Calls(uid)
    BY <1>1, NoneAssumption DEF IInv, Calls
  <2>2. \A a \in Agent :
          /\ Has(agent_pool, {a}) <=> a = b \/ Has(agent_pool', {a})
          /\ Once(agent_pool, {a}) => Once(agent_pool', {a}) /\ ~(a = b /\ Has(agent_pool', {a}))
    <3> SUFFICES ASSUME NEW a \in Agent
                 PROVE  /\ Has(agent_pool, {a}) <=> a = b \/ Has(agent_pool', {a})
                        /\ Once(agent_pool, {a}) =>
                             Once(agent_pool', {a}) /\ ~(a = b /\ Has(agent_pool', {a}))
      OBVIOUS
    <3>1. b \in {a} <=> a = b
      OBVIOUS
    <3> QED
      BY <1>1, <3>1
  <2>3. InPool(b) /\ ~InPool(b)' /\ \A a \in Agent : a # b => (InPool(a)' <=> InPool(a))
    BY <1>1, <2>1, <2>2 DEF InPool, Conserved
  <2>4. b \in spawned /\ ~Serves(b) /\ ~LogsIn(b) /\ ~LogsOut(b)
    BY <1>1, <2>1, <2>3 DEF Conserved
  <2>5. \A a \in Agent : Once(agent_pool', {a})
    BY <2>1, <2>2 DEF Conserved
  <2>6. flow'[uid].st = "calling" /\ flow'[uid].agent = b
    BY <1>2, <1>5
  <2>7. /\ \A a \in Agent : a # b => (InPool(a)' <=> InPool(a)) /\ (a \in spawned' <=> a \in spawned)
        /\ b \in spawned' /\ UNCHANGED << users, logouts >>
    BY <1>2, <2>3, <2>4
  <2> QED
    BY <1>1, <1>2, <1>5, <2>1, <2>3, <2>4, <2>5, <2>6, <2>7, TakenByLogin
<1> QED
  BY <1>4, <1>6, <1>7 DEF IInv

LEMMA SpawnDoneStep ==
  ASSUME IInv, NEW uid \in Uid, SpawnDone(uid)
  PROVE  IInv'
<1>1. PICK b \in Agent \ spawned :
        /\ spawned' = spawned \cup {b}
        /\ flow' = [flow EXCEPT ![uid].st = "calling", ![uid].subid = internal_id,
                                ![uid].agent = b]
        /\ Send(b, LoginMsg(uid, internal_id))
  BY DEF SpawnDone
<1> DEFINE f == [flow[uid] EXCEPT !.st = "calling", !.subid = internal_id, !.agent = b]
<1>2. /\ flow[uid].st = "spawn" /\ internal_id \in Nat
      /\ flow \in [Uid -> [st : FlowSt, id : Nat, subid : Nat, agent : Agent \cup {None}]]
      /\ UNCHANGED << online, users, username_map, internal_id, agent_pool, logouts, notices >>
  BY DEF IInv, Typed, SpawnDone
<1>3. /\ f \in [st : FlowSt, id : Nat, subid : Nat, agent : Agent \cup {None}]
      /\ f.st = "calling" /\ f.agent = b
  BY <1>2 DEF FlowSt
<1>4. flow' = [flow EXCEPT ![uid] = f]
  BY <1>1, <1>2
<1> HIDE DEF f
<1>5. LoginMsg(uid, internal_id) \in Msg
  BY <1>2, Messages
<1>6. ag' \in [Agent -> AgentState] /\ Awaited' /\ QueueOK' /\ NotedOnce'
  BY <1>1, <1>2, <1>3, <1>4, <1>5, Dispatch
<1>7. /\ flow' \in [Uid -> [st : FlowSt, id : Nat, subid : Nat, agent : Agent \cup {None}]]
      /\ flow'[uid] = f /\ \A v \in Uid : v # uid => flow'[v] = flow[v]
  BY <1>2, <1>3, <1>4
<1>8. Typed'
  BY <1>1, <1>2, <1>6, <1>7 DEF IInv, Typed
<1>9. Conserved'
  <2>1. Conserved /\ b # None /\ ~Calls(uid) /\ users[uid] = None
    BY <1>1, <1>2, NoneAssumption DEF IInv, Calls, Conserved
  <2>2. \A a \in Agent : InPool(a)' <=> InPool(a)
    BY <1>2 DEF InPool
  <2>3. ~InPool(b) /\ ~Serves(b) /\ ~LogsIn(b) /\ ~LogsOut(b)
    BY <1>1, <2>1 DEF Conserved
  <2>4. \A a \in Agent : Once(agent_pool', {a})
    BY <1>2, <2>1 DEF Conserved
  <2>5. flow'[uid].st = "calling" /\ flow'[uid].agent = b
    BY <1>3, <1>7
  <2>6. b \in spawned' /\ \A a \in Agent : a # b => (a \in spawned' <=> a \in spawned)
    BY <1>1
  <2> QED
    BY <1>1, <1>2, <1>7, <2>1, <2>2, <2>3, <2>4, <2>5, <2>6, TakenByLogin
<1> QED
  BY <1>6, <1>8, <1>9 DEF IInv

LEMMA LoginHandlerStep ==
  ASSUME IInv, NEW uid \in Uid, LoginHandler(uid)
  PROVE  IInv'
<1>1. flow[uid].st = "login" /\ UNCHANGED << online, logouts, notices >>
  BY DEF LoginHandler
<1>2. CASE LoginPooled(uid)
  BY <1>1, <1>2, LoginPooledStep
<1>3. CASE LoginAlready(uid) \/ LoginSpawn(uid) \/ LoginTooMany(uid)
  <2>1. PICK f \in {Idle, [Idle EXCEPT !.st = "spawn", !.id = internal_id']} :
          flow' = [flow EXCEPT ![uid] = f] /\ (f.st = "spawn" => users[uid] = None)
    BY <1>3 DEF LoginAlready, LoginSpawn, LoginTooMany, Idle
  <2>2. /\ internal_id' \in Nat /\ online' \in [Uid -> Nat \cup {None}]
        /\ UNCHANGED << users, username_map, agent_pool, logouts, notices, spawned, ag >>
    BY <1>1, <1>3 DEF LoginAlready, LoginSpawn, LoginTooMany, IInv, Typed, gvars
  <2>3. /\ f \in [st : FlowSt, id : Nat, subid : Nat, agent : Agent \cup {None}]
        /\ f.st \in Resting
    <3>1. CASE f = Idle
      BY <3>1 DEF Idle, FlowSt, Resting
    <3>2. CASE f = [Idle EXCEPT !.st = "spawn", !.id = internal_id']
      BY <2>2, <3>2 DEF Idle, FlowSt, Resting
    <3> QED
      BY <2>1, <3>1, <3>2
  <2>4. flow[uid].st \in Resting
    BY <1>1 DEF Resting
  <2> QED
    BY <2>1, <2>2, <2>3, <2>4, FlowMove
<1> QED
  BY <1>2, <1>3 DEF LoginHandler

(* The agent of login uid is filed for its user.                            *)
LEMMA LoginReturnStep ==
  ASSUME IInv, NEW uid \in Uid, LoginReturn(uid)
  PROVE  IInv'
<1> DEFINE b == flow[uid].agent
           u == [uid |-> uid, name |-> flow[uid].id, subid |-> flow[uid].subid, agent |-> b]
           f == [Idle EXCEPT !.st = "loggedin", !.subid = internal_id]
<1>1. /\ flow[uid].st = "called" /\ users[uid] = None /\ Calls(uid)
      /\ b \in Agent /\ u \in U /\ u.agent = b /\ u # None
  <2>1. flow[uid].st = "called" /\ Calls(uid)
    BY DEF LoginReturn, Calls
  <2>2. users[uid] = None /\ b # None
    BY <2>1 DEF IInv, Conserved
  <2>3. u \in U /\ b \in Agent
    BY <2>2 DEF IInv, Typed, U
  <2>4. u # None
    BY <2>3, NoneAssumption
  <2> QED
    BY <2>1, <2>2, <2>3, <2>4
<1>2. /\ flow' = [flow EXCEPT ![uid] = f] /\ users' = [users EXCEPT ![uid] = u]
      /\ username_map' = username_map \cup {u}
      /\ UNCHANGED << online, internal_id, agent_pool, logouts, notices, spawned, ag >>
  BY DEF LoginReturn
<1>3. /\ f \in [st : FlowSt, id : Nat, subid : Nat, agent : Agent \cup {None}]
      /\ f.st = "loggedin"
  BY DEF IInv, Typed, Idle, FlowSt
<1> HIDE DEF u, f
<1>4. /\ flow' \in [Uid -> [st : FlowSt, id : Nat, subid : Nat, agent : Agent \cup {None}]]
      /\ flow'[uid].st = "loggedin" /\ \A v \in Uid : v # uid => flow'[v] = flow[v]
      /\ users' \in [Uid -> U \cup {None}] /\ username_map' \subseteq U
      /\ users'[uid] = u /\ \A v \in Uid : v # uid => users'[v] = users[v]
  BY <1>1, <1>2, <1>3 DEF IInv, Typed
<1>5. Typed'
  BY <1>2, <1>4 DEF IInv, Typed
<1>6. Awaited'
  <2>1. ASSUME NEW v \in Uid
        PROVE  /\ Carried(LoginOf(v), v, "calling")' /\ Carried(LogoutOf(v), v, "kickwait")'
               /\ flow[v].st = "kicknotify" => flow'[v].st = "kicknotify"
    <3>1. \A X : \A a \in Agent : Fewer(ag'[a], ag[a], X)
      BY <1>2 DEF Fewer
    <3>2. \A st \in {"calling", "kickwait", "kicknotify"} : flow[v].st = st => flow'[v].st = st
      BY <1>1, <1>4
    <3>3. Carried(LoginOf(v), v, "calling")'
      BY <3>1, <3>2, CarriedFewer DEF IInv, Awaited
    <3>4. Carried(LogoutOf(v), v, "kickwait")'
      BY <3>1, <3>2, CarriedFewer DEF IInv, Awaited
    <3> QED
      BY <3>2, <3>3, <3>4
  <2> QED
    BY <1>2, <2>1 DEF IInv, Awaited, Has, Once
<1>7. QueueOK'
  BY <1>2, QueueKept DEF IInv, QueueOK, AskedOnce
<1>8. NotedOnce'
  BY <1>2 DEF IInv, NotedOnce, Once, Has
<1>9. Conserved'
  <2>1. Conserved
    BY DEF IInv
  <2>2. \A a \in Agent : LogsIn(a)' <=> LogsIn(a) /\ a # b
    <3>1. \A v \in Uid : Calls(v)' <=> Calls(v) /\ v # uid
      BY <1>4 DEF Calls
    <3>2. \A v \in Uid : Calls(v) /\ flow[v].agent = b => v = uid
      BY <1>1, <2>1 DEF Conserved
    <3> QED
      BY <1>1, <1>4, <3>1, <3>2 DEF LogsIn
  <2>3. \A a \in Agent : Serves(a)' <=> Serves(a) \/ a = b
    BY <1>1, <1>4 DEF Serves
  <2>4. \A a \in Agent : (InPool(a)' <=> InPool(a)) /\ (LogsOut(a)' <=> LogsOut(a))
    BY <1>2 DEF InPool, LogsOut
  <2>5. LogsIn(b) /\ ~InPool(b) /\ ~Serves(b) /\ ~LogsOut(b)
    BY <1>1, <2>1 DEF LogsIn, Conserved
  <2>6. ASSUME NEW a \in Agent
        PROVE  /\ a \in spawned' <=> InPool(a)' \/ Serves(a)' \/ LogsIn(a)' \/ LogsOut(a)'
               /\ ~(InPool(a)' /\ (Serves(a)' \/ LogsIn(a)' \/ LogsOut(a)'))
               /\ ~(Serves(a)' /\ (LogsIn(a)' \/ LogsOut(a)')) /\ ~(LogsIn(a)' /\ LogsOut(a)')
    BY <1>2, <2>1, <2>2, <2>3, <2>4, <2>5 DEF Conserved
  <2>7. (\A v, w \in Uid : users[v] # None /\ users[w] # None /\ users[v].agent = users[w].agent => v = w)'
    <3>1. \A v \in Uid : v # uid /\ users'[v] # None => users'[v].agent # b
      BY <1>4, <2>5 DEF Serves
    <3> QED
      BY <1>1, <1>4, <2>1, <3>1 DEF Conserved
  <2>8. \A v \in Uid : Calls(v)' => Calls(v) /\ flow'[v] = flow[v] /\ v # uid
    BY <1>4 DEF Calls
  <2>9. (\A v \in Uid : flow[v].st \in {"spawn", "calling", "called"} => users[v] = None)'
    BY <1>4, <2>1 DEF Conserved
  <2>10. (\A v, w \in Uid : Calls(v) /\ Calls(w) /\ flow[v].agent = flow[w].agent => v = w)'
    BY <2>1, <2>8 DEF Conserved
  <2>11. (\A v \in Uid : Calls(v) => flow[v].agent # None)'
    BY <2>1, <2>8 DEF Conserved
  <2>12. (\A a \in Agent : Once(agent_pool, {a}))'
    BY <1>2, <2>1 DEF Conserved
  <2> QED
    BY <1>2, <2>1, <2>6, <2>7, <2>9, <2>10, <2>11, <2>12 DEF Conserved
<1> QED
  BY <1>5, <1>6, <1>7, <1>8, <1>9 DEF IInv

LEMMA LogoutRefusedStep ==
  ASSUME IInv, NEW a \in Agent, NEW c, ag[a].outbox # << >>, c = Head(ag[a].outbox),
         LogoutRefused(a, c),
         UNCHANGED << online, flow, internal_id, agent_pool, spawned >>
  PROVE  IInv'
<1>1. /\ ag[a] \in AgentState /\ ag[a].outbox \in Seq(Call) /\ ag[a].inbox \in Seq(Msg)
      /\ ag \in [Agent -> AgentState]
  BY DEF IInv, Typed, AgentState
<1>2. /\ Tail(ag[a].outbox) \in Seq(Call) /\ c \in Call
      /\ \A X : Has(ag[a].outbox, X) <=> c \in X \/ Has(Tail(ag[a].outbox), X)
      /\ \A X : Once(ag[a].outbox, X) =>
           Once(Tail(ag[a].outbox), X) /\ ~(c \in X /\ Has(Tail(ag[a].outbox), X))
  BY <1>1, SeqTail
<1>3. PICK ok \in BOOLEAN : AnswerNow(a, c, ok)
  BY DEF LogoutRefused
<1> DEFINE m == Answer(c.by, ok)
           q == [ag[a] EXCEPT !.outbox = Tail(@), !.inbox = Append(@, m)]
<1>4. c.by \in Workers \cup {0}
  BY <1>2 DEF Call
<1>5. /\ m \in Msg /\ (m \in Answer0 <=> c.by = 0)
      /\ \A v \in Uid : m \notin LoginOf(v) /\ m \notin LogoutOf(v)
  BY <1>4, Messages
<1>6. c \in Call0 <=> c.by = 0
  BY <1>2 DEF Call0
<1> HIDE DEF m
<1>7. /\ Append(ag[a].inbox, m) \in Seq(Msg)
      /\ \A X : Has(Append(ag[a].inbox, m), X) <=> Has(ag[a].inbox, X) \/ m \in X
      /\ \A X : Once(ag[a].inbox, X) /\ ~(Has(ag[a].inbox, X) /\ m \in X) =>
           Once(Append(ag[a].inbox, m), X)
  BY <1>1, <1>5, SeqAppend
<1>8. /\ q \in AgentState /\ q.inbox = Append(ag[a].inbox, m) /\ q.cs = ag[a].cs
      /\ q.csst = ag[a].csst /\ q.outbox = Tail(ag[a].outbox)
  BY <1>1, <1>2, <1>7 DEF AgentState
<1>9. ag' = [ag EXCEPT ![a] = q]
  BY <1>1, <1>3 DEF AnswerNow, m
<1> HIDE DEF q
<1>10. ag'[a] = q
  BY <1>1, <1>9
<1>11. UNCHANGED << online, flow, users, username_map, internal_id, agent_pool,
                    logouts, notices, spawned >>
  BY DEF LogoutRefused
<1>12. ASSUME NEW X, m \notin X PROVE Fewer(q, ag[a], X)
  BY <1>7, <1>8, <1>12 DEF Fewer, At, Alone
<1>13. QueueFor(a)'
  <2>1. QueueFor(a)
    BY DEF IInv, QueueOK
  <2>2. /\ Once(q.outbox, Call0)
        /\ Has(q.outbox, Call0) => Has(ag[a].outbox, Call0) /\ c.by # 0
        /\ c.by = 0 => Has(ag[a].outbox, Call0)
    BY <1>2, <1>6, <1>8, <2>1 DEF QueueFor
  <2>3. /\ Once(q.inbox, Answer0)
        /\ Has(q.inbox, Answer0) <=> Has(ag[a].inbox, Answer0) \/ c.by = 0
    BY <1>5, <1>7, <1>8, <2>1, <2>2 DEF QueueFor
  <2>4. Asked(a)' <=> Asked(a)
    BY <1>11 DEF Asked
  <2> QED
    BY <1>8, <1>10, <2>1, <2>2, <2>3, <2>4 DEF QueueFor
<1> QED
  BY <1>5, <1>8, <1>9, <1>11, <1>12, <1>13, AgentQuiet

(* The agent b of the user that is forgotten is held by the logout l.        *)
LEMMA LogoutForgetStep ==
  ASSUME IInv, NEW a \in Agent, NEW c, ag[a].outbox # << >>, c = Head(ag[a].outbox),
         LogoutForget(a, c),
         UNCHANGED << online, flow, internal_id, agent_pool, spawned >>
  PROVE  IInv'
<1>1. /\ ag[a] \in AgentState /\ ag[a].outbox \in Seq(Call) /\ ag[a].inbox \in Seq(Msg)
      /\ ag \in [Agent -> AgentState] /\ notices \in Seq(Told)
  BY DEF IInv, Typed, AgentState
<1>2. /\ Tail(ag[a].outbox) \in Seq(Call) /\ c \in Call
      /\ \A X : Has(ag[a].outbox, X) <=> c \in X \/ Has(Tail(ag[a].outbox), X)
      /\ \A X : Once(ag[a].outbox, X) =>
           Once(Tail(ag[a].outbox), X) /\ ~(c \in X /\ Has(Tail(ag[a].outbox), X))
  BY <1>1, SeqTail
<1>3. c.by \in Workers \cup {0} /\ c.uid \in Uid /\ (c \in Call0 <=> c.by = 0)
  BY <1>2 DEF Call, Call0
<1>4. PICK b \in Agent : users[c.uid].agent = b /\ users[c.uid] # None
  BY <1>3 DEF LogoutForget, Names, IInv, Typed, U
<1>5. PICK l \in Out : l = [from |-> a, by |-> c.by, agent |-> b, st |-> "notify"]
  BY <1>3 DEF Out
<1> DEFINE n == [uid |-> c.uid, for |-> "logout", l |-> l]
           q == [ag[a] EXCEPT !.outbox = Tail(@)]
<1>6. /\ logouts' = logouts \cup {l} /\ notices' = Append(notices, n)
      /\ users' = [users EXCEPT ![c.uid] = None]
      /\ username_map' \subseteq U
  BY <1>4, <1>5 DEF LogoutForget, IInv, Typed
<1>7. ag' = [ag EXCEPT ![a] = q]
  BY <1>1 DEF LogoutForget
<1>8. /\ n \in Told /\ \A v \in Uid : n \notin KickNote(v)
      /\ \A k \in Out : n \in LogoutNote(k) <=> k = l
  BY <1>3, Notes
<1> HIDE DEF n
<1>9. /\ notices' \in Seq(Told)
      /\ \A X : Has(notices', X) <=> Has(notices, X) \/ n \in X
      /\ \A X : Once(notices, X) /\ ~(Has(notices, X) /\ n \in X) => Once(notices', X)
  BY <1>1, <1>6, <1>8, SeqAppend
<1>10. /\ q \in AgentState /\ q.inbox = ag[a].inbox /\ q.cs = ag[a].cs
       /\ q.csst = ag[a].csst /\ q.outbox = Tail(ag[a].outbox)
  BY <1>1, <1>2 DEF AgentState
<1> HIDE DEF q
<1>11. /\ ag' \in [Agent -> AgentState] /\ ag'[a] = q
       /\ \A d \in Agent : d # a => ag'[d] = ag[d]
  BY <1>1, <1>7, <1>10
<1>12. /\ users' \in [Uid -> U \cup {None}] /\ users'[c.uid] = None
       /\ \A v \in Uid : v # c.uid => users'[v] = users[v]
  BY <1>3, <1>6 DEF IInv, Typed
<1>13. Serves(b) /\ ~InPool(b) /\ ~LogsIn(b) /\ ~LogsOut(b) /\ l.agent = b /\ l \notin logouts
  BY <1>3, <1>4, <1>5 DEF IInv, Conserved, Serves, LogsOut
<1>14. Typed'
  BY <1>6, <1>9, <1>11, <1>12 DEF IInv, Typed
<1>15. Awaited'
  <2>1. ASSUME NEW v \in Uid
        PROVE  /\ Carried(LoginOf(v), v, "calling")' /\ Carried(LogoutOf(v), v, "kickwait")'
               /\ Once(notices', KickNote(v))
               /\ Has(notices', KickNote(v)) => flow[v].st = "kicknotify"
    <3>1. \A X : \A d \in Agent : Fewer(ag'[d], ag[d], X)
      BY <1>10, <1>11 DEF Fewer, At, Alone
    <3>2. Carried(LoginOf(v), v, "calling")'
      BY <3>1, CarriedFewer DEF IInv, Awaited
    <3>3. Carried(LogoutOf(v), v, "kickwait")'
      BY <3>1, CarriedFewer DEF IInv, Awaited
    <3>4. Once(notices, KickNote(v)) /\ (Has(notices, KickNote(v)) => flow[v].st = "kicknotify")
      BY DEF IInv, Awaited
    <3>5. /\ Once(notices', KickNote(v))
          /\ Has(notices', KickNote(v)) => flow[v].st = "kicknotify"
      BY <1>8, <1>9, <3>4
    <3> QED
      BY <3>2, <3>3, <3>5
  <2> QED
    BY <2>1 DEF Awaited
<1>16. QueueOK'
  <2>1. AskedOnce /\ \A d \in Agent : QueueFor(d)
    BY DEF IInv, QueueOK
  <2>2. /\ Once(q.outbox, Call0)
        /\ Has(q.outbox, Call0) => Has(ag[a].outbox, Call0) /\ c.by # 0
        /\ c.by = 0 => Has(ag[a].outbox, Call0)
    BY <1>2, <1>3, <1>10, <2>1 DEF QueueFor
  <2>3. \A d \in Agent : Asked(d)' <=> Asked(d) \/ (d = a /\ c.by = 0)
    BY <1>5, <1>6 DEF Asked
  <2>4. AskedOnce'
    BY <1>5, <1>6, <2>1, <2>2 DEF AskedOnce, QueueFor, Asked
  <2>5. ASSUME NEW d \in Agent PROVE QueueFor(d)'
    <3>1. CASE d = a
      BY <1>10, <1>11, <2>1, <2>2, <2>3, <3>1 DEF QueueFor
    <3>2. CASE d # a
      BY <1>11, <2>1, <2>3, <3>2 DEF QueueFor
    <3> QED
      BY <3>1, <3>2
  <2> QED
    BY <2>4, <2>5 DEF QueueOK
<1>17. NotedOnce'
  <2> SUFFICES ASSUME NEW k \in Out
               PROVE  /\ Once(notices', LogoutNote(k))
                      /\ Has(notices', LogoutNote(k)) => k \in logouts' /\ k.st = "notify"
    BY DEF NotedOnce
  <2>1. /\ Once(notices, LogoutNote(k))
        /\ Has(notices, LogoutNote(k)) => k \in logouts /\ k.st = "notify"
    BY DEF IInv, NotedOnce
  <2> QED
    BY <1>5, <1>6, <1>8, <1>9, <1>13, <2>1
<1>18. Conserved'
  <2>1. Conserved
    BY DEF IInv
  <2>2. \A d \in Agent : Serves(d)' <=> Serves(d) /\ d # b
    <3>1. \A v \in Uid : users[v] # None /\ users[v].agent = b => v = c.uid
      BY <1>3, <1>4, <2>1 DEF Conserved
    <3> QED
      BY <1>3, <1>4, <1>12, <3>1 DEF Serves
  <2>3. \A d \in Agent : LogsOut(d)' <=> LogsOut(d) \/ d = b
    BY <1>6, <1>13 DEF LogsOut
  <2>4. \A d \in Agent : (InPool(d)' <=> InPool(d)) /\ (LogsIn(d)' <=> LogsIn(d))
    BY DEF InPool, LogsIn, Calls
  <2>5. ASSUME NEW d \in Agent
        PROVE  /\ d \in spawned' <=> InPool(d)' \/ Serves(d)' \/ LogsIn(d)' \/ LogsOut(d)'
               /\ ~(InPool(d)' /\ (Serves(d)' \/ LogsIn(d)' \/ LogsOut(d)'))
               /\ ~(Serves(d)' /\ (LogsIn(d)' \/ LogsOut(d)')) /\ ~(LogsIn(d)' /\ LogsOut(d)')
    BY <1>13, <2>1, <2>2, <2>3, <2>4 DEF Conserved
  <2>6. \A v \in Uid : users'[v] # None => users'[v] = users[v]
    BY <1>12
  <2>7. (\A v, w \in Uid : users[v] # None /\ users[w] # None /\ users[v].agent = users[w].agent => v = w)'
    BY <2>1, <2>6 DEF Conserved
  <2>8. (\A j, k \in logouts : j.agent = k.agent => j = k)'
    <3>1. \A k \in logouts : k.agent # b
      BY <1>13 DEF LogsOut
    <3> QED
      BY <1>6, <1>13, <2>1, <3>1 DEF Conserved
  <2>9. (\A v \in Uid : flow[v].st \in {"spawn", "calling", "called"} => users[v] = None)'
    BY <1>12, <2>1 DEF Conserved
  <2>10. /\ (\A v, w \in Uid : Calls(v) /\ Calls(w) /\ flow[v].agent = flow[w].agent => v = w)'
         /\ (\A v \in Uid : Calls(v) => flow[v].agent # None)'
    BY <2>1 DEF Conserved, Calls
  <2>11. (\A d \in Agent : Once(agent_pool, {d}))'
    BY <2>1 DEF Conserved
  <2> QED
    BY <2>5, <2>7, <2>8, <2>9, <2>10, <2>11 DEF Conserved
<1> QED
  BY <1>14, <1>15, <1>16, <1>17, <1>18 DEF IInv

LEMMA LogoutHandlerStep ==
  ASSUME IInv, NEW a \in Agent, LogoutHandler(a)
  PROVE  IInv'
BY LogoutRefusedStep, LogoutForgetStep DEF LogoutHandler

LEMMA NoticeStep ==
  ASSUME IInv, Notice
  PROVE  IInv'
<1>1. /\ notices \in Seq(Told) /\ notices # << >>
      /\ UNCHANGED << users, username_map, internal_id, agent_pool, spawned, ag >>
      /\ flow \in [Uid -> [st : FlowSt, id : Nat, subid : Nat, agent : Agent \cup {None}]]
  BY DEF IInv, Typed, Notice, gvars
<1>2. PICK n \in Told : n = Head(notices)
  BY <1>1, SeqTail
<1>3. /\ notices' \in Seq(Told)
      /\ \A X : Has(notices, X) <=> n \in X \/ Has(notices', X)
      /\ \A X : Once(notices, X) => Once(notices', X) /\ ~(n \in X /\ Has(notices', X))
  BY <1>1, <1>2, SeqTail DEF Notice
<1>4. n.uid \in Uid /\ n.for \in {"kick", "logout"} /\ (n.for = "logout" => n.l \in Out)
  BY Kinds
<1>5. online' \in [Uid -> Nat \cup {None}]
  BY <1>2, <1>4 DEF IInv, Typed, Notice
<1>6. ASSUME \A v \in Uid : \A st \in {"calling", "kickwait"} : flow[v].st = st => flow'[v].st = st
      PROVE  \A v \in Uid : Carried(LoginOf(v), v, "calling")' /\ Carried(LogoutOf(v), v, "kickwait")'
  <2> SUFFICES ASSUME NEW v \in Uid
               PROVE  Carried(LoginOf(v), v, "calling")' /\ Carried(LogoutOf(v), v, "kickwait")'
    OBVIOUS
  <2>1. \A X : \A a \in Agent : Fewer(ag'[a], ag[a], X)
    BY <1>1 DEF Fewer
  <2>2. Carried(LoginOf(v), v, "calling")'
    BY <1>6, <2>1, CarriedFewer DEF IInv, Awaited
  <2>3. Carried(LogoutOf(v), v, "kickwait")'
    BY <1>6, <2>1, CarriedFewer DEF IInv, Awaited
  <2> QED
    BY <2>2, <2>3
<1>7. \A v \in Uid : /\ Once(notices', KickNote(v))
                     /\ Has(notices', KickNote(v)) => flow[v].st = "kicknotify"
                     /\ Has(notices', KickNote(v)) => n \notin KickNote(v)
  BY <1>3 DEF IInv, Awaited
<1>8. \A k \in Out : /\ Once(notices', LogoutNote(k))
                     /\ Has(notices', LogoutNote(k)) =>
                          k \in logouts /\ k.st = "notify" /\ n \notin LogoutNote(k)
  BY <1>3 DEF IInv, NotedOnce
<1>9. CASE /\ n.for = "kick"
           /\ flow' = [flow EXCEPT ![n.uid].st = "kicked"]
           /\ UNCHANGED logouts
  <2>1. n \in KickNote(n.uid)
    BY <1>9 DEF KickNote
  <2>2. flow[n.uid].st = "kicknotify"
    BY <1>3, <1>4, <2>1 DEF IInv, Awaited
  <2>3. /\ flow' \in [Uid -> [st : FlowSt, id : Nat, subid : Nat, agent : Agent \cup {None}]]
        /\ flow'[n.uid].st = "kicked" /\ \A v \in Uid : v # n.uid => flow'[v] = flow[v]
    BY <1>1, <1>4, <1>9 DEF FlowSt
  <2>4. Typed'
    BY <1>1, <1>3, <1>5, <1>9, <2>3 DEF IInv, Typed
  <2>5. Awaited'
    <3>1. \A v \in Uid : \A st \in {"calling", "kickwait"} : flow[v].st = st => flow'[v].st = st
      BY <2>2, <2>3
    <3>2. \A v \in Uid : Has(notices', KickNote(v)) => flow'[v].st = "kicknotify"
      BY <1>7, <2>1, <2>3
    <3> QED
      BY <1>6, <1>7, <3>1, <3>2 DEF Awaited
  <2>6. QueueOK'
    BY <1>1, <1>9, QueueKept DEF IInv, QueueOK, AskedOnce
  <2>7. NotedOnce'
    BY <1>8, <1>9 DEF NotedOnce
  <2>8. \A v \in Uid : /\ Calls(v)' <=> Calls(v)
                       /\ Calls(v) => flow'[v].agent = flow[v].agent
                       /\ flow'[v].st = "spawn" => users[v] = None
    BY <2>2, <2>3 DEF IInv, Conserved, Calls
  <2>9. Conserved'
    BY <1>1, <1>9, <2>8, ConservedKept DEF IInv
  <2> QED
    BY <2>4, <2>5, <2>6, <2>7, <2>9 DEF IInv
<1>10. CASE /\ n.for = "logout"
            /\ logouts' = (logouts \ {n.l}) \cup {[n.l EXCEPT !.st = "notified"]}
            /\ UNCHANGED flow
  <2>1. n.l \in Out /\ n \in LogoutNote(n.l)
    BY <1>4, <1>10 DEF LogoutNote
  <2>2. n.l \in logouts /\ n.l.st = "notify"
    BY <1>3, <2>1 DEF IInv, NotedOnce
  <2>3. PICK l \in Out : l = [n.l EXCEPT !.st = "notified"]
    BY <2>1 DEF Out
  <2>4. /\ l.from = n.l.from /\ l.by = n.l.by /\ l.agent = n.l.agent
        /\ logouts' = (logouts \ {n.l}) \cup {l}
    BY <1>10, <2>1, <2>3 DEF Out
  <2>5. Typed'
    BY <1>1, <1>3, <1>5, <1>10, <2>4 DEF IInv, Typed
  <2>6. Awaited'
    BY <1>6, <1>7, <1>10 DEF Awaited
  <2>7. QueueOK'
    <3>1. \A a \in Agent : Asked(a)' <=> Asked(a)
      BY <2>2, <2>4 DEF Asked
    <3>2. \A a \in Agent : QueueFor(a)'
      BY <1>1, <3>1 DEF IInv, QueueOK, QueueFor
    <3>3. AskedOnce'
      BY <2>2, <2>4 DEF IInv, QueueOK, AskedOnce
    <3> QED
      BY <3>2, <3>3 DEF QueueOK
  <2>8. NotedOnce'
    <3> SUFFICES ASSUME NEW k \in Out
                 PROVE  /\ Once(notices', LogoutNote(k))
                        /\ Has(notices', LogoutNote(k)) => k \in logouts' /\ k.st = "notify"
      BY DEF NotedOnce
    <3> QED
      BY <1>8, <2>1, <2>4
  <2>9. Conserved'
    <3>1. Conserved
      BY DEF IInv
    <3>2. \A a \in Agent : LogsOut(a)' <=> LogsOut(a)
      BY <2>2, <2>4 DEF LogsOut
    <3>3. \A a \in Agent : /\ InPool(a)' <=> InPool(a)
                           /\ Serves(a)' <=> Serves(a)
                           /\ LogsIn(a)' <=> LogsIn(a)
      BY <1>1, <1>10 DEF InPool, Serves, LogsIn, Calls
    <3>4. (\A j, k \in logouts : j.agent = k.agent => j = k)'
      BY <2>2, <2>4, <3>1 DEF Conserved
    <3>5. (\A v \in Uid : flow[v].st \in {"spawn", "calling", "called"} => users[v] = None)'
      BY <1>1, <1>10, <3>1 DEF Conserved
    <3>6. /\ (\A v, w \in Uid : Calls(v) /\ Calls(w) /\ flow[v].agent = flow[w].agent => v = w)'
          /\ (\A v \in Uid : Calls(v) => flow[v].agent # None)'
      BY <1>10, <3>1 DEF Conserved, Calls
    <3>7. /\ (\A a \in Agent : Once(agent_pool, {a}))'
          /\ (\A v, w \in Uid : users[v] # None /\ users[w] # None /\ users[v].agent = users[w].agent => v = w)'
      BY <1>1, <3>1 DEF Conserved
    <3>8. ASSUME NEW a \in Agent
          PROVE  /\ a \in spawned' <=> InPool(a)' \/ Serves(a)' \/ LogsIn(a)' \/ LogsOut(a)'
                 /\ ~(InPool(a)' /\ (Serves(a)' \/ LogsIn(a)' \/ LogsOut(a)'))
                 /\ ~(Serves(a)' /\ (LogsIn(a)' \/ LogsOut(a)')) /\ ~(LogsIn(a)' /\ LogsOut(a)')
      BY <1>1, <3>1, <3>2, <3>3 DEF Conserved
    <3> QED
      BY <3>4, <3>5, <3>6, <3>7, <3>8 DEF Conserved
  <2> QED
    BY <2>5, <2>6, <2>7, <2>8, <2>9 DEF IInv
<1> QED
  BY <1>2, <1>9, <1>10 DEF Notice

(* The agent b that logout l held is free again, and agent a is answered.    *)
LEMMA LogoutReturnStep ==
  ASSUME IInv, NEW l \in logouts, LogoutReturn(l)
  PROVE  IInv'
<1>1. /\ l \in Out /\ ag \in [Agent -> AgentState] /\ agent_pool \in Seq(Agent)
      /\ logouts' = logouts \ {l} /\ l.st = "notified"
      /\ UNCHANGED << online, flow, users, username_map, internal_id, notices, spawned >>
  BY DEF IInv, Typed, LogoutReturn
<1>2. PICK a \in Agent, b \in Agent : a = l.from /\ b = l.agent
  BY <1>1 DEF Out
<1>3. l.by \in Workers \cup {0}
  BY <1>1 DEF Out
<1> DEFINE m == Answer(l.by, TRUE)
           r == [ag[a] EXCEPT !.inbox = Append(@, m)]
<1>4. /\ m \in Msg /\ (m \in Answer0 <=> l.by = 0)
      /\ \A v \in Uid : m \notin LoginOf(v) /\ m \notin LogoutOf(v)
  BY <1>3, Messages
<1>5. ag' = [ag EXCEPT ![a] = r] /\ agent_pool' = Append(agent_pool, b)
  BY <1>1, <1>2 DEF LogoutReturn, Send
<1> HIDE DEF m
<1>6. ag[a] \in AgentState
  BY <1>1
<1>7. /\ r \in AgentState
      /\ r.cs = ag[a].cs /\ r.csst = ag[a].csst /\ r.outbox = ag[a].outbox
      /\ \A X : Has(r.inbox, X) <=> Has(ag[a].inbox, X) \/ m \in X
      /\ \A X : Once(ag[a].inbox, X) /\ ~(Has(ag[a].inbox, X) /\ m \in X) => Once(r.inbox, X)
      /\ \A X : m \notin X => Fewer(r, ag[a], X)
  BY <1>4, <1>6, Received
<1> HIDE DEF r
<1>8. /\ ag' \in [Agent -> AgentState] /\ ag'[a] = r
      /\ \A d \in Agent : d # a => ag'[d] = ag[d]
  BY <1>1, <1>5, <1>7
<1>9. /\ agent_pool' \in Seq(Agent)
      /\ \A X : Has(agent_pool', X) <=> Has(agent_pool, X) \/ b \in X
      /\ \A X : Once(agent_pool, X) /\ ~(Has(agent_pool, X) /\ b \in X) => Once(agent_pool', X)
  BY <1>1, <1>5, SeqAppend
<1>10. Typed'
  BY <1>1, <1>8, <1>9 DEF IInv, Typed
<1>11. Awaited'
  <2>1. ASSUME NEW v \in Uid
        PROVE  Carried(LoginOf(v), v, "calling")' /\ Carried(LogoutOf(v), v, "kickwait")'
    <3>1. Fewer(r, ag[a], LoginOf(v)) /\ Fewer(r, ag[a], LogoutOf(v))
      BY <1>4, <1>7
    <3>2. Carried(LoginOf(v), v, "calling") /\ Carried(LogoutOf(v), v, "kickwait")
      BY DEF IInv, Awaited
    <3>3. Carried(LoginOf(v), v, "calling")'
      BY <1>1, <1>5, <1>7, <3>1, <3>2, AgentFewer
    <3>4. Carried(LogoutOf(v), v, "kickwait")'
      BY <1>1, <1>5, <1>7, <3>1, <3>2, AgentFewer
    <3> QED
      BY <3>3, <3>4
  <2> QED
    BY <1>1, <2>1 DEF IInv, Awaited, Has, Once
<1>12. QueueOK'
  <2>1. AskedOnce /\ \A d \in Agent : QueueFor(d)
    BY DEF IInv, QueueOK
  <2>2. AskedOnce'
    BY <1>1, <2>1 DEF AskedOnce
  <2>3. /\ \A d \in Agent : Asked(d)' => Asked(d)
        /\ l.by = 0 => Asked(a) /\ ~Asked(a)'
    BY <1>1, <1>2, <2>1 DEF Asked, AskedOnce
  <2>4. ASSUME NEW d \in Agent PROVE QueueFor(d)'
    <3>1. CASE d = a
      BY <1>4, <1>7, <1>8, <2>1, <2>3, <3>1 DEF QueueFor
    <3>2. CASE d # a
      BY <1>8, <2>1, <2>3, <3>2 DEF QueueFor
    <3> QED
      BY <3>1, <3>2
  <2> QED
    BY <2>2, <2>4 DEF QueueOK
<1>13. NotedOnce'
  BY <1>1 DEF IInv, NotedOnce, Once, Has
<1>14. Conserved'
  <2>1. Conserved
    BY DEF IInv
  <2>2. \A d \in Agent : LogsOut(d)' <=> LogsOut(d) /\ d # b
    BY <1>1, <1>2, <2>1 DEF LogsOut, Conserved
  <2>3. LogsOut(b) /\ ~InPool(b) /\ ~Serves(b) /\ ~LogsIn(b)
    BY <1>2, <2>1 DEF LogsOut, Conserved
  <2>4. ASSUME NEW d \in Agent
        PROVE  (InPool(d)' <=> InPool(d) \/ d = b) /\ Once(agent_pool', {d})
    <3>1. b \in {d} <=> d = b
      OBVIOUS
    <3>2. Once(agent_pool, {d}) /\ ~(Has(agent_pool, {d}) /\ b \in {d})
      BY <2>1, <2>3, <3>1 DEF Conserved, InPool
    <3>3. Once(agent_pool', {d})
      BY <1>9, <3>2
    <3>4. Has(agent_pool', {d}) <=> Has(agent_pool, {d}) \/ d = b
      BY <1>9, <3>1
    <3> QED
      BY <3>3, <3>4 DEF InPool
  <2>5. \A d \in Agent : (Serves(d)' <=> Serves(d)) /\ (LogsIn(d)' <=> LogsIn(d))
    BY <1>1 DEF Serves, LogsIn, Calls
  <2>6. ASSUME NEW d \in Agent
        PROVE  /\ d \in spawned' <=> InPool(d)' \/ Serves(d)' \/ LogsIn(d)' \/ LogsOut(d)'
               /\ ~(InPool(d)' /\ (Serves(d)' \/ LogsIn(d)' \/ LogsOut(d)'))
               /\ ~(Serves(d)' /\ (LogsIn(d)' \/ LogsOut(d)')) /\ ~(LogsIn(d)' /\ LogsOut(d)')
    BY <1>1, <2>1, <2>2, <2>3, <2>4, <2>5 DEF Conserved
  <2>7. (\A v, w \in Uid : users[v] # None /\ users[w] # None /\ users[v].agent = users[w].agent => v = w)'
    BY <1>1, <2>1 DEF Conserved
  <2>8. (\A j, k \in logouts : j.agent = k.agent => j = k)'
    BY <1>1, <2>1 DEF Conserved
  <2>9. (\A v \in Uid : flow[v].st \in {"spawn", "calling", "called"} => users[v] = None)'
    BY <1>1, <2>1 DEF Conserved
  <2>10. /\ (\A v, w \in Uid : Calls(v) /\ Calls(w) /\ flow[v].agent = flow[w].agent => v = w)'
         /\ (\A v \in Uid : Calls(v) => flow[v].agent # None)'
    BY <1>1, <2>1 DEF Conserved, Calls
  <2>11. (\A d \in Agent : Once(agent_pool, {d}))'
    BY <2>4
  <2> QED
    BY <2>6, <2>7, <2>8, <2>9, <2>10, <2>11 DEF Conserved
<1> QED
  BY <1>10, <1>11, <1>12, <1>13, <1>14 DEF IInv

-----------------------------------------------------------------------------

LEMMA InitInv == Init => IInv
<1> SUFFICES ASSUME Init PROVE IInv
  OBVIOUS
<1>1. Precreated \in Nat
  BY MaxAssumption DEF Precreated
<1>2. agent_pool \in Seq(Agent) /\ spawned = {agent_pool[i] : i \in DOMAIN agent_pool}
      /\ DOMAIN agent_pool = 1 .. Precreated
      /\ \A i \in DOMAIN agent_pool : agent_pool[i] \in Agent
  BY <1>1 DEF Init, ToSet
<1>3. FreshAgent \in AgentState /\ FreshAgent.inbox = << >> /\ FreshAgent.cs = << >>
      /\ FreshAgent.outbox = << >> /\ FreshAgent.csst = "idle"
  BY DEF FreshAgent, AgentState
<1>4. Idle \in [st : FlowSt, id : Nat, subid : Nat, agent : Agent \cup {None}] /\ Idle.st = "idle"
  BY DEF Idle, FlowSt
<1>5. \A X : ~Has(<< >>, X) /\ Once(<< >>, X)
  BY DEF Has, Once
<1>6. /\ flow = [uid \in Uid |-> Idle] /\ users = [uid \in Uid |-> None]
      /\ logouts = {} /\ notices = << >> /\ ag = [a \in Agent |-> FreshAgent]
      /\ online = [uid \in Uid |-> None] /\ username_map = {} /\ internal_id = 0
  BY DEF Init
<1> HIDE DEF FreshAgent, Idle
<1>7. /\ \A a \in Agent : ag[a] = FreshAgent
      /\ \A uid \in Uid : flow[uid].st = "idle" /\ users[uid] = None
  BY <1>4, <1>6
<1>8. Typed
  <2>1. notices \in Seq(Told) /\ logouts \subseteq Out
    BY <1>6
  <2>2. spawned \subseteq Agent
    BY <1>2
  <2> QED
    BY <1>2, <1>3, <1>4, <1>6, <2>1, <2>2 DEF Typed
<1>9. \A a \in Agent : \A X : ~At(ag[a], X) /\ Alone(ag[a], X)
  BY <1>3, <1>5, <1>7 DEF At, Alone
<1>10. Awaited
  <2>1. \A uid \in Uid : \A X : \A st : Carried(X, uid, st)
    BY <1>9 DEF Carried
  <2>2. \A X : ~Has(notices, X) /\ Once(notices, X)
    BY <1>5, <1>6
  <2> QED
    BY <2>1, <2>2 DEF Awaited
<1>11. QueueOK
  <2>1. AskedOnce /\ \A a \in Agent : ~Asked(a)
    BY <1>6 DEF AskedOnce, Asked
  <2>2. ASSUME NEW a \in Agent PROVE QueueFor(a)
    BY <1>3, <1>5, <1>7, <2>1 DEF QueueFor
  <2> QED
    BY <2>1, <2>2 DEF QueueOK
<1>12. NotedOnce
  BY <1>5, <1>6 DEF NotedOnce
<1>13. Conserved
  <2>1. \A a \in Agent : Once(agent_pool, {a})
    BY <1>2 DEF Init, Once
  <2>2. \A a \in Agent : a \in spawned <=> InPool(a)
    BY <1>2 DEF InPool, Has
  <2>3. \A a \in Agent : ~Serves(a) /\ ~LogsIn(a) /\ ~LogsOut(a)
    BY <1>6, <1>7 DEF Serves, LogsIn, LogsOut, Calls
  <2> QED
    BY <1>6, <1>7, <2>1, <2>2, <2>3 DEF Conserved, Calls
<1> QED
  BY <1>8, <1>10, <1>11, <1>12, <1>13 DEF IInv

LEMMA NextInv == IInv /\ [Next]_vars => IInv'
<1> SUFFICES ASSUME IInv, [Next]_vars PROVE IInv'
  OBVIOUS
<1>1. CASE UNCHANGED vars
  BY <1>1, Stutter DEF vars
<1>2. ASSUME NEW uid \in Uid,
             LoginStart(uid) \/ MasterStep(uid) \/ GateStep(uid) \/ Auth(uid) \/ Disconnect(uid)
      PROVE  IInv'
  BY <1>2, LoginStartStep, MasterMove, KickHandlerStep, LoginHandlerStep, SpawnDoneStep,
     LoginReturnStep, ClientStep DEF GateStep
<1>3. CASE Notice
  BY <1>3, NoticeStep
<1>4. ASSUME NEW l \in logouts, LogoutReturn(l) PROVE IInv'
  BY <1>4, LogoutReturnStep
<1>5. ASSUME NEW a \in Agent, LogoutHandler(a) \/ AgentStep(a) PROVE IInv'
  BY <1>5, LogoutHandlerStep, ReceiveStep, RunQueuedStep, ReceiveAnswerStep, CloseDoneStep
     DEF AgentStep
<1>6. ASSUME NEW a \in Agent, NEW w \in Workers, WorkerIdle(a, w) \/ WorkerExit(a, w) PROVE IInv'
  BY <1>6, WorkerStep
<1> QED
  BY <1>1, <1>2, <1>3, <1>4, <1>5, <1>6 DEF Next

(* The inductive invariant: besides where each agent is, every message that  *)
(* moves a login is there once and waited for (login_handler's and           *)
(* kick_handler's calls), every agent's CMD.logout waits for the one answer  *)
(* on its way, and a logout notice belongs to the one handler that sent it.  *)
THEOREM Inductive == Spec => []IInv
BY InitInv, NextInv, PTL DEF Spec

(* One place after another: no agent has two, and a created one has one.     *)
LEMMA OnePlace == IInv => AgentConserved
<1> SUFFICES ASSUME IInv, NEW a \in Agent
             PROVE  IF a \in spawned THEN \E h \in Holders(a) : Holders(a) = {h}
                                     ELSE Holders(a) = {}
  BY DEF AgentConserved
<1> DEFINE P == {<< "pool", i >> : i \in {j \in DOMAIN agent_pool : agent_pool[j] = a}}
           S == {<< "user", uid >> :
                   uid \in {v \in Uid : users[v] # None /\ users[v].agent = a}}
           I == {<< "login", uid >> :
                   uid \in {v \in Uid : flow[v].st \in {"calling", "called"} /\ flow[v].agent = a}}
           O == {<< "logout", l >> : l \in {k \in logouts : k.agent = a}}
<1>1. Conserved
  BY DEF IInv
<1>2. Holders(a) = P \cup S \cup I \cup O
  BY DEF Holders
<1>3. (\A g, h \in P : g = h) /\ (P = {} <=> ~InPool(a))
  <2> DEFINE X == {j \in DOMAIN agent_pool : agent_pool[j] = a}
  <2>1. (\A x, y \in X : x = y) /\ (X = {} <=> ~InPool(a))
    BY <1>1 DEF Conserved, Once, InPool, Has
  <2>2. P = {<< "pool", x >> : x \in X}
    BY DEF X
  <2> HIDE DEF X, P
  <2>3. (\A g, h \in P : g = h) /\ (P = {} <=> X = {})
    BY <2>1, <2>2
  <2> QED
    BY <2>1, <2>3
<1>4. (\A g, h \in S : g = h) /\ (S = {} <=> ~Serves(a))
  <2> DEFINE X == {v \in Uid : users[v] # None /\ users[v].agent = a}
  <2>1. (\A x, y \in X : x = y) /\ (X = {} <=> ~Serves(a))
    BY <1>1 DEF Conserved, Serves
  <2>2. S = {<< "user", x >> : x \in X}
    BY DEF X
  <2> HIDE DEF X, S
  <2>3. (\A g, h \in S : g = h) /\ (S = {} <=> X = {})
    BY <2>1, <2>2
  <2> QED
    BY <2>1, <2>3
<1>5. (\A g, h \in I : g = h) /\ (I = {} <=> ~LogsIn(a))
  <2> DEFINE X == {v \in Uid : flow[v].st \in {"calling", "called"} /\ flow[v].agent = a}
  <2>1. (\A x, y \in X : x = y) /\ (X = {} <=> ~LogsIn(a))
    BY <1>1 DEF Conserved, LogsIn, Calls
  <2>2. I = {<< "login", x >> : x \in X}
    BY DEF X
  <2> HIDE DEF X, I
  <2>3. (\A g, h \in I : g = h) /\ (I = {} <=> X = {})
    BY <2>1, <2>2
  <2> QED
    BY <2>1, <2>3
<1>6. (\A g, h \in O : g = h) /\ (O = {} <=> ~LogsOut(a))
  <2> DEFINE X == {k \in logouts : k.agent = a}
  <2>1. (\A x, y \in X : x = y) /\ (X = {} <=> ~LogsOut(a))
    BY <1>1 DEF Conserved, LogsOut
  <2>2. O = {<< "logout", x >> : x \in X}
    BY DEF X
  <2> HIDE DEF X, O
  <2>3. (\A g, h \in O : g = h) /\ (O = {} <=> X = {})
    BY <2>1, <2>2
  <2> QED
    BY <2>1, <2>3
<1> HIDE DEF P, S, I, O
<1>7. /\ a \in spawned <=> InPool(a) \/ Serves(a) \/ LogsIn(a) \/ LogsOut(a)
      /\ ~(InPool(a) /\ (Serves(a) \/ LogsIn(a) \/ LogsOut(a)))
      /\ ~(Serves(a) /\ (LogsIn(a) \/ LogsOut(a))) /\ ~(LogsIn(a) /\ LogsOut(a))
  BY <1>1 DEF Conserved
<1>8. \A g, h \in Holders(a) : g = h
  BY <1>2, <1>3, <1>4, <1>5, <1>6, <1>7
<1>9. Holders(a) = {} <=> a \notin spawned
  BY <1>2, <1>3, <1>4, <1>5, <1>6, <1>7
<1>10. CASE a \in spawned
  <2>1. PICK h \in Holders(a) : TRUE
    BY <1>9, <1>10
  <2>2. Holders(a) = {h}
    BY <1>8, <2>1
  <2> QED
    BY <1>10, <2>1, <2>2
<1> QED
  BY <1>9, <1>10

(* gated.lua:52-66, 78-79, 98-100: through all yields of login and logout,   *)
(* whoever kicks, idles out or comes back, and whatever notice is lost,      *)
(* every agent ever created is in exactly one place: in the pool, with a     *)
(* user, with a login or with a logout that gives it back.                   *)
THEOREM AgentsConserved == Spec => []AgentConserved
BY Inductive, OnePlace, PTL

-----------------------------------------------------------------------------
(* Type correctness: Typed has all of it but the three variables that no     *)
(* message and no place of an agent depends on.                             *)

TypeRest ==
  /\ curr_agent \in Nat
  /\ ticket \in [Uid -> Nat \cup {None}]
  /\ conn \in [Uid -> {"never", "up", "down"}]

LEMMA TypeRestInit == Init => TypeRest
<1>1. Precreated \in Nat
  BY MaxAssumption DEF Precreated
<1> QED
  BY <1>1 DEF Init, TypeRest

LEMMA TypeRestNext == Typed /\ TypeRest /\ [Next]_vars => TypeRest'
<1> SUFFICES ASSUME Typed, TypeRest, [Next]_vars PROVE TypeRest'
  OBVIOUS
<1> USE DEF TypeRest
<1>1. CASE UNCHANGED vars
  BY <1>1 DEF vars
<1>2. ASSUME NEW uid \in Uid, LoginStart(uid) \/ MasterStep(uid) PROVE TypeRest'
  <2>1. CASE LoginDone(uid)
    BY <2>1 DEF LoginDone, gvars, Typed
  <2> QED
    BY <1>2, <2>1 DEF MasterStep, LoginStart, AfterKick, gvars
<1>3. ASSUME NEW uid \in Uid, GateStep(uid) PROVE TypeRest'
  <2>1. CASE KickHandler(uid)
    BY <2>1 DEF KickHandler, gvars
  <2>2. CASE LoginHandler(uid)
    BY <2>2 DEF LoginHandler, LoginAlready, LoginPooled, LoginSpawn, LoginTooMany, gvars
  <2>3. CASE SpawnDone(uid)
    BY <2>3 DEF SpawnDone
  <2>4. CASE LoginReturn(uid)
    BY <2>4 DEF LoginReturn
  <2> QED
    BY <1>3, <2>1, <2>2, <2>3, <2>4 DEF GateStep
<1>4. ASSUME NEW uid \in Uid, Auth(uid) \/ Disconnect(uid) PROVE TypeRest'
  BY <1>4 DEF Auth, Disconnect, gvars
<1>5. CASE Notice
  BY <1>5 DEF Notice, gvars
<1>6. ASSUME NEW l \in logouts, LogoutReturn(l) PROVE TypeRest'
  BY <1>6 DEF LogoutReturn
<1>7. ASSUME NEW a \in Agent, LogoutHandler(a) PROVE TypeRest'
  <2>1. curr_agent' \in Nat /\ ticket' = ticket
    BY <1>7 DEF LogoutHandler
  <2>2. \/ conn' = conn
        \/ conn' = [conn EXCEPT ![Head(ag[a].outbox).uid] = "down"]
    BY <1>7 DEF LogoutHandler, LogoutRefused, LogoutForget
  <2>3. conn' \in [Uid -> {"never", "up", "down"}]
    BY <2>2
  <2> QED
    BY <2>1, <2>3
<1>8. ASSUME NEW a \in Agent, AgentStep(a) PROVE TypeRest'
  BY <1>8 DEF AgentStep, Receive, RunQueued, ReceiveAnswer, CloseDone, gvars
<1>9. ASSUME NEW a \in Agent, NEW w \in Workers, WorkerIdle(a, w) \/ WorkerExit(a, w)
      PROVE  TypeRest'
  BY <1>9 DEF WorkerIdle, WorkerExit, gvars
<1> QED
  BY <1>1, <1>2, <1>3, <1>4, <1>5, <1>6, <1>7, <1>8, <1>9 DEF Next

(* gated.lua, logind.lua: the tables and the logins hold what their          *)
(* handlers take them to hold, in every reachable state.                    *)
THEOREM TypeCorrect == Spec => []TypeOK
<1>1. IInv => Typed
  BY DEF IInv
<1>2. Typed /\ TypeRest => TypeOK
  BY DEF Typed, TypeRest, TypeOK, Out
<1>3. Spec => []TypeRest
  BY <1>1, TypeRestInit, TypeRestNext, Inductive, PTL DEF Spec
<1> QED
  BY <1>1, <1>2, <1>3, Inductive, PTL

-----------------------------------------------------------------------------
(* One login at a time: what the agents serve, what the asserts on the       *)
(* usernames see and what the login master knows.                           *)

\* The logins of the node do not overlap.
Serial == \A u, v \in Uid : flow[u].st # "idle" /\ flow[v].st # "idle" => u = v

OfKind(t) == {m \in Msg : m.t = t}
CallW == {c \in Call : c.by # 0}
OffNote(uid) == {m \in Told : m.for = "logout" /\ m.uid = uid}

\* No member of Y behind one of X in s.
Before(s, X, Y) == \A i, j \in DOMAIN s : i < j /\ s[i] \in X => s[j] \notin Y

(* internal_id is the number of the login in progress, and its client has    *)
(* not been told; the tables of the gate agree.                             *)
Numbers ==
  /\ \A uid \in Uid :
       /\ flow[uid].st \in {"spawn", "calling", "called"} => flow[uid].id = internal_id
       /\ Calls(uid) => flow[uid].subid = internal_id
       /\ flow[uid].st = "loggedin" =>
            /\ users[uid] # None /\ users[uid].name = internal_id
            /\ flow[uid].subid = internal_id /\ conn[uid] = "never"
       /\ flow[uid].st \in {"spawn", "calling", "called", "loggedin"} => ticket[uid] # internal_id
       /\ users[uid] # None => users[uid].uid = uid /\ users[uid].name = users[uid].subid
       /\ ticket[uid] # None => ticket[uid] <= internal_id
  /\ username_map = {users[uid] : uid \in {v \in Uid : users[v] # None}}

(* The login master knows the users, and a kick finds the one it is for.    *)
Known ==
  \A uid \in Uid :
    /\ users[uid] # None /\ flow[uid].st \in {"idle", "kick", "kickwait"} =>
         online[uid] = users[uid].name
    /\ users[uid] # None /\ flow[uid].st = "kick" => flow[uid].subid = users[uid].name
    /\ flow[uid].st \in {"kicknotify", "kicked", "login"} => users[uid] = None
    /\ flow[uid].st # "kickfailed"

(* A logout that the login master has still to hear of is behind no kick of  *)
(* its user, and no login of the user gets past it.                         *)
Unheard ==
  \A uid \in Uid :
    /\ Once(notices, OffNote(uid))
    /\ Before(notices, KickNote(uid), OffNote(uid))
    /\ Has(notices, OffNote(uid)) =>
         /\ users[uid] = None /\ online[uid] # None
         /\ flow[uid].st \in {"idle", "kick", "kickwait", "kicknotify", "kicked"}

Held(a, uid) == users[uid] # None /\ users[uid].agent = a
Called(a, uid) == flow[uid].st = "called" /\ flow[uid].agent = a

\* Agent state r has no auth behind an afk.
AfkLast(r) ==
  /\ Before(r.cs, OfKind("afk"), OfKind("auth"))
  /\ Before(r.inbox, OfKind("afk"), OfKind("auth"))
  /\ ~(Has(r.cs, OfKind("afk")) /\ Has(r.inbox, OfKind("auth")))

\* A login that waits at a is for a, and the last there.
LastLogin(a) ==
  /\ Before(ag[a].inbox, OfKind("login"), Msg)
  /\ ~Has(ag[a].cs, OfKind("login"))
  /\ \A m \in OfKind("login") :
       Has(ag[a].inbox, {m}) => flow[m.uid].agent = a /\ flow[m.uid].subid = m.subid

\* The agent of a user serves its session, and idles only after a break.
Bound(a) ==
  \A uid \in Uid : Held(a, uid) =>
    /\ ag[a].sess = [uid |-> uid, subid |-> users[uid].subid]
    /\ ~Has(ag[a].inbox, OfKind("answer"))
    /\ ag[a].afk \/ At(ag[a], OfKind("afk")) => conn[uid] = "down"
    /\ ag[a].afk => ~At(ag[a], OfKind("auth"))
    /\ AfkLast(ag[a])

\* The agent of a login that is about to be filed.
Ready(a) ==
  \A uid \in Uid : Called(a, uid) =>
    /\ ag[a].sess = [uid |-> uid, subid |-> flow[uid].subid]
    /\ ag[a].inbox = << >> /\ ag[a].cs = << >> /\ ~ag[a].afk

\* Logout calls are for a's own user, a worker's first.
OwnCalls(a) ==
  /\ Before(ag[a].outbox, Call, CallW)
  /\ \A c \in Call : Has(ag[a].outbox, {c}) =>
       /\ users[c.uid] # None => Held(a, c.uid) /\ users[c.uid].name = c.subid
       /\ c.by # 0 => users[c.uid] # None /\ conn[c.uid] = "down"
       /\ c.by = 0 => Head(ag[a].cs).uid = c.uid

\* Once a logout was called for, no worker starts before it is over.
Stopped(a) ==
  ag[a].outbox # << >> \/ (ag[a].sess # None /\ ~Serves(a) /\ \A uid \in Uid : ~Called(a, uid)) =>
    ~ag[a].running /\ (ag[a].csst = "gate" \/ ~At(ag[a], OfKind("auth")))

\* A CMD.logout is for the user that a has, and ends when that is gone.
Leaving(a) ==
  /\ \A m \in OfKind("answer") : Has(ag[a].inbox, {m}) => m.ok
  /\ ag[a].csst = "closing" \/ Asked(a) \/ Has(ag[a].inbox, Answer0) =>
       users[Head(ag[a].cs).uid] = None
  /\ \A uid \in Uid : At(ag[a], LogoutOf(uid)) =>
       /\ ag[a].sess # None => ag[a].sess.uid = uid
       /\ users[uid] # None => Held(a, uid)

AgentOK(a) == LastLogin(a) /\ Bound(a) /\ Ready(a) /\ OwnCalls(a) /\ Stopped(a) /\ Leaving(a)

\* The agent that a logout gives back is the one that asked for it.
OwnAgent == \A l \in logouts : l.from = l.agent

Master == Numbers /\ Known /\ Unheard
SerialInv == Master /\ OwnAgent /\ \A a \in Agent : AgentOK(a)

-----------------------------------------------------------------------------
(* The order of what is in a queue.                                         *)

LEMMA OrderAppend ==
  ASSUME NEW S, NEW s \in Seq(S), NEW m \in S
  PROVE  \A X, Y : Before(s, X, Y) /\ ~(Has(s, X) /\ m \in Y) => Before(Append(s, m), X, Y)
<1> DEFINE t == Append(s, m)
<1>1. /\ Len(s) \in Nat /\ DOMAIN s = 1 .. Len(s) /\ DOMAIN t = 1 .. Len(s) + 1
      /\ \A i \in 1 .. Len(s) : t[i] = s[i]
      /\ t[Len(s) + 1] = m
  OBVIOUS
<1> HIDE DEF t
<1>2. ASSUME NEW X, NEW Y, Before(s, X, Y), ~(Has(s, X) /\ m \in Y) PROVE Before(t, X, Y)
  <2> SUFFICES ASSUME NEW i \in DOMAIN t, NEW j \in DOMAIN t, i < j, t[i] \in X PROVE t[j] \notin Y
    BY DEF Before
  <2>1. i \in DOMAIN s /\ t[i] = s[i]
    BY <1>1
  <2>2. CASE j \in DOMAIN s
    BY <1>1, <1>2, <2>1, <2>2 DEF Before
  <2>3. CASE j = Len(s) + 1
    BY <1>1, <1>2, <2>1, <2>3 DEF Has
  <2> QED
    BY <1>1, <2>2, <2>3
<1> QED
  BY <1>2 DEF t

LEMMA OrderTail ==
  ASSUME NEW S, NEW s \in Seq(S), s # << >>
  PROVE  \A X, Y : Before(s, X, Y) =>
           Before(Tail(s), X, Y) /\ (Head(s) \in X => ~Has(Tail(s), Y))
<1> DEFINE t == Tail(s)
<1>1. /\ Len(s) \in Nat /\ DOMAIN s = 1 .. Len(s) /\ 1 \in DOMAIN s /\ Head(s) = s[1]
      /\ DOMAIN t = 1 .. Len(s) - 1
      /\ \A i \in 1 .. Len(s) - 1 : t[i] = s[i + 1]
  OBVIOUS
<1> HIDE DEF t
<1>2. \A i \in DOMAIN t : i \in Int /\ i + 1 \in DOMAIN s /\ 1 < i + 1 /\ t[i] = s[i + 1]
  BY <1>1
<1>3. ASSUME NEW X, NEW Y, Before(s, X, Y)
      PROVE  Before(t, X, Y) /\ (Head(s) \in X => ~Has(t, Y))
  <2>1. ASSUME NEW i \in DOMAIN t, NEW j \in DOMAIN t, i < j, t[i] \in X PROVE t[j] \notin Y
    <3>1. i + 1 < j + 1
      BY <1>2, <2>1
    <3> QED
      BY <1>2, <1>3, <2>1, <3>1 DEF Before
  <2>2. Head(s) \in X => ~Has(t, Y)
    BY <1>1, <1>2, <1>3 DEF Before, Has
  <2> QED
    BY <2>1, <2>2 DEF Before
<1> QED
  BY <1>3 DEF t

LEMMA OrderPush ==
  ASSUME NEW S, NEW s \in Seq(S), NEW m \in S
  PROVE  \A X, Y : Before(s, X, Y) /\ ~(m \in X /\ Has(s, Y)) => Before(<< m >> \o s, X, Y)
<1> DEFINE t == << m >> \o s
<1>1. /\ Len(s) \in Nat /\ DOMAIN s = 1 .. Len(s) /\ DOMAIN t = 1 .. Len(s) + 1
      /\ \A i \in 1 .. Len(s) : t[i + 1] = s[i]
      /\ t[1] = m
  OBVIOUS
<1> HIDE DEF t
<1>2. \A i \in DOMAIN t : i \in Int /\ (i = 1 \/ (1 < i /\ i - 1 \in DOMAIN s /\ t[i] = s[i - 1]))
  <2>1. ASSUME NEW i \in DOMAIN t, i # 1 PROVE i - 1 \in DOMAIN s /\ t[i] = s[i - 1]
    <3>1. i - 1 \in 1 .. Len(s) /\ (i - 1) + 1 = i
      BY <1>1, <2>1
    <3>2. t[(i - 1) + 1] = s[i - 1]
      BY <1>1, <3>1
    <3> QED
      BY <1>1, <3>1, <3>2
  <2> QED
    BY <1>1, <2>1
<1>3. ASSUME NEW X, NEW Y, Before(s, X, Y), ~(m \in X /\ Has(s, Y)) PROVE Before(t, X, Y)
  <2> SUFFICES ASSUME NEW i \in DOMAIN t, NEW j \in DOMAIN t, i < j, t[i] \in X PROVE t[j] \notin Y
    BY DEF Before
  <2>1. 1 < j /\ j - 1 \in DOMAIN s /\ t[j] = s[j - 1]
    BY <1>1, <1>2
  <2>2. CASE i = 1
    BY <1>1, <1>3, <2>1, <2>2 DEF Has
  <2>3. CASE i # 1
    <3>1. i - 1 < j - 1
      BY <1>2
    <3> QED
      BY <1>2, <1>3, <2>1, <2>3, <3>1 DEF Before
  <2> QED
    BY <2>2, <2>3
<1> QED
  BY <1>3 DEF t

LEMMA HasNone == ASSUME NEW S, NEW s \in Seq(S), ~Has(s, S) PROVE s = << >>
<1>1. s # << >> => 1 \in DOMAIN s /\ s[1] \in S
  OBVIOUS
<1> QED
  BY <1>1 DEF Has

LEMMA OrderEmpty == \A X, Y : ~Has(<< >>, X) /\ Once(<< >>, X) /\ Before(<< >>, X, Y)
BY DEF Has, Once, Before

-----------------------------------------------------------------------------
(* What the invariants say of one agent.                                    *)

LEMMA Waiting ==
  ASSUME IInv, NEW a \in Agent
  PROVE  /\ ag[a] \in AgentState
         /\ \A v \in Uid : At(ag[a], LoginOf(v)) => flow[v].st = "calling"
         /\ \A v \in Uid : At(ag[a], LogoutOf(v)) => flow[v].st = "kickwait"
         /\ ag[a].csst # "idle" =>
              LET h == Head(ag[a].cs) IN
                ag[a].cs # << >> /\ h \in Msg /\ h.t = "logout" /\ h.uid \in Uid
                  /\ h \in LogoutOf(h.uid) /\ Has(ag[a].cs, LogoutOf(h.uid))
                  /\ flow[h.uid].st = "kickwait"
         /\ \A c \in Call : Has(ag[a].outbox, {c}) /\ c.by = 0 => ag[a].csst = "gate"
         /\ ag[a].outbox # << >> => \E c \in Call : Has(ag[a].outbox, {c})
<1>1. /\ ag[a] \in AgentState /\ ag[a].cs \in Seq(Msg) /\ ag[a].outbox \in Seq(Call)
  BY DEF IInv, Typed, AgentState
<1>2. \A v \in Uid : /\ At(ag[a], LoginOf(v)) => flow[v].st = "calling"
                     /\ At(ag[a], LogoutOf(v)) => flow[v].st = "kickwait"
  BY DEF IInv, Awaited, Carried
<1>3. ASSUME ag[a].csst # "idle"
      PROVE  LET h == Head(ag[a].cs) IN
                ag[a].cs # << >> /\ h \in Msg /\ h.t = "logout" /\ h.uid \in Uid
                  /\ h \in LogoutOf(h.uid) /\ Has(ag[a].cs, LogoutOf(h.uid))
                  /\ flow[h.uid].st = "kickwait"
  <2> DEFINE h == Head(ag[a].cs)
  <2>1. ag[a].cs # << >> /\ h.t = "logout"
    BY <1>3 DEF IInv, QueueOK, QueueFor
  <2>2. h \in Msg /\ \A X : Has(ag[a].cs, X) <=> h \in X \/ Has(Tail(ag[a].cs), X)
    BY <1>1, <2>1, SeqTail
  <2>3. h.uid \in Uid /\ h \in LogoutOf(h.uid)
    BY <2>1, <2>2, Kinds DEF LogoutOf
  <2>4. Has(ag[a].cs, LogoutOf(h.uid))
    BY <2>2, <2>3
  <2>5. flow[h.uid].st = "kickwait"
    BY <1>2, <2>3, <2>4 DEF At
  <2> QED
    BY <2>1, <2>2, <2>3, <2>4, <2>5
<1>4. ASSUME NEW c \in Call, Has(ag[a].outbox, {c}), c.by = 0 PROVE ag[a].csst = "gate"
  <2>1. Has(ag[a].outbox, Call0)
    BY <1>4 DEF Has, Call0
  <2> QED
    BY <2>1 DEF IInv, QueueOK, QueueFor
<1>5. ASSUME ag[a].outbox # << >> PROVE \E c \in Call : Has(ag[a].outbox, {c})
  <2>1. Head(ag[a].outbox) \in Call /\ 1 \in DOMAIN ag[a].outbox /\ Head(ag[a].outbox) = ag[a].outbox[1]
    BY <1>1, <1>5
  <2> QED
    BY <2>1 DEF Has
<1> QED
  BY <1>1, <1>2, <1>3, <1>4, <1>5

LEMMA Places ==
  ASSUME IInv, NEW a \in Agent
  PROVE  /\ \A u, v \in Uid : Held(a, u) /\ Held(a, v) => u = v
         /\ Serves(a) <=> \E u \in Uid : Held(a, u)
         /\ \A u \in Uid : Called(a, u) => LogsIn(a) /\ Calls(u)
         /\ ~(Serves(a) /\ LogsIn(a)) /\ ~(Serves(a) /\ LogsOut(a)) /\ ~(LogsIn(a) /\ LogsOut(a))
BY DEF IInv, Conserved, Held, Serves, Called, LogsIn, Calls

(* An agent with a login on its way has nothing else to see to.              *)
LEMMA LoginAlone ==
  ASSUME IInv, Serial, SerialInv, NEW a \in Agent
  PROVE  /\ Has(ag[a].inbox, OfKind("login")) => LogsIn(a)
         /\ LogsIn(a) => ag[a].outbox = << >> /\ ag[a].csst = "idle"
                           /\ ~Asked(a) /\ ~Has(ag[a].inbox, Answer0)
<1>1. AgentOK(a)
  BY DEF SerialInv
<1>2. ASSUME Has(ag[a].inbox, OfKind("login")) PROVE LogsIn(a)
  <2>1. PICK m \in OfKind("login") : Has(ag[a].inbox, {m})
    BY <1>2 DEF Has
  <2>2. m \in Msg /\ m.t = "login"
    BY DEF OfKind
  <2>3. m.uid \in Uid /\ m \in LoginOf(m.uid)
    BY <2>2, Kinds DEF LoginOf
  <2>4. Has(ag[a].inbox, LoginOf(m.uid))
    BY <2>1, <2>3 DEF Has
  <2>5. flow[m.uid].st = "calling"
    BY <2>3, <2>4, Waiting DEF At
  <2>6. flow[m.uid].agent = a
    BY <1>1, <2>1 DEF AgentOK, LastLogin
  <2> QED
    BY <2>3, <2>5, <2>6 DEF LogsIn, Calls
<1>3. ASSUME LogsIn(a) PROVE ag[a].outbox = << >> /\ ag[a].csst = "idle"
  <2>1. PICK v \in Uid : Calls(v) /\ flow[v].agent = a
    BY <1>3 DEF LogsIn
  <2>2. ASSUME ag[a].csst # "idle" PROVE FALSE
    <3>1. Head(ag[a].cs).uid \in Uid /\ flow[Head(ag[a].cs).uid].st = "kickwait"
      BY <2>2, Waiting
    <3> QED
      BY <2>1, <3>1 DEF Serial, Calls
  <2>3. ASSUME ag[a].outbox # << >> PROVE FALSE
    <3>1. PICK c \in Call : Has(ag[a].outbox, {c})
      BY <2>3, Waiting
    <3>2. c.by # 0
      BY <2>2, <3>1, Waiting
    <3>3. Held(a, c.uid)
      BY <1>1, <3>1, <3>2 DEF AgentOK, OwnCalls
    <3>4. c.uid \in Uid
      BY DEF Call
    <3> QED
      BY <1>3, <3>3, <3>4, Places
  <2> QED
    BY <2>2, <2>3
<1>4. Asked(a) \/ Has(ag[a].inbox, Answer0) => ag[a].csst = "gate"
  BY DEF IInv, QueueOK, QueueFor
<1> QED
  BY <1>2, <1>3, <1>4

-----------------------------------------------------------------------------
(* An agent that does not move.                                             *)

\* Nothing asks a to log uid out.
Unasked(a, uid) ==
  ~At(ag[a], LogoutOf(uid)) /\ \A c \in Call : c.uid = uid => ~Has(ag[a].outbox, {c})

\* Agent a is left as it is, with the user and the login that it has.
Left(a) ==
  /\ ag'[a] = ag[a]
  /\ \A uid \in Uid :
       /\ Held(a, uid)' <=> Held(a, uid)
       /\ Held(a, uid) => users'[uid] = users[uid] /\ (conn[uid] = "down" => conn'[uid] = "down")
       /\ users'[uid] # None => users[uid] # None \/ Unasked(a, uid)
       /\ Called(a, uid)' <=> Called(a, uid)
       /\ Called(a, uid) => flow'[uid].subid = flow[uid].subid
       /\ Has(ag[a].inbox, LoginOf(uid)) =>
            flow'[uid].agent = flow[uid].agent /\ flow'[uid].subid = flow[uid].subid
  /\ Asked(a)' => Asked(a)

LEMMA LeftOK ==
  ASSUME IInv, NEW a \in Agent, AgentOK(a), Left(a)
  PROVE  AgentOK(a)'
<1>1. LastLogin(a)'
  <2>1. ASSUME NEW m \in OfKind("login"), Has(ag[a].inbox, {m})
        PROVE  flow'[m.uid].agent = a /\ flow'[m.uid].subid = m.subid
    <3>1. flow[m.uid].agent = a /\ flow[m.uid].subid = m.subid
      BY <2>1 DEF AgentOK, LastLogin
    <3>2. m \in LoginOf(m.uid) /\ m.uid \in Uid
      BY Kinds DEF LoginOf, OfKind
    <3>3. Has(ag[a].inbox, LoginOf(m.uid))
      BY <2>1, <3>2 DEF Has
    <3> QED
      BY <3>1, <3>2, <3>3 DEF Left
  <2> QED
    BY <2>1 DEF AgentOK, LastLogin, Left
<1>2. Bound(a)'
  BY DEF AgentOK, Bound, Left
<1>3. Ready(a)'
  BY DEF AgentOK, Ready, Left
<1>4. OwnCalls(a)'
  <2>1. ASSUME NEW c \in Call, Has(ag[a].outbox, {c})
        PROVE  /\ users'[c.uid] # None => Held(a, c.uid)' /\ users'[c.uid].name = c.subid
               /\ c.by # 0 => users'[c.uid] # None /\ conn'[c.uid] = "down"
               /\ c.by = 0 => Head(ag[a].cs).uid = c.uid
    <3>1. c.uid \in Uid
      BY DEF Call
    <3>2. /\ users[c.uid] # None => Held(a, c.uid) /\ users[c.uid].name = c.subid
          /\ c.by # 0 => users[c.uid] # None /\ conn[c.uid] = "down"
          /\ c.by = 0 => Head(ag[a].cs).uid = c.uid
      BY <2>1 DEF AgentOK, OwnCalls
    <3>3. ~Unasked(a, c.uid)
      BY <2>1 DEF Unasked
    <3> QED
      BY <3>1, <3>2, <3>3 DEF Left
  <2> QED
    BY <2>1 DEF AgentOK, OwnCalls, Left
<1>5. Stopped(a)'
  <2>1. Serves(a)' <=> Serves(a)
    BY DEF Serves, Held, Left
  <2> QED
    BY <2>1 DEF AgentOK, Stopped, Left
<1>6. Leaving(a)'
  <2>1. ASSUME ag[a].csst = "closing" \/ Asked(a) \/ Has(ag[a].inbox, Answer0)
        PROVE  users'[Head(ag[a].cs).uid] = None
    <3>1. users[Head(ag[a].cs).uid] = None
      BY <2>1 DEF AgentOK, Leaving
    <3>2. ag[a].csst # "idle"
      BY <2>1 DEF IInv, QueueOK, QueueFor
    <3>3. Head(ag[a].cs).uid \in Uid /\ ~Unasked(a, Head(ag[a].cs).uid)
      BY <3>2, Waiting DEF Unasked, At
    <3> QED
      BY <3>1, <3>3 DEF Left
  <2>2. ASSUME NEW uid \in Uid, At(ag[a], LogoutOf(uid))
        PROVE  /\ ag[a].sess # None => ag[a].sess.uid = uid
               /\ users'[uid] # None => Held(a, uid)'
    <3>1. ~Unasked(a, uid)
      BY <2>2 DEF Unasked
    <3> QED
      BY <2>2, <3>1 DEF AgentOK, Leaving, Left
  <2> QED
    BY <2>1, <2>2 DEF AgentOK, Leaving, Left
<1> QED
  BY <1>1, <1>2, <1>3, <1>4, <1>5, <1>6 DEF AgentOK

-----------------------------------------------------------------------------
(* The login master, and the gate's steps that no agent hears of.            *)

LEMMA AgentsLeft ==
  ASSUME IInv, SerialInv, NEW uid \in Uid, NEW f, flow' = [flow EXCEPT ![uid] = f],
         flow[uid].st \notin {"calling", "called"}, f.st # "called",
         UNCHANGED << users, conn, ag, logouts >>
  PROVE  OwnAgent' /\ \A a \in Agent : AgentOK(a)'
<1>1. flow'[uid] = f /\ \A v \in Uid : v # uid => flow'[v] = flow[v]
  BY DEF IInv, Typed
<1>2. ASSUME NEW a \in Agent PROVE AgentOK(a)'
  <2>1. \A v \in Uid : Has(ag[a].inbox, LoginOf(v)) => v # uid
    BY Waiting DEF At
  <2>2. Left(a)
    BY <1>1, <2>1 DEF Left, Held, Called, Asked
  <2> QED
    BY <2>2, LeftOK DEF SerialInv
<1> QED
  BY <1>2 DEF SerialInv, OwnAgent

LEMMA LoginStartSerial ==
  ASSUME IInv, SerialInv, NEW uid \in Uid, LoginStart(uid)
  PROVE  SerialInv'
<1> DEFINE f == IF online[uid] = None
                  THEN [Idle EXCEPT !.st = "login"]
                  ELSE [Idle EXCEPT !.st = "kick", !.subid = online[uid]]
<1>1. /\ flow[uid].st = "idle" /\ flow' = [flow EXCEPT ![uid] = f]
      /\ UNCHANGED << online, users, username_map, internal_id, ticket, conn, ag, logouts, notices >>
  BY DEF LoginStart, gvars
<1>2. /\ online[uid] = None => f.st = "login"
      /\ online[uid] # None => f.st = "kick" /\ f.subid = online[uid]
  BY DEF Idle
<1> HIDE DEF f
<1>3. flow'[uid] = f /\ \A v \in Uid : v # uid => flow'[v] = flow[v]
  BY <1>1 DEF IInv, Typed
<1>4. \A v \in Uid : users[v] # None => users[v].name # None
  BY NoneAssumption DEF IInv, Typed, U
<1>5. Numbers'
  BY <1>1, <1>2, <1>3 DEF SerialInv, Master, Numbers, Calls
<1>6. Known'
  BY <1>1, <1>2, <1>3, <1>4 DEF SerialInv, Master, Known
<1>7. Unheard'
  BY <1>1, <1>2, <1>3 DEF SerialInv, Master, Unheard, Once, Has, Before
<1>8. OwnAgent' /\ \A a \in Agent : AgentOK(a)'
  BY <1>1, <1>2, AgentsLeft
<1> QED
  BY <1>5, <1>6, <1>7, <1>8 DEF SerialInv, Master

LEMMA AfterKickSerial ==
  ASSUME IInv, SerialInv, NEW uid \in Uid, AfterKick(uid)
  PROVE  SerialInv'
<1> DEFINE f == IF online[uid] = None THEN [Idle EXCEPT !.st = "login"] ELSE Idle
<1>1. flow[uid].st = "kicked" /\ users[uid] = None
  BY DEF AfterKick, SerialInv, Master, Known
<1>2. /\ flow' = [flow EXCEPT ![uid] = f] /\ online' = online
      /\ UNCHANGED << users, username_map, internal_id, ticket, conn, ag, logouts, notices >>
  BY <1>1 DEF AfterKick, gvars, IInv, Typed
<1>3. f.st = IF online[uid] = None THEN "login" ELSE "idle"
  BY DEF Idle
<1> HIDE DEF f
<1>4. flow'[uid] = f /\ \A v \in Uid : v # uid => flow'[v] = flow[v]
  BY <1>2 DEF IInv, Typed
<1>5. Numbers'
  BY <1>2, <1>3, <1>4 DEF SerialInv, Master, Numbers, Calls
<1>6. Known'
  BY <1>1, <1>2, <1>3, <1>4 DEF SerialInv, Master, Known
<1>7. Unheard'
  BY <1>2, <1>3, <1>4 DEF SerialInv, Master, Unheard, Once, Has, Before
<1>8. OwnAgent' /\ \A a \in Agent : AgentOK(a)'
  BY <1>1, <1>2, <1>3, AgentsLeft
<1> QED
  BY <1>5, <1>6, <1>7, <1>8 DEF SerialInv, Master

LEMMA LoginDoneSerial ==
  ASSUME IInv, Serial, SerialInv, NEW uid \in Uid, LoginDone(uid)
  PROVE  SerialInv'
<1>1. /\ flow[uid].st = "loggedin" /\ flow[uid].subid = internal_id
      /\ users[uid] # None /\ users[uid].name = internal_id /\ internal_id \in Nat
  BY DEF LoginDone, SerialInv, Master, Numbers, IInv, Typed
<1>2. /\ flow' = [flow EXCEPT ![uid] = Idle]
      /\ online' = [online EXCEPT ![uid] = internal_id]
      /\ ticket' = [ticket EXCEPT ![uid] = internal_id]
      /\ UNCHANGED << users, username_map, internal_id, conn, ag, logouts, notices >>
  BY <1>1 DEF LoginDone, gvars
<1>3. Idle.st = "idle"
  BY DEF Idle
<1>4. flow'[uid] = Idle /\ \A v \in Uid : v # uid => flow'[v] = flow[v] /\ flow[v].st = "idle"
  BY <1>1, <1>2 DEF IInv, Typed, Serial
<1>5. online'[uid] = internal_id /\ \A v \in Uid : v # uid => online'[v] = online[v]
  BY <1>2 DEF IInv, Typed
<1>6. \A v \in Uid : ticket'[v] = ticket[v] \/ (v = uid /\ ticket'[v] = internal_id)
  BY <1>2
<1>7. Numbers'
  BY <1>1, <1>2, <1>3, <1>4, <1>6 DEF SerialInv, Master, Numbers, Calls
<1>8. Known'
  BY <1>1, <1>2, <1>3, <1>4, <1>5 DEF SerialInv, Master, Known
<1>9. Unheard'
  BY <1>1, <1>2, <1>3, <1>4, <1>5 DEF SerialInv, Master, Unheard, Once, Has, Before
<1>10. OwnAgent' /\ \A a \in Agent : AgentOK(a)'
  BY <1>1, <1>2, <1>3, AgentsLeft
<1> QED
  BY <1>7, <1>8, <1>9, <1>10 DEF SerialInv, Master

(* login_handler without a free agent.                                      *)
LEMMA LoginWaitsSerial ==
  ASSUME IInv, TypeRest, Serial, SerialInv, NEW uid \in Uid, flow[uid].st = "login",
         LoginSpawn(uid) \/ LoginTooMany(uid),
         UNCHANGED << online, logouts, notices, ticket, conn >>
  PROVE  SerialInv'
<1>1. internal_id \in Nat /\ internal_id' = internal_id + 1
  BY DEF LoginSpawn, LoginTooMany, IInv, Typed
<1>2. PICK f : /\ flow' = [flow EXCEPT ![uid] = f]
               /\ f.st = "idle" \/ (f.st = "spawn" /\ f.id = internal_id')
  <2>1. Idle.st = "idle"
    BY DEF Idle
  <2>2. [Idle EXCEPT !.st = "spawn", !.id = internal_id'].st = "spawn"
        /\ [Idle EXCEPT !.st = "spawn", !.id = internal_id'].id = internal_id'
    BY DEF Idle
  <2> QED
    BY <2>1, <2>2 DEF LoginSpawn, LoginTooMany
<1>3. UNCHANGED << users, username_map, ag >> /\ users[uid] = None
  BY DEF LoginSpawn, LoginTooMany
<1>4. flow'[uid] = f /\ \A v \in Uid : v # uid => flow'[v] = flow[v] /\ flow[v].st = "idle"
  BY <1>2 DEF IInv, Typed, Serial
<1>5. \A v \in Uid : ticket[v] # None => ticket[v] <= internal_id' /\ ticket[v] # internal_id'
  <2> SUFFICES ASSUME NEW v \in Uid, ticket[v] # None
               PROVE  ticket[v] <= internal_id' /\ ticket[v] # internal_id'
    OBVIOUS
  <2>1. ticket[v] <= internal_id /\ ticket[v] \in Nat
    BY DEF SerialInv, Master, Numbers, TypeRest
  <2> QED
    BY <1>1, <2>1
<1>6. None # internal_id'
  BY <1>1, NoneAssumption
<1>7. Numbers'
  BY <1>2, <1>3, <1>4, <1>5, <1>6 DEF SerialInv, Master, Numbers, Calls
<1>8. Known'
  BY <1>2, <1>3, <1>4 DEF SerialInv, Master, Known
<1>9. Unheard'
  BY <1>2, <1>3, <1>4 DEF SerialInv, Master, Unheard, Once, Has, Before
<1>10. OwnAgent' /\ \A a \in Agent : AgentOK(a)'
  BY <1>2, <1>3, AgentsLeft
<1> QED
  BY <1>7, <1>8, <1>9, <1>10 DEF SerialInv, Master

(* kick_handler finds nobody: the login master is told.                     *)
LEMMA KickNobodySerial ==
  ASSUME IInv, SerialInv, NEW uid \in Uid, flow[uid].st = "kick", users[uid] = None,
         flow' = [flow EXCEPT ![uid].st = "kicknotify"],
         notices' = Append(notices, [uid |-> uid, for |-> "kick"]),
         UNCHANGED << online, users, username_map, internal_id, ticket, conn, ag, logouts >>
  PROVE  SerialInv'
<1> DEFINE f == [flow[uid] EXCEPT !.st = "kicknotify"]
           n == [uid |-> uid, for |-> "kick"]
<1>1. /\ flow \in [Uid -> [st : FlowSt, id : Nat, subid : Nat, agent : Agent \cup {None}]]
      /\ notices \in Seq(Told)
  BY DEF IInv, Typed
<1>2. f.st = "kicknotify" /\ flow' = [flow EXCEPT ![uid] = f]
  BY <1>1
<1>3. n \in Told /\ \A v \in Uid : n \notin OffNote(v)
  BY Notes DEF OffNote
<1> HIDE DEF f, n
<1>4. flow'[uid] = f /\ \A v \in Uid : v # uid => flow'[v] = flow[v]
  BY <1>1, <1>2
<1>5. /\ \A X : Has(notices', X) <=> Has(notices, X) \/ n \in X
      /\ \A X : Once(notices, X) /\ ~(Has(notices, X) /\ n \in X) => Once(notices', X)
      /\ \A X, Y : Before(notices, X, Y) /\ ~(Has(notices, X) /\ n \in Y) => Before(notices', X, Y)
  <2>1. notices' = Append(notices, n)
    BY DEF n
  <2> QED
    BY <1>1, <1>3, <2>1, SeqAppend, OrderAppend
<1>6. Numbers'
  BY <1>2, <1>4 DEF SerialInv, Master, Numbers, Calls
<1>7. Known'
  BY <1>2, <1>4 DEF SerialInv, Master, Known
<1>8. Unheard'
  <2> SUFFICES ASSUME NEW v \in Uid
               PROVE  /\ Once(notices', OffNote(v))
                      /\ Before(notices', KickNote(v), OffNote(v))
                      /\ Has(notices', OffNote(v)) =>
                           /\ users'[v] = None /\ online'[v] # None
                           /\ flow'[v].st \in {"idle", "kick", "kickwait", "kicknotify", "kicked"}
    BY DEF Unheard
  <2>1. /\ Once(notices, OffNote(v))
        /\ Before(notices, KickNote(v), OffNote(v))
        /\ Has(notices, OffNote(v)) =>
             /\ users[v] = None /\ online[v] # None
             /\ flow[v].st \in {"idle", "kick", "kickwait", "kicknotify", "kicked"}
    BY DEF SerialInv, Master, Unheard
  <2> QED
    BY <1>2, <1>3, <1>4, <1>5, <2>1
<1>9. OwnAgent' /\ \A a \in Agent : AgentOK(a)'
  BY <1>2, AgentsLeft
<1> QED
  BY <1>6, <1>7, <1>8, <1>9 DEF SerialInv, Master

LEMMA NoticeSerial ==
  ASSUME IInv, SerialInv, Notice
  PROVE  SerialInv'
<1>1. /\ notices \in Seq(Told) /\ notices # << >> /\ notices' = Tail(notices)
      /\ UNCHANGED << users, username_map, internal_id, ag, ticket, conn >>
      /\ flow \in [Uid -> [st : FlowSt, id : Nat, subid : Nat, agent : Agent \cup {None}]]
  BY DEF IInv, Typed, Notice, gvars
<1>2. PICK n \in Told : n = Head(notices)
  BY <1>1, SeqTail
<1>3. /\ \A X : Has(notices, X) <=> n \in X \/ Has(notices', X)
      /\ \A X : Once(notices, X) => Once(notices', X) /\ ~(n \in X /\ Has(notices', X))
      /\ \A X, Y : Before(notices, X, Y) =>
           Before(notices', X, Y) /\ (n \in X => ~Has(notices', Y))
  BY <1>1, <1>2, SeqTail, OrderTail
<1>4. n.uid \in Uid /\ n.for \in {"kick", "logout"} /\ (n.for = "logout" => n.l \in Out)
  BY Kinds
<1>5. \A v \in Uid : online'[v] = online[v] \/ (v = n.uid /\ online'[v] = None)
  BY <1>2, <1>4 DEF IInv, Typed, Notice
<1>6. ASSUME NEW v \in Uid
      PROVE  /\ Once(notices', OffNote(v))
             /\ Before(notices', KickNote(v), OffNote(v))
             /\ Has(notices', OffNote(v)) =>
                  /\ n \notin OffNote(v) /\ n \notin KickNote(v)
                  /\ users[v] = None /\ online[v] # None
                  /\ flow[v].st \in {"idle", "kick", "kickwait", "kicknotify", "kicked"}
  <2>1. /\ Once(notices, OffNote(v))
        /\ Before(notices, KickNote(v), OffNote(v))
        /\ Has(notices, OffNote(v)) =>
             /\ users[v] = None /\ online[v] # None
             /\ flow[v].st \in {"idle", "kick", "kickwait", "kicknotify", "kicked"}
    BY DEF SerialInv, Master, Unheard
  <2> QED
    BY <1>3, <2>1
<1>7. n \in KickNote(n.uid) \/ n \in OffNote(n.uid)
  BY <1>4 DEF KickNote, OffNote
<1>8. CASE n.for = "kick" /\ flow' = [flow EXCEPT ![n.uid].st = "kicked"] /\ UNCHANGED logouts
  <2> DEFINE f == [flow[n.uid] EXCEPT !.st = "kicked"]
  <2>1. f.st = "kicked" /\ flow' = [flow EXCEPT ![n.uid] = f]
    BY <1>1, <1>4, <1>8
  <2>2. n \in KickNote(n.uid)
    BY <1>4, <1>8 DEF KickNote
  <2>3. flow[n.uid].st = "kicknotify"
    BY <1>3, <1>4, <2>2 DEF IInv, Awaited
  <2> HIDE DEF f
  <2>4. flow'[n.uid] = f /\ \A v \in Uid : v # n.uid => flow'[v] = flow[v]
    BY <1>1, <1>4, <2>1
  <2>5. users[n.uid] = None
    BY <1>4, <2>3 DEF SerialInv, Master, Known
  <2>6. Numbers'
    BY <1>1, <2>1, <2>3, <2>4 DEF SerialInv, Master, Numbers, Calls
  <2>7. Known'
    BY <1>1, <1>5, <2>1, <2>4, <2>5 DEF SerialInv, Master, Known
  <2>8. Unheard'
    <3>1. ASSUME NEW v \in Uid, Has(notices', OffNote(v))
          PROVE  /\ users'[v] = None /\ online'[v] # None
                 /\ flow'[v].st \in {"idle", "kick", "kickwait", "kicknotify", "kicked"}
      BY <1>1, <1>5, <1>6, <2>2, <2>4, <3>1
    <3> QED
      BY <1>6, <3>1 DEF Unheard
  <2>9. OwnAgent' /\ \A a \in Agent : AgentOK(a)'
    BY <1>1, <1>4, <1>8, <2>1, <2>3, AgentsLeft
  <2> QED
    BY <2>6, <2>7, <2>8, <2>9 DEF SerialInv, Master
<1>9. CASE /\ n.for = "logout" /\ UNCHANGED flow
           /\ logouts' = (logouts \ {n.l}) \cup {[n.l EXCEPT !.st = "notified"]}
  <2>1. n.l \in Out /\ n \in LogoutNote(n.l) /\ n \in OffNote(n.uid)
    BY <1>4, <1>9 DEF LogoutNote, OffNote
  <2>2. n.l \in logouts
    BY <1>3, <2>1 DEF IInv, NotedOnce
  <2>3. PICK l \in Out : l = [n.l EXCEPT !.st = "notified"]
    BY <2>1 DEF Out
  <2>4. /\ l.from = n.l.from /\ l.by = n.l.by /\ l.agent = n.l.agent
        /\ logouts' = (logouts \ {n.l}) \cup {l}
    BY <1>9, <2>1, <2>3 DEF Out
  <2>5. users[n.uid] = None
    BY <1>3, <1>4, <2>1 DEF SerialInv, Master, Unheard
  <2>6. Numbers'
    BY <1>1, <1>9 DEF SerialInv, Master, Numbers, Calls
  <2>7. Known'
    BY <1>1, <1>5, <1>9, <2>5 DEF SerialInv, Master, Known
  <2>8. Unheard'
    <3>1. ASSUME NEW v \in Uid, Has(notices', OffNote(v))
          PROVE  /\ users'[v] = None /\ online'[v] # None
                 /\ flow'[v].st \in {"idle", "kick", "kickwait", "kicknotify", "kicked"}
      BY <1>1, <1>5, <1>6, <1>9, <2>1, <3>1
    <3> QED
      BY <1>6, <3>1 DEF Unheard
  <2>9. OwnAgent'
    BY <2>2, <2>4 DEF SerialInv, OwnAgent
  <2>10. ASSUME NEW a \in Agent PROVE AgentOK(a)'
    <3>1. Asked(a)' => Asked(a)
      BY <2>2, <2>4 DEF Asked
    <3>2. Left(a)
      BY <1>1, <1>9, <3>1 DEF Left, Held, Called
    <3> QED
      BY <3>2, LeftOK DEF SerialInv
  <2> QED
    BY <2>6, <2>7, <2>8, <2>9, <2>10 DEF SerialInv, Master
<1> QED
  BY <1>2, <1>8, <1>9 DEF Notice

-----------------------------------------------------------------------------
(* The steps of an agent.                                                   *)

\* The login of u goes on: its agent has its session, or the kicked one is gone.
Advances(u, st) ==
  /\ u \in Uid /\ flow' = [flow EXCEPT ![u].st = st]
  /\ \/ st = "called" /\ flow[u].st = "calling"
     \/ st = "kicked" /\ flow[u].st = "kickwait" /\ users[u] = None

LEMMA Advanced ==
  ASSUME IInv, NEW u, NEW st, Advances(u, st)
  PROVE  /\ flow'[u].st = st /\ \A v \in Uid : v # u => flow'[v] = flow[v]
         /\ \A v \in Uid : flow'[v].id = flow[v].id /\ flow'[v].subid = flow[v].subid
                             /\ flow'[v].agent = flow[v].agent
BY DEF IInv, Typed, Advances

LEMMA MasterActs ==
  ASSUME IInv, Master, flow' = flow \/ \E u, st : Advances(u, st),
         UNCHANGED << online, users, username_map, internal_id, notices, ticket, conn >>
  PROVE  Master'
<1>1. CASE flow' = flow
  <2>1. Numbers'
    BY <1>1 DEF Master, Numbers, Calls
  <2>2. Known'
    BY <1>1 DEF Master, Known
  <2>3. Unheard'
    BY <1>1 DEF Master, Unheard, Once, Has, Before
  <2> QED
    BY <2>1, <2>2, <2>3 DEF Master
<1>2. ASSUME NEW u, NEW st, Advances(u, st) PROVE Master'
  <2>1. /\ flow'[u].st = st /\ \A v \in Uid : v # u => flow'[v] = flow[v]
        /\ \A v \in Uid : flow'[v].id = flow[v].id /\ flow'[v].subid = flow[v].subid
                            /\ flow'[v].agent = flow[v].agent
    BY <1>2, Advanced
  <2>2. /\ u \in Uid
        /\ \/ st = "called" /\ flow[u].st = "calling"
           \/ st = "kicked" /\ flow[u].st = "kickwait" /\ users[u] = None
    BY <1>2 DEF Advances
  <2>3. Numbers'
    BY <2>1, <2>2 DEF Master, Numbers, Calls
  <2>4. Known'
    BY <2>1, <2>2 DEF Master, Known
  <2>5. ASSUME NEW v \in Uid, Has(notices, OffNote(v))
        PROVE  /\ users'[v] = None /\ online'[v] # None
               /\ flow'[v].st \in {"idle", "kick", "kickwait", "kicknotify", "kicked"}
    BY <2>1, <2>2, <2>5 DEF Master, Unheard
  <2>6. Unheard'
    BY <2>5 DEF Master, Unheard, Once, Has, Before
  <2> QED
    BY <2>3, <2>4, <2>6 DEF Master
<1> QED
  BY <1>1, <1>2

\* Agent state q has the messages of r in their order, or fewer.
Less(q, r) ==
  /\ \A X : Has(q.inbox, X) => Has(r.inbox, X)
  /\ \A X : At(q, X) => At(r, X)
  /\ \A X, Y : Before(r.inbox, X, Y) => Before(q.inbox, X, Y)
  /\ AfkLast(r) => AfkLast(q)
  /\ Has(q.cs, OfKind("login")) => Has(r.cs, OfKind("login"))

LEMMA AgentActs ==
  ASSUME IInv, SerialInv, NEW a \in Agent, NEW q, ag' = [ag EXCEPT ![a] = q],
         UNCHANGED << users, conn, logouts >>,
         flow' = flow \/ \E u, st : Advances(u, st) /\ (st = "called" => flow[u].agent = a),
         Less(q, ag[a]),
         Serves(a) => /\ q.sess = ag[a].sess
                      /\ q.afk => \/ ag[a].afk
                                  \/ At(ag[a], OfKind("afk")) /\ ~At(q, OfKind("auth")),
         Ready(a)', OwnCalls(a)', Stopped(a)',
         q.csst = "closing" \/ Asked(a) \/ Has(q.inbox, Answer0) => users[Head(q.cs).uid] = None,
         q.sess # None => q.sess = ag[a].sess \/ \A v \in Uid : ~At(q, LogoutOf(v))
  PROVE  OwnAgent' /\ \A b \in Agent : AgentOK(b)'
<1>1. /\ ag'[a] = q /\ \A b \in Agent : b # a => ag'[b] = ag[b]
      /\ AgentOK(a)
  BY DEF IInv, Typed, SerialInv
<1>2. \A v \in Uid : /\ flow'[v].subid = flow[v].subid /\ flow'[v].agent = flow[v].agent
                     /\ flow[v].agent # a => (flow'[v].st = "called" <=> flow[v].st = "called")
  <2>1. ASSUME NEW u, NEW st, Advances(u, st), st = "called" => flow[u].agent = a
        PROVE  \A v \in Uid : /\ flow'[v].subid = flow[v].subid /\ flow'[v].agent = flow[v].agent
                              /\ flow[v].agent # a => (flow'[v].st = "called" <=> flow[v].st = "called")
    <3>1. /\ flow'[u].st = st /\ \A v \in Uid : v # u => flow'[v] = flow[v]
          /\ \A v \in Uid : flow'[v].subid = flow[v].subid /\ flow'[v].agent = flow[v].agent
      BY <2>1, Advanced
    <3>2. flow[u].st # "called"
      BY <2>1 DEF Advances
    <3> QED
      BY <2>1, <3>1, <3>2
  <2> QED
    BY <2>1
<1>3. LastLogin(a)'
  BY <1>1, <1>2, Kinds DEF AgentOK, LastLogin, Less, OfKind
<1>4. Bound(a)'
  <2> SUFFICES ASSUME NEW uid \in Uid, Held(a, uid)
               PROVE  /\ q.sess = [uid |-> uid, subid |-> users[uid].subid]
                      /\ ~Has(q.inbox, OfKind("answer"))
                      /\ q.afk \/ At(q, OfKind("afk")) => conn[uid] = "down"
                      /\ q.afk => ~At(q, OfKind("auth"))
                      /\ AfkLast(q)
    BY <1>1 DEF Bound, Held
  <2>1. Serves(a)
    BY Places
  <2>2. /\ ag[a].sess = [uid |-> uid, subid |-> users[uid].subid]
        /\ ~Has(ag[a].inbox, OfKind("answer"))
        /\ ag[a].afk \/ At(ag[a], OfKind("afk")) => conn[uid] = "down"
        /\ ag[a].afk => ~At(ag[a], OfKind("auth"))
        /\ AfkLast(ag[a])
    BY <1>1 DEF AgentOK, Bound
  <2> QED
    BY <2>1, <2>2 DEF Less
<1>5. Leaving(a)'
  <2>1. \A m \in OfKind("answer") : Has(q.inbox, {m}) => m.ok
    BY <1>1 DEF AgentOK, Leaving, Less
  <2>2. Asked(a)' <=> Asked(a)
    BY DEF Asked
  <2>3. ASSUME NEW uid \in Uid, At(q, LogoutOf(uid))
        PROVE  /\ q.sess # None => q.sess.uid = uid
               /\ users[uid] # None => Held(a, uid)
    BY <1>1, <2>3 DEF AgentOK, Leaving, Less
  <2> QED
    BY <1>1, <2>1, <2>2, <2>3 DEF Leaving, Held
<1>6. ASSUME NEW b \in Agent, b # a PROVE AgentOK(b)'
  <2>1. Left(b)
    BY <1>1, <1>2, <1>6 DEF Left, Held, Called, Asked
  <2> QED
    BY <1>6, <2>1, LeftOK DEF SerialInv
<1>7. AgentOK(a)'
  BY <1>3, <1>4, <1>5 DEF AgentOK
<1>8. OwnAgent'
  BY DEF SerialInv, OwnAgent
<1> QED
  BY <1>6, <1>7, <1>8

\* What is left of agent a, r, when it has drawn m to run it.
Drawn(a, r, m) ==
  /\ Consumed(a, r, m) /\ Less(r, ag[a]) /\ ~Has(r.cs, OfKind("login"))
  /\ AfkLast(ag[a]) /\ m.t = "afk" => ~At(r, OfKind("auth"))
  /\ m.t = "login" => Has(ag[a].inbox, {m}) /\ r.inbox = << >> /\ r.cs = << >>
  /\ r.sess = ag[a].sess /\ r.running = ag[a].running /\ r.afk = ag[a].afk

LEMMA TakenDrawn ==
  ASSUME IInv, NEW a \in Agent, LastLogin(a), ag[a].inbox # << >>, Quiet(a), ag[a].csst = "idle"
  PROVE  Drawn(a, Taken(a), Head(ag[a].inbox))
<1> DEFINE r == Taken(a)
           m == Head(ag[a].inbox)
<1>1. ag[a] \in AgentState /\ ag[a].inbox \in Seq(Msg) /\ ag[a].cs = << >>
  BY DEF IInv, Typed, AgentState, Quiet
<1>2. Consumed(a, r, m)
  BY TakenConsumed DEF IInv
<1>3. /\ Tail(ag[a].inbox) \in Seq(Msg) /\ m \in Msg
      /\ \A X : Has(ag[a].inbox, X) <=> m \in X \/ Has(Tail(ag[a].inbox), X)
      /\ \A X, Y : Before(ag[a].inbox, X, Y) =>
           Before(Tail(ag[a].inbox), X, Y) /\ (m \in X => ~Has(Tail(ag[a].inbox), Y))
  BY <1>1, SeqTail, OrderTail
<1>4. /\ r.inbox = Tail(ag[a].inbox) /\ r.cs = << >> /\ ag[a].cs = << >>
      /\ r.sess = ag[a].sess /\ r.running = ag[a].running /\ r.afk = ag[a].afk
  BY <1>1 DEF Taken, AgentState
<1> HIDE DEF r, m
<1>5. Less(r, ag[a]) /\ ~Has(r.cs, OfKind("login"))
  BY <1>3, <1>4, OrderEmpty DEF Less, At, AfkLast
<1>6. ASSUME AfkLast(ag[a]), m.t = "afk" PROVE ~At(r, OfKind("auth"))
  <2>1. m \in OfKind("afk")
    BY <1>3, <1>6 DEF OfKind
  <2> QED
    BY <1>3, <1>4, <1>6, <2>1, OrderEmpty DEF AfkLast, At
<1>7. ASSUME m.t = "login" PROVE Has(ag[a].inbox, {m}) /\ r.inbox = << >> /\ r.cs = << >>
  <2>1. m \in OfKind("login")
    BY <1>3, <1>7 DEF OfKind
  <2>2. ~Has(Tail(ag[a].inbox), Msg)
    BY <1>3, <2>1 DEF LastLogin
  <2>3. Tail(ag[a].inbox) = << >>
    BY <1>3, <2>2, HasNone
  <2>4. Has(ag[a].inbox, {m})
    BY <1>3
  <2> QED
    BY <1>4, <2>3, <2>4
<1>8. Drawn(a, r, m)
  BY <1>2, <1>4, <1>5, <1>6, <1>7 DEF Drawn, r, m
<1> QED
  BY <1>8 DEF r, m

LEMMA DequeuedDrawn ==
  ASSUME IInv, NEW a \in Agent, LastLogin(a), ~Quiet(a)
  PROVE  Drawn(a, Dequeued(a), Head(ag[a].cs))
<1> DEFINE r == Dequeued(a)
           m == Head(ag[a].cs)
<1>1. ag[a] \in AgentState /\ ag[a].cs \in Seq(Msg) /\ ag[a].cs # << >>
  BY DEF IInv, Typed, AgentState, Quiet
<1>2. Consumed(a, r, m)
  BY DequeuedConsumed DEF IInv
<1>3. /\ m \in Msg
      /\ \A X : Has(ag[a].cs, X) <=> m \in X \/ Has(Tail(ag[a].cs), X)
      /\ \A X, Y : Before(ag[a].cs, X, Y) =>
           Before(Tail(ag[a].cs), X, Y) /\ (m \in X => ~Has(Tail(ag[a].cs), Y))
  BY <1>1, SeqTail, OrderTail
<1>4. /\ r.inbox = ag[a].inbox /\ r.cs = Tail(ag[a].cs)
      /\ r.sess = ag[a].sess /\ r.running = ag[a].running /\ r.afk = ag[a].afk
  BY <1>1 DEF Dequeued, AgentState
<1> HIDE DEF r, m
<1>5. Less(r, ag[a])
  BY <1>3, <1>4 DEF Less, At, AfkLast
<1>6. ~Has(r.cs, OfKind("login")) /\ m \notin OfKind("login")
  BY <1>3, <1>4 DEF LastLogin
<1>7. ASSUME AfkLast(ag[a]), m.t = "afk" PROVE ~At(r, OfKind("auth"))
  <2>1. m \in OfKind("afk")
    BY <1>3, <1>7 DEF OfKind
  <2> QED
    BY <1>3, <1>4, <1>7, <2>1 DEF AfkLast, At
<1>8. m.t # "login"
  BY <1>3, <1>6 DEF OfKind
<1>9. Drawn(a, r, m)
  BY <1>2, <1>4, <1>5, <1>6, <1>7, <1>8 DEF Drawn, r, m
<1> QED
  BY <1>9 DEF r, m

\* What holds of an agent in whose queue no CMD.logout runs.
LEMMA NoneRuns ==
  ASSUME IInv, SerialInv, NEW a \in Agent, ag[a].csst = "idle"
  PROVE  /\ ~Asked(a) /\ ~Has(ag[a].inbox, Answer0)
         /\ \A c \in Call : Has(ag[a].outbox, {c}) => c.by # 0 /\ c.uid \in Uid /\ Held(a, c.uid)
         /\ ag[a].outbox # << >> => Serves(a)
         /\ \A uid \in Uid : Held(a, uid) => ag[a].sess = [uid |-> uid, subid |-> users[uid].subid]
<1>1. AgentOK(a)
  BY DEF SerialInv
<1>2. ~Asked(a) /\ ~Has(ag[a].inbox, Answer0)
  BY DEF IInv, QueueOK, QueueFor
<1>3. ASSUME NEW c \in Call, Has(ag[a].outbox, {c})
      PROVE  c.by # 0 /\ c.uid \in Uid /\ Held(a, c.uid)
  <2>1. c.by # 0
    BY <1>3, Waiting
  <2> QED
    BY <1>1, <1>3, <2>1 DEF AgentOK, OwnCalls, Call
<1>4. ag[a].outbox # << >> => Serves(a)
  BY <1>3, Waiting, Places
<1>5. \A uid \in Uid : Held(a, uid) => ag[a].sess = [uid |-> uid, subid |-> users[uid].subid]
  BY <1>1 DEF AgentOK, Bound
<1> QED
  BY <1>2, <1>3, <1>4, <1>5

\* Agent a keeps its session and its calls, and q has fewer messages.
LEMMA AgentStays ==
  ASSUME IInv, SerialInv, NEW a \in Agent, NEW q, ag' = [ag EXCEPT ![a] = q],
         UNCHANGED << flow, users, conn, logouts >>, Less(q, ag[a]),
         q.sess = ag[a].sess, q.outbox = ag[a].outbox, q.csst = ag[a].csst,
         ag[a].csst # "idle" => Head(q.cs) = Head(ag[a].cs),
         q.afk => ag[a].afk \/ (At(ag[a], OfKind("afk")) /\ ~At(q, OfKind("auth"))),
         \A uid \in Uid : ~Called(a, uid),
         q.running => ag[a].running \/ (At(ag[a], OfKind("auth")) /\ ag[a].csst = "idle")
  PROVE  OwnAgent' /\ \A b \in Agent : AgentOK(b)'
<1>1. AgentOK(a) /\ ag'[a] = q
  BY DEF SerialInv, IInv, Typed
<1>2. Ready(a)'
  BY DEF Ready, Called
<1>3. OwnCalls(a)'
  <2>1. ASSUME NEW c \in Call, Has(q.outbox, {c}), c.by = 0 PROVE Head(q.cs).uid = c.uid
    <3>1. ag[a].csst = "gate"
      BY <2>1, Waiting
    <3> QED
      BY <1>1, <2>1, <3>1 DEF AgentOK, OwnCalls
  <2> QED
    BY <1>1, <2>1 DEF AgentOK, OwnCalls, Held
<1>4. Stopped(a)'
  <2>1. Serves(a)' <=> Serves(a)
    BY DEF Serves
  <2> QED
    BY <1>1, <2>1 DEF AgentOK, Stopped, Called, Less
<1>5. q.csst = "closing" \/ Asked(a) \/ Has(q.inbox, Answer0) => users[Head(q.cs).uid] = None
  <2>1. ASSUME ag[a].csst = "closing" \/ Asked(a) \/ Has(ag[a].inbox, Answer0)
        PROVE  users[Head(q.cs).uid] = None
    <3>1. ag[a].csst # "idle"
      BY <2>1 DEF IInv, QueueOK, QueueFor
    <3> QED
      BY <1>1, <2>1, <3>1 DEF AgentOK, Leaving
  <2> QED
    BY <2>1 DEF Less
<1> QED
  BY <1>2, <1>3, <1>4, <1>5, AgentActs

LEMMA CommandSerial ==
  ASSUME IInv, Serial, SerialInv, NEW a \in Agent, NEW r, NEW m,
         Drawn(a, r, m), Command(a, r, m),
         UNCHANGED << online, gvars, logouts, notices, ticket, conn >>
  PROVE  SerialInv'
<1>1. /\ r \in AgentState /\ m \in Msg /\ ag[a].csst = "idle" /\ r.csst = "idle"
      /\ r.outbox = ag[a].outbox /\ r.sess = ag[a].sess /\ r.running = ag[a].running
      /\ r.afk = ag[a].afk /\ Less(r, ag[a]) /\ ~Has(r.cs, OfKind("login"))
      /\ At(ag[a], {m}) /\ ag \in [Agent -> AgentState] /\ AgentOK(a)
  BY DEF Drawn, Consumed, IInv, Typed, SerialInv
<1>2. UNCHANGED << online, users, username_map, internal_id, notices, ticket, conn, logouts >>
  BY DEF gvars
<1>3. /\ ~Asked(a) /\ ~Has(ag[a].inbox, Answer0)
      /\ \A c \in Call : Has(ag[a].outbox, {c}) => c.by # 0 /\ c.uid \in Uid /\ Held(a, c.uid)
      /\ ag[a].outbox # << >> => Serves(a)
      /\ \A uid \in Uid : Held(a, uid) => ag[a].sess = [uid |-> uid, subid |-> users[uid].subid]
  BY <1>1, NoneRuns
<1>4. \A uid \in Uid : ~Called(a, uid)
  <2>1. ag[a].inbox # << >> \/ ag[a].cs # << >>
    BY <1>1 DEF At, Has
  <2> QED
    BY <1>1, <2>1 DEF AgentOK, Ready
<1>5. \A t : m.t = t => At(ag[a], OfKind(t))
  BY <1>1 DEF At, Has, OfKind
<1>6. ASSUME NEW q, q.inbox = r.inbox, q.cs = r.cs PROVE Less(q, ag[a])
  BY <1>1, <1>6 DEF Less, At, AfkLast
<1>7. CASE m.t = "login" /\ CmdLogin(a, r, m)
  <2>1. m.uid \in Uid /\ m.subid \in Nat /\ m \in LoginOf(m.uid) /\ m \in OfKind("login")
    BY <1>1, <1>7, Kinds DEF LoginOf, OfKind
  <2>2. Has(ag[a].inbox, {m}) /\ r.inbox = << >> /\ r.cs = << >>
    BY <1>7 DEF Drawn
  <2>3. flow[m.uid].agent = a /\ flow[m.uid].subid = m.subid
    BY <1>1, <2>1, <2>2 DEF AgentOK, LastLogin
  <2>4. Has(ag[a].inbox, LoginOf(m.uid)) /\ Has(ag[a].inbox, OfKind("login"))
    BY <2>1, <2>2 DEF Has
  <2>5. flow[m.uid].st = "calling"
    BY <2>1, <2>4, Waiting DEF At
  <2>6. LogsIn(a) /\ ag[a].outbox = << >> /\ ~Serves(a)
    BY <2>4, LoginAlone, Places
  <2> DEFINE q == [r EXCEPT !.sess = [uid |-> m.uid, subid |-> m.subid], !.afk = FALSE]
  <2>7. /\ q.inbox = << >> /\ q.cs = << >> /\ q.outbox = << >> /\ q.csst = "idle" /\ ~q.afk
        /\ q.sess = [uid |-> m.uid, subid |-> m.subid] /\ ag' = [ag EXCEPT ![a] = q]
    BY <1>1, <1>7, <2>2, <2>6 DEF CmdLogin, AgentState
  <2>8. Advances(m.uid, "called")
    BY <1>7, <2>1, <2>5 DEF Advances, CmdLogin
  <2> HIDE DEF q
  <2>9. ag'[a] = q
    BY <1>1, <2>7
  <2>10. flow'[m.uid].st = "called" /\ \A v \in Uid : v # m.uid => flow'[v] = flow[v]
    BY <2>8, Advanced
  <2>11. flow'[m.uid].subid = m.subid /\ flow'[m.uid].agent = a
    BY <2>1, <2>3, <2>8, Advanced
  <2>12. Ready(a)'
    <3>1. \A v \in Uid : Called(a, v)' => v = m.uid
      BY <1>4, <2>10 DEF Called
    <3> QED
      BY <2>7, <2>9, <2>11, <3>1 DEF Ready
  <2>13. OwnCalls(a)'
    BY <2>7, <2>9, OrderEmpty DEF OwnCalls
  <2>14. Called(a, m.uid)'
    BY <2>10, <2>11 DEF Called
  <2>15. Stopped(a)'
    BY <2>1, <2>7, <2>9, <2>14 DEF Stopped
  <2>16. ~Has(q.inbox, Answer0) /\ \A v \in Uid : ~At(q, LogoutOf(v))
    BY <2>7, OrderEmpty DEF At
  <2>17. Less(q, ag[a])
    BY <1>6, <2>2, <2>7
  <2>18. OwnAgent' /\ \A b \in Agent : AgentOK(b)'
    BY <1>2, <1>3, <2>3, <2>6, <2>7, <2>8, <2>12, <2>13, <2>15, <2>16, <2>17, AgentActs
  <2>19. Master'
    BY <1>2, <2>8, MasterActs DEF SerialInv
  <2> QED
    BY <2>18, <2>19 DEF SerialInv
<1>8. CASE m.t = "auth" /\ CmdAuth(a, r)
  <2>1. PICK q : /\ q.inbox = r.inbox /\ q.cs = r.cs /\ q.outbox = r.outbox /\ q.csst = "idle"
                 /\ q.sess = r.sess /\ q.afk = r.afk /\ ag' = [ag EXCEPT ![a] = q]
    <3>1. CASE r.running
      <4> DEFINE q == [r EXCEPT !.client = TRUE]
      <4>1. /\ q.inbox = r.inbox /\ q.cs = r.cs /\ q.outbox = r.outbox /\ q.csst = "idle"
            /\ q.sess = r.sess /\ q.afk = r.afk /\ ag' = [ag EXCEPT ![a] = q]
        BY <1>1, <1>8, <3>1 DEF CmdAuth, AgentState
      <4> QED
        BY <4>1
    <3>2. CASE ~r.running
      <4>1. PICK w \in Workers :
              ag' = [ag EXCEPT ![a] = [r EXCEPT !.client = TRUE, !.running = TRUE,
                                                !.worker[w] = "sleep"]]
        BY <1>8, <3>2 DEF CmdAuth
      <4> DEFINE q == [r EXCEPT !.client = TRUE, !.running = TRUE, !.worker[w] = "sleep"]
      <4>2. /\ q.inbox = r.inbox /\ q.cs = r.cs /\ q.outbox = r.outbox /\ q.csst = "idle"
            /\ q.sess = r.sess /\ q.afk = r.afk /\ ag' = [ag EXCEPT ![a] = q]
        BY <1>1, <4>1 DEF AgentState
      <4> QED
        BY <4>2
    <3> QED
      BY <3>1, <3>2
  <2>2. flow' = flow
    BY <1>8 DEF CmdAuth
  <2>3. At(ag[a], OfKind("auth"))
    BY <1>5, <1>8
  <2>4. OwnAgent' /\ \A b \in Agent : AgentOK(b)'
    BY <1>1, <1>2, <1>4, <1>6, <2>1, <2>2, <2>3, AgentStays
  <2>5. Master'
    BY <1>2, <2>2, MasterActs DEF SerialInv
  <2> QED
    BY <2>4, <2>5 DEF SerialInv
<1>9. CASE m.t = "afk" /\ CmdAfk(a, r)
  <2> DEFINE q == [r EXCEPT !.afk = TRUE]
  <2>1. /\ q.inbox = r.inbox /\ q.cs = r.cs /\ q.outbox = r.outbox /\ q.csst = "idle"
        /\ q.sess = r.sess /\ q.running = r.running /\ ag' = [ag EXCEPT ![a] = q]
    BY <1>1, <1>9 DEF CmdAfk, AgentState
  <2>2. flow' = flow
    BY <1>9 DEF CmdAfk
  <2> HIDE DEF q
  <2>3. At(ag[a], OfKind("afk")) /\ (At(q, OfKind("auth")) <=> At(r, OfKind("auth")))
    BY <1>5, <1>9, <2>1 DEF At
  <2>4. Ready(a)'
    BY <1>4, <2>2 DEF Ready, Called
  <2>5. ag'[a] = q
    BY <1>1, <2>1
  <2>6. OwnCalls(a)'
    BY <1>1, <1>2, <1>3, <2>1, <2>5 DEF AgentOK, OwnCalls, Held
  <2>7. Stopped(a)'
    <3>1. Serves(a)' <=> Serves(a)
      BY <1>2 DEF Serves
    <3>2. At(q, OfKind("auth")) => At(ag[a], OfKind("auth"))
      BY <1>1, <2>3 DEF Less
    <3> QED
      BY <1>1, <2>1, <2>2, <2>5, <3>1, <3>2 DEF AgentOK, Stopped, Called
  <2>8. Serves(a) => ~At(r, OfKind("auth"))
    <3>1. Serves(a) => AfkLast(ag[a])
      BY <1>1, Places DEF AgentOK, Bound
    <3> QED
      BY <1>9, <3>1 DEF Drawn
  <2>9. Less(q, ag[a]) /\ ~Has(q.inbox, Answer0)
    BY <1>1, <1>3, <1>6, <2>1 DEF Less
  <2>10. OwnAgent' /\ \A b \in Agent : AgentOK(b)'
    BY <1>1, <1>2, <1>3, <2>1, <2>2, <2>3, <2>4, <2>6, <2>7, <2>8, <2>9, AgentActs
  <2>11. Master'
    BY <1>2, <2>2, MasterActs DEF SerialInv
  <2> QED
    BY <2>10, <2>11 DEF SerialInv
<1>10. CASE m.t = "logout" /\ CmdLogout(a, r, m)
  <2>1. /\ m.uid \in Uid /\ m \in LogoutOf(m.uid)
        /\ m \notin OfKind("login") /\ m \notin OfKind("afk") /\ m \notin OfKind("auth")
    BY <1>1, <1>10, Kinds DEF LogoutOf, OfKind
  <2>2. At(ag[a], LogoutOf(m.uid)) /\ \A X : m \in X => At(ag[a], X)
    BY <1>1, <2>1 DEF At, Has
  <2>3. /\ ag[a].sess # None => ag[a].sess.uid = m.uid
        /\ users[m.uid] # None => Held(a, m.uid)
        /\ flow[m.uid].st = "kickwait"
    BY <1>1, <2>1, <2>2, Waiting DEF AgentOK, Leaving
  <2>4. ASSUME NEW q, q.inbox = r.inbox, q.cs = << m >> \o r.cs
        PROVE  Less(q, ag[a]) /\ Head(q.cs) = m
    <3>1. r.cs \in Seq(Msg)
      BY <1>1 DEF AgentState
    <3>2. /\ Head(q.cs) = m /\ \A X : Has(q.cs, X) <=> Has(r.cs, X) \/ m \in X
          /\ \A X, Y : Before(r.cs, X, Y) /\ ~(m \in X /\ Has(r.cs, Y)) => Before(q.cs, X, Y)
      BY <1>1, <2>4, <3>1, SeqPush, OrderPush
    <3>3. AfkLast(r) => AfkLast(q)
      BY <2>1, <2>4, <3>2 DEF AfkLast
    <3>4. \A X : At(q, X) => At(ag[a], X)
      BY <1>1, <2>2, <2>4, <3>2 DEF Less, At
    <3> QED
      BY <1>1, <2>1, <2>4, <3>2, <3>3, <3>4 DEF Less
  <2>5. CASE r.sess # None
    <3> DEFINE c == [by |-> 0, uid |-> r.sess.uid, subid |-> r.sess.subid]
               q == [CallGate(r, 0) EXCEPT !.csst = "gate", !.cs = << m >> \o @]
    <3>1. c \in Call /\ c \notin CallW /\ c.by = 0 /\ c.uid = m.uid /\ c.subid = ag[a].sess.subid
      BY <1>1, <2>3, <2>5 DEF AgentState, Call, CallW
    <3>2. /\ q.inbox = r.inbox /\ q.cs = << m >> \o r.cs /\ q.outbox = Append(ag[a].outbox, c)
          /\ q.csst = "gate" /\ ~q.running /\ q.sess = ag[a].sess /\ q.afk = ag[a].afk
          /\ ag' = [ag EXCEPT ![a] = q] /\ flow' = flow
      BY <1>1, <1>10, <2>5 DEF CmdLogout, CallGate, AgentState
    <3> HIDE DEF q, c
    <3>3. ag'[a] = q /\ Less(q, ag[a]) /\ Head(q.cs) = m
      BY <1>1, <2>4, <3>2
    <3>4. Ready(a)'
      BY <1>4, <3>2 DEF Ready, Called
    <3>5. /\ \A X : Has(q.outbox, X) <=> Has(ag[a].outbox, X) \/ c \in X
          /\ Before(q.outbox, Call, CallW)
      <4>1. ag[a].outbox \in Seq(Call)
        BY <1>1 DEF AgentState
      <4> QED
        BY <1>1, <3>1, <3>2, <4>1, SeqAppend, OrderAppend DEF AgentOK, OwnCalls
    <3>6. users[m.uid] # None => users[m.uid].name = c.subid
      <4>1. ASSUME users[m.uid] # None PROVE ag[a].sess = [uid |-> m.uid, subid |-> users[m.uid].subid]
        BY <1>3, <2>1, <2>3, <4>1
      <4>2. users[m.uid] # None => users[m.uid].name = users[m.uid].subid
        BY <2>1 DEF SerialInv, Master, Numbers
      <4> QED
        BY <3>1, <4>1, <4>2
    <3>7. OwnCalls(a)'
      BY <1>1, <1>2, <1>3, <2>3, <3>1, <3>3, <3>5, <3>6 DEF AgentOK, OwnCalls, Held
    <3>8. Stopped(a)'
      BY <3>2, <3>3 DEF Stopped
    <3>9. ~Has(q.inbox, Answer0)
      BY <1>3, <3>3 DEF Less
    <3>10. OwnAgent' /\ \A b \in Agent : AgentOK(b)'
      BY <1>2, <1>3, <3>2, <3>3, <3>4, <3>7, <3>8, <3>9, AgentActs
    <3>11. Master'
      BY <1>2, <3>2, MasterActs DEF SerialInv
    <3> QED
      BY <3>10, <3>11 DEF SerialInv
  <2>6. CASE r.sess = None
    <3>1. ~Serves(a) /\ ag[a].outbox = << >> /\ users[m.uid] = None
      <4>1. ASSUME NEW uid \in Uid, Held(a, uid) PROVE FALSE
        <5>1. users[uid] \in U
          BY <4>1 DEF Held, IInv, Typed
        <5>2. [uid |-> uid, subid |-> users[uid].subid] \in [uid : Uid, subid : Nat]
          BY <5>1 DEF U
        <5> QED
          BY <1>1, <1>3, <2>6, <4>1, <5>2, NoneAssumption
      <4> QED
        BY <1>3, <2>1, <2>3, <4>1, Places
    <3>2. PICK q : /\ q.inbox = r.inbox /\ q.outbox = << >> /\ ~q.afk /\ q.sess = None
                   /\ q.csst = "closing" => q.cs = << m >> \o r.cs
                   /\ q.csst # "closing" => q.cs = r.cs
                   /\ ag' = [ag EXCEPT ![a] = q]
                   /\ flow' = flow \/ Advances(m.uid, "kicked")
      <4>1. CASE r.client
        <5> DEFINE q == [Forget(r) EXCEPT !.running = FALSE, !.csst = "closing",
                                          !.cs = << m >> \o @]
        <5>1. /\ q.inbox = r.inbox /\ q.outbox = << >> /\ ~q.afk /\ q.sess = None
              /\ q.csst = "closing" /\ q.cs = << m >> \o r.cs
              /\ ag' = [ag EXCEPT ![a] = q] /\ flow' = flow
          BY <1>1, <1>10, <2>6, <3>1, <4>1 DEF CmdLogout, Forget, AgentState
        <5> QED
          BY <5>1
      <4>2. CASE ~r.client
        <5> DEFINE q == [Forget(r) EXCEPT !.running = FALSE, !.csst = "idle", !.cs = @]
        <5>1. /\ q.inbox = r.inbox /\ q.outbox = << >> /\ ~q.afk /\ q.sess = None
              /\ q.csst = "idle" /\ q.cs = r.cs
              /\ ag' = [ag EXCEPT ![a] = q] /\ flow' = [flow EXCEPT ![m.uid].st = "kicked"]
          BY <1>1, <1>10, <2>6, <3>1, <4>2 DEF CmdLogout, Forget, AgentState
        <5>2. Advances(m.uid, "kicked")
          BY <2>1, <2>3, <3>1, <5>1 DEF Advances
        <5> QED
          BY <5>1, <5>2
      <4> QED
        BY <4>1, <4>2, <1>1 DEF AgentState
    <3>3. ag'[a] = q /\ Less(q, ag[a]) /\ (q.csst = "closing" => Head(q.cs) = m)
      BY <1>1, <1>6, <2>4, <3>2
    <3>4. Ready(a)'
      <4>1. \A v \in Uid : Called(a, v)' => Called(a, v)
        BY <3>2, Advanced DEF Called
      <4> QED
        BY <1>4, <4>1 DEF Ready
    <3>5. OwnCalls(a)'
      BY <3>2, <3>3, OrderEmpty DEF OwnCalls
    <3>6. Stopped(a)'
      BY <3>2, <3>3 DEF Stopped
    <3>7. ~Has(q.inbox, Answer0)
      BY <1>3, <3>3 DEF Less
    <3>8. flow' = flow \/ \E u, st : Advances(u, st) /\ (st = "called" => flow[u].agent = a)
      BY <3>2
    <3>9. OwnAgent' /\ \A b \in Agent : AgentOK(b)'
      BY <1>2, <1>3, <3>1, <3>2, <3>3, <3>4, <3>5, <3>6, <3>7, <3>8, AgentActs
    <3>10. Master'
      BY <1>2, <3>2, MasterActs DEF SerialInv
    <3> QED
      BY <3>9, <3>10 DEF SerialInv
  <2> QED
    BY <2>5, <2>6
<1> QED
  BY <1>7, <1>8, <1>9, <1>10 DEF Command

LEMMA ReceiveSerial ==
  ASSUME IInv, Serial, SerialInv, NEW a \in Agent, Receive(a)
  PROVE  SerialInv'
<1> DEFINE m == Head(ag[a].inbox)
<1>1. /\ ag[a] \in AgentState /\ ag[a].inbox \in Seq(Msg) /\ ag[a].inbox # << >>
      /\ ag[a].cs \in Seq(Msg) /\ AgentOK(a) /\ Quiet(a)
      /\ UNCHANGED << online, gvars, logouts, notices, ticket, conn >>
  BY DEF Receive, IInv, Typed, AgentState, SerialInv
<1>2. CASE ag[a].csst = "idle" /\ Command(a, Taken(a), m)
  <2>1. Drawn(a, Taken(a), m)
    BY <1>1, <1>2, TakenDrawn DEF AgentOK
  <2> QED
    BY <1>1, <1>2, <2>1, CommandSerial
<1>3. CASE /\ ag[a].csst # "idle" /\ UNCHANGED flow
           /\ ag' = [ag EXCEPT ![a] = [Taken(a) EXCEPT !.cs = Append(@, m)]]
  <2>1. /\ Tail(ag[a].inbox) \in Seq(Msg) /\ m \in Msg
        /\ \A X : Has(ag[a].inbox, X) <=> m \in X \/ Has(Tail(ag[a].inbox), X)
        /\ \A X, Y : Before(ag[a].inbox, X, Y) =>
             Before(Tail(ag[a].inbox), X, Y) /\ (m \in X => ~Has(Tail(ag[a].inbox), Y))
    BY <1>1, SeqTail, OrderTail
  <2>2. /\ \A X : Has(Append(ag[a].cs, m), X) <=> Has(ag[a].cs, X) \/ m \in X
        /\ \A X, Y : Before(ag[a].cs, X, Y) /\ ~(Has(ag[a].cs, X) /\ m \in Y) =>
             Before(Append(ag[a].cs, m), X, Y)
    BY <1>1, <2>1, SeqAppend, OrderAppend
  <2>3. Head(Append(ag[a].cs, m)) = Head(ag[a].cs)
    <3>1. ag[a].cs # << >>
      BY <1>3, Waiting
    <3> QED
      BY <1>1, <3>1
  <2>4. m \notin OfKind("login")
    BY <1>3, <2>1, LoginAlone
  <2>5. PICK q : q = [Taken(a) EXCEPT !.cs = Append(@, m)]
    OBVIOUS
  <2>6. /\ q.inbox = Tail(ag[a].inbox) /\ q.cs = Append(ag[a].cs, m) /\ q.outbox = ag[a].outbox
        /\ q.csst = ag[a].csst /\ q.sess = ag[a].sess /\ q.afk = ag[a].afk
        /\ q.running = ag[a].running /\ ag' = [ag EXCEPT ![a] = q]
    BY <1>1, <1>3, <2>5 DEF Taken, AgentState
  <2> HIDE DEF m
  <2>7. Less(q, ag[a])
    <3>1. AfkLast(ag[a]) => AfkLast(q)
      BY <2>1, <2>2, <2>6 DEF AfkLast
    <3>2. \A X : At(q, X) => At(ag[a], X)
      BY <2>1, <2>2, <2>6 DEF At
    <3> QED
      BY <2>1, <2>2, <2>4, <2>6, <3>1, <3>2 DEF Less
  <2>8. \A uid \in Uid : ~Called(a, uid)
    BY <1>1 DEF AgentOK, Ready
  <2>9. UNCHANGED << online, users, username_map, internal_id, notices, ticket, conn, logouts >>
    BY <1>1 DEF gvars
  <2>10. OwnAgent' /\ \A b \in Agent : AgentOK(b)'
    BY <1>3, <2>3, <2>6, <2>7, <2>8, <2>9, AgentStays
  <2>11. Master'
    BY <1>3, <2>9, MasterActs DEF SerialInv
  <2> QED
    BY <2>10, <2>11 DEF SerialInv
<1> QED
  BY <1>2, <1>3 DEF Receive

LEMMA RunQueuedSerial ==
  ASSUME IInv, Serial, SerialInv, NEW a \in Agent, RunQueued(a)
  PROVE  SerialInv'
<1>1. LastLogin(a) /\ ~Quiet(a) /\ Command(a, Dequeued(a), Head(ag[a].cs))
      /\ UNCHANGED << online, gvars, logouts, notices, ticket, conn >>
  BY DEF RunQueued, SerialInv, AgentOK
<1> QED
  BY <1>1, DequeuedDrawn, CommandSerial

\* An agent that has logged out without a call left, in the queue or not.
LEMMA LoggedOut ==
  ASSUME IInv, SerialInv, NEW a \in Agent, NEW q, ag' = [ag EXCEPT ![a] = q],
         UNCHANGED << online, users, username_map, internal_id, notices, ticket, conn, logouts >>,
         flow' = flow \/ \E u : Advances(u, "kicked"),
         Less(q, ag[a]), ~Serves(a), q.sess = None, ~q.afk, q.outbox = << >>,
         \A uid \in Uid : ~Called(a, uid),
         q.csst = "closing" \/ Asked(a) \/ Has(q.inbox, Answer0) => users[Head(q.cs).uid] = None
  PROVE  SerialInv'
<1>1. ag'[a] = q
  BY DEF IInv, Typed
<1>2. Ready(a)'
  <2>1. \A v \in Uid : Called(a, v)' => Called(a, v)
    BY Advanced DEF Called
  <2> QED
    BY <2>1 DEF Ready
<1>3. OwnCalls(a)' /\ Stopped(a)'
  BY <1>1, OrderEmpty DEF OwnCalls, Stopped
<1>4. flow' = flow \/ \E u, st : Advances(u, st) /\ (st = "called" => flow[u].agent = a)
  OBVIOUS
<1>5. OwnAgent' /\ \A b \in Agent : AgentOK(b)'
  BY <1>2, <1>3, <1>4, AgentActs
<1>6. Master'
  BY MasterActs DEF SerialInv
<1> QED
  BY <1>5, <1>6 DEF SerialInv

LEMMA CloseDoneSerial ==
  ASSUME IInv, SerialInv, NEW a \in Agent, CloseDone(a)
  PROVE  SerialInv'
<1> DEFINE h == Head(ag[a].cs)
           q == [ag[a] EXCEPT !.csst = "idle", !.cs = Tail(@)]
<1>1. /\ ag[a] \in AgentState /\ ag[a].cs \in Seq(Msg) /\ ag[a].csst = "closing" /\ AgentOK(a)
      /\ ag[a].cs # << >> /\ h.uid \in Uid /\ flow[h.uid].st = "kickwait"
      /\ users[h.uid] = None
      /\ UNCHANGED << online, users, username_map, internal_id, notices, ticket, conn, logouts >>
  BY Waiting DEF CloseDone, IInv, Typed, AgentState, SerialInv, AgentOK, Leaving, gvars
<1>2. \A X : Has(ag[a].cs, X) <=> h \in X \/ Has(Tail(ag[a].cs), X)
  BY <1>1, SeqTail
<1>3. \A X, Y : Before(ag[a].cs, X, Y) => Before(Tail(ag[a].cs), X, Y)
  BY <1>1, OrderTail
<1>4. /\ q.inbox = ag[a].inbox /\ q.cs = Tail(ag[a].cs) /\ q.outbox = ag[a].outbox
      /\ q.csst = "idle" /\ q.sess = ag[a].sess /\ q.afk = ag[a].afk
      /\ q.running = ag[a].running /\ ag' = [ag EXCEPT ![a] = q]
  BY <1>1 DEF CloseDone, AgentState
<1>5. Advances(h.uid, "kicked")
  BY <1>1 DEF CloseDone, Advances
<1> HIDE DEF q, h
<1>6. Less(q, ag[a])
  BY <1>2, <1>3, <1>4 DEF Less, At, AfkLast
<1>7. /\ ~Asked(a) /\ ~Has(ag[a].inbox, Answer0)
      /\ \A c \in Call : Has(ag[a].outbox, {c}) => c.by # 0
  BY <1>1, Waiting DEF IInv, QueueOK, QueueFor
<1>8. ag'[a] = q
  BY <1>4 DEF IInv, Typed
<1>9. \A v \in Uid : ~Called(a, v) /\ ~Called(a, v)'
  <2>1. \A v \in Uid : ~Called(a, v)
    BY <1>1 DEF AgentOK, Ready
  <2> QED
    BY <1>5, <2>1, Advanced DEF Called
<1>10. Ready(a)'
  BY <1>9 DEF Ready
<1>11. OwnCalls(a)'
  BY <1>1, <1>4, <1>7, <1>8 DEF AgentOK, OwnCalls, Held
<1>12. Stopped(a)'
  <2>1. Serves(a)' <=> Serves(a)
    BY <1>1 DEF Serves
  <2>2. At(q, OfKind("auth")) => At(ag[a], OfKind("auth"))
    BY <1>6 DEF Less
  <2> QED
    BY <1>1, <1>4, <1>8, <1>9, <2>1, <2>2 DEF AgentOK, Stopped
<1>13. flow' = flow \/ \E u, st : Advances(u, st) /\ (st = "called" => flow[u].agent = a)
  BY <1>5
<1>14. OwnAgent' /\ \A b \in Agent : AgentOK(b)'
  BY <1>1, <1>4, <1>6, <1>7, <1>10, <1>11, <1>12, <1>13, AgentActs
<1>15. Master'
  BY <1>1, <1>5, MasterActs DEF SerialInv
<1> QED
  BY <1>14, <1>15 DEF SerialInv

LEMMA ReceiveAnswerSerial ==
  ASSUME IInv, SerialInv, NEW a \in Agent, ReceiveAnswer(a)
  PROVE  SerialInv'
<1> DEFINE m == Head(ag[a].inbox)
           h == Head(ag[a].cs)
           r == Taken(a)
<1>1. /\ ag[a] \in AgentState /\ ag[a].inbox \in Seq(Msg) /\ ag[a].inbox # << >>
      /\ ag[a].cs \in Seq(Msg) /\ AgentOK(a) /\ ag \in [Agent -> AgentState] /\ m.t = "answer"
      /\ UNCHANGED << online, users, username_map, internal_id, notices, ticket, conn, logouts >>
  BY DEF ReceiveAnswer, IInv, Typed, AgentState, SerialInv, gvars
<1>2. /\ Tail(ag[a].inbox) \in Seq(Msg) /\ m \in Msg
      /\ \A X : Has(ag[a].inbox, X) <=> m \in X \/ Has(Tail(ag[a].inbox), X)
      /\ \A X : Once(ag[a].inbox, X) => ~(m \in X /\ Has(Tail(ag[a].inbox), X))
      /\ \A X, Y : Before(ag[a].inbox, X, Y) => Before(Tail(ag[a].inbox), X, Y)
  BY <1>1, SeqTail, OrderTail
<1>3. /\ r.inbox = Tail(ag[a].inbox) /\ r.cs = ag[a].cs /\ r.outbox = ag[a].outbox
      /\ r.csst = ag[a].csst /\ r.running = ag[a].running /\ r \in AgentState
  BY <1>1, <1>2 DEF Taken, AgentState
<1>4. m \in OfKind("answer") /\ m.by \in Workers \cup {0} /\ m.ok = TRUE
  <2>1. m \in OfKind("answer") /\ Has(ag[a].inbox, {m})
    BY <1>1, <1>2 DEF OfKind
  <2> QED
    BY <1>1, <1>2, <2>1, Kinds DEF AgentOK, Leaving
<1>5. ~Serves(a)
  BY <1>1, <1>2, <1>4, Places DEF AgentOK, Bound
<1>6. \A uid \in Uid : ~Called(a, uid)
  BY <1>1 DEF AgentOK, Ready
<1>7. ASSUME NEW q, q.inbox = r.inbox, q.cs = ag[a].cs PROVE Less(q, ag[a])
  BY <1>2, <1>3, <1>7 DEF Less, At, AfkLast
<1>8. CASE m.by = 0 /\ LogoutAnswered(a, r, m.ok)
  <2>1. m \in Answer0
    BY <1>1, <1>2, <1>8 DEF Answer0
  <2>2. Has(ag[a].inbox, Answer0) /\ ~Has(Tail(ag[a].inbox), Answer0) /\ ag[a].csst = "gate"
        /\ ~Asked(a) /\ ~Has(ag[a].outbox, Call0)
    BY <1>2, <2>1 DEF IInv, QueueOK, QueueFor
  <2>3. h.uid \in Uid /\ flow[h.uid].st = "kickwait" /\ users[h.uid] = None /\ ag[a].cs # << >>
    BY <1>1, <2>2, Waiting DEF AgentOK, Leaving
  <2>4. ag[a].outbox = << >>
    <3>1. ASSUME NEW c \in Call, Has(ag[a].outbox, {c}) PROVE FALSE
      <4>1. c.by # 0
        BY <2>2, <3>1 DEF Has, Call0
      <4>2. Held(a, c.uid) /\ c.uid \in Uid
        BY <1>1, <3>1, <4>1 DEF AgentOK, OwnCalls, Call
      <4> QED
        BY <1>5, <4>2, Places
    <3> QED
      BY <3>1, Waiting
  <2>5. /\ \A X : Has(ag[a].cs, X) <=> h \in X \/ Has(Tail(ag[a].cs), X)
        /\ \A X, Y : Before(ag[a].cs, X, Y) => Before(Tail(ag[a].cs), X, Y)
    BY <1>1, <2>3, SeqTail, OrderTail
  <2>6. PICK q : /\ q.inbox = r.inbox /\ q.outbox = << >> /\ q.sess = None /\ ~q.afk
                 /\ \/ q.csst = "closing" /\ q.cs = ag[a].cs
                    \/ q.csst = "idle" /\ q.cs = Tail(ag[a].cs)
                 /\ ag' = [ag EXCEPT ![a] = q]
                 /\ flow' = flow \/ Advances(h.uid, "kicked")
    <3>1. CASE r.client
      <4> DEFINE q == [Forget(r) EXCEPT !.csst = "closing"]
      <4>1. /\ q.inbox = r.inbox /\ q.outbox = << >> /\ q.sess = None /\ ~q.afk
            /\ q.csst = "closing" /\ q.cs = ag[a].cs
            /\ ag' = [ag EXCEPT ![a] = q] /\ flow' = flow
        BY <1>3, <1>4, <1>8, <2>4, <3>1 DEF LogoutAnswered, Forget, AgentState
      <4> QED
        BY <4>1
    <3>2. CASE ~r.client
      <4> DEFINE q == [Forget(r) EXCEPT !.csst = "idle", !.cs = Tail(@)]
      <4>1. /\ q.inbox = r.inbox /\ q.outbox = << >> /\ q.sess = None /\ ~q.afk
            /\ q.csst = "idle" /\ q.cs = Tail(ag[a].cs)
            /\ ag' = [ag EXCEPT ![a] = q] /\ flow' = [flow EXCEPT ![h.uid].st = "kicked"]
        BY <1>3, <1>4, <1>8, <2>4, <3>2 DEF LogoutAnswered, Forget, AgentState
      <4>2. Advances(h.uid, "kicked")
        BY <2>3, <4>1 DEF Advances
      <4> QED
        BY <4>1, <4>2
    <3> QED
      BY <3>1, <3>2, <1>3 DEF AgentState
  <2> HIDE DEF h, m, r
  <2>7. Less(q, ag[a])
    BY <1>2, <1>3, <2>5, <2>6 DEF Less, At, AfkLast
  <2>8. q.csst = "closing" \/ Asked(a) \/ Has(q.inbox, Answer0) => users[Head(q.cs).uid] = None
    BY <1>3, <2>2, <2>3, <2>6 DEF h
  <2> QED
    BY <1>1, <1>5, <1>6, <2>6, <2>7, <2>8, LoggedOut
<1>9. CASE m.by # 0 /\ WorkerAnswered(a, r, m.by, m.ok)
  <2>1. PICK w : w = IF r.client THEN "sleep" ELSE "none"
    OBVIOUS
  <2>2. PICK q : q = [Forget(r) EXCEPT !.worker[m.by] = w]
    OBVIOUS
  <2>3. /\ q.inbox = r.inbox /\ q.outbox = ag[a].outbox /\ q.sess = None /\ ~q.afk
        /\ q.csst = ag[a].csst /\ q.cs = ag[a].cs /\ q.running = ag[a].running
        /\ ag' = [ag EXCEPT ![a] = q] /\ flow' = flow
    BY <1>3, <1>4, <1>9, <2>1, <2>2 DEF WorkerAnswered, Forget, AgentState
  <2> HIDE DEF h, m, r
  <2>4. Less(q, ag[a]) /\ ag'[a] = q
    BY <1>1, <1>7, <2>3
  <2>5. Ready(a)'
    BY <1>6, <2>3 DEF Ready, Called
  <2>6. OwnCalls(a)'
    BY <1>1, <2>3, <2>4 DEF AgentOK, OwnCalls, Held
  <2>7. Stopped(a)'
    <3>1. At(q, OfKind("auth")) => At(ag[a], OfKind("auth"))
      BY <2>4 DEF Less
    <3> QED
      BY <1>1, <2>3, <2>4, <3>1 DEF AgentOK, Stopped
  <2>8. q.csst = "closing" \/ Asked(a) \/ Has(q.inbox, Answer0) => users[Head(q.cs).uid] = None
    BY <1>1, <2>3, <2>4 DEF AgentOK, Leaving, Less
  <2>9. OwnAgent' /\ \A b \in Agent : AgentOK(b)'
    BY <1>1, <1>5, <2>3, <2>4, <2>5, <2>6, <2>7, <2>8, AgentActs
  <2>10. Master'
    BY <1>1, <2>3, MasterActs DEF SerialInv
  <2> QED
    BY <2>9, <2>10 DEF SerialInv
<1> QED
  BY <1>8, <1>9 DEF ReceiveAnswer

LEMMA HeldSession ==
  ASSUME IInv, SerialInv, NEW a \in Agent, NEW uid \in Uid, Held(a, uid)
  PROVE  ag[a].sess # None /\ ag[a].sess.uid = uid /\ ag[a].sess.subid = users[uid].name
<1>1. ag[a].sess = [uid |-> uid, subid |-> users[uid].subid]
  BY DEF SerialInv, AgentOK, Bound
<1>2. users[uid] \in U /\ users[uid].name = users[uid].subid
  BY DEF Held, IInv, Typed, SerialInv, Master, Numbers
<1>3. [uid |-> uid, subid |-> users[uid].subid] \in [uid : Uid, subid : Nat]
  BY <1>2 DEF U
<1> QED
  BY <1>1, <1>2, <1>3, NoneAssumption

LEMMA WorkerIdleSerial ==
  ASSUME IInv, SerialInv, NEW a \in Agent, NEW w \in Workers, WorkerIdle(a, w)
  PROVE  SerialInv'
<1>1. /\ ag[a] \in AgentState /\ AgentOK(a) /\ ag \in [Agent -> AgentState]
      /\ ag[a].running /\ ag[a].afk /\ flow' = flow
      /\ UNCHANGED << online, users, username_map, internal_id, notices, ticket, conn, logouts >>
  BY DEF WorkerIdle, IInv, Typed, SerialInv, gvars
<1>2. /\ \A uid \in Uid : ~Called(a, uid)
      /\ ag[a].outbox = << >>
      /\ ag[a].sess # None => Serves(a)
  BY <1>1 DEF AgentOK, Ready, Stopped
<1>3. ASSUME NEW q, q.inbox = ag[a].inbox, q.cs = ag[a].cs, q.csst = ag[a].csst
      PROVE  /\ Less(q, ag[a])
             /\ q.csst = "closing" \/ Asked(a) \/ Has(q.inbox, Answer0) => users[Head(q.cs).uid] = None
  BY <1>1, <1>3 DEF Less, At, AfkLast, AgentOK, Leaving
<1>4. CASE /\ ag[a].sess # None
           /\ ag' = [ag EXCEPT ![a] = [CallGate(ag[a], w) EXCEPT !.worker[w] = "gate"]]
  <2>1. PICK u \in Uid : Held(a, u)
    BY <1>2, <1>4, Places
  <2>2. /\ ag[a].sess.uid = u /\ ag[a].sess.subid = users[u].name
        /\ conn[u] = "down" /\ ~At(ag[a], OfKind("auth"))
    BY <1>1, <2>1, HeldSession DEF AgentOK, Bound
  <2>3. PICK c : c = [by |-> w, uid |-> u, subid |-> users[u].name]
    OBVIOUS
  <2>4. c \in Call /\ c.by = w /\ c.uid = u /\ c.subid = users[u].name /\ w # 0
    <3>1. users[u].name \in Nat
      BY <2>1 DEF Held, IInv, Typed, U
    <3> QED
      BY <2>3, <3>1 DEF Call, Workers
  <2>5. PICK q : q = [CallGate(ag[a], w) EXCEPT !.worker[w] = "gate"]
    OBVIOUS
  <2>6. /\ q.inbox = ag[a].inbox /\ q.cs = ag[a].cs /\ q.csst = ag[a].csst /\ ~q.running
        /\ q.sess = ag[a].sess /\ q.afk = ag[a].afk /\ ag' = [ag EXCEPT ![a] = q]
        /\ q.outbox = Append(<< >>, c)
    BY <1>1, <1>2, <1>4, <2>2, <2>3, <2>5 DEF CallGate, AgentState
  <2>7. ag'[a] = q /\ Less(q, ag[a])
    BY <1>1, <1>3, <2>6
  <2>8. /\ \A X : Has(q.outbox, X) <=> c \in X
        /\ Before(q.outbox, Call, CallW)
    <3>1. << >> \in Seq(Call)
      OBVIOUS
    <3>2. \A X : Has(Append(<< >>, c), X) <=> Has(<< >>, X) \/ c \in X
      BY <2>4, <3>1, SeqAppend
    <3>3. \A X, Y : Before(<< >>, X, Y) /\ ~(Has(<< >>, X) /\ c \in Y) => Before(Append(<< >>, c), X, Y)
      BY <2>4, <3>1, OrderAppend
    <3> QED
      BY <2>6, <3>2, <3>3, OrderEmpty
  <2>9. Ready(a)'
    BY <1>1, <1>2 DEF Ready, Called
  <2>10. OwnCalls(a)'
    BY <1>1, <2>1, <2>2, <2>4, <2>7, <2>8 DEF OwnCalls, Held
  <2>11. Stopped(a)'
    BY <2>2, <2>6, <2>7 DEF Stopped, Less
  <2>12. OwnAgent' /\ \A b \in Agent : AgentOK(b)'
    BY <1>1, <1>3, <2>6, <2>7, <2>9, <2>10, <2>11, AgentActs
  <2>13. Master'
    BY <1>1, MasterActs DEF SerialInv
  <2> QED
    BY <2>12, <2>13 DEF SerialInv
<1>5. CASE /\ ag[a].sess = None
           /\ ag' = [ag EXCEPT ![a] = [Forget(ag[a]) EXCEPT !.running = FALSE,
                       !.worker[w] = IF ag[a].client THEN "sleep" ELSE "none"]]
  <2>1. PICK s : s = IF ag[a].client THEN "sleep" ELSE "none"
    OBVIOUS
  <2>2. PICK q : q = [Forget(ag[a]) EXCEPT !.running = FALSE, !.worker[w] = s]
    OBVIOUS
  <2>3. /\ q.inbox = ag[a].inbox /\ q.cs = ag[a].cs /\ q.csst = ag[a].csst /\ ~q.afk
        /\ q.sess = None /\ q.outbox = << >> /\ ag' = [ag EXCEPT ![a] = q]
    BY <1>1, <1>2, <1>5, <2>1, <2>2 DEF Forget, AgentState
  <2>4. ~Serves(a)
    BY <1>5, Places, HeldSession
  <2> QED
    BY <1>1, <1>2, <1>3, <2>3, <2>4, LoggedOut
<1> QED
  BY <1>4, <1>5 DEF WorkerIdle

LEMMA WorkerExitSerial ==
  ASSUME IInv, SerialInv, NEW a \in Agent, NEW w \in Workers, WorkerExit(a, w)
  PROVE  SerialInv'
<1>1. /\ ag[a] \in AgentState /\ AgentOK(a) /\ ag \in [Agent -> AgentState] /\ flow' = flow
      /\ UNCHANGED << online, users, username_map, internal_id, notices, ticket, conn, logouts >>
  BY DEF WorkerExit, IInv, Typed, SerialInv, gvars
<1>2. PICK q : q = [ag[a] EXCEPT !.worker[w] = "none"]
  OBVIOUS
<1>3. /\ q.inbox = ag[a].inbox /\ q.cs = ag[a].cs /\ q.csst = ag[a].csst /\ q.afk = ag[a].afk
      /\ q.running = ag[a].running /\ q.sess = ag[a].sess /\ q.outbox = ag[a].outbox
      /\ ag' = [ag EXCEPT ![a] = q] /\ ag'[a] = q
  BY <1>1, <1>2 DEF WorkerExit, AgentState
<1>4. /\ Less(q, ag[a])
      /\ q.csst = "closing" \/ Asked(a) \/ Has(q.inbox, Answer0) => users[Head(q.cs).uid] = None
  BY <1>1, <1>3 DEF Less, At, AfkLast, AgentOK, Leaving
<1>5. Ready(a)'
  BY <1>1, <1>3 DEF AgentOK, Ready, Called
<1>6. OwnCalls(a)'
  BY <1>1, <1>3 DEF AgentOK, OwnCalls, Held
<1>7. Stopped(a)'
  BY <1>1, <1>3, <1>4 DEF AgentOK, Stopped, Serves, Called, Less
<1>8. OwnAgent' /\ \A b \in Agent : AgentOK(b)'
  BY <1>1, <1>3, <1>4, <1>5, <1>6, <1>7, AgentActs
<1>9. Master'
  BY <1>1, MasterActs DEF SerialInv
<1> QED
  BY <1>8, <1>9 DEF SerialInv

-----------------------------------------------------------------------------
(* The steps of the gate.                                                   *)

LEMMA SentTo ==
  ASSUME IInv, NEW a \in Agent, NEW m \in Msg, Send(a, m)
  PROVE  /\ ag'[a].cs = ag[a].cs /\ ag'[a].outbox = ag[a].outbox /\ ag'[a].csst = ag[a].csst
         /\ ag'[a].sess = ag[a].sess /\ ag'[a].afk = ag[a].afk /\ ag'[a].running = ag[a].running
         /\ \A X : Has(ag'[a].inbox, X) <=> Has(ag[a].inbox, X) \/ m \in X
         /\ \A X : At(ag'[a], X) <=> At(ag[a], X) \/ m \in X
         /\ \A X, Y : Before(ag[a].inbox, X, Y) /\ ~(Has(ag[a].inbox, X) /\ m \in Y) =>
              Before(ag'[a].inbox, X, Y)
         /\ \A b \in Agent : b # a => ag'[b] = ag[b]
<1>1. ag \in [Agent -> AgentState] /\ ag[a] \in AgentState /\ ag[a].inbox \in Seq(Msg)
  BY DEF IInv, Typed, AgentState
<1>2. /\ ag'[a].inbox = Append(ag[a].inbox, m)
      /\ ag'[a].cs = ag[a].cs /\ ag'[a].outbox = ag[a].outbox /\ ag'[a].csst = ag[a].csst
      /\ ag'[a].sess = ag[a].sess /\ ag'[a].afk = ag[a].afk /\ ag'[a].running = ag[a].running
      /\ \A b \in Agent : b # a => ag'[b] = ag[b]
  BY <1>1 DEF Send, AgentState
<1>3. \A X : Has(ag'[a].inbox, X) <=> Has(ag[a].inbox, X) \/ m \in X
  BY <1>1, <1>2, SeqAppend
<1>4. \A X, Y : Before(ag[a].inbox, X, Y) /\ ~(Has(ag[a].inbox, X) /\ m \in Y) =>
                  Before(ag'[a].inbox, X, Y)
  BY <1>1, <1>2, OrderAppend
<1>5. \A X : At(ag'[a], X) <=> At(ag[a], X) \/ m \in X
  BY <1>2, <1>3 DEF At
<1> QED
  BY <1>2, <1>3, <1>4, <1>5

(* A command for the user that agent b has.                                 *)
LEMMA SentToUser ==
  ASSUME IInv, Serial, SerialInv, NEW b \in Agent, NEW m \in Msg, Send(b, m), Serves(b),
         UNCHANGED << users, logouts >>,
         \A v \in Uid : conn[v] = "down" => conn'[v] = "down",
         flow' = flow \/ \E u \in Uid : /\ flow[u].st \notin {"calling", "called"}
                                        /\ flow'[u].st # "called"
                                        /\ \A v \in Uid : v # u => flow'[v] = flow[v],
         m.t \notin {"login", "answer"},
         m.t = "afk" => \A v \in Uid : Held(b, v) => conn'[v] = "down",
         m.t = "auth" => /\ ~ag[b].afk /\ ~At(ag[b], OfKind("afk"))
                         /\ ag[b].outbox = << >> \/ ag[b].csst = "gate",
         \A v \in Uid : m \in LogoutOf(v) => Held(b, v)
  PROVE  OwnAgent' /\ \A a \in Agent : AgentOK(a)'
<1>1. AgentOK(b) /\ OwnAgent'
  BY DEF SerialInv, OwnAgent
<1>2. /\ ag'[b].cs = ag[b].cs /\ ag'[b].outbox = ag[b].outbox /\ ag'[b].csst = ag[b].csst
      /\ ag'[b].sess = ag[b].sess /\ ag'[b].afk = ag[b].afk /\ ag'[b].running = ag[b].running
      /\ \A X : Has(ag'[b].inbox, X) <=> Has(ag[b].inbox, X) \/ m \in X
      /\ \A X : At(ag'[b], X) <=> At(ag[b], X) \/ m \in X
      /\ \A X, Y : Before(ag[b].inbox, X, Y) /\ ~(Has(ag[b].inbox, X) /\ m \in Y) =>
           Before(ag'[b].inbox, X, Y)
      /\ \A c \in Agent : c # b => ag'[c] = ag[c]
  BY SentTo
<1>3. \A c \in Agent, v \in Uid :
        /\ Called(c, v)' <=> Called(c, v)
        /\ Called(c, v) => flow'[v].subid = flow[v].subid
        /\ Has(ag[c].inbox, LoginOf(v)) =>
             flow'[v].agent = flow[v].agent /\ flow'[v].subid = flow[v].subid
  <2> SUFFICES ASSUME NEW c \in Agent, NEW v \in Uid
               PROVE  /\ Called(c, v)' <=> Called(c, v)
                      /\ Called(c, v) => flow'[v].subid = flow[v].subid
                      /\ Has(ag[c].inbox, LoginOf(v)) =>
                           flow'[v].agent = flow[v].agent /\ flow'[v].subid = flow[v].subid
    OBVIOUS
  <2>1. Has(ag[c].inbox, LoginOf(v)) => flow[v].st = "calling"
    BY Waiting DEF At
  <2> QED
    BY <2>1 DEF Called
<1>4. ASSUME NEW c \in Agent, c # b PROVE AgentOK(c)'
  <2>1. Left(c)
    BY <1>2, <1>3, <1>4 DEF Left, Held, Asked
  <2> QED
    BY <2>1, LeftOK DEF SerialInv
<1>5. /\ ~Has(ag[b].inbox, OfKind("login")) /\ ~LogsIn(b)
      /\ \A v \in Uid : ~Called(b, v) /\ ~Called(b, v)'
  BY <1>3, LoginAlone, Places
<1>6. \A t : m \in OfKind(t) => m.t = t
  BY DEF OfKind
<1>7. ~Has(ag'[b].inbox, OfKind("login"))
  BY <1>2, <1>5, <1>6
<1>8. LastLogin(b)'
  BY <1>1, <1>2, <1>7 DEF AgentOK, LastLogin, Before, Has
<1>9. Bound(b)'
  <2> SUFFICES ASSUME NEW v \in Uid, Held(b, v)
               PROVE  /\ ag'[b].sess = [uid |-> v, subid |-> users[v].subid]
                      /\ ~Has(ag'[b].inbox, OfKind("answer"))
                      /\ ag'[b].afk \/ At(ag'[b], OfKind("afk")) => conn'[v] = "down"
                      /\ ag'[b].afk => ~At(ag'[b], OfKind("auth"))
                      /\ AfkLast(ag'[b])
    BY DEF Bound, Held
  <2>1. /\ ag[b].sess = [uid |-> v, subid |-> users[v].subid]
        /\ ~Has(ag[b].inbox, OfKind("answer"))
        /\ ag[b].afk \/ At(ag[b], OfKind("afk")) => conn[v] = "down"
        /\ ag[b].afk => ~At(ag[b], OfKind("auth"))
        /\ AfkLast(ag[b])
    BY <1>1 DEF AgentOK, Bound
  <2>2. AfkLast(ag'[b])
    BY <1>2, <1>6, <2>1 DEF AfkLast, At
  <2>3. ag'[b].afk => ~At(ag'[b], OfKind("auth"))
    BY <1>2, <1>6, <2>1
  <2> QED
    BY <1>2, <1>6, <2>1, <2>2, <2>3
<1>10. Ready(b)'
  BY <1>5 DEF Ready
<1>11. OwnCalls(b)'
  <2>1. ASSUME NEW c \in Call, Has(ag[b].outbox, {c})
        PROVE  /\ users'[c.uid] # None => Held(b, c.uid)' /\ users'[c.uid].name = c.subid
               /\ c.by # 0 => users'[c.uid] # None /\ conn'[c.uid] = "down"
               /\ c.by = 0 => Head(ag[b].cs).uid = c.uid
    <3>1. c.uid \in Uid
      BY DEF Call
    <3> QED
      BY <1>1, <2>1, <3>1 DEF AgentOK, OwnCalls, Held
  <2> QED
    BY <1>1, <1>2, <2>1 DEF AgentOK, OwnCalls
<1>12. Stopped(b)'
  BY <1>1, <1>2, <1>6 DEF AgentOK, Stopped, Serves
<1>13. Leaving(b)'
  <2>1. \A x \in OfKind("answer") : Has(ag'[b].inbox, {x}) => x.ok
    BY <1>1, <1>2, <1>6 DEF AgentOK, Leaving
  <2>2. m \notin Answer0
    BY DEF Answer0
  <2>3. ASSUME NEW v \in Uid, At(ag'[b], LogoutOf(v))
        PROVE  /\ ag[b].sess # None => ag[b].sess.uid = v
               /\ users[v] # None => Held(b, v)
    <3>1. CASE m \in LogoutOf(v)
      BY <3>1, HeldSession
    <3>2. CASE At(ag[b], LogoutOf(v))
      BY <1>1, <3>2 DEF AgentOK, Leaving
    <3> QED
      BY <1>2, <2>3, <3>1, <3>2
  <2> QED
    BY <1>1, <1>2, <2>1, <2>2, <2>3 DEF AgentOK, Leaving, Held, Asked
<1> QED
  BY <1>1, <1>4, <1>8, <1>9, <1>10, <1>11, <1>12, <1>13 DEF AgentOK

\* A user that is filed under its username is in the other table too.
LEMMA Filed ==
  ASSUME IInv, SerialInv, NEW uid \in Uid, NEW u \in username_map, u.uid = uid
  PROVE  u = users[uid] /\ users[uid] # None /\ u.agent \in Agent /\ Held(u.agent, uid)
<1>1. PICK v \in Uid : users[v] # None /\ u = users[v]
  BY DEF SerialInv, Master, Numbers
<1>2. users[v].uid = v /\ users[v] \in U
  BY <1>1 DEF SerialInv, Master, Numbers, IInv, Typed
<1> QED
  BY <1>1, <1>2 DEF U, Held

\* Of the connections only uid's changes, and uid's login is not at its end.
LEMMA MasterConn ==
  ASSUME IInv, Master, NEW uid \in Uid, flow[uid].st # "loggedin",
         \A v \in Uid : v # uid => conn'[v] = conn[v],
         UNCHANGED << online, users, username_map, internal_id, notices, ticket, flow >>
  PROVE  Master'
<1>1. Numbers'
  BY DEF Master, Numbers, Calls
<1>2. Known'
  BY DEF Master, Known
<1>3. Unheard'
  BY DEF Master, Unheard, Once, Has, Before
<1> QED
  BY <1>1, <1>2, <1>3 DEF Master

LEMMA KickHandlerSerial ==
  ASSUME IInv, Serial, SerialInv, NEW uid \in Uid, KickHandler(uid)
  PROVE  SerialInv'
<1>1. /\ flow[uid].st = "kick"
      /\ UNCHANGED << online, users, username_map, internal_id, ticket, conn, logouts >>
  BY DEF KickHandler, gvars
<1>2. CASE users[uid] = None
  BY <1>1, <1>2, KickNobodySerial DEF KickHandler, Names
<1>3. CASE users[uid] # None
  <2>1. Names(uid, flow[uid].subid)
    BY <1>1, <1>3 DEF SerialInv, Master, Known, Names
  <2>2. /\ flow' = [flow EXCEPT ![uid].st = "kickwait"]
        /\ Send(users[uid].agent, LogoutMsg(uid)) /\ notices' = notices
    BY <1>3, <2>1 DEF KickHandler
  <2>3. users[uid].agent \in Agent /\ Held(users[uid].agent, uid) /\ Serves(users[uid].agent)
    BY <1>3 DEF IInv, Typed, U, Held, Serves
  <2>4. flow'[uid].st = "kickwait" /\ flow'[uid].subid = flow[uid].subid
        /\ \A v \in Uid : v # uid => flow'[v] = flow[v]
    BY <2>2 DEF IInv, Typed
  <2>5. LogoutMsg(uid) \in Msg /\ LogoutMsg(uid).t = "logout"
        /\ \A v \in Uid : LogoutMsg(uid) \in LogoutOf(v) => v = uid
    BY Messages DEF LogoutMsg
  <2>6. OwnAgent' /\ \A a \in Agent : AgentOK(a)'
    BY <1>1, <2>2, <2>3, <2>4, <2>5, SentToUser
  <2>7. Numbers'
    BY <1>1, <2>4 DEF SerialInv, Master, Numbers, Calls
  <2>8. Known'
    BY <1>1, <2>4 DEF SerialInv, Master, Known
  <2>9. Unheard'
    BY <1>1, <2>2, <2>4 DEF SerialInv, Master, Unheard, Once, Has, Before
  <2> QED
    BY <2>6, <2>7, <2>8, <2>9 DEF SerialInv, Master
<1> QED
  BY <1>2, <1>3

LEMMA AuthSerial ==
  ASSUME ~Reconnects, IInv, TypeRest, Serial, SerialInv, NEW uid \in Uid, Auth(uid)
  PROVE  SerialInv'
<1>1. /\ conn[uid] = "never" /\ conn' = [conn EXCEPT ![uid] = "up"]
      /\ UNCHANGED << online, flow, users, username_map, internal_id, notices, ticket, logouts >>
      /\ Send(users[uid].agent, AuthMsg)
  BY DEF Auth, gvars
<1>2. PICK u \in username_map : u.uid = uid /\ u.name = ticket[uid]
  BY DEF Auth
<1>3. u = users[uid] /\ users[uid].agent \in Agent /\ Held(users[uid].agent, uid)
  BY <1>2, Filed
<1>4. PICK b \in Agent : b = users[uid].agent
  BY <1>3
<1>5. flow[uid].st # "loggedin"
  BY <1>2, <1>3 DEF SerialInv, Master, Numbers
<1>6. \A v \in Uid : conn'[v] = IF v = uid THEN "up" ELSE conn[v]
  BY <1>1 DEF TypeRest
<1>7. Serves(b) /\ AgentOK(b)
  BY <1>3, <1>4, Places DEF SerialInv
<1>8. ~ag[b].afk /\ ~At(ag[b], OfKind("afk"))
  BY <1>1, <1>3, <1>4, <1>7 DEF AgentOK, Bound
<1>9. ag[b].outbox = << >> \/ ag[b].csst = "gate"
  <2>1. ASSUME ag[b].csst # "gate", NEW c \in Call, Has(ag[b].outbox, {c}) PROVE FALSE
    <3>1. c.by # 0 /\ c.uid \in Uid
      BY <2>1, Waiting DEF Call
    <3>2. Held(b, c.uid) /\ conn[c.uid] = "down"
      BY <1>7, <2>1, <3>1 DEF AgentOK, OwnCalls
    <3>3. c.uid = uid
      BY <1>3, <1>4, <3>1, <3>2, Places
    <3> QED
      BY <1>1, <3>2, <3>3
  <2> QED
    BY <2>1, Waiting
<1>10. AuthMsg \in Msg /\ AuthMsg.t = "auth" /\ \A v \in Uid : AuthMsg \notin LogoutOf(v)
  BY Messages DEF AuthMsg
<1>11. OwnAgent' /\ \A a \in Agent : AgentOK(a)'
  BY <1>1, <1>4, <1>6, <1>7, <1>8, <1>9, <1>10, SentToUser
<1>12. Master'
  BY <1>1, <1>5, <1>6, MasterConn DEF SerialInv
<1> QED
  BY <1>11, <1>12 DEF SerialInv

LEMMA DisconnectSerial ==
  ASSUME IInv, TypeRest, Serial, SerialInv, NEW uid \in Uid, Disconnect(uid)
  PROVE  SerialInv'
<1>1. /\ conn[uid] = "up" /\ conn' = [conn EXCEPT ![uid] = "down"]
      /\ UNCHANGED << online, flow, users, username_map, internal_id, notices, ticket, logouts >>
  BY DEF Disconnect, gvars
<1>2. PICK u \in username_map : u.uid = uid /\ Send(u.agent, AfkMsg)
  BY DEF Disconnect
<1>3. u.agent \in Agent /\ Held(u.agent, uid)
  BY <1>2, Filed
<1>4. PICK b \in Agent : b = u.agent
  BY <1>3
<1>5. flow[uid].st # "loggedin"
  BY <1>1 DEF SerialInv, Master, Numbers
<1>6. \A v \in Uid : conn'[v] = IF v = uid THEN "down" ELSE conn[v]
  BY <1>1 DEF TypeRest
<1>7. Serves(b) /\ \A v \in Uid : Held(b, v) => v = uid
  BY <1>3, <1>4, Places
<1>8. AfkMsg \in Msg /\ AfkMsg.t = "afk" /\ \A v \in Uid : AfkMsg \notin LogoutOf(v)
  BY Messages DEF AfkMsg
<1>9. OwnAgent' /\ \A a \in Agent : AgentOK(a)'
  BY <1>1, <1>2, <1>4, <1>6, <1>7, <1>8, SentToUser
<1>10. Master'
  BY <1>1, <1>5, <1>6, MasterConn DEF SerialInv
<1> QED
  BY <1>9, <1>10 DEF SerialInv

(* The agent is given back and its CMD.logout, or worker, answered.          *)
LEMMA LogoutReturnSerial ==
  ASSUME IInv, Serial, SerialInv, NEW l \in logouts, LogoutReturn(l)
  PROVE  SerialInv'
<1> DEFINE m == Answer(l.by, TRUE)
<1>1. /\ l.from \in Agent /\ l.agent = l.from /\ l.by \in Workers \cup {0}
  BY DEF SerialInv, OwnAgent, IInv, Typed, Out
<1>2. PICK a \in Agent : a = l.from
  BY <1>1
<1>3. /\ Send(a, m) /\ logouts' = logouts \ {l}
      /\ UNCHANGED << online, flow, users, username_map, internal_id, notices, ticket, conn >>
  BY <1>2 DEF LogoutReturn
<1>4. /\ m \in Msg /\ m.t = "answer" /\ m.ok = TRUE /\ (m \in Answer0 <=> l.by = 0)
      /\ \A v \in Uid : m \notin LogoutOf(v)
  BY <1>1, Messages DEF Answer
<1> HIDE DEF m
<1>5. /\ ag'[a].cs = ag[a].cs /\ ag'[a].outbox = ag[a].outbox /\ ag'[a].csst = ag[a].csst
      /\ ag'[a].sess = ag[a].sess /\ ag'[a].afk = ag[a].afk /\ ag'[a].running = ag[a].running
      /\ \A X : Has(ag'[a].inbox, X) <=> Has(ag[a].inbox, X) \/ m \in X
      /\ \A X : At(ag'[a], X) <=> At(ag[a], X) \/ m \in X
      /\ \A b \in Agent : b # a => ag'[b] = ag[b]
  BY <1>3, <1>4, SentTo
<1>6. LogsOut(a) /\ ~Serves(a) /\ ~LogsIn(a)
  <2>1. LogsOut(a)
    BY <1>1, <1>2 DEF LogsOut
  <2> QED
    BY <2>1, Places
<1>7. \A v \in Uid : ~Held(a, v) /\ ~Called(a, v)
  BY <1>6, Places
<1>8. AgentOK(a)
  BY DEF SerialInv
<1>9. \A t : m \in OfKind(t) => m.t = t
  BY DEF OfKind
<1>10. \A b \in Agent : Asked(b)' => Asked(b)
  BY <1>3 DEF Asked
<1>11. ~Has(ag[a].inbox, OfKind("login")) /\ ~Has(ag'[a].inbox, OfKind("login"))
  <2>1. ~Has(ag[a].inbox, OfKind("login"))
    BY <1>6, LoginAlone
  <2> QED
    BY <1>4, <1>5, <1>9, <2>1
<1>12. LastLogin(a)'
  BY <1>5, <1>8, <1>11 DEF AgentOK, LastLogin, Before, Has
<1>13. Bound(a)' /\ Ready(a)'
  BY <1>3, <1>7 DEF Bound, Ready, Held, Called
<1>14. OwnCalls(a)'
  BY <1>3, <1>5, <1>8 DEF AgentOK, OwnCalls, Held
<1>15. Stopped(a)'
  BY <1>3, <1>4, <1>5, <1>8, <1>9 DEF AgentOK, Stopped, Serves, Called
<1>16. Leaving(a)'
  <2>1. \A x \in OfKind("answer") : Has(ag'[a].inbox, {x}) => x.ok
    BY <1>4, <1>5, <1>8 DEF AgentOK, Leaving
  <2>2. m \in Answer0 => Asked(a)
    BY <1>2, <1>4 DEF Asked
  <2>3. ag'[a].csst = "closing" \/ Asked(a)' \/ Has(ag'[a].inbox, Answer0) =>
          users'[Head(ag'[a].cs).uid] = None
    BY <1>3, <1>5, <1>8, <1>10, <2>2 DEF AgentOK, Leaving
  <2>4. \A v \in Uid : At(ag'[a], LogoutOf(v)) =>
          /\ ag'[a].sess # None => ag'[a].sess.uid = v
          /\ users'[v] # None => Held(a, v)'
    BY <1>3, <1>4, <1>5, <1>8 DEF AgentOK, Leaving, Held
  <2> QED
    BY <2>1, <2>3, <2>4 DEF Leaving
<1>17. ASSUME NEW b \in Agent, b # a PROVE AgentOK(b)'
  <2>1. Left(b)
    BY <1>3, <1>5, <1>10, <1>17 DEF Left, Held, Called
  <2> QED
    BY <2>1, LeftOK DEF SerialInv
<1>18. OwnAgent'
  BY <1>3 DEF SerialInv, OwnAgent
<1>19. Master'
  BY <1>3, MasterActs DEF SerialInv
<1> QED
  BY <1>12, <1>13, <1>14, <1>15, <1>16, <1>17, <1>18, <1>19 DEF SerialInv, AgentOK

(* The handler of a logout call that names nobody: CMD.logout made it after  *)
(* a worker's call had taken its user out of the tables.                    *)
LEMMA LogoutRefusedSerial ==
  ASSUME IInv, Serial, SerialInv, NEW a \in Agent, ag[a].outbox # << >>,
         LogoutRefused(a, Head(ag[a].outbox)),
         UNCHANGED << online, flow, internal_id, ticket >>
  PROVE  SerialInv'
<1> DEFINE c == Head(ag[a].outbox)
           m == Answer(c.by, users[c.uid] = None)
<1>1. /\ ag[a] \in AgentState /\ ag[a].inbox \in Seq(Msg) /\ ag[a].outbox \in Seq(Call)
      /\ ag \in [Agent -> AgentState] /\ AgentOK(a)
      /\ UNCHANGED << online, flow, users, username_map, internal_id, notices, ticket, conn, logouts >>
  BY DEF LogoutRefused, IInv, Typed, AgentState, SerialInv
<1>2. /\ c \in Call /\ c.uid \in Uid /\ c.by \in Workers \cup {0} /\ Has(ag[a].outbox, {c})
      /\ Tail(ag[a].outbox) \in Seq(Call)
      /\ \A X : Has(ag[a].outbox, X) <=> c \in X \/ Has(Tail(ag[a].outbox), X)
      /\ \A X : Once(ag[a].outbox, X) => ~(c \in X /\ Has(Tail(ag[a].outbox), X))
      /\ \A X, Y : Before(ag[a].outbox, X, Y) => (c \in X => ~Has(Tail(ag[a].outbox), Y))
  <2>1. /\ c \in Call /\ Tail(ag[a].outbox) \in Seq(Call)
        /\ \A X : Has(ag[a].outbox, X) <=> c \in X \/ Has(Tail(ag[a].outbox), X)
        /\ \A X : Once(ag[a].outbox, X) => ~(c \in X /\ Has(Tail(ag[a].outbox), X))
    BY <1>1, SeqTail
  <2>2. \A X, Y : Before(ag[a].outbox, X, Y) => (c \in X => ~Has(Tail(ag[a].outbox), Y))
    BY <1>1, OrderTail
  <2>3. c.uid \in Uid /\ c.by \in Workers \cup {0}
    BY <2>1 DEF Call
  <2>4. Has(ag[a].outbox, {c})
    BY <2>1
  <2> QED
    BY <2>1, <2>2, <2>3, <2>4
<1>3. users[c.uid] = None
  BY <1>1, <1>2 DEF LogoutRefused, Names, AgentOK, OwnCalls
<1>4. c.by = 0 /\ ag[a].csst = "gate" /\ Head(ag[a].cs).uid = c.uid
  <2>1. c.by = 0
    BY <1>1, <1>2, <1>3 DEF AgentOK, OwnCalls
  <2> QED
    BY <1>1, <1>2, <2>1, Waiting DEF AgentOK, OwnCalls
<1>5. Tail(ag[a].outbox) = << >>
  <2>1. ~Has(Tail(ag[a].outbox), CallW)
    BY <1>1, <1>2 DEF AgentOK, OwnCalls
  <2>2. ~Has(Tail(ag[a].outbox), Call0)
    BY <1>2, <1>4 DEF IInv, QueueOK, QueueFor, Call0
  <2>3. ~Has(Tail(ag[a].outbox), Call)
    BY <2>1, <2>2 DEF Has, Call0, CallW
  <2> QED
    BY <1>2, <2>3, HasNone
<1>6. ~Serves(a) /\ ~LogsIn(a) /\ \A v \in Uid : ~Held(a, v) /\ ~Called(a, v)
  <2>1. At(ag[a], LogoutOf(c.uid))
    BY <1>4, Waiting DEF At
  <2>2. ASSUME NEW v \in Uid, Held(a, v) PROVE FALSE
    <3>1. v = c.uid
      BY <1>1, <1>2, <2>1, <2>2, HeldSession DEF AgentOK, Leaving
    <3> QED
      BY <1>3, <2>2, <3>1 DEF Held
  <2>3. ~LogsIn(a)
    BY <1>4, LoginAlone
  <2> QED
    BY <2>2, <2>3, Places
<1>7. /\ m \in Msg /\ m.t = "answer" /\ m.ok /\ \A v \in Uid : m \notin LogoutOf(v)
  BY <1>2, <1>3, Messages DEF Answer
<1>8. /\ ag'[a].inbox = Append(ag[a].inbox, m) /\ ag'[a].outbox = << >>
      /\ ag'[a].cs = ag[a].cs /\ ag'[a].csst = "gate" /\ ag'[a].sess = ag[a].sess
      /\ ag'[a].running = ag[a].running
      /\ \A b \in Agent : b # a => ag'[b] = ag[b]
  BY <1>1, <1>4, <1>5 DEF LogoutRefused, AnswerNow, AgentState
<1> HIDE DEF c, m
<1>9. \A X : Has(ag'[a].inbox, X) <=> Has(ag[a].inbox, X) \/ m \in X
  BY <1>1, <1>7, <1>8, SeqAppend
<1>10. \A t : m \in OfKind(t) => m.t = t
  BY DEF OfKind
<1>11. ~Has(ag'[a].inbox, OfKind("login"))
  <2>1. ~Has(ag[a].inbox, OfKind("login"))
    BY <1>6, LoginAlone
  <2> QED
    BY <1>7, <1>9, <1>10, <2>1
<1>12. LastLogin(a)'
  BY <1>1, <1>8, <1>11 DEF AgentOK, LastLogin, Before, Has
<1>13. Bound(a)' /\ Ready(a)'
  BY <1>1, <1>6 DEF Bound, Ready, Held, Called
<1>14. OwnCalls(a)'
  BY <1>8, OrderEmpty DEF OwnCalls
<1>15. Stopped(a)'
  BY <1>1, <1>8 DEF AgentOK, Stopped
<1>16. Leaving(a)'
  <2>1. \A x \in OfKind("answer") : Has(ag'[a].inbox, {x}) => x.ok
    BY <1>1, <1>7, <1>9 DEF AgentOK, Leaving
  <2>2. \A v \in Uid : At(ag'[a], LogoutOf(v)) =>
          /\ ag'[a].sess # None => ag'[a].sess.uid = v
          /\ users'[v] # None => Held(a, v)'
    BY <1>1, <1>7, <1>8, <1>9 DEF AgentOK, Leaving, Held, At
  <2> QED
    BY <1>1, <1>3, <1>4, <1>8, <2>1, <2>2 DEF Leaving
<1>17. ASSUME NEW b \in Agent, b # a PROVE AgentOK(b)'
  <2>1. Left(b)
    BY <1>1, <1>8, <1>17 DEF Left, Held, Called, Asked
  <2> QED
    BY <2>1, LeftOK DEF SerialInv
<1>18. OwnAgent'
  BY <1>1 DEF SerialInv, OwnAgent
<1>19. Master'
  BY <1>1, MasterActs DEF SerialInv
<1> QED
  BY <1>12, <1>13, <1>14, <1>15, <1>16, <1>17, <1>18, <1>19 DEF SerialInv, AgentOK

(* The user is taken out of the tables, and nobody else asks for that.       *)
LEMMA LogoutForgetSerial ==
  ASSUME IInv, TypeRest, Serial, SerialInv, NEW a \in Agent, ag[a].outbox # << >>,
         LogoutForget(a, Head(ag[a].outbox)),
         UNCHANGED << online, flow, internal_id, ticket >>
  PROVE  SerialInv'
<1> DEFINE c == Head(ag[a].outbox)
           l == [from |-> a, by |-> c.by, agent |-> users[c.uid].agent, st |-> "notify"]
           n == [uid |-> c.uid, for |-> "logout", l |-> l]
<1>1. /\ ag[a] \in AgentState /\ ag[a].outbox \in Seq(Call) /\ notices \in Seq(Told)
      /\ ag \in [Agent -> AgentState] /\ AgentOK(a)
  BY DEF IInv, Typed, AgentState, SerialInv
<1>2. /\ c \in Call /\ Tail(ag[a].outbox) \in Seq(Call)
      /\ \A X : Has(ag[a].outbox, X) <=> c \in X \/ Has(Tail(ag[a].outbox), X)
  BY <1>1, SeqTail
<1>3. \A X, Y : Before(ag[a].outbox, X, Y) =>
        Before(Tail(ag[a].outbox), X, Y) /\ (c \in X => ~Has(Tail(ag[a].outbox), Y))
  BY <1>1, OrderTail
<1>4. Has(ag[a].outbox, {c})
  BY <1>2
<1>5. PICK u \in Uid : u = c.uid
  BY <1>2 DEF Call
<1>6. users[u] # None
  BY <1>5 DEF LogoutForget, Names
<1>7. Held(a, u) /\ users[u].agent = a /\ c.by \in Workers \cup {0}
  BY <1>1, <1>2, <1>4, <1>5, <1>6 DEF AgentOK, OwnCalls, Held, Call
<1>8. /\ users' = [users EXCEPT ![u] = None] /\ username_map' = username_map \ {users[u]}
      /\ conn' = [conn EXCEPT ![u] = "down"] /\ logouts' = logouts \cup {l}
      /\ notices' = Append(notices, n)
      /\ ag' = [ag EXCEPT ![a].outbox = Tail(@)]
  BY <1>5 DEF LogoutForget
<1>9. /\ ag'[a].inbox = ag[a].inbox /\ ag'[a].outbox = Tail(ag[a].outbox)
      /\ ag'[a].cs = ag[a].cs /\ ag'[a].csst = ag[a].csst /\ ag'[a].sess = ag[a].sess
      /\ ag'[a].running = ag[a].running
      /\ \A b \in Agent : b # a => ag'[b] = ag[b]
  BY <1>1, <1>8 DEF AgentState
<1>10. /\ users'[u] = None /\ \A v \in Uid : v # u => users'[v] = users[v]
       /\ conn'[u] = "down" /\ \A v \in Uid : v # u => conn'[v] = conn[v]
  BY <1>8 DEF IInv, Typed, TypeRest
<1>11. l \in Out /\ l.from = a /\ l.agent = a /\ l.by = c.by
  BY <1>5, <1>7 DEF Out
<1>12. n \in Told /\ n \in OffNote(u) /\ \A v \in Uid : n \notin KickNote(v) /\ (n \in OffNote(v) => v = u)
  BY <1>2, <1>5, <1>11, Notes DEF OffNote
<1> HIDE DEF c, l, n
<1>13. Serves(a) /\ ~LogsIn(a) /\ (\A v \in Uid : Held(a, v) => v = u) /\ \A v \in Uid : ~Called(a, v)
  BY <1>7, Places
<1>14. c.by = 0 => Head(ag[a].cs).uid = u /\ flow[u].st = "kickwait"
  BY <1>1, <1>2, <1>4, <1>5, Waiting DEF AgentOK, OwnCalls
<1>15. flow[u].st \in {"idle", "kick", "kickwait"} /\ online[u] # None
  <2>1. flow[u].st \notin {"spawn", "calling", "called"}
    BY <1>6 DEF IInv, Conserved
  <2>2. flow[u].st \notin {"kicknotify", "kicked", "login", "kickfailed"}
    BY <1>6 DEF SerialInv, Master, Known
  <2>3. flow[u].st # "loggedin"
    <3>1. c.by # 0 => conn[u] = "down"
      BY <1>1, <1>2, <1>4, <1>5 DEF AgentOK, OwnCalls
    <3> QED
      BY <1>14, <3>1 DEF SerialInv, Master, Numbers
  <2>4. flow[u].st \in FlowSt
    BY DEF IInv, Typed
  <2>5. flow[u].st \in {"idle", "kick", "kickwait"}
    BY <2>1, <2>2, <2>3, <2>4 DEF FlowSt
  <2>6. users[u].name # None
    BY <1>6, NoneAssumption DEF IInv, Typed, U
  <2> QED
    BY <1>6, <2>5, <2>6 DEF SerialInv, Master, Known
<1>16. Numbers'
  <2>1. ASSUME NEW v \in Uid, v # u, users[v] # None PROVE users[v] # users[u]
    BY <1>6, <2>1 DEF SerialInv, Master, Numbers
  <2>2. username_map' = {users'[v] : v \in {w \in Uid : users'[w] # None}}
    BY <1>8, <1>10, <2>1 DEF SerialInv, Master, Numbers
  <2>3. /\ users' # users /\ flow[u].st \notin {"spawn", "calling", "called", "loggedin"}
    BY <1>6, <1>10, <1>15
  <2> QED
    BY <1>10, <2>2, <2>3 DEF SerialInv, Master, Numbers, Calls
<1>17. Known'
  BY <1>10 DEF SerialInv, Master, Known
<1>18. Unheard'
  <2>1. /\ \A X : Has(notices', X) <=> Has(notices, X) \/ n \in X
        /\ \A X : Once(notices, X) /\ ~(Has(notices, X) /\ n \in X) => Once(notices', X)
    BY <1>1, <1>8, <1>12, SeqAppend
  <2>2. \A X, Y : Before(notices, X, Y) /\ ~(Has(notices, X) /\ n \in Y) => Before(notices', X, Y)
    BY <1>1, <1>8, <1>12, OrderAppend
  <2>3. ~Has(notices, OffNote(u))
    BY <1>6 DEF SerialInv, Master, Unheard
  <2>4. ~Has(notices, KickNote(u))
    BY <1>15 DEF IInv, Awaited
  <2> SUFFICES ASSUME NEW v \in Uid
               PROVE  /\ Once(notices', OffNote(v))
                      /\ Before(notices', KickNote(v), OffNote(v))
                      /\ Has(notices', OffNote(v)) =>
                           /\ users'[v] = None /\ online'[v] # None
                           /\ flow'[v].st \in {"idle", "kick", "kickwait", "kicknotify", "kicked"}
    BY DEF Unheard
  <2>5. /\ Once(notices, OffNote(v))
        /\ Before(notices, KickNote(v), OffNote(v))
        /\ Has(notices, OffNote(v)) =>
             /\ users[v] = None /\ online[v] # None
             /\ flow[v].st \in {"idle", "kick", "kickwait", "kicknotify", "kicked"}
    BY DEF SerialInv, Master, Unheard
  <2>6. Once(notices', OffNote(v)) /\ Before(notices', KickNote(v), OffNote(v))
    BY <1>12, <2>1, <2>2, <2>3, <2>4, <2>5
  <2> QED
    BY <1>10, <1>12, <1>15, <2>1, <2>5, <2>6
<1>19. LastLogin(a)'
  BY <1>1, <1>9 DEF AgentOK, LastLogin
<1>20. Bound(a)' /\ Ready(a)'
  <2>1. \A v \in Uid : ~Held(a, v)' /\ ~Called(a, v)'
    BY <1>10, <1>13 DEF Held, Called
  <2> QED
    BY <2>1 DEF Bound, Ready
<1>21. OwnCalls(a)'
  <2>1. Before(Tail(ag[a].outbox), Call, CallW) /\ ~Has(Tail(ag[a].outbox), CallW)
    BY <1>1, <1>2, <1>3 DEF AgentOK, OwnCalls
  <2>2. ASSUME NEW d \in Call, Has(Tail(ag[a].outbox), {d})
        PROVE  d.by = 0 /\ Head(ag[a].cs).uid = d.uid /\ users'[d.uid] = None
    <3>1. Has(ag[a].outbox, {d}) /\ d.by = 0 /\ d.uid \in Uid
      BY <1>2, <2>1, <2>2 DEF Has, CallW, Call
    <3>2. Head(ag[a].cs).uid = d.uid /\ (users[d.uid] # None => Held(a, d.uid))
      BY <1>1, <3>1 DEF AgentOK, OwnCalls
    <3> QED
      BY <1>10, <1>13, <3>1, <3>2
  <2> QED
    BY <1>9, <2>1, <2>2 DEF OwnCalls
<1>22. Stopped(a)'
  <2>1. ~ag[a].running /\ (ag[a].csst = "gate" \/ ~At(ag[a], OfKind("auth")))
    BY <1>1 DEF AgentOK, Stopped
  <2> QED
    BY <1>9, <2>1 DEF Stopped, At
<1>23. Leaving(a)'
  <2>1. \A v \in Uid : At(ag'[a], LogoutOf(v)) =>
          /\ ag'[a].sess # None => ag'[a].sess.uid = v
          /\ users'[v] # None => Held(a, v)'
    BY <1>1, <1>9, <1>10, <1>13 DEF AgentOK, Leaving, Held, At
  <2>2. ASSUME ag[a].csst = "closing" \/ Asked(a)' \/ Has(ag[a].inbox, Answer0)
        PROVE  users'[Head(ag[a].cs).uid] = None
    <3>1. CASE c.by = 0
      BY <1>10, <1>14, <3>1
    <3>2. CASE c.by # 0
      <4>1. Asked(a)' => Asked(a)
        BY <1>8, <1>11, <3>2 DEF Asked
      <4>2. users[Head(ag[a].cs).uid] = None
        BY <1>1, <2>2, <4>1 DEF AgentOK, Leaving
      <4>3. ag[a].csst # "idle"
        BY <2>2, <4>1 DEF IInv, QueueOK, QueueFor
      <4>4. Head(ag[a].cs).uid \in Uid
        BY <4>3, Waiting
      <4> QED
        BY <1>10, <4>2, <4>4
    <3> QED
      BY <3>1, <3>2
  <2> QED
    BY <1>1, <1>9, <2>1, <2>2 DEF AgentOK, Leaving
<1>24. ASSUME NEW b \in Agent, b # a PROVE AgentOK(b)'
  <2>1. Asked(b)' => Asked(b)
    BY <1>8, <1>11, <1>24 DEF Asked
  <2>2. ~Held(b, u)
    BY <1>7, <1>24 DEF Held
  <2>3. Left(b)
    BY <1>9, <1>10, <1>24, <2>1, <2>2 DEF Left, Held, Called
  <2> QED
    BY <2>3, LeftOK DEF SerialInv
<1>25. OwnAgent'
  BY <1>8, <1>11 DEF SerialInv, OwnAgent
<1> QED
  BY <1>16, <1>17, <1>18, <1>19, <1>20, <1>21, <1>22, <1>23, <1>24, <1>25
     DEF SerialInv, Master, AgentOK

(* The login of uid goes to the free agent a, under the number n.            *)
LEMMA DispatchSerial ==
  ASSUME IInv, TypeRest, Serial, SerialInv, NEW uid \in Uid, NEW a \in Agent, NEW n \in Nat,
         ~Serves(a), ~LogsIn(a),
         internal_id' = n, Send(a, LoginMsg(uid, n)),
         \/ flow[uid].st = "login" /\ n = internal_id + 1
         \/ flow[uid].st = "spawn" /\ n = internal_id,
         flow'[uid] = [st |-> "calling", id |-> n, subid |-> n, agent |-> a],
         \A v \in Uid : v # uid => flow'[v] = flow[v],
         UNCHANGED << online, users, username_map, logouts, notices, ticket, conn >>
  PROVE  SerialInv'
<1> DEFINE m == LoginMsg(uid, n)
<1>1. /\ flow'[uid].st = "calling" /\ flow'[uid].id = n /\ flow'[uid].subid = n
      /\ flow'[uid].agent = a
  OBVIOUS
<1>2. \A v \in Uid : v # uid => flow'[v] = flow[v] /\ flow[v].st = "idle"
  BY DEF Serial
<1>3. m \in Msg /\ m.t = "login" /\ m.uid = uid /\ m.subid = n
      /\ \A v \in Uid : m \notin LogoutOf(v)
  BY Messages DEF LoginMsg
<1>4. users[uid] = None
  BY DEF SerialInv, Master, Known, IInv, Conserved
<1>5. \A v \in Uid : ticket[v] # None => ticket[v] <= n
  <2> SUFFICES ASSUME NEW v \in Uid, ticket[v] # None PROVE ticket[v] <= n
    OBVIOUS
  <2>1. ticket[v] <= internal_id /\ ticket[v] \in Nat /\ internal_id \in Nat
    BY DEF SerialInv, Master, Numbers, TypeRest, IInv, Typed
  <2> QED
    BY <2>1
<1>6. ticket[uid] # n
  <2>1. CASE n = internal_id + 1
    <3>1. ticket[uid] # None => ticket[uid] <= internal_id /\ ticket[uid] \in Nat
      BY DEF SerialInv, Master, Numbers, TypeRest
    <3>2. internal_id \in Nat /\ n # None
      BY NoneAssumption DEF IInv, Typed
    <3> QED
      BY <2>1, <3>1, <3>2
  <2>2. CASE flow[uid].st = "spawn" /\ n = internal_id
    BY <2>2 DEF SerialInv, Master, Numbers
  <2> QED
    BY <2>1, <2>2
<1> HIDE DEF m
<1>7. Numbers'
  BY <1>1, <1>2, <1>4, <1>5, <1>6 DEF SerialInv, Master, Numbers, Calls
<1>8. Known'
  BY <1>1, <1>2, <1>4 DEF SerialInv, Master, Known
<1>9. Unheard'
  BY <1>1, <1>2 DEF SerialInv, Master, Unheard, Once, Has, Before
<1>10. /\ ag'[a].cs = ag[a].cs /\ ag'[a].outbox = ag[a].outbox /\ ag'[a].csst = ag[a].csst
       /\ ag'[a].sess = ag[a].sess /\ ag'[a].afk = ag[a].afk /\ ag'[a].running = ag[a].running
       /\ \A X : Has(ag'[a].inbox, X) <=> Has(ag[a].inbox, X) \/ m \in X
       /\ \A X : At(ag'[a], X) <=> At(ag[a], X) \/ m \in X
       /\ \A X, Y : Before(ag[a].inbox, X, Y) /\ ~(Has(ag[a].inbox, X) /\ m \in Y) =>
            Before(ag'[a].inbox, X, Y)
       /\ \A b \in Agent : b # a => ag'[b] = ag[b]
  BY <1>3, SentTo DEF m
<1>11. /\ AgentOK(a) /\ ~Has(ag[a].inbox, OfKind("login"))
       /\ \A v \in Uid : ~Held(a, v) /\ ~Called(a, v)
  BY LoginAlone, Places DEF SerialInv
<1>12. \A v \in Uid : ~Held(a, v)' /\ ~Called(a, v)'
  BY <1>1, <1>2, <1>11 DEF Held, Called
<1>13. \A t : m \in OfKind(t) => m.t = t
  BY DEF OfKind
<1>14. LastLogin(a)'
  <2>1. Before(ag'[a].inbox, OfKind("login"), Msg) /\ ~Has(ag'[a].cs, OfKind("login"))
    BY <1>10, <1>11 DEF AgentOK, LastLogin
  <2>2. ASSUME NEW x \in OfKind("login"), Has(ag'[a].inbox, {x}) PROVE x = m
    <3>1. ~Has(ag[a].inbox, {x})
      BY <1>11 DEF Has
    <3> QED
      BY <1>10, <2>2, <3>1
  <2> QED
    BY <1>1, <1>3, <2>1, <2>2 DEF LastLogin
<1>15. Bound(a)' /\ Ready(a)'
  BY <1>12 DEF Bound, Ready
<1>16. OwnCalls(a)'
  BY <1>10, <1>11 DEF AgentOK, OwnCalls, Held
<1>17. Stopped(a)'
  BY <1>3, <1>10, <1>11, <1>13 DEF AgentOK, Stopped, Serves
<1>18. Leaving(a)'
  <2>1. m \notin Answer0 /\ m \notin OfKind("answer")
    BY <1>3 DEF Answer0, OfKind
  <2>2. Asked(a)' <=> Asked(a)
    BY DEF Asked
  <2>3. \A v \in Uid : At(ag'[a], LogoutOf(v)) =>
          /\ ag'[a].sess # None => ag'[a].sess.uid = v
          /\ users'[v] # None => Held(a, v)'
    BY <1>3, <1>10, <1>11 DEF AgentOK, Leaving, Held
  <2>4. \A x \in OfKind("answer") : Has(ag'[a].inbox, {x}) => x.ok
    BY <1>10, <1>11, <2>1 DEF AgentOK, Leaving
  <2>5. ag'[a].csst = "closing" \/ Asked(a)' \/ Has(ag'[a].inbox, Answer0) =>
          users'[Head(ag'[a].cs).uid] = None
    BY <1>10, <1>11, <2>1, <2>2 DEF AgentOK, Leaving
  <2> QED
    BY <2>3, <2>4, <2>5 DEF Leaving
<1>19. ASSUME NEW b \in Agent, b # a PROVE AgentOK(b)'
  <2>1. \A v \in Uid : Has(ag[b].inbox, LoginOf(v)) => v # uid
    BY Waiting DEF At
  <2>2. \A v \in Uid : Called(b, v)' <=> Called(b, v)
    BY <1>1, <1>2, <1>19 DEF Called
  <2>3. \A v \in Uid : Called(b, v) => v # uid
    BY DEF Called
  <2>4. Left(b)
    BY <1>2, <1>10, <1>19, <2>1, <2>2, <2>3 DEF Left, Held, Asked
  <2> QED
    BY <2>4, LeftOK DEF SerialInv
<1>20. OwnAgent'
  BY DEF SerialInv, OwnAgent
<1> QED
  BY <1>7, <1>8, <1>9, <1>14, <1>15, <1>16, <1>17, <1>18, <1>19, <1>20
     DEF SerialInv, Master, AgentOK

LEMMA LoginHandlerSerial ==
  ASSUME IInv, TypeRest, Serial, SerialInv, NEW uid \in Uid, LoginHandler(uid)
  PROVE  SerialInv'
<1>1. flow[uid].st = "login" /\ UNCHANGED << online, logouts, notices, ticket, conn >>
  BY DEF LoginHandler
<1>2. ~LoginAlready(uid)
  BY <1>1 DEF LoginAlready, SerialInv, Master, Known
<1>3. CASE LoginSpawn(uid) \/ LoginTooMany(uid)
  BY <1>1, <1>3, LoginWaitsSerial
<1>4. CASE LoginPooled(uid)
  <2>1. PICK b \in Agent : b = Last(agent_pool)
    BY <1>4, SeqFront DEF IInv, Typed, LoginPooled
  <2>2. InPool(b)
    <3>1. \A X : Has(agent_pool, X) <=> b \in X \/ Has(agent_pool', X)
      BY <1>4, <2>1, SeqFront DEF IInv, Typed, LoginPooled
    <3> QED
      BY <3>1 DEF InPool
  <2>3. ~Serves(b) /\ ~LogsIn(b)
    BY <2>2 DEF IInv, Conserved
  <2>4. PICK n \in Nat : n = internal_id + 1 /\ internal_id' = n
    BY <1>4 DEF LoginPooled, IInv, Typed
  <2>5. /\ flow' = [flow EXCEPT ![uid] = [st |-> "calling", id |-> n, subid |-> n, agent |-> b]]
        /\ Send(b, LoginMsg(uid, n)) /\ UNCHANGED << users, username_map >>
    BY <1>4, <2>1, <2>4 DEF LoginPooled
  <2>6. /\ flow'[uid] = [st |-> "calling", id |-> n, subid |-> n, agent |-> b]
        /\ \A v \in Uid : v # uid => flow'[v] = flow[v]
    BY <2>5 DEF IInv, Typed
  <2> QED
    BY <1>1, <2>3, <2>4, <2>5, <2>6, DispatchSerial
<1> QED
  BY <1>2, <1>3, <1>4 DEF LoginHandler

LEMMA SpawnDoneSerial ==
  ASSUME IInv, TypeRest, Serial, SerialInv, NEW uid \in Uid, SpawnDone(uid)
  PROVE  SerialInv'
<1>1. PICK b \in Agent \ spawned :
        /\ flow' = [flow EXCEPT ![uid].st = "calling", ![uid].subid = internal_id,
                                ![uid].agent = b]
        /\ Send(b, LoginMsg(uid, internal_id))
  BY DEF SpawnDone
<1>2. PICK n \in Nat : n = internal_id
  BY DEF IInv, Typed
<1>3. /\ flow[uid].st = "spawn" /\ flow[uid].id = n /\ internal_id' = n
      /\ UNCHANGED << online, users, username_map, logouts, notices, ticket, conn >>
  BY <1>2 DEF SpawnDone, SerialInv, Master, Numbers
<1>4. /\ flow'[uid] = [st |-> "calling", id |-> n, subid |-> n, agent |-> b]
      /\ \A v \in Uid : v # uid => flow'[v] = flow[v]
  BY <1>1, <1>2, <1>3 DEF IInv, Typed
<1>5. ~Serves(b) /\ ~LogsIn(b)
  BY <1>1 DEF IInv, Conserved
<1> QED
  BY <1>1, <1>2, <1>3, <1>4, <1>5, DispatchSerial

(* The user is filed, with the agent that has just taken its session.        *)
LEMMA LoginReturnSerial ==
  ASSUME IInv, TypeRest, Serial, SerialInv, NEW uid \in Uid, LoginReturn(uid)
  PROVE  SerialInv'
<1> DEFINE u == [uid |-> uid, name |-> flow[uid].id, subid |-> flow[uid].subid,
                 agent |-> flow[uid].agent]
<1>1. /\ flow[uid].st = "called" /\ Calls(uid) /\ users[uid] = None
      /\ UNCHANGED << online, internal_id, logouts, notices, ticket, ag >>
  BY DEF LoginReturn, Calls, IInv, Conserved
<1>2. PICK b \in Agent : b = flow[uid].agent
  BY <1>1 DEF IInv, Typed, Conserved
<1>3. /\ users' = [users EXCEPT ![uid] = u] /\ username_map' = username_map \cup {u}
      /\ flow' = [flow EXCEPT ![uid] = [Idle EXCEPT !.st = "loggedin", !.subid = internal_id]]
      /\ conn' = [conn EXCEPT ![uid] = "never"]
  BY DEF LoginReturn
<1>4. flow[uid].id = internal_id /\ flow[uid].subid = internal_id /\ ticket[uid] # internal_id
  BY <1>1 DEF SerialInv, Master, Numbers
<1>5. /\ u.uid = uid /\ u.name = internal_id /\ u.subid = internal_id /\ u.agent = b
      /\ u \in U /\ u # None
  BY <1>2, <1>4, NoneAssumption DEF U, IInv, Typed
<1> HIDE DEF u
<1>6. /\ users'[uid] = u /\ \A v \in Uid : v # uid => users'[v] = users[v]
      /\ conn'[uid] = "never" /\ \A v \in Uid : v # uid => conn'[v] = conn[v]
      /\ \A v \in Uid : v # uid => flow'[v] = flow[v]
  BY <1>3 DEF IInv, Typed, TypeRest
<1>7. flow'[uid].st = "loggedin" /\ flow'[uid].subid = internal_id
  BY <1>3 DEF Idle, IInv, Typed
<1>8. Numbers'
  <2>1. username_map' = {users'[v] : v \in {w \in Uid : users'[w] # None}}
    BY <1>1, <1>3, <1>5, <1>6 DEF SerialInv, Master, Numbers
  <2> QED
    BY <1>1, <1>4, <1>5, <1>6, <1>7, <2>1 DEF SerialInv, Master, Numbers, Calls
<1>9. Known'
  BY <1>1, <1>6, <1>7 DEF SerialInv, Master, Known
<1>10. Unheard'
  <2> SUFFICES ASSUME NEW v \in Uid
               PROVE  /\ Once(notices, OffNote(v))
                      /\ Before(notices, KickNote(v), OffNote(v))
                      /\ Has(notices, OffNote(v)) =>
                           /\ users'[v] = None /\ online[v] # None
                           /\ flow'[v].st \in {"idle", "kick", "kickwait", "kicknotify", "kicked"}
    BY <1>1 DEF Unheard
  <2>1. /\ Once(notices, OffNote(v))
        /\ Before(notices, KickNote(v), OffNote(v))
        /\ Has(notices, OffNote(v)) =>
             /\ users[v] = None /\ online[v] # None
             /\ flow[v].st \in {"idle", "kick", "kickwait", "kicknotify", "kicked"}
    BY DEF SerialInv, Master, Unheard
  <2> QED
    BY <1>1, <1>6, <2>1
<1>11. Called(b, uid) /\ LogsIn(b) /\ ~Serves(b) /\ AgentOK(b)
  BY <1>1, <1>2, Places DEF Called, LogsIn, SerialInv
<1>12. /\ ag[b].sess = [uid |-> uid, subid |-> internal_id]
       /\ ag[b].inbox = << >> /\ ag[b].cs = << >> /\ ~ag[b].afk
       /\ ag[b].outbox = << >> /\ ag[b].csst = "idle" /\ ~Asked(b)
  BY <1>4, <1>11, LoginAlone DEF AgentOK, Ready
<1>13. \A X : ~At(ag[b], X) /\ ~Has(ag[b].inbox, X) /\ ~Has(ag[b].cs, X)
  BY <1>12, OrderEmpty DEF At
<1>14. \A v \in Uid : /\ Held(b, v)' <=> v = uid
                      /\ ~Called(b, v)'
  <2>1. \A v \in Uid : ~Held(b, v)
    BY <1>11, Places
  <2>2. \A v \in Uid : Called(b, v) => v = uid
    BY <1>1, <1>2 DEF Called, Calls, IInv, Conserved
  <2> QED
    BY <1>5, <1>6, <1>7, <2>1, <2>2 DEF Held, Called
<1>15. LastLogin(b)'
  BY <1>1, <1>12, <1>13, OrderEmpty DEF LastLogin
<1>16. Bound(b)'
  <2>1. AfkLast(ag[b])
    BY <1>12, <1>13, OrderEmpty DEF AfkLast
  <2> QED
    BY <1>1, <1>5, <1>6, <1>12, <1>13, <1>14, <2>1 DEF Bound
<1>17. Ready(b)'
  BY <1>14 DEF Ready
<1>18. OwnCalls(b)'
  BY <1>1, <1>12, OrderEmpty DEF OwnCalls
<1>19. Stopped(b)'
  <2>1. Serves(b)'
    BY <1>14 DEF Serves, Held
  <2> QED
    BY <1>1, <1>12, <2>1 DEF Stopped
<1>20. Leaving(b)'
  <2>1. ~Asked(b)'
    BY <1>1, <1>12 DEF Asked
  <2> QED
    BY <1>1, <1>12, <1>13, <2>1 DEF Leaving
<1>21. ASSUME NEW c \in Agent, c # b PROVE AgentOK(c)'
  <2>1. Unasked(c, uid)
    <3>1. ~At(ag[c], LogoutOf(uid))
      BY <1>1, Waiting
    <3>2. ASSUME NEW d \in Call, d.uid = uid, Has(ag[c].outbox, {d}) PROVE FALSE
      <4>1. d.by = 0 /\ Head(ag[c].cs).uid = uid
        BY <1>1, <3>2 DEF SerialInv, AgentOK, OwnCalls
      <4> QED
        BY <1>1, <3>2, <4>1, Waiting
    <3> QED
      BY <3>1, <3>2 DEF Unasked
  <2>2. \A v \in Uid : Has(ag[c].inbox, LoginOf(v)) => v # uid
    BY <1>1, Waiting DEF At
  <2>3. \A v \in Uid : /\ Called(c, v)' <=> Called(c, v)
                       /\ Called(c, v) => v # uid
    BY <1>2, <1>6, <1>7, <1>21 DEF Called
  <2>4. \A v \in Uid : /\ Held(c, v)' <=> Held(c, v)
                       /\ Held(c, v) => v # uid
    BY <1>1, <1>5, <1>6, <1>21 DEF Held
  <2>5. Asked(c)' <=> Asked(c)
    BY <1>1 DEF Asked
  <2>6. Left(c)
    BY <1>1, <1>6, <2>1, <2>2, <2>3, <2>4, <2>5 DEF Left
  <2> QED
    BY <2>6, LeftOK DEF SerialInv
<1>22. OwnAgent'
  BY <1>1 DEF SerialInv, OwnAgent
<1> QED
  BY <1>8, <1>9, <1>10, <1>15, <1>16, <1>17, <1>18, <1>19, <1>20, <1>21, <1>22
     DEF SerialInv, Master, AgentOK

-----------------------------------------------------------------------------
(* From the first state on.                                                 *)

LEMMA SerialInit == Init => SerialInv
<1> SUFFICES ASSUME Init PROVE SerialInv
  OBVIOUS
<1>1. /\ flow = [uid \in Uid |-> Idle] /\ users = [uid \in Uid |-> None]
      /\ logouts = {} /\ notices = << >> /\ ag = [a \in Agent |-> FreshAgent]
      /\ username_map = {} /\ ticket = [uid \in Uid |-> None]
  BY DEF Init
<1>2. /\ FreshAgent.inbox = << >> /\ FreshAgent.cs = << >> /\ FreshAgent.outbox = << >>
      /\ FreshAgent.csst = "idle" /\ FreshAgent.sess = None /\ ~FreshAgent.afk
      /\ Idle.st = "idle"
  BY DEF FreshAgent, Idle
<1> HIDE DEF FreshAgent, Idle
<1>3. /\ \A a \in Agent : ag[a] = FreshAgent
      /\ \A uid \in Uid : flow[uid].st = "idle" /\ users[uid] = None /\ ticket[uid] = None
  BY <1>1, <1>2
<1>4. Numbers
  BY <1>1, <1>3 DEF Numbers, Calls
<1>5. Known /\ Unheard
  BY <1>1, <1>3, OrderEmpty DEF Known, Unheard
<1>6. OwnAgent
  BY <1>1 DEF OwnAgent
<1>7. ASSUME NEW a \in Agent PROVE AgentOK(a)
  <2>1. \A uid \in Uid : ~Held(a, uid) /\ ~Called(a, uid)
    BY <1>3 DEF Held, Called
  <2>2. LastLogin(a)
    BY <1>2, <1>3, OrderEmpty DEF LastLogin
  <2>3. Bound(a) /\ Ready(a)
    BY <2>1 DEF Bound, Ready
  <2>4. OwnCalls(a) /\ Stopped(a)
    BY <1>2, <1>3, OrderEmpty DEF OwnCalls, Stopped
  <2>5. Leaving(a)
    BY <1>1, <1>2, <1>3, OrderEmpty DEF Leaving, Asked, At
  <2> QED
    BY <2>2, <2>3, <2>4, <2>5 DEF AgentOK
<1> QED
  BY <1>4, <1>5, <1>6, <1>7 DEF SerialInv, Master

LEMMA SerialStutter ==
  ASSUME IInv, SerialInv, UNCHANGED vars
  PROVE  SerialInv'
<1>1. Master'
  BY MasterActs DEF SerialInv, vars
<1>2. ASSUME NEW a \in Agent PROVE AgentOK(a)'
  <2>1. Left(a)
    BY DEF Left, Held, Called, Asked, vars
  <2> QED
    BY <2>1, LeftOK DEF SerialInv
<1>3. OwnAgent'
  BY DEF SerialInv, OwnAgent, vars
<1> QED
  BY <1>1, <1>2, <1>3 DEF SerialInv

LEMMA SerialNext ==
  ASSUME ~Reconnects
  PROVE  IInv /\ TypeRest /\ Serial /\ SerialInv /\ [Next]_vars => SerialInv'
<1> SUFFICES ASSUME IInv, TypeRest, Serial, SerialInv, [Next]_vars PROVE SerialInv'
  OBVIOUS
<1>1. CASE UNCHANGED vars
  BY <1>1, SerialStutter
<1>2. ASSUME NEW uid \in Uid, LoginStart(uid) \/ MasterStep(uid) PROVE SerialInv'
  BY <1>2, LoginStartSerial, AfterKickSerial, LoginDoneSerial DEF MasterStep
<1>3. ASSUME NEW uid \in Uid, GateStep(uid) \/ Auth(uid) \/ Disconnect(uid) PROVE SerialInv'
  BY <1>3, KickHandlerSerial, LoginHandlerSerial, SpawnDoneSerial, LoginReturnSerial,
     AuthSerial, DisconnectSerial DEF GateStep
<1>4. CASE Notice
  BY <1>4, NoticeSerial
<1>5. ASSUME NEW l \in logouts, LogoutReturn(l) PROVE SerialInv'
  BY <1>5, LogoutReturnSerial
<1>6. ASSUME NEW a \in Agent, LogoutHandler(a) PROVE SerialInv'
  <2>1. /\ ag[a].outbox # << >> /\ UNCHANGED << online, flow, internal_id, ticket >>
        /\ \/ LogoutRefused(a, Head(ag[a].outbox))
           \/ LogoutForget(a, Head(ag[a].outbox))
    BY <1>6 DEF LogoutHandler
  <2> QED
    BY <2>1, LogoutRefusedSerial, LogoutForgetSerial
<1>7. ASSUME NEW a \in Agent, AgentStep(a) PROVE SerialInv'
  BY <1>7, ReceiveSerial, RunQueuedSerial, ReceiveAnswerSerial, CloseDoneSerial DEF AgentStep
<1>8. ASSUME NEW a \in Agent, NEW w \in Workers, WorkerIdle(a, w) \/ WorkerExit(a, w)
      PROVE  SerialInv'
  BY <1>8, WorkerIdleSerial, WorkerExitSerial
<1> QED
  BY <1>1, <1>2, <1>3, <1>4, <1>5, <1>6, <1>7, <1>8 DEF Next

LEMMA TypeRestAlways == Spec => []TypeRest
<1>1. IInv => Typed
  BY DEF IInv
<1> QED
  BY <1>1, TypeRestInit, TypeRestNext, Inductive, PTL DEF Spec

(* The inductive invariant of logins that do not overlap: internal_id is     *)
(* that of the login in progress, the gate's two tables and the login        *)
(* master's agree, no login overtakes a logout notice of its user, the agent *)
(* of a user serves its session and gets no answer but TRUE, and once it has *)
(* called for a logout no worker of it starts before that is over.          *)
THEOREM SerialInductive ==
  ASSUME ~Reconnects
  PROVE  Spec /\ []Serial => []SerialInv
BY SerialInit, SerialNext, TypeRestAlways, Inductive, PTL DEF Spec

(* gated.lua:78-79, 95-99 with msgagent.lua:110-112, 77-79: as long as the   *)
(* logins of the node do not overlap and no client comes back on a new       *)
(* connection, the agent filed for a user serves that very session, whatever *)
(* kicks, idle logouts and lost notices come between.                       *)
THEOREM SessionsBound ==
  ASSUME ~Reconnects
  PROVE  Spec /\ []Serial => []SessionBinding
<1>1. IInv /\ SerialInv => SessionBinding
  <2> SUFFICES ASSUME IInv, SerialInv PROVE SessionBinding
    OBVIOUS
  <2>1. ASSUME NEW uid \in Uid, users[uid] # None
        PROVE  ag[users[uid].agent].sess = [uid |-> uid, subid |-> users[uid].subid]
    <3>1. PICK a \in Agent : a = users[uid].agent
      BY <2>1 DEF IInv, Typed, U
    <3>2. Held(a, uid)
      BY <2>1, <3>1 DEF Held
    <3> QED
      BY <3>1, <3>2 DEF SerialInv, AgentOK, Bound
  <2> QED
    BY <2>1 DEF SessionBinding, SerialInv, Master, Numbers
<1> QED
  BY <1>1, Inductive, SerialInductive, PTL

(* gated.lua:93, 110: under the same conditions neither assert on the        *)
(* username fails, in kick_handler or in logout_handler.                    *)
THEOREM UsernamesMatch ==
  ASSUME ~Reconnects
  PROVE  Spec /\ []Serial => []UsernameAsserts
<1>1. IInv /\ SerialInv => UsernameAsserts
  <2> SUFFICES ASSUME IInv, SerialInv PROVE UsernameAsserts
    OBVIOUS
  <2>1. ASSUME NEW a \in Agent, NEW i \in DOMAIN ag[a].inbox, ag[a].inbox[i].t = "answer"
        PROVE  ag[a].inbox[i].ok
    <3>1. ag[a].inbox \in Seq(Msg)
      BY DEF IInv, Typed, AgentState
    <3>2. PICK m \in Msg : m = ag[a].inbox[i]
      BY <3>1
    <3>3. m \in OfKind("answer") /\ Has(ag[a].inbox, {m})
      BY <2>1, <3>2 DEF OfKind, Has
    <3> QED
      BY <3>2, <3>3 DEF SerialInv, AgentOK, Leaving
  <2> QED
    BY <2>1 DEF UsernameAsserts, SerialInv, Master, Known
<1> QED
  BY <1>1, Inductive, SerialInductive, PTL

(* logind.lua:99, 109 with gated.lua:98, 115: under the same conditions the   *)
(* login master knows, between logins, every user of the gate by its name.   *)
THEOREM KicksFind ==
  ASSUME ~Reconnects
  PROVE  Spec /\ []Serial => []KickCanFind
<1>1. SerialInv => KickCanFind
  BY DEF KickCanFind, SerialInv, Master, Known
<1> QED
  BY <1>1, SerialInductive, PTL

=============================================================================
