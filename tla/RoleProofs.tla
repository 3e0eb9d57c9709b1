----------------------------- MODULE RoleProofs -----------------------------
(***************************************************************************)
(* Proofs about the life of a role (module Role), for any accounts and       *)
(* agents and any number of changes: types and what the fields of an agent   *)
(* say of each other, in every world; the list of online users, in every     *)
(* world without one of four complications; and that no change is lost, in   *)
(* the world without any.                                                   *)
(***************************************************************************)
EXTENDS Role, SequenceTheorems, TLAPS

By == {"load", "timer", "loop", "close"}
AgentState ==
  [used : BOOLEAN, uid : Account \cup {None}, client : BOOLEAN, role : RoleOf \cup {None},
   load : {"none", "get", "create", "online"}, for : Account \cup {None}, timer : BOOLEAN,
   lock : Nat, quit : BOOLEAN, session : [Coroutine -> Nat], runs : SUBSET Coroutine,
   closed : BOOLEAN, close : {"none", "offline", "quit", "save", "done"}, loop : BOOLEAN,
   sets : Seq([by : By, role : RoleOf])]

Typed ==
  /\ world \in Worlds
  /\ gate \in [Account -> [st : {"out", "in", "kicking"}, agent : Agent \cup {None}]]
  /\ db \in [Account -> Row \cup {None}]
  /\ online \in [Account -> Agent \cup {None}]
  /\ made \in [Account -> Row]
  /\ ag \in [Agent -> AgentState]

Closings == {"offline", "quit", "save"}

\* A session has an agent.
Manned == \A x \in Account : gate[x].agent = None => gate[x].st = "out"

(* What works on a role finds one: the timer, sessions and the close of an   *)
(* agent that has none were never started.                                  *)
Founded(r) ==
  /\ r.load # "none" \/ r.role # None => r.uid # None
  /\ r.load \in {"get", "create"} => r.for # None /\ r.role = None
  /\ r.load = "online" \/ r.timer \/ r.close \in Closings => r.role # None
  /\ \A c \in Coroutine : r.session[c] # 0 => r.role # None
  /\ \A c \in r.runs : r.session[c] # 0

TInv == Typed /\ Manned /\ \A a \in Agent : Founded(ag[a])

-----------------------------------------------------------------------------
(* Without reuse, idle logouts, early kicks and failures of the center.     *)

Calm == world \cap {"idle", "center", "early", "reuse"} = {}

\* The agent was not given to anyone yet; or has served one account only.
Once(r) ==
  /\ ~r.used => r = FreshAgent
  /\ r.load # "none" => r.client /\ r.for = r.uid
  /\ r.uid = None => ~r.client /\ r.close = "none"
  /\ r.closed <=> r.close # "none"

(* The gates and an agent agree where the session of its user is: it serves  *)
(* while it has a client, it is kicked while it closes.                     *)
Filed(x) ==
  /\ gate[x].agent # None => ag[gate[x].agent].used /\ ag[gate[x].agent].uid \in {None, x}
  /\ gate[x].st = "kicking" => ag[gate[x].agent].uid = x
Apart(x, y) == gate[x].agent = gate[y].agent /\ gate[x].agent # None => x = y
Agree(r, a) ==
  r.uid # None =>
    /\ r.client <=> r.close = "none"
    /\ r.client <=> gate[r.uid] = [st |-> "in", agent |-> a]
    /\ r.close \in Closings <=> gate[r.uid] = [st |-> "kicking", agent |-> a]

(* online_snax lists the agents that have loaded a role and have not begun   *)
(* to close.                                                                *)
Entry(x) ==
  online[x] # None =>
    /\ gate[x].agent = online[x] /\ gate[x].st \in {"in", "kicking"}
    /\ gate[x].st = "in" => ag[online[x]].role # None /\ ag[online[x]].load = "none"
    /\ gate[x].st = "kicking" => ag[online[x]].close = "offline"
Seen(x) ==
  gate[x].st = "in" /\ ag[gate[x].agent].role # None
    /\ ag[gate[x].agent].load = "none" => online[x] = gate[x].agent

CalmInv ==
  /\ \A a \in Agent : Once(ag[a]) /\ Agree(ag[a], a)
  /\ \A x, y \in Account : Apart(x, y)
  /\ \A x \in Account : Filed(x)
  /\ \A x \in Account : Entry(x) /\ Seen(x)

CInv == Calm => CalmInv

-----------------------------------------------------------------------------
(* Without any complication.                                                *)

(* An agent works on the role of its user, under its one session lock, and   *)
(* sends rows of that account only.                                         *)
Own(r) ==
  /\ r.lock = IF r.uid = None THEN 0 ELSE 1
  /\ r.role # None => r.role.account = r.uid
  /\ \A i \in DOMAIN r.sets : r.sets[i].role.account = r.uid
  /\ r.sets # << >> => r.role # None \/ r.load = "create"

(* Once lock_quit has returned nothing changes the role any more, and the    *)
(* role is saved after that.                                                *)
Quiet(r) ==
  /\ \A c \in Coroutine : r.session[c] # 0 =>
       r.session[c] = r.lock /\ r.close \in {"none", "offline", "quit"}
  /\ r.timer => r.close \in {"none", "offline"}
  /\ r.role # None /\ r.close \in {"quit", "save", "done"} => r.quit
  /\ Waits(r, "close") => r.close \in {"save", "done"}

(* The rows under way are complete, with all changes m; or those that follow *)
(* the save of the close.                                                   *)
Complete(r, m) == \A i \in DOMAIN r.sets : r.sets[i].role.td = m
Final(r, m) ==
  \A i, j \in DOMAIN r.sets : r.sets[i].by = "close" /\ i <= j => r.sets[j].role.td = m

(* An agent with the role of an account that has changes m and row d.        *)
Whole(r, m, d) ==
  /\ r.role.td = m /\ d # None
  /\ r.close = "save" => Final(r, m)
  /\ (r.close = "save" /\ ~Waits(r, "close")) \/ r.close = "done" => d = m /\ Complete(r, m)

\* An agent that creates the role.
Creating(r, m, d) ==
  m = {} /\ d \in {None, {}} /\ Complete(r, {}) /\ (~Waits(r, "load") => d = {})

(* An account whose role is not loaded has all changes in its row.           *)
Rested(m, d) == d = m \/ (d = None /\ m = {})

(* Agent a in state r, when g is the agent of the last session of its        *)
(* account: if it is another one, a has nothing left to write.              *)
Kept(r, a, g, m, d) ==
  /\ r.role # None /\ g # a => r.sets = << >> /\ ~r.loop
  /\ r.role # None /\ g = a => Whole(r, m, d)
  /\ r.load = "create" => g = a /\ Creating(r, m, d)

KeptBy(a) == Kept(ag[a], a, gate[ag[a].uid].agent, made[ag[a].uid], db[ag[a].uid])
Stored(x) == gate[x].agent = None \/ ag[gate[x].agent].role = None => Rested(made[x], db[x])

PlainInv ==
  /\ \A a \in Agent : Own(ag[a]) /\ Quiet(ag[a])
  /\ \A a \in Agent : ag[a].uid # None => KeptBy(a)
  /\ \A x \in Account : Stored(x)

PInv == world = {} => PlainInv

IInv == TInv /\ CInv /\ PInv

-----------------------------------------------------------------------------
(* Types, in every world.                                                   *)

LEMMA TypedMove ==
  ASSUME TInv, NEW a \in Agent, NEW s \in AgentState, Founded(s), ag' = [ag EXCEPT ![a] = s],
         world' = world,
         gate' \in [Account -> [st : {"out", "in", "kicking"}, agent : Agent \cup {None}]],
         db' \in [Account -> Row \cup {None}], online' \in [Account -> Agent \cup {None}],
         made' \in [Account -> Row], Manned'
  PROVE  TInv'
<1>1. Typed'
  BY DEF TInv, Typed
<1>2. \A b \in Agent : ag'[b] = IF b = a THEN s ELSE ag[b]
  BY DEF TInv, Typed
<1>3. ASSUME NEW b \in Agent PROVE Founded(ag'[b])
  BY <1>2 DEF TInv
<1> QED
  BY <1>1, <1>3 DEF TInv

(* An agent as it is found in a state.                                      *)
LEMMA Found ==
  ASSUME TInv, NEW a \in Agent
  PROVE  ag[a] \in AgentState /\ Founded(ag[a])
BY DEF TInv, Typed

LEMMA ClosingFounded ==
  ASSUME NEW r \in AgentState, Founded(r)
  PROVE  Closing(r) \in AgentState /\ Founded(Closing(r))
BY DEF AgentState, Founded, Closing, Closings

LEMMA SavingFounded ==
  ASSUME NEW r \in AgentState, Founded(r), r.role # None, NEW by \in By
  PROVE  Saving(r, by) \in AgentState /\ Founded(Saving(r, by))
<1>1. [by |-> by, role |-> r.role] \in [by : By, role : RoleOf]
  BY DEF AgentState
<1>2. Append(r.sets, [by |-> by, role |-> r.role]) \in Seq([by : By, role : RoleOf])
  BY <1>1 DEF AgentState
<1>3. Saving(r, by) \in AgentState
  BY <1>2 DEF AgentState, Saving
<1>4. Founded(Saving(r, by))
  BY DEF AgentState, Founded, Saving, Closings
<1> QED
  BY <1>3, <1>4

LEMMA LoadedFounded ==
  ASSUME NEW r \in AgentState, Founded(r), r.load \in {"get", "create"}, NEW td \in Row
  PROVE  Loaded(r, td) \in AgentState /\ Founded(Loaded(r, td))
<1>1. [account |-> r.for, td |-> td] \in RoleOf
  BY DEF AgentState, Founded, RoleOf
<1>2. [account |-> r.for, td |-> td] # None
  BY <1>1, NoneAssumption
<1> QED
  BY <1>1, <1>2 DEF AgentState, Founded, Loaded, Closings

(* A change goes to the history and to the role that it is made to.          *)
LEMMA ChangeTyped ==
  ASSUME TInv, NEW a \in Agent, ag[a].role # None, NEW c \in Change, Changed(a, c)
  PROVE  /\ made' \in [Account -> Row]
         /\ made' = [made EXCEPT ![ag[a].role.account] = made[ag[a].role.account] \cup {c}]
         /\ [ag[a].role EXCEPT !.td = @ \cup {c}] \in RoleOf
<1>1. ag[a].role \in RoleOf
  BY DEF TInv, Typed, AgentState
<1>2. made' = [made EXCEPT ![ag[a].role.account] = made[ag[a].role.account] \cup {c}]
  BY DEF Changed
<1> QED
  BY <1>1, <1>2 DEF RoleOf, Row, TInv, Typed

LEMMA LoginTyped ==
  ASSUME TInv, NEW x \in Account, Login(x)
  PROVE  TInv'
<1>1. PICK a \in Agent : /\ gate' = [gate EXCEPT ![x] = [st |-> "in", agent |-> a]]
                       /\ ag' = [ag EXCEPT ![a].used = TRUE]
  BY DEF Login
<1> DEFINE s == [ag[a] EXCEPT !.used = TRUE]
<1>2. s \in AgentState /\ Founded(s)
  BY Found DEF AgentState, Founded
<1>3. ag' = [ag EXCEPT ![a] = s]
  BY <1>1
<1>4. gate' \in [Account -> [st : {"out", "in", "kicking"}, agent : Agent \cup {None}]] /\ Manned'
  BY <1>1, NoneAssumption DEF TInv, Typed, Manned
<1> HIDE DEF s
<1> QED
  BY <1>2, <1>3, <1>4, TypedMove DEF Login, TInv, Typed

(* An agent whose session starts, is kicked or ends by itself.               *)
LEMMA GateStepTyped ==
  ASSUME TInv, NEW x \in Account, Start(x) \/ Kick(x) \/ IdleLogout(x)
  PROVE  TInv'
<1>1. gate[x].agent \in Agent /\ gate[x].st = "in"
  BY DEF TInv, Typed, Manned, Start, Kick, IdleLogout
<1>0. PICK a \in Agent : a = gate[x].agent
  BY <1>1
<1>2. /\ gate' \in [Account -> [st : {"out", "in", "kicking"}, agent : Agent \cup {None}]] /\ Manned'
      /\ UNCHANGED << world, db, online, made >>
  <2>1. gate' = gate \/ \E st \in {"out", "in", "kicking"} : gate' = [gate EXCEPT ![x].st = st]
    BY DEF Start, Kick, IdleLogout
  <2>2. gate \in [Account -> [st : {"out", "in", "kicking"}, agent : Agent \cup {None}]] /\ Manned
    BY DEF TInv, Typed
  <2>3. gate[x].agent # None
    BY <1>1, NoneAssumption
  <2>4. /\ gate' \in [Account -> [st : {"out", "in", "kicking"}, agent : Agent \cup {None}]]
        /\ Manned'
    BY <2>1, <2>2, <2>3 DEF Manned
  <2> QED
    BY <2>4 DEF Start, Kick, IdleLogout
<1>3. ag[a] \in AgentState /\ Founded(ag[a])
  BY <1>1, Found
<1>4. PICK s \in AgentState : Founded(s) /\ ag' = [ag EXCEPT ![a] = s]
  <2>1. CASE Start(x)
    <3> DEFINE t == [ag[a] EXCEPT !.uid = x, !.client = TRUE, !.timer = FALSE,
                                  !.lock = ag[a].lock + 1, !.quit = FALSE]
    <3>1. t \in AgentState
      <4>1. ag[a].lock + 1 \in Nat
        BY <1>3 DEF AgentState
      <4> QED
        BY <1>3, <4>1 DEF AgentState
    <3>3. Founded(t)
      BY <1>3, NoneAssumption DEF AgentState, Founded
    <3>2. ag' = [ag EXCEPT ![a] = t]
      BY <1>0, <2>1 DEF Start
    <3> QED
      BY <3>1, <3>2, <3>3
  <2>2. CASE ag' = [ag EXCEPT ![a] = Closing(ag[a])]
    BY <1>3, <2>2, ClosingFounded
  <2>3. CASE ag' = ag
    BY <1>3, <2>3 DEF TInv, Typed
  <2> QED
    BY <1>0, <2>1, <2>2, <2>3 DEF Kick, IdleLogout
<1> QED
  BY <1>1, <1>2, <1>4, TypedMove DEF TInv, Typed

LEMMA LoadRoleMove ==
  ASSUME TInv, NEW a \in Agent, LoadRole(a)
  PROVE  \E s \in AgentState : Founded(s) /\ ag' = [ag EXCEPT ![a] = s]
<1> DEFINE s == [ag[a] EXCEPT !.load = "get", !.for = ag[a].uid]
<1>1. ag[a] \in AgentState /\ Founded(ag[a])
  BY Found
<1>2. s \in AgentState /\ Founded(s)
  BY <1>1 DEF AgentState, Founded, Closings, LoadRole
<1> QED
  BY <1>2 DEF LoadRole

LEMMA LoadStepMove ==
  ASSUME TInv, NEW a \in Agent, LoadStep(a)
  PROVE  \E s \in AgentState : Founded(s) /\ ag' = [ag EXCEPT ![a] = s]
<1>1. ag[a] \in AgentState /\ Founded(ag[a])
  BY Found
<1>2. CASE LoadGot(a)
  <2>1. ag[a].load = "get" /\ ag[a].for \in Account
    BY <1>1, <1>2 DEF LoadGot, AgentState, Founded
  <2>2. CASE db[ag[a].for] # None
    <3>1. db[ag[a].for] \in Row /\ ag' = [ag EXCEPT ![a] = Loaded(ag[a], db[ag[a].for])]
      BY <1>2, <2>1, <2>2 DEF LoadGot, TInv, Typed
    <3> QED
      BY <1>1, <2>1, <3>1, LoadedFounded
  <2>3. CASE db[ag[a].for] = None
    <3> DEFINE e == [by |-> "load", role |-> Empty(ag[a].for)]
               s == [ag[a] EXCEPT !.load = "create", !.sets = Append(ag[a].sets, e)]
    <3>1. e \in [by : By, role : RoleOf]
      BY <2>1 DEF Empty, RoleOf, Row, By
    <3>2. Append(ag[a].sets, e) \in Seq([by : By, role : RoleOf])
      BY <1>1, <3>1 DEF AgentState
    <3>3. s \in AgentState /\ Founded(s)
      <4> HIDE DEF e
      <4> QED
        BY <1>1, <2>1, <3>2 DEF AgentState, Founded, Closings
    <3>4. ag' = [ag EXCEPT ![a] = s]
      BY <1>2, <2>3 DEF LoadGot
    <3> QED
      BY <3>3, <3>4
  <2> QED
    BY <2>2, <2>3
<1>3. CASE Created(a)
  <2>1. {} \in Row /\ ag[a].load = "create" /\ ag' = [ag EXCEPT ![a] = Loaded(ag[a], {})]
    BY <1>3 DEF Created, Row
  <2> QED
    BY <1>1, <2>1, LoadedFounded
<1>4. CASE Online(a)
  <2> DEFINE s == [ag[a] EXCEPT !.load = "none"]
  <2>1. s \in AgentState /\ Founded(s) /\ ag' = [ag EXCEPT ![a] = s]
    BY <1>1, <1>4 DEF AgentState, Founded, Closings, Online
  <2> QED
    BY <2>1
<1> QED
  BY <1>2, <1>3, <1>4 DEF LoadStep

LEMMA RequestMove ==
  ASSUME TInv, NEW a \in Agent, Request(a)
  PROVE  /\ made' \in [Account -> Row]
         /\ \E s \in AgentState : Founded(s) /\ ag' = [ag EXCEPT ![a] = s]
<1>1. ag[a] \in AgentState /\ Founded(ag[a]) /\ ag[a].role # None
  BY Found DEF Request
<1>2. PICK c \in Change : Changed(a, c) /\ ag' = [ag EXCEPT ![a].role.td = @ \cup {c}]
  BY DEF Request
<1> DEFINE role == [ag[a].role EXCEPT !.td = @ \cup {c}]
           s == [ag[a] EXCEPT !.role = role]
<1>3. made' \in [Account -> Row] /\ role \in RoleOf
  BY <1>1, <1>2, ChangeTyped
<1>4. ag' = [ag EXCEPT ![a] = s]
  BY <1>2
<1>5. s \in AgentState /\ Founded(s)
  <2> HIDE DEF role
  <2>1. role # None
    BY <1>3, NoneAssumption
  <2> QED
    BY <1>1, <1>3, <2>1 DEF AgentState, Founded, Closings
<1> HIDE DEF s
<1> QED
  BY <1>3, <1>4, <1>5

LEMMA SessionMove ==
  ASSUME TInv, NEW a \in Agent, NEW c \in Coroutine, Session(a, c) \/ SessionStep(a, c)
  PROVE  /\ made' \in [Account -> Row]
         /\ \E s \in AgentState : Founded(s) /\ ag' = [ag EXCEPT ![a] = s]
<1>1. ag[a] \in AgentState /\ Founded(ag[a]) /\ made \in [Account -> Row]
  BY Found DEF TInv, Typed
<1>2. CASE Session(a, c)
  <2> DEFINE s == [ag[a] EXCEPT !.session[c] = ag[a].lock]
  <2>1. s \in AgentState /\ Founded(s)
    BY <1>1, <1>2 DEF AgentState, Founded, Closings, Session
  <2>2. ag' = [ag EXCEPT ![a] = s] /\ made' = made
    BY <1>2 DEF Session
  <2> QED
    BY <1>1, <2>1, <2>2
<1>3. CASE SessionRuns(a, c)
  <2> DEFINE s == [ag[a] EXCEPT !.runs = ag[a].runs \cup {c}]
  <2>1. s \in AgentState /\ Founded(s)
    BY <1>1, <1>3 DEF AgentState, Founded, Closings, SessionRuns
  <2>2. ag' = [ag EXCEPT ![a] = s] /\ made' = made
    BY <1>3 DEF SessionRuns
  <2> QED
    BY <1>1, <2>1, <2>2
<1>4. CASE SessionEnds(a, c)
  <2> DEFINE r == [ag[a] EXCEPT !.runs = @ \ {c}, !.session[c] = 0]
  <2>1. ag[a].role # None
    BY <1>1, <1>4 DEF SessionEnds, Founded
  <2>2. r \in AgentState /\ Founded(r) /\ r.role = ag[a].role
    BY <1>1, <2>1 DEF AgentState, Founded, Closings
  <2>3. CASE ag' = [ag EXCEPT ![a] = r] /\ UNCHANGED made
    BY <1>1, <2>2, <2>3
  <2>4. ASSUME NEW n \in Change, Changed(a, n), ag' = [ag EXCEPT ![a] = [r EXCEPT !.role.td = @ \cup {n}]]
        PROVE  /\ made' \in [Account -> Row]
               /\ \E s \in AgentState : Founded(s) /\ ag' = [ag EXCEPT ![a] = s]
    <3> DEFINE role == [ag[a].role EXCEPT !.td = @ \cup {n}]
               s == [r EXCEPT !.role = role]
    <3>1. made' \in [Account -> Row] /\ role \in RoleOf
      BY <2>1, <2>4, ChangeTyped
    <3>2. ag' = [ag EXCEPT ![a] = s]
      BY <2>2, <2>4
    <3>3. s \in AgentState /\ Founded(s)
      <4> HIDE DEF role, r
      <4>1. role # None
        BY <3>1, NoneAssumption
      <4>2. r \in AgentState /\ Founded(r) /\ r.role # None
        BY <2>1, <2>2
      <4> QED
        BY <3>1, <4>1, <4>2 DEF AgentState, Founded, Closings
    <3> HIDE DEF s
    <3> QED
      BY <3>1, <3>2, <3>3
  <2> QED
    BY <1>4, <2>3, <2>4 DEF SessionEnds
<1> QED
  BY <1>2, <1>3, <1>4 DEF SessionStep

LEMMA SaveMove ==
  ASSUME TInv, NEW a \in Agent, TimerSave(a) \/ ForceSave(a)
  PROVE  \E s \in AgentState : Founded(s) /\ ag' = [ag EXCEPT ![a] = s]
<1>1. ag[a] \in AgentState /\ Founded(ag[a])
  BY Found
<1>2. CASE TimerSave(a)
  BY <1>1, <1>2, SavingFounded DEF TimerSave, Founded, By
<1>3. CASE ForceSave(a)
  <2> DEFINE r == [ag[a] EXCEPT !.loop = FALSE]
  <2>1. r \in AgentState /\ Founded(r) /\ r.role = ag[a].role
    BY <1>1 DEF AgentState, Founded, Closings
  <2>2. CASE ag[a].role = None
    BY <1>3, <2>1, <2>2 DEF ForceSave
  <2>3. CASE ag[a].role # None
    <3>1. ag' = [ag EXCEPT ![a] = Saving(r, "loop")]
      BY <1>3, <2>3 DEF ForceSave
    <3> HIDE DEF r
    <3> QED
      BY <2>1, <2>3, <3>1, SavingFounded DEF By
  <2> QED
    BY <2>2, <2>3
<1> QED
  BY <1>2, <1>3

LEMMA HeadTail ==
  ASSUME NEW S, NEW s \in Seq(S), s # << >>
  PROVE  Head(s) \in S /\ Tail(s) \in Seq(S)
OBVIOUS

LEMMA SetMove ==
  ASSUME TInv, NEW a \in Agent, Set(a)
  PROVE  /\ db' \in [Account -> Row \cup {None}]
         /\ \E s \in AgentState : Founded(s) /\ ag' = [ag EXCEPT ![a] = s]
<1>1. ag[a] \in AgentState /\ Founded(ag[a])
  BY Found
<1>2. ag[a].sets \in Seq([by : By, role : RoleOf]) /\ ag[a].sets # << >>
  BY <1>1 DEF Set, AgentState
<1>3. Head(ag[a].sets) \in [by : By, role : RoleOf] /\ Tail(ag[a].sets) \in Seq([by : By, role : RoleOf])
  BY <1>2, HeadTail
<1> DEFINE h == Head(ag[a].sets).role
           s == [ag[a] EXCEPT !.sets = Tail(ag[a].sets)]
<1>4. h.account \in Account /\ h.td \in Row
  BY <1>3 DEF RoleOf
<1>5. db' \in [Account -> Row \cup {None}]
  BY <1>4 DEF Set, TInv, Typed
<1>6. s \in AgentState /\ Founded(s)
  BY <1>1, <1>3 DEF AgentState, Founded, Closings
<1>7. ag' = [ag EXCEPT ![a] = s]
  BY DEF Set
<1> HIDE DEF s
<1> QED
  BY <1>5, <1>6, <1>7

LEMMA CloseStepMove ==
  ASSUME TInv, NEW a \in Agent, CloseStep(a)
  PROVE  \E s \in AgentState : Founded(s) /\ ag' = [ag EXCEPT ![a] = s]
<1>1. ag[a] \in AgentState /\ Founded(ag[a])
  BY Found
<1> DEFINE r == Saving(ag[a], "close")
<1>2. CASE ag' = [ag EXCEPT ![a] = [r EXCEPT !.close = "save"]] /\ ag[a].role # None
  <2>1. r \in AgentState /\ Founded(r) /\ r.role # None
    <3>1. r.role = ag[a].role
      BY <1>1 DEF Saving, AgentState
    <3> QED
      BY <1>1, <1>2, <3>1, SavingFounded DEF By
  <2> HIDE DEF r
  <2>2. [r EXCEPT !.close = "save"] \in AgentState /\ Founded([r EXCEPT !.close = "save"])
    BY <2>1 DEF AgentState, Founded, Closings
  <2> QED
    BY <1>2, <2>2
<1>3. CASE ag' = [ag EXCEPT ![a] = [ag[a] EXCEPT !.close = "quit", !.timer = FALSE, !.quit = TRUE]]
           /\ ag[a].role # None
  <2> DEFINE s == [ag[a] EXCEPT !.close = "quit", !.timer = FALSE, !.quit = TRUE]
  <2>1. s \in AgentState /\ Founded(s)
    BY <1>1, <1>3 DEF AgentState, Founded, Closings
  <2> QED
    BY <1>3, <2>1
<1>4. CASE Saved(a)
  <2> DEFINE s == [ag[a] EXCEPT !.close = "done"]
  <2>1. s \in AgentState /\ Founded(s) /\ ag' = [ag EXCEPT ![a] = s]
    BY <1>1, <1>4 DEF AgentState, Founded, Closings, Saved
  <2> QED
    BY <2>1
<1>5. Offline(a) \/ Quit(a) => ag[a].role # None
  BY <1>1 DEF Founded, Offline, Quit, Closings
<1> QED
  BY <1>2, <1>3, <1>4, <1>5 DEF CloseStep, Offline, Quit

LEMMA AgentStepTyped ==
  ASSUME TInv, NEW a \in Agent,
         \/ LoadRole(a) \/ Request(a) \/ TimerSave(a) \/ Set(a) \/ ForceSave(a)
         \/ LoadStep(a) \/ CloseStep(a)
         \/ \E c \in Coroutine : Session(a, c) \/ SessionStep(a, c)
  PROVE  TInv'
<1>1. \E s \in AgentState : Founded(s) /\ ag' = [ag EXCEPT ![a] = s]
  BY LoadRoleMove, RequestMove, SaveMove, SetMove, LoadStepMove, CloseStepMove, SessionMove
<1>2. made' \in [Account -> Row]
  <2>1. CASE Request(a) \/ \E c \in Coroutine : Session(a, c) \/ SessionStep(a, c)
    BY <2>1, RequestMove, SessionMove
  <2>2. CASE made' = made
    BY <2>2 DEF TInv, Typed
  <2> QED
    BY <2>1, <2>2 DEF LoadRole, TimerSave, Set, ForceSave, LoadStep, CloseStep, LoadGot, Created,
         Online, Offline, Quit, Saved
<1>3. db' \in [Account -> Row \cup {None}]
  <2>1. CASE Set(a)
    BY <2>1, SetMove
  <2>2. CASE db' = db
    BY <2>2 DEF TInv, Typed
  <2> QED
    BY <2>1, <2>2 DEF LoadRole, Request, TimerSave, ForceSave, LoadStep, CloseStep, LoadGot,
         Created, Online, Offline, Quit, Saved, Session, SessionStep, SessionRuns, SessionEnds
<1>4. online' \in [Account -> Agent \cup {None}]
  <2>1. CASE Online(a) \/ Offline(a)
    <3>1. online' = online \/ \E v \in Agent \cup {None} : online' = [online EXCEPT ![ag[a].uid] = v]
      BY <2>1 DEF Online, Offline
    <3> QED
      BY <3>1 DEF TInv, Typed
  <2>2. CASE online' = online
    BY <2>2 DEF TInv, Typed
  <2> QED
    BY <2>1, <2>2 DEF LoadRole, Request, TimerSave, Set, ForceSave, LoadStep, CloseStep, LoadGot,
         Created, Quit, Saved, Session, SessionStep, SessionRuns, SessionEnds
<1>5. world' = world
  BY DEF LoadRole, Request, TimerSave, Set, ForceSave, LoadStep, CloseStep, LoadGot, Created,
     Online, Offline, Quit, Saved, Session, SessionStep, SessionRuns, SessionEnds
<1>6. gate' \in [Account -> [st : {"out", "in", "kicking"}, agent : Agent \cup {None}]] /\ Manned'
  <2>1. CASE Saved(a)
    <3>1. \A x \in Account : gate'[x] = gate[x] \/ gate'[x] = [gate[x] EXCEPT !.st = "out"]
      BY <2>1 DEF Saved
    <3>2. gate' \in [Account -> [st : {"out", "in", "kicking"}, agent : Agent \cup {None}]]
      BY <2>1 DEF Saved, TInv, Typed
    <3> QED
      BY <3>1, <3>2 DEF TInv, Typed, Manned
  <2>2. CASE gate' = gate
    BY <2>2 DEF TInv, Typed, Manned
  <2> QED
    BY <2>1, <2>2 DEF LoadRole, Request, TimerSave, Set, ForceSave, LoadStep, CloseStep, LoadGot,
         Created, Online, Offline, Quit, Session, SessionStep, SessionRuns, SessionEnds
<1> QED
  BY <1>1, <1>2, <1>3, <1>4, <1>5, <1>6, TypedMove

LEMMA TypedStep == TInv /\ [Next]_vars => TInv'
<1> SUFFICES ASSUME TInv, [Next]_vars PROVE TInv'
  OBVIOUS
<1>1. CASE UNCHANGED vars
  BY <1>1 DEF TInv, Typed, Manned, vars
<1> QED
  BY <1>1, LoginTyped, GateStepTyped, AgentStepTyped DEF Next

LEMMA InitTyped == Init => TInv
<1> SUFFICES ASSUME Init PROVE TInv
  OBVIOUS
<1>1. FreshAgent \in AgentState /\ Founded(FreshAgent)
  BY DEF FreshAgent, AgentState, Founded, Closings
<1>2. Typed
  BY <1>1 DEF Init, Typed, Row
<1> QED
  BY <1>1, <1>2 DEF Init, TInv, Manned

(* The fields of gates, rows, roles and agents keep their types, whatever    *)
(* happens: in particular what runs on a role always has one.               *)
THEOREM TypeCorrect == Spec => []TypeOK
<1>1. TInv => TypeOK
  <2> SUFFICES ASSUME TInv PROVE TypeOK
    OBVIOUS
  <2>1. ASSUME NEW a \in Agent
        PROVE  /\ ag[a].role # None => ag[a].role \in RoleOf
               /\ ag[a].runs \subseteq {c \in Coroutine : ag[a].session[c] # 0}
               /\ ag[a].load # "none" => ag[a].uid # None
    BY Found DEF AgentState, Founded
  <2> QED
    BY <2>1 DEF TInv, Typed, TypeOK
<1> QED
  BY <1>1, InitTyped, TypedStep, PTL DEF Spec

-----------------------------------------------------------------------------
(* The list of online users.                                                *)

\* State s of agent a fits the session g of account x; and entry o of the list.
Fits(s, x, g, a) ==
  /\ g.agent = a /\ s.used /\ s.uid \in {None, x} /\ (g.st = "kicking" => s.uid = x)
  /\ s.uid # None => /\ s.client <=> s.close = "none"
                     /\ s.client <=> g = [st |-> "in", agent |-> a]
                     /\ s.close \in Closings <=> g = [st |-> "kicking", agent |-> a]
Shown(s, g, o, a) ==
  /\ o # None => /\ o = a /\ g.st \in {"in", "kicking"}
                 /\ g.st = "in" => s.role # None /\ s.load = "none"
                 /\ g.st = "kicking" => s.close = "offline"
  /\ g.st = "in" /\ s.role # None /\ s.load = "none" => o = a

(* Agent a, which has the last session of account x, moves to state s, and   *)
(* what the gates and online_snax say of x changes with it.                 *)
LEMMA CalmMove ==
  ASSUME TInv, CalmInv, TInv', NEW x \in Account, NEW a \in Agent, gate[x].agent = a,
         NEW s \in AgentState, ag' = [ag EXCEPT ![a] = s],
         NEW g, gate' = [gate EXCEPT ![x] = g], NEW o, online' = [online EXCEPT ![x] = o],
         Once(s), Fits(s, x, g, a), Shown(s, g, o, a)
  PROVE  CalmInv'
<1>1. /\ \A y \in Account : gate'[y] = IF y = x THEN g ELSE gate[y]
      /\ \A y \in Account : online'[y] = IF y = x THEN o ELSE online[y]
      /\ \A b \in Agent : ag'[b] = IF b = a THEN s ELSE ag[b]
  BY DEF TInv, Typed
<1>2. \A y \in Account : gate'[y].agent = gate[y].agent
  BY <1>1 DEF Fits
<1>3. \A y \in Account : y # x => gate[y].agent # a
  BY NoneAssumption DEF CalmInv, Apart
<1>4. \A y \in Account : gate[y].agent \in Agent \cup {None} /\ (gate[y].agent = None => gate[y].st = "out")
  BY DEF TInv, Typed, Manned
<1>5. \A b \in Agent : Once(ag'[b])
  BY <1>1 DEF CalmInv
<1>6. ASSUME NEW b \in Agent PROVE Agree(ag[b], b)'
  <2>1. CASE b = a
    BY <1>1, <2>1 DEF Agree, Fits
  <2>2. CASE b # a
    <3>1. ag'[b] = ag[b] /\ Agree(ag[b], b) /\ ag[b].uid \in Account \cup {None}
      BY <1>1, <2>2, Found DEF CalmInv, AgentState
    <3>2. ag[b].uid = x => g.agent # b /\ gate[x].agent # b
      BY <2>2 DEF Fits
    <3> QED
      BY <1>1, <3>1, <3>2 DEF Agree
  <2> QED
    BY <2>1, <2>2
<1>7. \A y, z \in Account : Apart(y, z)'
  BY <1>2 DEF CalmInv, Apart
<1>8. ASSUME NEW y \in Account PROVE Filed(y)'
  BY <1>1, <1>2, <1>3, <1>4, NoneAssumption DEF CalmInv, Filed, Fits
<1>9. ASSUME NEW y \in Account PROVE Entry(y)' /\ Seen(y)'
  <2>1. CASE y = x
    BY <1>1, <2>1, NoneAssumption DEF Entry, Seen, Fits, Shown
  <2>2. CASE y # x
    <3>1. gate[y].agent # None => ag'[gate[y].agent] = ag[gate[y].agent]
      BY <1>1, <1>3, <1>4, <2>2
    <3>2. gate'[y] = gate[y] /\ online'[y] = online[y] /\ Entry(y) /\ Seen(y)
      BY <1>1, <2>2 DEF CalmInv
    <3> QED
      BY <1>4, <3>1, <3>2 DEF Entry, Seen
  <2> QED
    BY <2>1, <2>2
<1> QED
  BY <1>5, <1>6, <1>7, <1>8, <1>9 DEF CalmInv

(* Work of an agent that neither gates nor online_snax see.                 *)
LEMMA CalmQuiet ==
  ASSUME TInv, CalmInv, NEW a \in Agent, ag[a].used,
         NEW s \in AgentState, ag' = [ag EXCEPT ![a] = s],
         s.used = ag[a].used, s.uid = ag[a].uid, s.client = ag[a].client,
         s.load = ag[a].load, s.for = ag[a].for, s.closed = ag[a].closed, s.close = ag[a].close,
         s.role = None <=> ag[a].role = None,
         UNCHANGED << gate, online >>
  PROVE  CalmInv'
<1>1. \A b \in Agent : ag'[b] = IF b = a THEN s ELSE ag[b]
  BY DEF TInv, Typed
<1>2. \A b \in Agent : /\ ag'[b].used = ag[b].used /\ ag'[b].uid = ag[b].uid
                       /\ ag'[b].client = ag[b].client /\ ag'[b].load = ag[b].load
                       /\ ag'[b].close = ag[b].close
                       /\ ag'[b].role = None <=> ag[b].role = None
  BY <1>1
<1>3. ASSUME NEW b \in Agent PROVE Once(ag'[b])
  <2>1. Once(ag[a]) /\ Once(ag[b])
    BY DEF CalmInv
  <2>2. Once(s)
    BY <2>1 DEF Once
  <2> QED
    BY <1>1, <2>1, <2>2
<1>4. \A b \in Agent : Agree(ag[b], b)'
  BY <1>2 DEF CalmInv, Agree
<1>5. \A y, z \in Account : Apart(y, z)'
  BY DEF CalmInv, Apart
<1>6. \A y \in Account : gate[y].agent \in Agent \cup {None} /\ (gate[y].agent = None => gate[y].st = "out")
  BY DEF TInv, Typed, Manned
<1>7. \A y \in Account : Filed(y)'
  BY <1>2, <1>6, NoneAssumption DEF CalmInv, Filed
<1>8. ASSUME NEW y \in Account PROVE Entry(y)' /\ Seen(y)'
  <2>1. Entry(y) /\ Seen(y)
    BY DEF CalmInv
  <2> QED
    BY <1>2, <1>6, <2>1, NoneAssumption DEF Entry, Seen
<1> QED
  BY <1>3, <1>4, <1>5, <1>7, <1>8 DEF CalmInv

(* The agent of a session.                                                  *)
LEMMA AgentOfSession ==
  ASSUME TInv, CalmInv, NEW x \in Account, gate[x].st # "out"
  PROVE  /\ gate[x].agent \in Agent /\ ag[gate[x].agent].used
         /\ ag[gate[x].agent].uid \in {None, x}
         /\ ag[gate[x].agent] \in AgentState /\ Founded(ag[gate[x].agent])
         /\ Once(ag[gate[x].agent]) /\ Agree(ag[gate[x].agent], gate[x].agent)
         /\ Filed(x) /\ Entry(x) /\ Seen(x)
<1>1. gate[x].agent \in Agent
  BY DEF TInv, Typed, Manned
<1>2. gate[x].agent # None
  BY <1>1, NoneAssumption
<1> QED
  BY <1>1, <1>2, Found DEF CalmInv, Filed

(* The account of an agent that serves, or is kicked.                       *)
LEMMA SessionOfAgent ==
  ASSUME TInv, CalmInv, NEW a \in Agent, ag[a].client \/ ag[a].close \in Closings \/ ag[a].load # "none"
  PROVE  /\ ag[a].uid \in Account /\ gate[ag[a].uid].agent = a /\ gate[ag[a].uid].st # "out"
         /\ gate[ag[a].uid].st = IF ag[a].client THEN "in" ELSE "kicking"
<1>1. ag[a] \in AgentState /\ Founded(ag[a]) /\ Once(ag[a]) /\ Agree(ag[a], a)
  BY Found DEF CalmInv
<1>2. ag[a].uid \in Account
  BY <1>1 DEF AgentState, Founded, Once
<1>3. ag[a].uid # None
  BY <1>2, NoneAssumption
<1> QED
  BY <1>1, <1>2, <1>3 DEF Agree, Once, Closings

LEMMA LoginCalm ==
  ASSUME TInv, Calm, CalmInv, NEW x \in Account, Login(x)
  PROVE  CalmInv'
<1>1. PICK a \in Agent : /\ ~ag[a].used
                         /\ gate' = [gate EXCEPT ![x] = [st |-> "in", agent |-> a]]
                         /\ ag' = [ag EXCEPT ![a].used = TRUE]
  BY DEF Login, Calm
<1>2. ag[a] = FreshAgent /\ a # None
  BY <1>1, NoneAssumption DEF CalmInv, Once
<1>3. ag[a] \in AgentState
  BY Found
<1>4. PICK s \in AgentState : s = [ag[a] EXCEPT !.used = TRUE]
  BY <1>3 DEF AgentState
<1>5. ag' = [ag EXCEPT ![a] = s]
  BY <1>1, <1>4
<1>6. /\ s.used /\ s.uid = None /\ ~s.client /\ s.role = None /\ s.load = "none"
      /\ ~s.closed /\ s.close = "none"
  BY <1>2, <1>4 DEF FreshAgent
<1>7. /\ \A y \in Account : gate'[y] = IF y = x THEN [st |-> "in", agent |-> a] ELSE gate[y]
      /\ \A b \in Agent : ag'[b] = IF b = a THEN s ELSE ag[b]
      /\ online' = online /\ gate[x].st = "out"
  BY <1>1, <1>5 DEF Login, TInv, Typed
<1>8. \A y \in Account : gate[y].agent # a
  BY <1>1, <1>2 DEF CalmInv, Filed
<1>9. \A y \in Account : gate[y].agent \in Agent \cup {None} /\ (gate[y].agent = None => gate[y].st = "out")
  BY DEF TInv, Typed, Manned
<1>10. ASSUME NEW b \in Agent PROVE Once(ag'[b]) /\ Agree(ag[b], b)'
  <2>1. CASE b = a
    BY <1>6, <1>7, <2>1 DEF Once, Agree
  <2>2. CASE b # a
    <3>1. ag'[b] = ag[b] /\ Once(ag[b]) /\ Agree(ag[b], b) /\ ag[b].uid \in Account \cup {None}
      BY <1>7, <2>2, Found DEF CalmInv, AgentState
    <3> QED
      BY <1>7, <2>2, <3>1 DEF Agree
  <2> QED
    BY <2>1, <2>2
<1>11. \A y, z \in Account : Apart(y, z)'
  BY <1>7, <1>8 DEF CalmInv, Apart
<1>12. \A y \in Account : Filed(y)'
  BY <1>2, <1>6, <1>7, <1>8, <1>9 DEF CalmInv, Filed
<1>13. ASSUME NEW y \in Account PROVE Entry(y)' /\ Seen(y)'
  <2>1. CASE y = x
    <3>1. online[x] = None
      BY <1>7 DEF CalmInv, Entry
    <3> QED
      BY <1>6, <1>7, <2>1, <3>1 DEF Entry, Seen
  <2>2. CASE y # x
    <3>1. gate'[y] = gate[y] /\ online'[y] = online[y] /\ Entry(y) /\ Seen(y)
      BY <1>7, <2>2 DEF CalmInv
    <3>2. gate[y].agent # None => ag'[gate[y].agent] = ag[gate[y].agent]
      BY <1>7, <1>8, <1>9
    <3> QED
      BY <1>9, <3>1, <3>2 DEF Entry, Seen
  <2> QED
    BY <2>1, <2>2
<1> QED
  BY <1>10, <1>11, <1>12, <1>13 DEF CalmInv

LEMMA StartCalm ==
  ASSUME TInv, TInv', CalmInv, NEW x \in Account, Start(x)
  PROVE  CalmInv'
<1>1. PICK a \in Agent : a = gate[x].agent /\ a # None
  BY AgentOfSession, NoneAssumption DEF Start
<1>2. /\ gate[x].st = "in" /\ gate[x] = [st |-> "in", agent |-> a]
      /\ ag[a].used /\ ag[a].uid \in {None, x} /\ ag[a] \in AgentState /\ Founded(ag[a])
      /\ Once(ag[a]) /\ Agree(ag[a], a) /\ Entry(x) /\ Seen(x)
  BY <1>1, AgentOfSession DEF Start, TInv, Typed
<1>3. PICK s \in AgentState : s = ag'[a] /\ ag' = [ag EXCEPT ![a] = s]
  <2>1. ag'[a] \in AgentState
    BY DEF TInv, Typed
  <2>2. ag' = [ag EXCEPT ![a] = ag'[a]]
    BY <1>1 DEF TInv, Typed, Start
  <2> QED
    BY <2>1, <2>2
<1>4. s = [ag[a] EXCEPT !.uid = x, !.client = TRUE, !.timer = FALSE,
                        !.lock = ag[a].lock + 1, !.quit = FALSE]
  BY <1>1, <1>3 DEF Start, TInv, Typed
<1>5. /\ s.uid = x /\ s.client /\ s.used /\ s.role = ag[a].role /\ s.load = ag[a].load
      /\ s.for = ag[a].for /\ s.closed = ag[a].closed /\ s.close = ag[a].close
  BY <1>2, <1>4 DEF AgentState
<1>6. x # None /\ ag[a].close = "none" /\ ~ag[a].closed
  BY <1>2, NoneAssumption DEF Agree, Once
<1>7. Once(s)
  BY <1>2, <1>5, <1>6 DEF Once, Founded
<1>8. PICK g, o : g = gate[x] /\ gate' = [gate EXCEPT ![x] = g]
                  /\ o = online[x] /\ online' = [online EXCEPT ![x] = o]
  BY DEF Start, TInv, Typed
<1>9. s.close \notin Closings /\ g = [st |-> "in", agent |-> a]
  BY <1>2, <1>5, <1>6, <1>8 DEF Closings
<1>10. o # None => o = a /\ s.role # None /\ s.load = "none"
  BY <1>1, <1>2, <1>5, <1>8 DEF Entry
<1>11. s.role # None /\ s.load = "none" => o = a
  BY <1>1, <1>2, <1>5, <1>8 DEF Seen
<1>12. Fits(s, x, g, a) /\ Shown(s, g, o, a)
  BY <1>5, <1>6, <1>9, <1>10, <1>11 DEF Fits, Shown
<1> QED
  BY <1>1, <1>3, <1>7, <1>8, <1>12, CalmMove

LEMMA KickCalm ==
  ASSUME TInv, TInv', Calm, CalmInv, NEW x \in Account, Kick(x)
  PROVE  CalmInv'
<1>1. PICK a \in Agent : a = gate[x].agent /\ a # None
  BY AgentOfSession, NoneAssumption DEF Kick
<1>2. /\ gate[x].st = "in" /\ gate[x] = [st |-> "in", agent |-> a]
      /\ ag[a].used /\ ag[a].uid \in {None, x} /\ ag[a] \in AgentState /\ Founded(ag[a])
      /\ Once(ag[a]) /\ Agree(ag[a], a) /\ Entry(x) /\ Seen(x)
  BY <1>1, AgentOfSession DEF Kick, TInv, Typed
<1>3. ag[a].load = "none" /\ online' = [online EXCEPT ![x] = online[x]] /\ x # None
  BY <1>1, NoneAssumption DEF Kick, Calm, TInv, Typed
<1>4. CASE ~ag[a].client
  <2>1. PICK g : g = [gate[x] EXCEPT !.st = "out"]
    OBVIOUS
  <2>2. gate' = [gate EXCEPT ![x] = g] /\ ag' = [ag EXCEPT ![a] = ag[a]]
    BY <1>1, <1>4, <2>1 DEF Kick, TInv, Typed
  <2>3. ag[a].uid = None /\ g.st = "out" /\ g.agent = a
    BY <1>2, <1>4, <2>1 DEF Agree
  <2>4. online[x] = None
    BY <1>2, <2>3 DEF Entry, Founded
  <2>5. PICK s, o : s = ag[a] /\ o = online[x]
    OBVIOUS
  <2>6. Fits(s, x, g, a) /\ Shown(s, g, o, a)
    BY <1>2, <2>3, <2>4, <2>5 DEF Fits, Shown
  <2> QED
    BY <1>1, <1>2, <1>3, <2>2, <2>5, <2>6, CalmMove
<1>5. CASE ag[a].client
  <2>1. ag[a].uid = x /\ ag[a].close = "none" /\ ~ag[a].closed
    BY <1>2, <1>5 DEF Once, Agree
  <2>2. PICK g : g = [gate[x] EXCEPT !.st = IF AtOnce(ag[a]) THEN "out" ELSE "kicking"]
    OBVIOUS
  <2>3. gate' = [gate EXCEPT ![x] = g] /\ ag' = [ag EXCEPT ![a] = Closing(ag[a])]
    BY <1>1, <1>5, <2>2 DEF Kick
  <2>4. /\ g.agent = a
        /\ ag[a].role = None => g.st = "out"
        /\ ag[a].role # None => g = [st |-> "kicking", agent |-> a]
    BY <1>2, <2>1, <2>2 DEF AtOnce
  <2>5. PICK s \in AgentState : s = Closing(ag[a])
    BY <1>2, ClosingFounded
  <2>6. /\ s.used /\ s.uid = x /\ ~s.client /\ s.closed /\ s.role = ag[a].role
        /\ s.load = "none" /\ s.close = IF ag[a].role = None THEN "done" ELSE "offline"
    BY <1>2, <1>3, <2>1, <2>5 DEF Closing, AgentState
  <2>7. Once(s)
    BY <1>3, <2>6 DEF Once
  <2>8. /\ s.close # "none" /\ (s.close \in Closings <=> ag[a].role # None)
        /\ g # [st |-> "in", agent |-> a]
    BY <2>4, <2>6 DEF Closings
  <2>9. PICK o : o = online[x] /\ online' = [online EXCEPT ![x] = o]
    BY <1>3
  <2>10. /\ o # None => o = a /\ g = [st |-> "kicking", agent |-> a] /\ s.close = "offline"
         /\ g.st # "in"
    BY <1>1, <1>2, <2>4, <2>6, <2>9 DEF Entry
  <2>11. g.st = "kicking" <=> g = [st |-> "kicking", agent |-> a]
    BY <2>4
  <2>12. Fits(s, x, g, a) /\ Shown(s, g, o, a)
    BY <2>4, <2>6, <2>8, <2>10, <2>11 DEF Fits, Shown
  <2> QED
    BY <1>1, <2>3, <2>5, <2>7, <2>9, <2>12, CalmMove
<1> QED
  BY <1>4, <1>5

(* The agent after a step.                                                  *)
LoadShape(a) ==
  /\ LoadRole(a) => ag'[a] = [ag[a] EXCEPT !.load = "get", !.for = ag[a].uid]
  /\ LoadGot(a) /\ db[ag[a].for] # None => ag'[a] = Loaded(ag[a], db[ag[a].for])
  /\ LoadGot(a) /\ db[ag[a].for] = None =>
       ag'[a] = [ag[a] EXCEPT !.load = "create", !.sets =
                   Append(ag[a].sets, [by |-> "load", role |-> Empty(ag[a].for)])]
  /\ Created(a) => ag'[a] = Loaded(ag[a], {})
  /\ Online(a) => ag'[a] = [ag[a] EXCEPT !.load = "none"]

CloseShape(a) ==
  /\ Offline(a) /\ Calm =>
       ag'[a] = [ag[a] EXCEPT !.close = "quit", !.timer = FALSE, !.quit = TRUE]
  /\ Quit(a) => ag'[a] = [Saving(ag[a], "close") EXCEPT !.close = "save"]
  /\ Saved(a) => ag'[a] = [ag[a] EXCEPT !.close = "done"]

\* Change n is made to the role of agent a, which moves to state s before it.
Changes(a, s, n) ==
  Changed(a, n) /\ ag'[a] = [s EXCEPT !.role = [ag[a].role EXCEPT !.td = @ \cup {n}]]

SessionShape(a, c) ==
  /\ Session(a, c) => ag'[a] = [ag[a] EXCEPT !.session[c] = ag[a].lock]
  /\ SessionRuns(a, c) => ag'[a] = [ag[a] EXCEPT !.runs = ag[a].runs \cup {c}]
  /\ SessionEnds(a, c) =>
       LET r == [ag[a] EXCEPT !.runs = ag[a].runs \ {c}, !.session[c] = 0] IN
         (made' = made /\ ag'[a] = r) \/ \E n \in Change : Changes(a, r, n)

WorkShape(a) ==
  /\ Request(a) => \E n \in Change : Changes(a, ag[a], n)
  /\ TimerSave(a) => ag'[a] = Saving(ag[a], "timer")
  /\ Set(a) => ag'[a] = [ag[a] EXCEPT !.sets = Tail(ag[a].sets)]
  /\ ForceSave(a) /\ ag[a].role = None => ag'[a] = [ag[a] EXCEPT !.loop = FALSE]
  /\ ForceSave(a) /\ ag[a].role # None =>
       ag'[a] = Saving([ag[a] EXCEPT !.loop = FALSE], "loop")

LEMMA Shapes ==
  ASSUME TInv, NEW a \in Agent
  PROVE  LoadShape(a) /\ CloseShape(a) /\ WorkShape(a) /\ \A c \in Coroutine : SessionShape(a, c)
<1>1. ag[a] \in AgentState /\ ag \in [Agent -> AgentState]
  BY DEF TInv, Typed
<1>2. LoadShape(a)
  BY <1>1 DEF LoadRole, LoadGot, Created, Online, LoadShape
<1>3. CloseShape(a)
  BY <1>1 DEF Offline, Quit, Saved, Calm, CloseShape
<1>4. WorkShape(a)
  BY <1>1 DEF Request, TimerSave, Set, ForceSave, WorkShape, Changes
<1>5. ASSUME NEW c \in Coroutine PROVE SessionShape(a, c)
  <2> DEFINE r == [ag[a] EXCEPT !.runs = ag[a].runs \ {c}, !.session[c] = 0]
  <2>1. ASSUME NEW n \in Change, Changed(a, n), ag' = [ag EXCEPT ![a] = [r EXCEPT !.role.td = @ \cup {n}]]
        PROVE  Changes(a, r, n)
    <3>1. r.role = ag[a].role
      BY <1>1 DEF AgentState
    <3>2. ag'[a] = [r EXCEPT !.role = [r.role EXCEPT !.td = @ \cup {n}]]
      BY <1>1, <2>1
    <3> QED
      BY <2>1, <3>1, <3>2 DEF Changes
  <2>2. SessionEnds(a, c) => (made' = made /\ ag'[a] = r) \/ \E n \in Change : Changes(a, r, n)
    BY <1>1, <2>1 DEF SessionEnds
  <2> QED
    BY <1>1, <2>2 DEF Session, SessionRuns, SessionShape
<1> QED
  BY <1>2, <1>3, <1>4, <1>5

(* load_role, up to its answer.                                             *)
LEMMA LoadCalm ==
  ASSUME TInv, TInv', Calm, CalmInv, NEW a \in Agent, LoadRole(a) \/ LoadStep(a)
  PROVE  CalmInv'
<1>0. LoadShape(a)
  BY Shapes
<1>1. ag[a] \in AgentState /\ Founded(ag[a]) /\ Once(ag[a]) /\ Agree(ag[a], a)
  BY Found DEF CalmInv
<1>2. ag[a].client
  BY <1>1 DEF LoadRole, LoadStep, LoadGot, Created, Online, Calm, Once
<1>3. PICK x \in Account : x = ag[a].uid /\ gate[x].agent = a /\ gate[x] = [st |-> "in", agent |-> a]
  BY <1>2, SessionOfAgent DEF TInv, Typed
<1>4. PICK g : g = [st |-> "in", agent |-> a] /\ gate' = [gate EXCEPT ![x] = g]
  BY <1>3 DEF LoadRole, LoadStep, LoadGot, Created, Online, TInv, Typed
<1>5. Entry(x) /\ Seen(x) /\ ag[a].used /\ x # None /\ a # None
  BY <1>3, AgentOfSession, NoneAssumption
<1>6. ag[a].close = "none" /\ ~ag[a].closed /\ ag[a].close \notin Closings
  BY <1>2, <1>3, <1>5, <1>1 DEF Agree, Once, Closings
<1>7. PICK s \in AgentState : s = ag'[a] /\ ag' = [ag EXCEPT ![a] = s]
  <2>1. ag' = [ag EXCEPT ![a] = ag'[a]]
    BY DEF LoadRole, LoadStep, LoadGot, Created, Online, TInv, Typed
  <2> QED
    BY <2>1 DEF TInv, Typed
<1>8. ag[a].load # "none" => ag[a].for = x
  BY <1>1, <1>3 DEF Once
<1>9. /\ s.used = ag[a].used /\ s.uid = x /\ s.client /\ s.closed = ag[a].closed
      /\ s.close = ag[a].close /\ (s.load # "none" => s.for = x)
  <2>1. CASE LoadRole(a)
    <3>1. s = [ag[a] EXCEPT !.load = "get", !.for = ag[a].uid]
      BY <1>0, <1>7, <2>1 DEF LoadShape
    <3> QED
      BY <1>1, <1>2, <1>3, <3>1 DEF AgentState
  <2>3. CASE Online(a)
    <3>1. s = [ag[a] EXCEPT !.load = "none"]
      BY <1>0, <1>7, <2>3 DEF LoadShape
    <3> QED
      BY <1>1, <1>2, <1>3, <3>1 DEF AgentState
  <2>2. CASE LoadGot(a) \/ Created(a)
    <3>1. ag[a].load # "none"
      BY <2>2 DEF LoadGot, Created
    <3>2. CASE s.load = "create" \/ \E td : s = Loaded(ag[a], td)
      <4>1. CASE \E td : s = Loaded(ag[a], td)
        BY <1>1, <1>2, <1>3, <1>8, <3>1, <4>1 DEF AgentState, Loaded
      <4>2. CASE LoadGot(a) /\ db[ag[a].for] = None
        <5>1. \E q : s = [ag[a] EXCEPT !.load = "create", !.sets = q]
          BY <1>0, <1>7, <4>2 DEF LoadShape
        <5> QED
          BY <1>1, <1>2, <1>3, <1>8, <3>1, <5>1 DEF AgentState
      <4> QED
        BY <1>7, <2>2, <4>1, <4>2, <1>0 DEF LoadShape
    <3> QED
      BY <1>1, <1>7, <2>2, <3>2, <1>0 DEF LoadShape, AgentState
  <2> QED
    BY <2>1, <2>2, <2>3 DEF LoadStep
<1>10. Once(s)
  BY <1>5, <1>6, <1>9 DEF Once
<1>11. Fits(s, x, g, a)
  BY <1>4, <1>5, <1>6, <1>9 DEF Fits
<1>12. CASE ~Online(a)
  <2>1. ag[a].load # "none" \/ ag[a].role = None
    BY <1>12 DEF LoadRole, LoadStep, LoadGot, Created
  <2>2. online[x] = None
    BY <1>3, <2>1 DEF Entry, TInv, Typed, CalmInv
  <2>3. PICK o : o = None /\ online' = [online EXCEPT ![x] = o]
    BY <1>12, <2>2 DEF LoadRole, LoadStep, LoadGot, Created, TInv, Typed
  <2>4. s.load # "none"
    <3>1. CASE LoadRole(a)
      BY <1>1, <1>7, <3>1, <1>0 DEF LoadShape, AgentState
    <3>2. CASE LoadGot(a) /\ db[ag[a].for] = None
      BY <1>1, <1>7, <3>2, <1>0 DEF LoadShape, AgentState
    <3>3. CASE \E td : s = Loaded(ag[a], td)
      BY <1>1, <3>3 DEF AgentState, Loaded
    <3> QED
      BY <1>7, <1>12, <3>1, <3>2, <3>3, <1>0 DEF LoadShape, LoadStep
  <2>5. Shown(s, g, o, a)
    BY <1>4, <2>3, <2>4 DEF Shown
  <2> QED
    BY <1>3, <1>4, <1>7, <1>10, <1>11, <2>3, <2>5, CalmMove
<1>13. CASE Online(a)
  <2>1. PICK o : o = a /\ online' = [online EXCEPT ![x] = o]
    BY <1>3, <1>13 DEF Online, Calm
  <2>2. s.load = "none" /\ s.role # None
    BY <1>1, <1>7, <1>13 DEF Online, Founded, TInv, Typed, AgentState
  <2>3. Shown(s, g, o, a)
    BY <1>4, <2>1, <2>2 DEF Shown
  <2> QED
    BY <1>3, <1>4, <1>7, <1>10, <1>11, <2>1, <2>3, CalmMove
<1> QED
  BY <1>12, <1>13

(* cmd.close, from role:offline to its return.                              *)
LEMMA CloseCalm ==
  ASSUME TInv, TInv', Calm, CalmInv, NEW a \in Agent, CloseStep(a)
  PROVE  CalmInv'
<1>0. CloseShape(a)
  BY Shapes
<1>1. ag[a] \in AgentState /\ Founded(ag[a]) /\ Once(ag[a]) /\ Agree(ag[a], a)
  BY Found DEF CalmInv
<1>2. ag[a].close \in Closings
  BY DEF CloseStep, Offline, Quit, Saved, Closings
<1>3. ag[a].uid \in Account /\ ag[a].uid # None /\ ~ag[a].client
  BY <1>1, <1>2, NoneAssumption, SessionOfAgent DEF Agree, Closings
<1>4. PICK x \in Account : x = ag[a].uid /\ gate[x].agent = a
                           /\ gate[x] = [st |-> "kicking", agent |-> a]
  BY <1>1, <1>2, <1>3 DEF Agree
<1>5. Entry(x) /\ ag[a].used /\ a # None /\ ag[a].closed
  BY <1>1, <1>2, <1>4, AgentOfSession, NoneAssumption DEF Once, Closings
<1>6. PICK s \in AgentState : s = ag'[a] /\ ag' = [ag EXCEPT ![a] = s]
  <2>1. ag' = [ag EXCEPT ![a] = ag'[a]]
    BY DEF CloseStep, Offline, Quit, Saved, TInv, Typed
  <2> QED
    BY <2>1 DEF TInv, Typed
<1>7. /\ s.used = ag[a].used /\ s.uid = x /\ ~s.client /\ s.closed = ag[a].closed
      /\ s.load = ag[a].load /\ s.for = ag[a].for
      /\ Offline(a) => s.close = "quit"
      /\ Quit(a) => s.close = "save"
      /\ Saved(a) => s.close = "done"
  <2>1. CASE Offline(a)
    BY <1>1, <1>3, <1>4, <1>6, <2>1, <1>0 DEF CloseShape, AgentState, Offline, Quit, Saved
  <2>2. CASE Quit(a)
    <3>1. s = [Saving(ag[a], "close") EXCEPT !.close = "save"]
      BY <1>0, <1>6, <2>2 DEF CloseShape
    <3>2. ~Offline(a) /\ ~Saved(a)
      BY <2>2 DEF Quit, Offline, Saved
    <3> QED
      BY <1>1, <1>3, <1>4, <2>2, <3>1, <3>2 DEF AgentState, Saving
  <2>3. CASE Saved(a)
    BY <1>1, <1>3, <1>4, <1>6, <2>3, <1>0 DEF CloseShape, AgentState, Offline, Quit, Saved
  <2> QED
    BY <2>1, <2>2, <2>3 DEF CloseStep
<1>8. s.close \in {"quit", "save", "done"} /\ (s.close \in Closings <=> ~Saved(a))
  BY <1>7 DEF CloseStep, Closings, Offline, Quit, Saved
<1>9. Once(s)
  BY <1>1, <1>5, <1>7, <1>8, <1>3, <1>4 DEF Once
<1>10. online' = [online EXCEPT ![x] = None]
  <2>1. CASE Offline(a)
    BY <1>4, <2>1 DEF Offline, Calm
  <2>2. CASE ~Offline(a)
    <3>1. online[x] = None
      BY <1>2, <1>4, <1>5, <2>2 DEF Entry, CloseStep, Quit, Saved
    <3> QED
      BY <2>2, <3>1 DEF CloseStep, Quit, Saved, TInv, Typed
  <2> QED
    BY <2>1, <2>2
<1>11. PICK g : /\ g = [st |-> IF Saved(a) THEN "out" ELSE "kicking", agent |-> a]
                /\ gate' = [gate EXCEPT ![x] = g]
  <2>1. CASE Saved(a)
    <3>1. \A y \in Account : y # x => gate[y].agent # a
      BY <1>4, <1>5 DEF CalmInv, Apart
    <3>2. \A y \in Account : gate'[y] = IF y = x THEN [st |-> "out", agent |-> a] ELSE gate[y]
      BY <1>4, <2>1, <3>1 DEF Saved
    <3>3. gate' = [gate EXCEPT ![x] = [st |-> "out", agent |-> a]]
      BY <2>1, <3>2 DEF Saved, TInv, Typed
    <3> QED
      BY <2>1, <3>3
  <2>2. CASE ~Saved(a)
    BY <1>4, <2>2 DEF CloseStep, Offline, Quit, TInv, Typed
  <2> QED
    BY <2>1, <2>2
<1>12. PICK o : o = None /\ online' = [online EXCEPT ![x] = o]
  BY <1>10
<1>13. Fits(s, x, g, a)
  BY <1>5, <1>7, <1>8, <1>11 DEF Fits
<1>14. Shown(s, g, o, a)
  BY <1>11, <1>12 DEF Shown
<1> QED
  BY <1>4, <1>6, <1>9, <1>11, <1>12, <1>13, <1>14, CalmMove

(* Requests, sessions, saves and rows.                                      *)
LEMMA WorkCalm ==
  ASSUME TInv, TInv', CalmInv, NEW a \in Agent,
         \/ Request(a) \/ TimerSave(a) \/ Set(a) \/ ForceSave(a)
         \/ \E c \in Coroutine : Session(a, c) \/ SessionStep(a, c)
  PROVE  CalmInv'
<1>0. WorkShape(a) /\ \A c \in Coroutine : SessionShape(a, c)
  BY Shapes
<1>1. ag[a] \in AgentState /\ Founded(ag[a]) /\ Once(ag[a])
  BY Found DEF CalmInv
<1>2. ag[a].used
  <2>1. ag[a].role # None \/ ag[a].sets # << >> \/ ag[a].loop
    BY <1>1 DEF Request, TimerSave, Set, ForceSave, Session, SessionStep, SessionRuns, SessionEnds, Founded
  <2> QED
    BY <1>1, <2>1 DEF Once, FreshAgent
<1>3. PICK s \in AgentState : s = ag'[a] /\ ag' = [ag EXCEPT ![a] = s]
  <2>1. ag' = [ag EXCEPT ![a] = ag'[a]]
    BY DEF Request, TimerSave, Set, ForceSave, Session, SessionStep, SessionRuns, SessionEnds, TInv, Typed
  <2> QED
    BY <2>1 DEF TInv, Typed
<1>4. /\ s.used = ag[a].used /\ s.uid = ag[a].uid /\ s.client = ag[a].client
      /\ s.load = ag[a].load /\ s.for = ag[a].for /\ s.closed = ag[a].closed
      /\ s.close = ag[a].close
  <2>1. CASE Request(a)
    BY <1>1, <1>3, <2>1, <1>0 DEF WorkShape, SessionShape, Changes, AgentState
  <2>2. CASE TimerSave(a) \/ Set(a) \/ ForceSave(a)
    BY <1>1, <1>3, <2>2, <1>0 DEF WorkShape, SessionShape, Changes, AgentState, Saving
  <2>3. CASE \E c \in Coroutine : Session(a, c) \/ SessionStep(a, c)
    <3>1. PICK c \in Coroutine : Session(a, c) \/ SessionRuns(a, c) \/ SessionEnds(a, c)
      BY <2>3 DEF SessionStep
    <3>2. CASE Session(a, c)
      <4>1. s = [ag[a] EXCEPT !.session[c] = ag[a].lock]
        BY <1>0, <1>3, <3>2 DEF SessionShape
      <4> QED
        BY <1>1, <4>1 DEF AgentState
    <3>3. CASE SessionRuns(a, c)
      <4>1. s = [ag[a] EXCEPT !.runs = ag[a].runs \cup {c}]
        BY <1>0, <1>3, <3>3 DEF SessionShape
      <4> QED
        BY <1>1, <4>1 DEF AgentState
    <3>4. CASE SessionEnds(a, c)
      <4> DEFINE r == [ag[a] EXCEPT !.runs = ag[a].runs \ {c}, !.session[c] = 0]
      <4>1. s = r \/ \E n \in Change : Changes(a, r, n)
        BY <1>0, <1>3, <3>4 DEF SessionShape
      <4>2. s = r \/ \E role : s = [r EXCEPT !.role = role]
        BY <1>3, <4>1 DEF Changes
      <4> QED
        BY <1>1, <4>2 DEF AgentState
    <3> QED
      BY <3>1, <3>2, <3>3, <3>4
  <2> QED
    BY <2>1, <2>2, <2>3
<1>5. s.role = None <=> ag[a].role = None
  <2>1. CASE s.role = ag[a].role
    BY <2>1
  <2>2. CASE /\ ag[a].role # None
             /\ \E n \in Change : s.role = [ag[a].role EXCEPT !.td = @ \cup {n}] /\ Changed(a, n)
    <3>1. s.role \in RoleOf
      BY <2>2, ChangeTyped
    <3> QED
      BY <2>2, <3>1, NoneAssumption
  <2>3. CASE Request(a)
    <3>1. ag[a].role # None
      BY <2>3 DEF Request
    <3> QED
      BY <1>1, <1>3, <2>2, <2>3, <3>1, <1>0 DEF WorkShape, SessionShape, Changes, AgentState
  <2>4. CASE TimerSave(a) \/ Set(a) \/ ForceSave(a)
    BY <1>1, <1>3, <2>1, <2>4, <1>0 DEF WorkShape, SessionShape, Changes, AgentState, Saving
  <2>5. ASSUME NEW c \in Coroutine, Session(a, c) \/ SessionRuns(a, c)
        PROVE  s.role = None <=> ag[a].role = None
    BY <1>1, <1>3, <2>1, <2>5, <1>0 DEF WorkShape, SessionShape, Changes, AgentState
  <2>6. ASSUME NEW c \in Coroutine, SessionEnds(a, c)
        PROVE  s.role = None <=> ag[a].role = None
    <3>1. ag[a].role # None
      BY <1>1, <2>6 DEF SessionEnds, Founded
    <3> QED
      BY <1>1, <1>3, <2>1, <2>2, <2>6, <3>1, <1>0 DEF WorkShape, SessionShape, Changes, AgentState
  <2> QED
    BY <2>3, <2>4, <2>5, <2>6 DEF SessionStep
<1>6. UNCHANGED << gate, online >>
  BY DEF Request, TimerSave, Set, ForceSave, Session, SessionStep, SessionRuns, SessionEnds
<1> QED
  BY <1>2, <1>3, <1>4, <1>5, <1>6, CalmQuiet

LEMMA CalmStep == TInv /\ TInv' /\ CInv /\ [Next]_vars => CInv'
<1> SUFFICES ASSUME TInv, TInv', CInv, [Next]_vars, Calm' PROVE CalmInv'
  BY DEF CInv
<1>1. Calm
  BY DEF Calm, Next, vars, Login, Start, Kick, IdleLogout, LoadRole, Request, TimerSave, Set, ForceSave,
     LoadStep, CloseStep, LoadGot, Created, Online, Offline, Quit, Saved, Session, SessionStep,
     SessionRuns, SessionEnds
<1>2. CalmInv
  BY <1>1 DEF CInv
<1>3. CASE UNCHANGED vars
  BY <1>2, <1>3 DEF CalmInv, Once, Agree, Apart, Filed, Entry, Seen, vars
<1>4. \A x \in Account : ~IdleLogout(x)
  BY <1>1 DEF Calm, IdleLogout
<1> QED
  BY <1>1, <1>2, <1>3, <1>4, LoginCalm, StartCalm, KickCalm, LoadCalm, CloseCalm, WorkCalm DEF Next

LEMMA InitCalm == Init => CInv
<1> SUFFICES ASSUME Init PROVE CalmInv
  BY DEF CInv
<1>1. \A a \in Agent : Once(ag[a]) /\ Agree(ag[a], a)
  BY DEF Init, FreshAgent, Once, Agree
<1> QED
  BY <1>1 DEF Init, CalmInv, Apart, Filed, Entry, Seen

(* role.lua:93-94, 104-105: while a user plays online_snax lists its agent,  *)
(* and no more after a kick, for any accounts and agents, with reconnections *)
(* and quick returns.                                                       *)
THEOREM OnlineIsListed == Spec => []OnlineListed
<1>1. TInv /\ CInv => OnlineListed
  <2> SUFFICES ASSUME TInv, CalmInv PROVE Listed
    BY DEF CInv, OnlineListed, Calm
  <2> QED
    BY DEF CalmInv, Entry, Seen, Listed
<1> QED
  BY <1>1, InitTyped, TypedStep, InitCalm, CalmStep, PTL DEF Spec

-----------------------------------------------------------------------------
(* No change is lost.                                                       *)

(* Agent a, of account x, moves to state s, when all changes to the account  *)
(* become m and its row d; the gates may end the session.                   *)
LEMMA PlainMove ==
  ASSUME TInv, CalmInv, PlainInv, NEW x \in Account, NEW a \in Agent, ag[a].uid \in {None, x},
         NEW s \in AgentState, ag' = [ag EXCEPT ![a] = s], s.uid = x,
         NEW m, made' = [made EXCEPT ![x] = m], NEW d, db' = [db EXCEPT ![x] = d],
         \A y \in Account : gate'[y].agent = gate[y].agent,
         gate[x].agent = a \/ (m = made[x] /\ d = db[x]),
         Own(s), Quiet(s), Kept(s, a, gate[x].agent, m, d),
         gate[x].agent = a /\ s.role = None => Rested(m, d)
  PROVE  PlainInv'
<1>1. /\ \A b \in Agent : ag'[b] = IF b = a THEN s ELSE ag[b]
      /\ \A y \in Account : made'[y] = IF y = x THEN m ELSE made[y]
      /\ \A y \in Account : db'[y] = IF y = x THEN d ELSE db[y]
  BY DEF TInv, Typed
<1>2. \A b \in Agent : Own(ag'[b]) /\ Quiet(ag'[b])
  BY <1>1 DEF PlainInv
<1>3. ASSUME NEW b \in Agent, ag'[b].uid # None PROVE KeptBy(b)'
  <2>1. CASE b = a
    BY <1>1, <2>1 DEF KeptBy
  <2>2. CASE b # a
    <3>1. ag'[b] = ag[b] /\ ag[b].uid \in Account /\ KeptBy(b)
      BY <1>1, <1>3, <2>2, Found DEF PlainInv, AgentState
    <3>2. CASE made'[ag[b].uid] = made[ag[b].uid] /\ db'[ag[b].uid] = db[ag[b].uid]
      BY <3>1, <3>2 DEF KeptBy
    <3>3. CASE ag[b].uid = x /\ gate[x].agent # b
      BY <3>1, <3>3 DEF KeptBy, Kept
    <3> QED
      BY <1>1, <2>2, <3>1, <3>2, <3>3
  <2> QED
    BY <2>1, <2>2
<1>4. ASSUME NEW y \in Account PROVE Stored(y)'
  <2>1. Stored(y) /\ gate[y].agent \in Agent \cup {None}
    BY DEF PlainInv, TInv, Typed
  <2>2. CASE gate[y].agent = a
    <3>1. y = x \/ (made'[y] = made[y] /\ db'[y] = db[y])
      BY <1>1
    <3>2. CASE y = x
      BY <1>1, <2>2, <3>2, NoneAssumption DEF Stored
    <3>3. CASE y # x
      <4>1. ag[a].uid \in {None, y}
        BY <2>2, NoneAssumption DEF CalmInv, Filed
      <4>2. ag[a].uid = None
        BY <3>3, <4>1
      <4>3. ag[a].role = None
        BY <4>2, Found DEF Founded
      <4> QED
        BY <1>1, <2>1, <2>2, <3>3, <4>3 DEF Stored
    <3> QED
      BY <3>2, <3>3
  <2>3. CASE gate[y].agent # a
    <3>1. gate[y].agent # None => ag'[gate[y].agent] = ag[gate[y].agent]
      BY <1>1, <2>1, <2>3
    <3>2. gate'[y].agent = gate[y].agent /\ made'[y] = made[y] /\ db'[y] = db[y]
      BY <1>1, <2>3
    <3> QED
      BY <2>1, <3>1, <3>2 DEF Stored
  <2> QED
    BY <2>2, <2>3
<1> QED
  BY <1>2, <1>3, <1>4 DEF PlainInv

(* What an agent knows of its account.                                      *)
LEMMA AgentFacts ==
  ASSUME TInv, CalmInv, PlainInv, NEW a \in Agent
  PROVE  /\ ag[a] \in AgentState /\ Founded(ag[a]) /\ Once(ag[a]) /\ Agree(ag[a], a)
         /\ Own(ag[a]) /\ Quiet(ag[a])
         /\ ag[a].uid # None =>
              /\ ag[a].uid \in Account
              /\ Kept(ag[a], a, gate[ag[a].uid].agent, made[ag[a].uid], db[ag[a].uid])
              /\ Stored(ag[a].uid)
         /\ gate[ag[a].uid].agent = a /\ ag[a].uid # None /\ ag[a].role = None =>
              Rested(made[ag[a].uid], db[ag[a].uid])
<1>1. ag[a] \in AgentState /\ Founded(ag[a])
  BY Found
<1>2. ag[a].uid # None => ag[a].uid \in Account
  BY <1>1 DEF AgentState
<1> QED
  BY <1>1, <1>2 DEF CalmInv, PlainInv, KeptBy, Stored

LEMMA Pushed ==
  ASSUME NEW S, NEW s \in Seq(S), NEW e \in S
  PROVE  /\ Len(s) \in Nat /\ DOMAIN s = 1 .. Len(s)
         /\ DOMAIN Append(s, e) = 1 .. Len(s) + 1
         /\ Append(s, e)[Len(s) + 1] = e
         /\ \A i \in 1 .. Len(s) : Append(s, e)[i] = s[i]
OBVIOUS

LEMMA Popped ==
  ASSUME NEW S, NEW s \in Seq(S), s # << >>
  PROVE  /\ Len(s) \in Nat \ {0} /\ DOMAIN s = 1 .. Len(s)
         /\ DOMAIN Tail(s) = 1 .. Len(s) - 1
         /\ Head(s) = s[1]
         /\ \A i \in 1 .. Len(s) - 1 : Tail(s)[i] = s[i + 1]
OBVIOUS

(* The same when neither changes nor rows move.                             *)
LEMMA PlainWork ==
  ASSUME TInv, CalmInv, PlainInv, NEW x \in Account, NEW a \in Agent, ag[a].uid \in {None, x},
         NEW s \in AgentState, ag' = [ag EXCEPT ![a] = s], s.uid = x, made' = made, db' = db,
         \A y \in Account : gate'[y].agent = gate[y].agent,
         Own(s), Quiet(s), Kept(s, a, gate[x].agent, made[x], db[x]),
         gate[x].agent = a /\ s.role = None => Rested(made[x], db[x])
  PROVE  PlainInv'
<1>1. PICK m, d : m = made[x] /\ d = db[x]
  OBVIOUS
<1>2. made' = [made EXCEPT ![x] = m] /\ db' = [db EXCEPT ![x] = d]
  BY <1>1 DEF TInv, Typed
<1> QED
  BY <1>1, <1>2, PlainMove

(* One more row under way.                                                  *)
LEMMA SavingKeeps ==
  ASSUME NEW r \in AgentState, r.role # None, NEW by \in By, NEW s, s = Saving(r, by)
  PROVE  /\ s \in AgentState
         /\ s.role = r.role /\ s.uid = r.uid /\ s.lock = r.lock /\ s.load = r.load /\ s.loop = r.loop
         /\ s.session = r.session /\ s.close = r.close /\ s.timer = r.timer /\ s.quit = r.quit
         /\ Own(r) => Own(s)
         /\ \A b : Waits(s, b) <=> Waits(r, b) \/ b = by
         /\ \A m : Complete(r, m) /\ r.role.td = m => Complete(s, m)
         /\ \A m : Final(r, m) /\ r.role.td = m => Final(s, m)
         /\ \A m : ~Waits(r, "close") /\ r.role.td = m => Final(s, m)
<1> DEFINE e == [by |-> by, role |-> r.role]
           S == [by : By, role : RoleOf]
<1>1. e \in S /\ r.sets \in Seq(S)
  BY DEF AgentState
<1>2. s.sets = Append(r.sets, e) /\ Append(r.sets, e) \in Seq(S)
  BY <1>1 DEF Saving, AgentState
<1>3. /\ s.role = r.role /\ s.uid = r.uid /\ s.lock = r.lock /\ s.load = r.load /\ s.loop = r.loop
      /\ s.session = r.session /\ s.close = r.close /\ s.timer = r.timer /\ s.quit = r.quit
  BY DEF Saving, AgentState
<1>4. s \in AgentState
  BY <1>2 DEF Saving, AgentState
<1> DEFINE n == Len(r.sets)
<1>5. /\ n \in Nat /\ DOMAIN r.sets = 1 .. n
      /\ DOMAIN s.sets = 1 .. n + 1
      /\ s.sets[n + 1] = e
      /\ \A i \in 1 .. n : s.sets[i] = r.sets[i]
  <2> HIDE DEF e, S
  <2> QED
    BY <1>1, <1>2, Pushed
<1>6. e.by = by /\ e.role = r.role
  OBVIOUS
<1> HIDE DEF e, S, n
<1>7. Own(r) => Own(s)
  <2> SUFFICES ASSUME Own(r) PROVE Own(s)
    OBVIOUS
  <2>1. ASSUME NEW i \in DOMAIN s.sets PROVE s.sets[i].role.account = r.uid
    BY <1>5, <1>6 DEF Own
  <2> QED
    BY <1>3, <2>1 DEF Own
<1>8. \A b : Waits(s, b) <=> Waits(r, b) \/ b = by
  BY <1>5, <1>6 DEF Waits
<1>9. \A m : Complete(r, m) /\ r.role.td = m => Complete(s, m)
  BY <1>5, <1>6 DEF Complete
<1>10. \A m : Final(r, m) /\ r.role.td = m => Final(s, m)
  BY <1>5, <1>6 DEF Final
<1>11. \A m : ~Waits(r, "close") /\ r.role.td = m => Final(s, m)
  BY <1>5, <1>6 DEF Final, Waits
<1> QED
  BY <1>3, <1>4, <1>7, <1>8, <1>9, <1>10, <1>11

(* A row was stored.                                                        *)
LEMMA SetKeeps ==
  ASSUME NEW r \in AgentState, r.sets # << >>, NEW s, s = [r EXCEPT !.sets = Tail(r.sets)]
  PROVE  /\ s \in AgentState /\ Head(r.sets) \in [by : By, role : RoleOf] /\ Head(r.sets) = r.sets[1]
         /\ 1 \in DOMAIN r.sets
         /\ s.role = r.role /\ s.uid = r.uid /\ s.lock = r.lock /\ s.load = r.load /\ s.loop = r.loop
         /\ s.session = r.session /\ s.close = r.close /\ s.timer = r.timer /\ s.quit = r.quit
         /\ Own(r) => Own(s)
         /\ \A b : Waits(r, b) <=> Waits(s, b) \/ b = Head(r.sets).by
         /\ \A m : Complete(r, m) => Complete(s, m)
         /\ \A m : Final(r, m) => Final(s, m)
         /\ \A m : Final(r, m) /\ Head(r.sets).by = "close" => Complete(r, m)
<1> DEFINE S == [by : By, role : RoleOf]
           n == Len(r.sets)
<1>1. r.sets \in Seq(S)
  BY DEF AgentState
<1>2. Head(r.sets) \in S /\ Tail(r.sets) \in Seq(S)
  BY <1>1, HeadTail
<1>3. s \in AgentState /\ s.sets = Tail(r.sets)
  BY <1>2 DEF AgentState
<1>4. /\ s.role = r.role /\ s.uid = r.uid /\ s.lock = r.lock /\ s.load = r.load /\ s.loop = r.loop
      /\ s.session = r.session /\ s.close = r.close /\ s.timer = r.timer /\ s.quit = r.quit
  BY DEF AgentState
<1>5. /\ n \in Nat \ {0} /\ DOMAIN r.sets = 1 .. n
      /\ DOMAIN s.sets = 1 .. n - 1
      /\ Head(r.sets) = r.sets[1]
      /\ \A i \in 1 .. n - 1 : s.sets[i] = r.sets[i + 1]
  <2> HIDE DEF S
  <2> QED
    BY <1>1, <1>3, Popped
<1> HIDE DEF S, n
<1>6. \A i \in DOMAIN s.sets : i + 1 \in DOMAIN r.sets /\ s.sets[i] = r.sets[i + 1]
  BY <1>5
<1>7. Own(r) => Own(s)
  <2> SUFFICES ASSUME Own(r) PROVE Own(s)
    OBVIOUS
  <2>1. ASSUME NEW i \in DOMAIN s.sets PROVE s.sets[i].role.account = r.uid
    BY <1>6 DEF Own
  <2> QED
    BY <1>4, <2>1 DEF Own
<1>8. ASSUME NEW b PROVE Waits(r, b) <=> Waits(s, b) \/ b = Head(r.sets).by
  <2>1. \A i \in DOMAIN r.sets : i = 1 \/ (i - 1 \in DOMAIN s.sets /\ s.sets[i - 1] = r.sets[i])
    BY <1>5
  <2>2. 1 \in DOMAIN r.sets
    BY <1>5
  <2>3. Waits(r, b) => Waits(s, b) \/ b = Head(r.sets).by
    BY <1>5, <2>1 DEF Waits
  <2>4. Waits(s, b) => Waits(r, b)
    BY <1>6 DEF Waits
  <2>5. b = Head(r.sets).by => Waits(r, b)
    BY <1>5, <2>2 DEF Waits
  <2> QED
    BY <2>3, <2>4, <2>5
<1>9. \A m : Complete(r, m) => Complete(s, m)
  BY <1>6 DEF Complete
<1>10. ASSUME NEW m, Final(r, m) PROVE Final(s, m)
  <2>1. ASSUME NEW i \in DOMAIN s.sets, NEW j \in DOMAIN s.sets, s.sets[i].by = "close", i <= j
        PROVE  s.sets[j].role.td = m
    <3>1. i + 1 \in DOMAIN r.sets /\ j + 1 \in DOMAIN r.sets /\ i + 1 <= j + 1
      BY <1>5, <2>1
    <3> QED
      BY <1>6, <1>10, <2>1, <3>1 DEF Final
  <2> QED
    BY <2>1 DEF Final
<1>11. ASSUME NEW m, Final(r, m), Head(r.sets).by = "close" PROVE Complete(r, m)
  <2>1. \A j \in DOMAIN r.sets : 1 \in DOMAIN r.sets /\ 1 <= j
    BY <1>5
  <2> QED
    BY <1>5, <1>11, <2>1 DEF Final, Complete
<1>12. 1 \in DOMAIN r.sets /\ Head(r.sets) = r.sets[1]
  BY <1>5
<1>13. Head(r.sets) \in [by : By, role : RoleOf]
  BY <1>2 DEF S
<1> QED
  BY <1>3, <1>4, <1>7, <1>8, <1>9, <1>10, <1>11, <1>12, <1>13

LEMMA LoginPlain ==
  ASSUME TInv, TInv', world = {}, CalmInv, PlainInv, NEW x \in Account, Login(x)
  PROVE  PlainInv'
<1>1. PICK a \in Agent : /\ ~ag[a].used
                         /\ gate' = [gate EXCEPT ![x] = [st |-> "in", agent |-> a]]
                         /\ ag' = [ag EXCEPT ![a].used = TRUE]
  BY DEF Login
<1>2. ag[a] = FreshAgent /\ a # None
  BY <1>1, NoneAssumption DEF CalmInv, Once
<1>3. ag[a] \in AgentState /\ Own(ag[a]) /\ Quiet(ag[a])
  BY AgentFacts
<1>4. PICK s : s = [ag[a] EXCEPT !.used = TRUE]
  OBVIOUS
<1>5. /\ \A b \in Agent : ag'[b] = IF b = a THEN s ELSE ag[b]
      /\ \A y \in Account : gate'[y] = IF y = x THEN [st |-> "in", agent |-> a] ELSE gate[y]
      /\ made' = made /\ db' = db /\ gate[x].st = "out"
  BY <1>1, <1>4 DEF Login, TInv, Typed
<1>6. /\ s.uid = None /\ s.role = None /\ s.lock = 0 /\ s.sets = << >> /\ s.load = "none"
      /\ s.session = ag[a].session /\ s.timer = FALSE /\ s.close = "none"
  BY <1>2, <1>4 DEF FreshAgent
<1>7. Own(s) /\ Quiet(s)
  <2>1. Own(s)
    BY <1>6 DEF Own
  <2>2. s.lock = ag[a].lock /\ s.sets = ag[a].sets /\ s.close = ag[a].close
    BY <1>2, <1>6 DEF FreshAgent
  <2>3. Quiet(s)
    BY <1>3, <1>6, <2>2 DEF Quiet, Waits
  <2> QED
    BY <2>1, <2>3
<1>8. ASSUME NEW b \in Agent, ag'[b].uid # None PROVE KeptBy(b)'
  <2>1. b # a /\ ag'[b] = ag[b]
    BY <1>5, <1>6, <1>8
  <2>2. /\ Kept(ag[b], b, gate[ag[b].uid].agent, made[ag[b].uid], db[ag[b].uid])
        /\ ag[b].uid \in Account /\ Own(ag[b]) /\ Once(ag[b]) /\ Agree(ag[b], b)
    BY <1>8, <2>1, AgentFacts
  <2>3. CASE ag[b].uid # x
    BY <1>5, <2>1, <2>2, <2>3 DEF KeptBy
  <2>4. CASE ag[b].uid = x
    <3>1. ~ag[b].client
      BY <1>5, <1>8, <2>1, <2>2, <2>4 DEF Agree
    <3>2. ag[b].load = "none"
      BY <2>2, <3>1 DEF Once
    <3>3. ag[b].role # None => ag[b].role.account = x
      BY <2>2, <2>4 DEF Own
    <3>4. ag[b].role # None => ag[b].sets = << >> /\ ~ag[b].loop
      BY <3>3 DEF Login
    <3>5. gate'[x].agent # b
      BY <1>5, <2>1
    <3> QED
      BY <2>1, <2>4, <3>2, <3>4, <3>5 DEF KeptBy, Kept
  <2> QED
    BY <2>3, <2>4
<1>9. ASSUME NEW y \in Account PROVE Stored(y)'
  <2>1. gate[y].agent # a /\ Stored(y) /\ gate[y].agent \in Agent \cup {None}
    BY <1>1, <1>2 DEF CalmInv, Filed, PlainInv, TInv, Typed
  <2>2. CASE y # x
    BY <1>5, <2>1, <2>2 DEF Stored
  <2>3. CASE y = x
    <3>1. Rested(made[x], db[x])
      <4>1. CASE gate[x].agent = None \/ ag[gate[x].agent].role = None
        BY <2>1, <2>3, <4>1 DEF Stored
      <4>2. CASE gate[x].agent # None /\ ag[gate[x].agent].role # None
        <5>1. PICK b \in Agent : b = gate[x].agent /\ ag[b].role # None
          BY <2>1, <2>3, <4>2
        <5>2. /\ ag[b] \in AgentState /\ Founded(ag[b]) /\ Once(ag[b]) /\ Agree(ag[b], b)
              /\ ag[b].uid # None => Kept(ag[b], b, gate[ag[b].uid].agent, made[ag[b].uid], db[ag[b].uid])
          BY AgentFacts
        <5>3. ag[b].uid = x /\ x # None
          BY <4>2, <5>1, <5>2, NoneAssumption DEF CalmInv, Filed, Founded
        <5>4. ~ag[b].client /\ ag[b].close \notin Closings /\ ag[b].close # "none"
          BY <1>5, <5>2, <5>3 DEF Agree
        <5>5. ag[b].close = "done"
          BY <5>2, <5>4 DEF AgentState, Closings
        <5> QED
          BY <5>1, <5>2, <5>3, <5>5 DEF Kept, Whole, Rested
      <4> QED
        BY <4>1, <4>2
    <3> QED
      BY <1>2, <1>5, <1>6, <2>3, <3>1 DEF Stored
  <2> QED
    BY <2>2, <2>3
<1>10. ASSUME NEW b \in Agent PROVE Own(ag'[b]) /\ Quiet(ag'[b])
  BY <1>5, <1>7 DEF PlainInv
<1> QED
  BY <1>8, <1>9, <1>10 DEF PlainInv

LEMMA StartPlain ==
  ASSUME TInv, TInv', world = {}, CalmInv, PlainInv, NEW x \in Account, Start(x)
  PROVE  PlainInv'
<1>1. PICK a \in Agent : a = gate[x].agent /\ a # None
  BY AgentOfSession, NoneAssumption DEF Start
<1>2. /\ gate[x] = [st |-> "in", agent |-> a] /\ ag[a].uid \in {None, x}
      /\ ag[a] \in AgentState /\ Founded(ag[a]) /\ Once(ag[a]) /\ Agree(ag[a], a)
      /\ Own(ag[a]) /\ Quiet(ag[a]) /\ Stored(x) /\ x # None
  BY <1>1, AgentOfSession, AgentFacts, NoneAssumption DEF Start, TInv, Typed, PlainInv
<1>3. ag[a].uid = None
  BY <1>1, <1>2 DEF Start, Agree
<1>4. ag[a].role = None /\ ag[a].load = "none" /\ ag[a].close = "none" /\ ag[a].lock = 0
  BY <1>2, <1>3 DEF Founded, Once, Own
<1>5. ag[a].sets = << >> /\ \A c \in Coroutine : ag[a].session[c] = 0
  BY <1>2, <1>4 DEF Own, Founded
<1>6. ag'[a] = [ag[a] EXCEPT !.uid = x, !.client = TRUE, !.timer = FALSE,
                             !.lock = ag[a].lock + 1, !.quit = FALSE]
      /\ ag' = [ag EXCEPT ![a] = ag'[a]] /\ ag'[a] \in AgentState
  BY <1>1 DEF Start, TInv, Typed
<1>7. PICK s \in AgentState : s = ag'[a] /\ ag' = [ag EXCEPT ![a] = s]
  BY <1>6
<1>8. /\ s.uid = x /\ s.timer = FALSE /\ s.lock = 1 /\ s.role = None /\ s.load = "none"
      /\ s.close = "none" /\ s.sets = << >> /\ s.session = ag[a].session
  BY <1>2, <1>4, <1>5, <1>6, <1>7 DEF AgentState
<1>9. Own(s) /\ Quiet(s)
  BY <1>2, <1>5, <1>8 DEF Own, Quiet, Waits
<1>10. Kept(s, a, gate[x].agent, made[x], db[x])
  BY <1>8 DEF Kept
<1>11. Rested(made[x], db[x])
  BY <1>1, <1>2, <1>4 DEF Stored
<1>12. made' = made /\ db' = db /\ \A y \in Account : gate'[y].agent = gate[y].agent
  BY DEF Start
<1> QED
  BY <1>3, <1>7, <1>8, <1>9, <1>10, <1>11, <1>12, PlainWork

LEMMA KickPlain ==
  ASSUME TInv, TInv', world = {}, CalmInv, PlainInv, NEW x \in Account, Kick(x)
  PROVE  PlainInv'
<1>1. PICK a \in Agent : a = gate[x].agent /\ a # None
  BY AgentOfSession, NoneAssumption DEF Kick
<1>2. /\ gate[x] = [st |-> "in", agent |-> a] /\ ag[a].uid \in {None, x}
      /\ ag[a] \in AgentState /\ Founded(ag[a]) /\ Once(ag[a]) /\ Agree(ag[a], a)
      /\ Own(ag[a]) /\ Quiet(ag[a]) /\ Stored(x) /\ x # None
  BY <1>1, AgentOfSession, AgentFacts, NoneAssumption DEF Kick, TInv, Typed, PlainInv
<1>3. /\ made' = made /\ db' = db /\ ag[a].load = "none"
      /\ \A y \in Account : gate'[y].agent = gate[y].agent
  BY <1>1 DEF Kick, TInv, Typed
<1>4. CASE ag' = ag
  <2>1. \A b \in Agent : ag[b].uid # None => KeptBy(b)'
    BY <1>3, <1>4, AgentFacts DEF KeptBy
  <2>2. \A y \in Account : Stored(y)'
    BY <1>3, <1>4 DEF PlainInv, Stored
  <2> QED
    BY <1>4, <2>1, <2>2 DEF PlainInv
<1>5. CASE ag[a].client /\ ag' = [ag EXCEPT ![a] = Closing(ag[a])]
  <2>1. ag[a].uid = x /\ ag[a].close = "none" /\ ~ag[a].closed
    BY <1>2, <1>5 DEF Once, Agree
  <2>2. PICK s \in AgentState : s = Closing(ag[a])
    BY <1>2, ClosingFounded
  <2>3. /\ s.uid = x /\ s.role = ag[a].role /\ s.load = "none" /\ s.lock = ag[a].lock
        /\ s.close = IF ag[a].role = None THEN "done" ELSE "offline"
        /\ s.sets = ag[a].sets /\ s.session = ag[a].session /\ s.timer = ag[a].timer
        /\ s.quit = ag[a].quit
    BY <1>2, <1>3, <2>1, <2>2 DEF Closing, AgentState
  <2>4. Own(s)
    BY <1>2, <1>3, <2>1, <2>3 DEF Own
  <2>5. Quiet(s)
    <3>1. ~Waits(ag[a], "close")
      BY <1>2, <2>1 DEF Quiet
    <3>2. ag[a].role = None => ag[a].timer = FALSE /\ \A c \in Coroutine : ag[a].session[c] = 0
      BY <1>2 DEF Founded, AgentState
    <3> QED
      BY <1>2, <2>1, <2>3, <3>1, <3>2 DEF Quiet, Waits
  <2>6. Kept(ag[a], a, gate[x].agent, made[x], db[x])
    BY <1>2, <2>1, AgentFacts
  <2>7. Kept(s, a, gate[x].agent, made[x], db[x])
    BY <1>1, <2>3, <2>6 DEF Kept, Whole
  <2>8. s.role = None => Rested(made[x], db[x])
    BY <1>1, <1>2, <2>3 DEF Stored
  <2> QED
    BY <1>3, <1>5, <2>1, <2>2, <2>3, <2>4, <2>5, <2>7, <2>8, PlainWork
<1> QED
  BY <1>1, <1>4, <1>5 DEF Kick

(* load_role finds the row, or creates it, in a role that nobody else has.   *)
LEMMA LoadPlain ==
  ASSUME TInv, TInv', world = {}, CalmInv, PlainInv, NEW a \in Agent, LoadRole(a) \/ LoadStep(a)
  PROVE  PlainInv'
<1>1. /\ ag[a] \in AgentState /\ Founded(ag[a]) /\ Once(ag[a]) /\ Agree(ag[a], a)
      /\ Own(ag[a]) /\ Quiet(ag[a]) /\ LoadShape(a)
  BY AgentFacts, Shapes
<1>2. ag[a].client
  BY <1>1 DEF LoadRole, LoadStep, LoadGot, Created, Online, Once
<1>3. PICK x \in Account : x = ag[a].uid /\ gate[x].agent = a /\ gate[x] = [st |-> "in", agent |-> a]
  BY <1>2, SessionOfAgent DEF TInv, Typed
<1>4. x # None /\ a # None
  BY NoneAssumption
<1>5. ag[a].close = "none" /\ Kept(ag[a], a, a, made[x], db[x])
      /\ (ag[a].role = None => Rested(made[x], db[x]))
  BY <1>1, <1>2, <1>3, <1>4, AgentFacts DEF Agree
<1>6. PICK s \in AgentState : s = ag'[a] /\ ag' = [ag EXCEPT ![a] = s]
  <2>1. ag' = [ag EXCEPT ![a] = ag'[a]]
    BY DEF LoadRole, LoadStep, LoadGot, Created, Online, TInv, Typed
  <2> QED
    BY <2>1 DEF TInv, Typed
<1>7. made' = made /\ db' = db /\ gate' = gate
  BY DEF LoadRole, LoadStep, LoadGot, Created, Online
<1>8. ag[a].load # "none" => ag[a].for = x
  BY <1>1, <1>3 DEF Once
<1>9. ag[a].role = None => ag[a].timer = FALSE /\ \A c \in Coroutine : ag[a].session[c] = 0
  BY <1>1 DEF Founded, AgentState
<1>10. ~Waits(ag[a], "close")
  BY <1>1, <1>5 DEF Quiet
<1>11. CASE LoadRole(a) \/ Online(a)
  <2>1. /\ s.uid = x /\ s.role = ag[a].role /\ s.load # "create" /\ s.lock = ag[a].lock
        /\ s.close = ag[a].close /\ s.sets = ag[a].sets /\ s.session = ag[a].session
        /\ s.timer = ag[a].timer /\ s.quit = ag[a].quit
    <3>1. CASE LoadRole(a)
      <4>1. s = [ag[a] EXCEPT !.load = "get", !.for = ag[a].uid]
        BY <1>1, <1>6, <3>1 DEF LoadShape
      <4> QED
        BY <1>1, <1>3, <4>1 DEF AgentState
    <3>2. CASE Online(a)
      <4>1. s = [ag[a] EXCEPT !.load = "none"]
        BY <1>1, <1>6, <3>2 DEF LoadShape
      <4> QED
        BY <1>1, <1>3, <4>1 DEF AgentState
    <3> QED
      BY <1>11, <3>1, <3>2
  <2>2. ag[a].load # "create"
    BY <1>11 DEF LoadRole, Online
  <2>3. Own(s)
    BY <1>1, <1>3, <2>1, <2>2 DEF Own
  <2>4. Quiet(s)
    BY <1>1, <2>1 DEF Quiet, Waits
  <2>5. Kept(s, a, gate[x].agent, made[x], db[x])
    BY <1>3, <1>5, <2>1 DEF Kept, Whole
  <2> QED
    BY <1>3, <1>5, <1>6, <1>7, <2>1, <2>3, <2>4, <2>5, PlainWork
<1>12. ASSUME NEW td, s = Loaded(ag[a], td), ag[a].load \in {"get", "create"}, td = made[x],
              td = db[x], db[x] # None
       PROVE  PlainInv'
  <2>1. /\ s.uid = x /\ s.role = [account |-> x, td |-> td] /\ s.load = "online"
        /\ s.lock = ag[a].lock /\ s.close = "none" /\ s.sets = ag[a].sets
        /\ s.session = ag[a].session
    BY <1>1, <1>3, <1>5, <1>8, <1>12 DEF Loaded, AgentState
  <2>2. s.role # None
    <3>1. s.role \in RoleOf \cup {None} /\ td \in Row
      BY <1>12 DEF AgentState, TInv, Typed
    <3>2. s.role \in RoleOf
      BY <2>1, <3>1 DEF RoleOf
    <3> QED
      BY <3>2, NoneAssumption
  <2>3. ag[a].role = None
    BY <1>1, <1>12 DEF Founded
  <2>4. Own(s)
    BY <1>1, <1>3, <2>1, <2>2 DEF Own
  <2>5. Quiet(s)
    BY <1>9, <1>10, <2>1, <2>3 DEF Quiet, Waits
  <2>6. Kept(s, a, gate[x].agent, made[x], db[x])
    BY <1>3, <1>12, <2>1 DEF Kept, Whole
  <2> QED
    BY <1>3, <1>6, <1>7, <2>1, <2>2, <2>4, <2>5, <2>6, PlainWork
<1>13. CASE LoadGot(a) /\ db[ag[a].for] # None
  <2>1. ag[a].for = x /\ s = Loaded(ag[a], db[x]) /\ ag[a].load = "get" /\ db[x] # None
    BY <1>1, <1>6, <1>8, <1>13 DEF LoadShape, LoadGot
  <2>2. db[x] = made[x]
    BY <1>1, <1>5, <2>1 DEF Founded, Rested
  <2> QED
    BY <1>12, <2>1, <2>2
<1>14. CASE Created(a)
  <2>1. ag[a].load = "create" /\ s = Loaded(ag[a], {}) /\ ~Waits(ag[a], "load")
    BY <1>1, <1>6, <1>14 DEF LoadShape, Created
  <2>2. made[x] = {} /\ db[x] = {}
    BY <1>5, <2>1 DEF Kept, Creating
  <2>3. {} # None
    BY NoneAssumption DEF Row
  <2> QED
    BY <1>12, <2>1, <2>2, <2>3
<1>15. CASE LoadGot(a) /\ db[ag[a].for] = None
  <2>1. ag[a].for = x /\ ag[a].load = "get" /\ db[x] = None /\ ag[a].role = None
    BY <1>1, <1>8, <1>15 DEF LoadGot, Founded
  <2>2. made[x] = {}
    <3>1. made[x] # None
      BY NoneAssumption DEF TInv, Typed
    <3> QED
      BY <1>5, <2>1, <3>1 DEF Rested
  <2>3. ag[a].sets = << >>
    BY <1>1, <2>1 DEF Own
  <2> DEFINE e == [by |-> "load", role |-> Empty(x)]
  <2>4. s = [ag[a] EXCEPT !.load = "create", !.sets = << e >>]
    BY <1>1, <1>6, <1>15, <2>1, <2>3 DEF LoadShape
  <2>5. /\ s.uid = x /\ s.role = None /\ s.load = "create" /\ s.lock = ag[a].lock
        /\ s.close = "none" /\ s.sets = << e >> /\ s.session = ag[a].session
        /\ s.timer = ag[a].timer
    BY <1>1, <1>3, <1>5, <2>1, <2>4 DEF AgentState
  <2>6. DOMAIN s.sets = {1} /\ s.sets[1].by = "load" /\ s.sets[1].role.account = x
        /\ s.sets[1].role.td = {}
    BY <2>5 DEF Empty
  <2>7. Own(s)
    BY <1>1, <1>3, <2>5, <2>6 DEF Own
  <2>8. Quiet(s)
    BY <1>9, <2>1, <2>5, <2>6 DEF Quiet, Waits
  <2>9. Waits(s, "load") /\ Complete(s, {})
    BY <2>6 DEF Waits, Complete
  <2>10. Kept(s, a, gate[x].agent, made[x], db[x])
    BY <1>3, <2>1, <2>2, <2>5, <2>9 DEF Kept, Creating
  <2> QED
    BY <1>3, <1>5, <1>6, <1>7, <2>1, <2>5, <2>7, <2>8, <2>10, PlainWork
<1> QED
  BY <1>11, <1>13, <1>14, <1>15 DEF LoadStep

(* An agent that still works on a role works for the account, with all       *)
(* changes to it.                                                           *)
LEMMA Current ==
  ASSUME TInv, CalmInv, PlainInv, NEW a \in Agent, ag[a].role # None,
         ag[a].close # "done" \/ ag[a].loop \/ ag[a].sets # << >>
  PROVE  \E x \in Account : /\ x = ag[a].uid /\ x # None /\ gate[x].agent = a
                            /\ Whole(ag[a], made[x], db[x]) /\ ag[a].load # "create"
<1>1. /\ ag[a] \in AgentState /\ Founded(ag[a]) /\ Agree(ag[a], a)
  BY AgentFacts
<1>2. PICK x \in Account : x = ag[a].uid /\ x # None
  BY <1>1 DEF Founded, AgentState
<1>3. Kept(ag[a], a, gate[x].agent, made[x], db[x])
  BY <1>2, AgentFacts
<1>4. ag[a].close # "done" => gate[x].agent = a
  BY <1>1, <1>2 DEF Agree, AgentState, Closings
<1>5. gate[x].agent = a
  BY <1>3, <1>4 DEF Kept
<1> QED
  BY <1>1, <1>2, <1>3, <1>5 DEF Kept, Founded

LEMMA SameKept ==
  ASSUME NEW r, NEW s, s.role = r.role, s.close = r.close, s.sets = r.sets, s.load = r.load,
         NEW a, NEW m, NEW d, Whole(r, m, d), r.role # None, r.load # "create"
  PROVE  Kept(s, a, a, m, d)
BY DEF Kept, Whole, Final, Complete, Waits

(* A change by an agent whose close did not get to save the role: r is the   *)
(* agent without it.                                                        *)
LEMMA ChangePlain ==
  ASSUME TInv, TInv', world = {}, CalmInv, PlainInv, NEW a \in Agent, ag[a].role # None,
         ag[a].close \in {"none", "offline", "quit"}, gate' = gate, db' = db,
         ag' = [ag EXCEPT ![a] = ag'[a]],
         NEW r \in AgentState, r.uid = ag[a].uid, r.role = ag[a].role, r.lock = ag[a].lock,
         r.sets = ag[a].sets, r.close = ag[a].close, r.load = ag[a].load, Quiet(r),
         NEW n \in Change, Changes(a, r, n)
  PROVE  PlainInv'
<1>1. PICK x \in Account : /\ x = ag[a].uid /\ x # None /\ gate[x].agent = a
                           /\ Whole(ag[a], made[x], db[x]) /\ ag[a].load # "create"
  BY Current
<1>2. /\ ag[a] \in AgentState /\ Own(ag[a])
  BY AgentFacts
<1>3. PICK s \in AgentState : s = ag'[a] /\ ag' = [ag EXCEPT ![a] = s]
  BY DEF TInv, Typed
<1>4. PICK role : role = [ag[a].role EXCEPT !.td = @ \cup {n}]
  OBVIOUS
<1>5. s = [r EXCEPT !.role = role] /\ Changed(a, n)
  BY <1>3, <1>4 DEF Changes
<1>6. /\ s.uid = x /\ s.role = role /\ s.lock = r.lock /\ s.sets = r.sets /\ s.close = r.close
      /\ s.load = r.load /\ s.session = r.session /\ s.timer = r.timer /\ s.quit = r.quit
  BY <1>1, <1>5 DEF AgentState
<1>7. ag[a].role \in RoleOf /\ ag[a].role.account = x /\ ag[a].role.td = made[x]
  BY <1>1, <1>2 DEF AgentState, Own, Whole
<1>8. role \in RoleOf /\ role # None /\ role.account = x /\ role.td = made[x] \cup {n}
  <2>1. role \in RoleOf
    BY <1>4, <1>5, ChangeTyped
  <2> QED
    BY <1>4, <1>7, <2>1, NoneAssumption DEF RoleOf
<1>9. PICK m, d : m = made[x] \cup {n} /\ d = db[x]
  OBVIOUS
<1>10. made' = [made EXCEPT ![x] = m] /\ db' = [db EXCEPT ![x] = d]
  <2>1. made' = [made EXCEPT ![ag[a].role.account] = made[ag[a].role.account] \cup {n}]
    BY <1>5, ChangeTyped
  <2> QED
    BY <1>7, <1>9, <2>1 DEF TInv, Typed
<1>11. Own(s)
  BY <1>1, <1>2, <1>6, <1>8 DEF Own
<1>12. Quiet(s)
  BY <1>6, <1>8 DEF Quiet, Waits
<1>13. Kept(s, a, gate[x].agent, m, d)
  BY <1>1, <1>6, <1>8, <1>9 DEF Kept, Whole
<1> QED
  BY <1>1, <1>3, <1>6, <1>8, <1>10, <1>11, <1>12, <1>13, PlainMove

LEMMA RequestPlain ==
  ASSUME TInv, TInv', world = {}, CalmInv, PlainInv, NEW a \in Agent, Request(a)
  PROVE  PlainInv'
<1>1. /\ ag[a] \in AgentState /\ Once(ag[a]) /\ Agree(ag[a], a) /\ Quiet(ag[a]) /\ WorkShape(a)
      /\ Founded(ag[a]) /\ ag[a].role # None /\ ag[a].client
  BY AgentFacts, Shapes DEF Request
<1>2. ag[a].close = "none"
  BY <1>1 DEF Agree, Founded
<1>3. PICK n \in Change : Changes(a, ag[a], n)
  BY <1>1 DEF WorkShape
<1>4. ag' = [ag EXCEPT ![a] = ag'[a]] /\ gate' = gate /\ db' = db
  BY DEF Request, TInv, Typed
<1> QED
  BY <1>1, <1>2, <1>3, <1>4, ChangePlain

(* A session starts, gets the lock, or ends with or without a change.        *)
LEMMA SessionPlain ==
  ASSUME TInv, TInv', world = {}, CalmInv, PlainInv, NEW a \in Agent, NEW c \in Coroutine,
         Session(a, c) \/ SessionStep(a, c)
  PROVE  PlainInv'
<1>1. /\ ag[a] \in AgentState /\ Own(ag[a]) /\ Quiet(ag[a]) /\ Founded(ag[a]) /\ SessionShape(a, c)
  BY AgentFacts, Shapes
<1>2. /\ ag[a].role # None
      /\ ag[a].close \in {"none", "offline", "quit"}
  BY <1>1 DEF Session, SessionStep, SessionRuns, SessionEnds, Founded, Quiet, AgentState
<1>3. PICK x \in Account : /\ x = ag[a].uid /\ x # None /\ gate[x].agent = a
                           /\ Whole(ag[a], made[x], db[x]) /\ ag[a].load # "create"
  BY <1>2, Current
<1>4. ag' = [ag EXCEPT ![a] = ag'[a]] /\ gate' = gate /\ db' = db
  BY DEF Session, SessionStep, SessionRuns, SessionEnds, TInv, Typed
<1>5. PICK s \in AgentState : s = ag'[a] /\ ag' = [ag EXCEPT ![a] = s]
  BY <1>4 DEF TInv, Typed
<1>6. PICK t : t = [ag[a].session EXCEPT ![c] = 0]
  OBVIOUS
<1>7. PICK r : r = [ag[a] EXCEPT !.runs = ag[a].runs \ {c}, !.session[c] = 0]
  OBVIOUS
<1>8. /\ r \in AgentState /\ r.uid = ag[a].uid /\ r.role = ag[a].role /\ r.lock = ag[a].lock
      /\ r.sets = ag[a].sets /\ r.close = ag[a].close /\ r.load = ag[a].load
      /\ r.timer = ag[a].timer /\ r.quit = ag[a].quit /\ r.session = t
  BY <1>1, <1>6, <1>7 DEF AgentState
<1>9. Quiet(r)
  <2>1. \A k \in Coroutine : t[k] # 0 => t[k] = ag[a].session[k]
    BY <1>1, <1>6 DEF AgentState
  <2> QED
    BY <1>1, <1>8, <2>1 DEF Quiet, Waits
<1>10. ASSUME s.uid = x, s.role = ag[a].role, s.lock = ag[a].lock, s.sets = ag[a].sets,
              s.close = ag[a].close, s.load = ag[a].load, Quiet(s), made' = made
       PROVE  PlainInv'
  <2>1. Own(s)
    BY <1>1, <1>3, <1>10 DEF Own
  <2>2. Kept(s, a, gate[x].agent, made[x], db[x])
    <3>1. PICK m, d : m = made[x] /\ d = db[x]
      OBVIOUS
    <3>2. Whole(ag[a], m, d)
      BY <1>3, <3>1
    <3>3. Kept(s, a, a, m, d)
      BY <1>2, <1>3, <1>10, <3>2, SameKept
    <3> QED
      BY <1>3, <3>1, <3>3
  <2> QED
    BY <1>2, <1>3, <1>4, <1>5, <1>10, <2>1, <2>2, PlainWork
<1>11. CASE Session(a, c)
  <2>1. s = [ag[a] EXCEPT !.session[c] = ag[a].lock]
    BY <1>1, <1>5, <1>11 DEF SessionShape
  <2>2. /\ s.uid = x /\ s.role = ag[a].role /\ s.lock = ag[a].lock /\ s.sets = ag[a].sets
        /\ s.close = ag[a].close /\ s.load = ag[a].load /\ s.timer = ag[a].timer
        /\ s.quit = ag[a].quit
        /\ \A k \in Coroutine : s.session[k] = IF k = c THEN ag[a].lock ELSE ag[a].session[k]
    BY <1>1, <1>3, <2>1 DEF AgentState
  <2>3. Quiet(s)
    BY <1>1, <1>2, <2>2 DEF Quiet, Waits
  <2>4. made' = made
    BY <1>11 DEF Session
  <2> QED
    BY <1>10, <2>2, <2>3, <2>4
<1>12. CASE SessionRuns(a, c)
  <2>1. s = [ag[a] EXCEPT !.runs = ag[a].runs \cup {c}]
    BY <1>1, <1>5, <1>12 DEF SessionShape
  <2>2. /\ s.uid = x /\ s.role = ag[a].role /\ s.lock = ag[a].lock /\ s.sets = ag[a].sets
        /\ s.close = ag[a].close /\ s.load = ag[a].load /\ s.timer = ag[a].timer
        /\ s.quit = ag[a].quit /\ s.session = ag[a].session
    BY <1>1, <1>3, <2>1 DEF AgentState
  <2>3. Quiet(s)
    BY <1>1, <2>2 DEF Quiet, Waits
  <2>4. made' = made
    BY <1>12 DEF SessionRuns
  <2> QED
    BY <1>10, <2>2, <2>3, <2>4
<1>13. CASE SessionEnds(a, c)
  <2>1. (made' = made /\ s = r) \/ \E n \in Change : Changes(a, r, n)
    BY <1>1, <1>5, <1>7, <1>13 DEF SessionShape
  <2>2. CASE made' = made /\ s = r
    BY <1>3, <1>8, <1>9, <1>10, <2>2
  <2>3. CASE \E n \in Change : Changes(a, r, n)
    <3>1. PICK n \in Change : Changes(a, r, n)
      BY <2>3
    <3> QED
      BY <1>2, <1>4, <1>8, <1>9, <3>1, ChangePlain
  <2> QED
    BY <2>1, <2>2, <2>3
<1> QED
  BY <1>11, <1>12, <1>13 DEF SessionStep

(* A save from the timer or from the loop: r is the agent before it.         *)
LEMMA SavePlain ==
  ASSUME TInv, CalmInv, PlainInv, NEW a \in Agent, ag[a].role # None,
         NEW x \in Account, x = ag[a].uid, x # None, gate[x].agent = a,
         Whole(ag[a], made[x], db[x]), ag[a].load # "create",
         NEW by \in {"timer", "loop"}, NEW r \in AgentState,
         r.uid = x, r.role = ag[a].role, r.lock = ag[a].lock, r.sets = ag[a].sets,
         r.close = ag[a].close, r.load = ag[a].load, r.session = ag[a].session,
         r.timer = ag[a].timer, r.quit = ag[a].quit,
         ag' = [ag EXCEPT ![a] = Saving(r, by)], UNCHANGED << gate, db, made >>
  PROVE  PlainInv'
<1>1. ag[a] \in AgentState /\ Own(ag[a]) /\ Quiet(ag[a])
  BY AgentFacts
<1>2. PICK s : s = Saving(r, by)
  OBVIOUS
<1>3. PICK m, d : m = made[x] /\ d = db[x]
  OBVIOUS
<1>4. Own(r)
  BY <1>1 DEF Own
<1>5. by \in By /\ by # "close"
  BY DEF By
<1>6. /\ s \in AgentState
      /\ s.role = r.role /\ s.uid = r.uid /\ s.lock = r.lock /\ s.load = r.load
      /\ s.session = r.session /\ s.close = r.close /\ s.timer = r.timer /\ s.quit = r.quit
      /\ Own(s)
      /\ Waits(s, "close") <=> Waits(r, "close")
      /\ Complete(r, m) /\ r.role.td = m => Complete(s, m)
      /\ Final(r, m) /\ r.role.td = m => Final(s, m)
  BY <1>2, <1>4, <1>5, SavingKeeps
<1>7. Quiet(s)
  <2>1. Waits(r, "close") <=> Waits(ag[a], "close")
    BY DEF Waits
  <2> QED
    BY <1>1, <1>6, <2>1 DEF Quiet
<1>8. Whole(r, m, d)
  BY <1>3 DEF Whole, Final, Complete, Waits
<1>9. Kept(s, a, gate[x].agent, made[x], db[x])
  BY <1>3, <1>6, <1>8 DEF Kept, Whole
<1> QED
  BY <1>2, <1>6, <1>7, <1>9, PlainWork

LEMMA SavesPlain ==
  ASSUME TInv, TInv', world = {}, CalmInv, PlainInv, NEW a \in Agent, TimerSave(a) \/ ForceSave(a)
  PROVE  PlainInv'
<1>1. /\ ag[a] \in AgentState /\ Own(ag[a]) /\ Quiet(ag[a]) /\ Founded(ag[a]) /\ WorkShape(a)
  BY AgentFacts, Shapes
<1>2. UNCHANGED << gate, db, made >> /\ ag' = [ag EXCEPT ![a] = ag'[a]] /\ ag'[a] \in AgentState
  BY DEF TimerSave, ForceSave, TInv, Typed
<1>3. PICK r : r = [ag[a] EXCEPT !.loop = FALSE]
  OBVIOUS
<1>4. /\ r \in AgentState /\ r.uid = ag[a].uid /\ r.role = ag[a].role /\ r.lock = ag[a].lock
      /\ r.sets = ag[a].sets /\ r.close = ag[a].close /\ r.load = ag[a].load
      /\ r.timer = ag[a].timer /\ r.quit = ag[a].quit /\ r.session = ag[a].session
      /\ r.loop = FALSE
  BY <1>1, <1>3 DEF AgentState
<1>5. CASE ForceSave(a) /\ ag[a].role = None
  <2>1. ag'[a] = r
    BY <1>1, <1>3, <1>5 DEF WorkShape
  <2>2. \A b \in Agent : ag'[b] = IF b = a THEN r ELSE ag[b]
    BY <1>2, <2>1 DEF TInv, Typed
  <2>3. Own(r) /\ Quiet(r)
    BY <1>1, <1>4 DEF Own, Quiet, Waits
  <2>4. ASSUME NEW b \in Agent, ag'[b].uid # None PROVE KeptBy(b)'
    <3>1. Kept(ag[b], b, gate[ag[b].uid].agent, made[ag[b].uid], db[ag[b].uid])
      BY <1>4, <1>5, <2>2, <2>4, AgentFacts
    <3>2. CASE b # a
      BY <1>2, <2>2, <3>1, <3>2 DEF KeptBy
    <3>3. CASE b = a
      <4>1. PICK g, m, d : g = gate[ag[a].uid].agent /\ m = made[ag[a].uid] /\ d = db[ag[a].uid]
        OBVIOUS
      <4>2. Kept(ag[a], a, g, m, d)
        BY <3>1, <3>3, <4>1
      <4>3. Kept(r, a, g, m, d)
        BY <1>4, <1>5, <4>2 DEF Kept, Creating, Complete, Waits
      <4> QED
        BY <1>2, <1>4, <2>2, <3>3, <4>1, <4>3 DEF KeptBy
    <3> QED
      BY <3>2, <3>3
  <2>5. ASSUME NEW y \in Account PROVE Stored(y)'
    <3>1. Stored(y) /\ gate[y].agent \in Agent \cup {None}
      BY DEF PlainInv, TInv, Typed
    <3> QED
      BY <1>2, <1>4, <1>5, <2>2, <3>1 DEF Stored
  <2> QED
    BY <2>2, <2>3, <2>4, <2>5 DEF PlainInv
<1>6. CASE ~(ForceSave(a) /\ ag[a].role = None)
  <2>1. ag[a].role # None /\ (ag[a].close # "done" \/ ag[a].loop)
    BY <1>1, <1>6 DEF TimerSave, ForceSave, Founded, Quiet
  <2>2. PICK x \in Account : /\ x = ag[a].uid /\ x # None /\ gate[x].agent = a
                             /\ Whole(ag[a], made[x], db[x]) /\ ag[a].load # "create"
    BY <2>1, Current
  <2>3. CASE TimerSave(a)
    <3>1. PICK by \in {"timer", "loop"} : by = "timer"
      OBVIOUS
    <3>2. ag' = [ag EXCEPT ![a] = Saving(ag[a], by)]
      BY <1>1, <1>2, <2>3, <3>1 DEF WorkShape
    <3> QED
      BY <1>1, <1>2, <2>1, <2>2, <3>2, SavePlain
  <2>4. CASE ForceSave(a)
    <3>1. PICK by \in {"timer", "loop"} : by = "loop"
      OBVIOUS
    <3>2. ag' = [ag EXCEPT ![a] = Saving(r, by)]
      BY <1>1, <1>2, <1>3, <2>1, <2>4, <3>1 DEF WorkShape
    <3> QED
      BY <1>2, <1>4, <2>1, <2>2, <3>2, SavePlain
  <2> QED
    BY <1>6, <2>3, <2>4
<1> QED
  BY <1>5, <1>6

(* A row is stored: it is of the account and complete, unless an earlier     *)
(* one is followed by the last.                                             *)
LEMMA SetPlain ==
  ASSUME TInv, TInv', world = {}, CalmInv, PlainInv, NEW a \in Agent, Set(a)
  PROVE  PlainInv'
<1>1. /\ ag[a] \in AgentState /\ Own(ag[a]) /\ Quiet(ag[a]) /\ Founded(ag[a]) /\ WorkShape(a)
      /\ ag[a].sets # << >>
  BY AgentFacts, Shapes DEF Set
<1>2. ag[a].role # None \/ ag[a].load = "create"
  BY <1>1 DEF Own
<1>3. PICK x \in Account : x = ag[a].uid /\ x # None
  BY <1>1, <1>2 DEF Founded, AgentState
<1>4. PICK m, d0 : m = made[x] /\ d0 = db[x]
  OBVIOUS
<1>5. Kept(ag[a], a, gate[x].agent, m, d0)
  BY <1>3, <1>4, AgentFacts
<1>6. gate[x].agent = a
  BY <1>1, <1>2, <1>5 DEF Kept
<1>7. PICK s \in AgentState : s = ag'[a] /\ ag' = [ag EXCEPT ![a] = s]
  <2>1. ag' = [ag EXCEPT ![a] = ag'[a]]
    BY DEF Set, TInv, Typed
  <2> QED
    BY <2>1 DEF TInv, Typed
<1>8. s = [ag[a] EXCEPT !.sets = Tail(ag[a].sets)]
  BY <1>1, <1>7 DEF WorkShape
<1>9. PICK h : h = Head(ag[a].sets)
  OBVIOUS
<1>10. /\ h \in [by : By, role : RoleOf] /\ h = ag[a].sets[1] /\ 1 \in DOMAIN ag[a].sets
       /\ s.role = ag[a].role /\ s.uid = ag[a].uid /\ s.lock = ag[a].lock /\ s.load = ag[a].load
       /\ s.session = ag[a].session /\ s.close = ag[a].close /\ s.timer = ag[a].timer
       /\ s.quit = ag[a].quit /\ Own(s)
       /\ \A b : Waits(ag[a], b) <=> Waits(s, b) \/ b = h.by
       /\ \A k : Complete(ag[a], k) => Complete(s, k)
       /\ Final(ag[a], m) => Final(s, m)
       /\ Final(ag[a], m) /\ h.by = "close" => Complete(ag[a], m)
  <2>1. PICK r \in AgentState : r = ag[a]
    BY <1>1
  <2>2. r.sets # << >> /\ s = [r EXCEPT !.sets = Tail(r.sets)]
    BY <1>1, <1>8, <2>1
  <2>3. /\ h \in [by : By, role : RoleOf] /\ h = r.sets[1] /\ 1 \in DOMAIN r.sets
        /\ s.role = r.role /\ s.uid = r.uid /\ s.lock = r.lock /\ s.load = r.load
        /\ s.session = r.session /\ s.close = r.close /\ s.timer = r.timer /\ s.quit = r.quit
        /\ Own(r) => Own(s)
        /\ \A b : Waits(r, b) <=> Waits(s, b) \/ b = h.by
        /\ \A k : Complete(r, k) => Complete(s, k)
        /\ \A k : Final(r, k) => Final(s, k)
        /\ \A k : Final(r, k) /\ h.by = "close" => Complete(r, k)
    BY <1>9, <2>1, <2>2, SetKeeps
  <2> QED
    BY <1>1, <2>1, <2>3
<1>11. PICK d \in Row : d = h.role.td
  BY <1>10 DEF RoleOf
<1>12. db' = [db EXCEPT ![x] = d]
  <2>1. h.role.account = x
    BY <1>1, <1>3, <1>10 DEF Own
  <2> QED
    BY <1>9, <1>11, <2>1 DEF Set
<1>13. d # None /\ \A k : Complete(ag[a], k) => d = k
  BY <1>10, <1>11, NoneAssumption DEF Complete
<1>14. Quiet(s)
  BY <1>1, <1>10 DEF Quiet
<1>15. made' = [made EXCEPT ![x] = m] /\ gate' = gate
  BY <1>4 DEF Set, TInv, Typed
<1>16. CASE ag[a].role # None
  <2>1. ag[a].load # "create"
    BY <1>1, <1>16 DEF Founded
  <2>2. Whole(ag[a], m, d0)
    BY <1>5, <1>6, <1>16 DEF Kept
  <2>3. Whole(s, m, d)
    BY <1>10, <1>13, <2>2 DEF Whole
  <2>4. Kept(s, a, gate[x].agent, m, d)
    BY <1>6, <1>10, <2>1, <2>3 DEF Kept
  <2> QED
    BY <1>3, <1>6, <1>7, <1>10, <1>12, <1>14, <1>15, <1>16, <2>4, PlainMove
<1>17. CASE ag[a].load = "create"
  <2>1. ag[a].role = None
    BY <1>1, <1>17 DEF Founded
  <2>2. Creating(ag[a], m, d0)
    BY <1>5, <1>17 DEF Kept
  <2>3. m = {} /\ d = {}
    BY <1>13, <2>2 DEF Creating
  <2>4. Creating(s, m, d)
    BY <1>10, <2>2, <2>3 DEF Creating
  <2>5. Kept(s, a, gate[x].agent, m, d)
    BY <1>6, <1>10, <1>17, <2>1, <2>4 DEF Kept
  <2>6. Rested(m, d)
    BY <2>3 DEF Rested
  <2> QED
    BY <1>3, <1>6, <1>7, <1>10, <1>12, <1>14, <1>15, <2>5, <2>6, PlainMove
<1> QED
  BY <1>2, <1>16, <1>17

(* The close: the role it saves after lock_quit has every change, and none   *)
(* follows.                                                                 *)
LEMMA ClosePlain ==
  ASSUME TInv, TInv', world = {}, CalmInv, PlainInv, NEW a \in Agent, CloseStep(a)
  PROVE  PlainInv'
<1>1. /\ ag[a] \in AgentState /\ Own(ag[a]) /\ Quiet(ag[a]) /\ Founded(ag[a]) /\ CloseShape(a)
  BY AgentFacts, Shapes
<1>2. ag[a].close \in Closings
  BY DEF CloseStep, Offline, Quit, Saved, Closings
<1>3. ag[a].role # None /\ ag[a].close # "done"
  BY <1>1, <1>2 DEF Founded, Closings
<1>4. PICK x \in Account : /\ x = ag[a].uid /\ x # None /\ gate[x].agent = a
                           /\ Whole(ag[a], made[x], db[x]) /\ ag[a].load # "create"
  BY <1>3, Current
<1>5. PICK m, d : m = made[x] /\ d = db[x]
  OBVIOUS
<1>6. PICK s \in AgentState : s = ag'[a] /\ ag' = [ag EXCEPT ![a] = s]
  <2>1. ag' = [ag EXCEPT ![a] = ag'[a]]
    BY DEF CloseStep, Offline, Quit, Saved, TInv, Typed
  <2> QED
    BY <2>1 DEF TInv, Typed
<1>7. made' = made /\ db' = db /\ \A y \in Account : gate'[y].agent = gate[y].agent
  BY DEF CloseStep, Offline, Quit, Saved, TInv, Typed
<1>8. ASSUME s.uid = x, s.role = ag[a].role, s.load = ag[a].load, Own(s), Quiet(s), Whole(s, m, d)
      PROVE  PlainInv'
  <2>1. Kept(s, a, gate[x].agent, made[x], db[x])
    BY <1>3, <1>4, <1>5, <1>8 DEF Kept
  <2> QED
    BY <1>3, <1>4, <1>6, <1>7, <1>8, <2>1, PlainWork
<1>9. CASE Offline(a)
  <2>1. s = [ag[a] EXCEPT !.close = "quit", !.timer = FALSE, !.quit = TRUE]
    BY <1>1, <1>6, <1>9 DEF CloseShape, Calm
  <2>2. /\ s.uid = x /\ s.role = ag[a].role /\ s.load = ag[a].load /\ s.lock = ag[a].lock
        /\ s.sets = ag[a].sets /\ s.session = ag[a].session
        /\ s.close = "quit" /\ s.timer = FALSE /\ s.quit = TRUE
    BY <1>1, <1>4, <2>1 DEF AgentState
  <2>3. ~Waits(ag[a], "close")
    BY <1>1, <1>9 DEF Quiet, Offline
  <2>4. Own(s) /\ Quiet(s)
    BY <1>1, <1>4, <2>2, <2>3 DEF Own, Quiet, Waits
  <2>5. Whole(s, m, d)
    BY <1>4, <1>5, <2>2 DEF Whole
  <2> QED
    BY <1>8, <2>2, <2>4, <2>5
<1>10. CASE Quit(a)
  <2>1. PICK t : t = Saving(ag[a], "close")
    OBVIOUS
  <2>2. s = [t EXCEPT !.close = "save"]
    BY <1>1, <1>6, <1>10, <2>1 DEF CloseShape
  <2>3. ~Waits(ag[a], "close") /\ ag[a].timer = FALSE /\ ag[a].quit = TRUE
        /\ \A c \in Coroutine : ag[a].session[c] = 0
    BY <1>1, <1>3, <1>10 DEF Quiet, Quit, AgentState
  <2>4. ag[a].role.td = m
    BY <1>4, <1>5 DEF Whole
  <2>5. /\ t \in AgentState
        /\ t.role = ag[a].role /\ t.uid = ag[a].uid /\ t.lock = ag[a].lock /\ t.load = ag[a].load
        /\ t.session = ag[a].session /\ t.timer = ag[a].timer /\ t.quit = ag[a].quit
        /\ Own(t) /\ Waits(t, "close") /\ Final(t, m)
    <3>1. "close" \in By
      BY DEF By
    <3> QED
      BY <1>1, <1>3, <2>1, <2>3, <2>4, <3>1, SavingKeeps
  <2>6. /\ s.uid = x /\ s.role = ag[a].role /\ s.load = ag[a].load /\ s.lock = ag[a].lock
        /\ s.sets = t.sets /\ s.session = ag[a].session
        /\ s.close = "save" /\ s.timer = FALSE /\ s.quit = TRUE
    BY <1>4, <2>2, <2>3, <2>5 DEF AgentState
  <2>7. Own(s) /\ Quiet(s)
    BY <1>1, <1>4, <2>3, <2>5, <2>6 DEF Own, Quiet, Waits
  <2>8. Waits(s, "close") /\ Final(s, m)
    BY <2>5, <2>6 DEF Waits, Final
  <2>9. Whole(s, m, d)
    BY <1>4, <1>5, <2>6, <2>8 DEF Whole
  <2> QED
    BY <1>8, <2>6, <2>7, <2>9
<1>11. CASE Saved(a)
  <2>1. s = [ag[a] EXCEPT !.close = "done"]
    BY <1>1, <1>6, <1>11 DEF CloseShape
  <2>2. /\ s.uid = x /\ s.role = ag[a].role /\ s.load = ag[a].load /\ s.lock = ag[a].lock
        /\ s.sets = ag[a].sets /\ s.session = ag[a].session
        /\ s.close = "done" /\ s.timer = ag[a].timer /\ s.quit = ag[a].quit
    BY <1>1, <1>4, <2>1 DEF AgentState
  <2>3. Own(s) /\ Quiet(s)
    BY <1>1, <1>4, <1>11, <2>2 DEF Own, Quiet, Waits, Saved
  <2>4. Whole(s, m, d)
    BY <1>4, <1>5, <1>11, <2>2 DEF Whole, Complete, Saved
  <2> QED
    BY <1>8, <2>2, <2>3, <2>4
<1> QED
  BY <1>9, <1>10, <1>11 DEF CloseStep

LEMMA PlainStep == TInv /\ TInv' /\ CInv /\ PInv /\ [Next]_vars => PInv'
<1> SUFFICES ASSUME TInv, TInv', CInv, PInv, [Next]_vars, world' = {} PROVE PlainInv'
  BY DEF PInv
<1>1. world = {}
  BY DEF Next, vars, Login, Start, Kick, IdleLogout, LoadRole, Request, TimerSave, Set, ForceSave,
     LoadStep, CloseStep, LoadGot, Created, Online, Offline, Quit, Saved, Session, SessionStep,
     SessionRuns, SessionEnds
<1>2. CalmInv /\ PlainInv
  BY <1>1 DEF CInv, Calm, PInv
<1>3. CASE UNCHANGED vars
  <2>1. \A a \in Agent : ag[a].uid # None => KeptBy(a)'
    BY <1>2, <1>3, AgentFacts DEF KeptBy, vars
  <2>2. \A y \in Account : Stored(y)'
    BY <1>2, <1>3 DEF PlainInv, Stored, vars
  <2> QED
    BY <1>2, <1>3, <2>1, <2>2 DEF PlainInv, vars
<1>4. \A x \in Account : ~IdleLogout(x)
  BY <1>1 DEF IdleLogout
<1> QED
  BY <1>1, <1>2, <1>3, <1>4, LoginPlain, StartPlain, KickPlain, LoadPlain, RequestPlain,
     SessionPlain, SavesPlain, SetPlain, ClosePlain DEF Next

LEMMA InitPlain == Init => PInv
<1> SUFFICES ASSUME Init PROVE PlainInv
  BY DEF PInv
<1>1. ASSUME NEW a \in Agent PROVE Own(ag[a]) /\ Quiet(ag[a]) /\ ag[a].uid = None
  <2>1. ag[a] = FreshAgent
    BY DEF Init
  <2>2. /\ ag[a].uid = None /\ ag[a].lock = 0 /\ ag[a].role = None /\ ag[a].sets = << >>
        /\ ag[a].timer = FALSE /\ \A c \in Coroutine : ag[a].session[c] = 0
    BY <2>1 DEF FreshAgent
  <2> QED
    BY <2>2 DEF Own, Quiet, Waits
<1>2. ASSUME NEW x \in Account PROVE Stored(x)
  BY DEF Init, Stored, Rested
<1> QED
  BY <1>1, <1>2 DEF PlainInv

(* What holds of an agent, of the gates and of the rows together is kept by  *)
(* every step of role.lua, role_api.lua, cmd.lua and gamedb.                 *)
THEOREM Inductive == Spec => []IInv
<1>1. Init => IInv
  BY InitTyped, InitCalm, InitPlain DEF IInv
<1>2. IInv /\ [Next]_vars => IInv'
  BY TypedStep, CalmStep, PlainStep DEF IInv
<1> QED
  BY <1>1, <1>2, PTL DEF Spec

(* role_api.lua:41-49, role.lua:101-120, cmd.lua:64-71: the row of an account *)
(* whose kick was answered has every change made to its role, whichever      *)
(* sessions and saves were under way, and who loads it works on all of them; *)
(* for any accounts and agents and any number of changes.                   *)
THEOREM NoChangeLost == Spec => []ChangesKept
<1>1. TInv /\ CInv /\ PInv => ChangesKept
  <2> SUFFICES ASSUME TInv, world = {}, CalmInv, PlainInv, NEW x \in Account
      PROVE  /\ gate[x].st = "out" /\ db[x] # None => db[x] = made[x]
             /\ gate[x].st = "in" /\ ag[gate[x].agent].role # None
                  => ag[gate[x].agent].role.td = made[x]
    BY DEF CInv, PInv, Calm, ChangesKept, RowComplete, ChangesSeen
  <2>1. Stored(x) /\ gate[x] \in [st : {"out", "in", "kicking"}, agent : Agent \cup {None}]
        /\ Filed(x) /\ Manned /\ x # None
    BY NoneAssumption DEF PlainInv, CalmInv, TInv, Typed
  <2>2. CASE gate[x].agent = None \/ ag[gate[x].agent].role = None
    BY <2>1, <2>2 DEF Stored, Rested, Manned
  <2>3. CASE gate[x].agent # None /\ ag[gate[x].agent].role # None
    <3>1. PICK a \in Agent : a = gate[x].agent /\ ag[a].role # None
      BY <2>1, <2>3
    <3>2. /\ ag[a] \in AgentState /\ Founded(ag[a]) /\ Agree(ag[a], a)
          /\ ag[a].uid # None => Kept(ag[a], a, gate[ag[a].uid].agent, made[ag[a].uid], db[ag[a].uid])
      BY AgentFacts
    <3>3. ag[a].uid = x
      BY <2>1, <2>3, <3>1, <3>2 DEF Filed, Founded
    <3>4. Whole(ag[a], made[x], db[x])
      BY <2>1, <3>1, <3>2, <3>3 DEF Kept
    <3>5. gate[x].st = "out" => ag[a].close = "done"
      <4>1. gate[x].st = "out" => ~ag[a].client /\ ag[a].close \notin Closings
        BY <2>1, <3>2, <3>3 DEF Agree
      <4> QED
        BY <2>1, <3>2, <3>3, <4>1 DEF Agree, AgentState, Closings
    <3> QED
      BY <3>1, <3>4, <3>5 DEF Whole
  <2> QED
    BY <2>2, <2>3
<1> QED
  BY <1>1, Inductive, PTL DEF IInv
=============================================================================
