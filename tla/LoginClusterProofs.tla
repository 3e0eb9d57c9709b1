------------------------- MODULE LoginClusterProofs -------------------------
(***************************************************************************)
(* Proofs about the login master and the gates (module LoginCluster), for    *)
(* any accounts, nodes and connections and any number of logins: first the    *)
(* marks of logins in progress, then that an account has one session.        *)
(***************************************************************************)
EXTENDS LoginCluster, FiniteSetTheorems, SequenceTheorems, TLAPS

States == {"idle", "nextid", "add", "accept", "kick", "kickwait", "notify", "kicked",
           "kickfailed", "login", "loggingin", "done"}

Flow == [st : States, token : Token \cup {None}, node : Node \cup {None},
         key : Key \cup {None}, last : [server : Node \cup {None}, subid : Nat],
         subid : Nat]

(* What a connection waits for is known when it waits for it, and a node    *)
(* that owes it an answer runs.                                             *)
FlowOK ==
  /\ flow \in [Conn -> Flow]
  /\ \A c \in Conn :
       /\ flow[c].st # "idle" => flow[c].token \in Token /\ flow[c].node \in Node
       /\ flow[c].st \in Kicking => flow[c].last.server \in Node
       /\ flow[c].st \in {"kickwait", "notify"} => up[flow[c].last.server]
       /\ flow[c].st = "loggingin" => up[flow[c].node]

(* A logout call that a kick waits for, and a login_handler that an accept() *)
(* waits for, belong to a connection that does wait for it, of that very     *)
(* uid and node, and to no other: an answer never moves a login that asked   *)
(* for something else, or that is not under way at all.                     *)
CallersWait ==
  /\ \A n \in Node : \A i \in DOMAIN notices[n] :
       LET m == notices[n][i] IN
         m.for # None =>
           /\ up[n]
           /\ flow[m.for].st = "notify" /\ flow[m.for].key = m.key
           /\ flow[m.for].last.server = n
           /\ \A j \in DOMAIN notices[n] : notices[n][j].for = m.for => i = j
  /\ \A l \in logins : l.for # None =>
       /\ up[l.node]
       /\ flow[l.for].st = "loggingin" /\ flow[l.for].key = l.key
       /\ flow[l.for].node = l.node
       /\ \A m \in logins : m.for = l.for => m = l

IInv == TypeOK /\ FlowOK /\ CallersWait /\ MarkExact

-----------------------------------------------------------------------------
(* What the steps do to the marks.                                          *)

\* Only connection c has moved.
OthersKept(c) == \A d \in Conn \ {c} : flow'[d] = flow[d]

(* A login that goes on keeps its mark.                                     *)
LEMMA MarkStays ==
  ASSUME MarkExact, NEW c \in Conn, OthersKept(c), Admitted(c), Admitted(c)',
         flow'[c].key = flow[c].key, user_login' = user_login
  PROVE  MarkExact'
<1>1. \A d \in Conn : (Admitted(d)' <=> Admitted(d)) /\ (Admitted(d) => flow'[d].key = flow[d].key)
  BY DEF OthersKept, Admitted
<1> QED
  BY <1>1 DEF MarkExact

(* A login that is not marked does nothing to the marks.                    *)
LEMMA MarkUntouched ==
  ASSUME MarkExact, NEW c \in Conn, OthersKept(c), ~Admitted(c), ~Admitted(c)',
         user_login' = user_login
  PROVE  MarkExact'
<1>1. \A d \in Conn : (Admitted(d)' <=> Admitted(d)) /\ (Admitted(d) => flow'[d].key = flow[d].key)
  BY DEF OthersKept, Admitted
<1> QED
  BY <1>1 DEF MarkExact

(* The mark of a login that ends is its own: no other login loses it.       *)
LEMMA MarkRemoved ==
  ASSUME MarkExact, NEW c \in Conn, OthersKept(c), Admitted(c), ~Admitted(c)',
         user_login' = user_login \ {flow[c].key}
  PROVE  MarkExact'
<1>1. \A d \in Conn : (Admitted(d)' <=> Admitted(d) /\ d # c) /\ (Admitted(d)' => flow'[d].key = flow[d].key)
  BY DEF OthersKept, Admitted
<1>2. \A d \in Conn : Admitted(d)' => flow[d].key # flow[c].key
  BY <1>1 DEF MarkExact
<1> QED
  BY <1>1, <1>2 DEF MarkExact

(* A login that is let in marks a uid that was not marked.                  *)
LEMMA MarkAdded ==
  ASSUME MarkExact, NEW c \in Conn, OthersKept(c), ~Admitted(c), Admitted(c)',
         flow'[c].key = flow[c].key, flow[c].key \notin user_login,
         user_login' = user_login \cup {flow[c].key}
  PROVE  MarkExact'
<1>1. \A d \in Conn : (Admitted(d)' <=> Admitted(d) \/ d = c) /\ (Admitted(d)' => flow'[d].key = flow[d].key)
  BY DEF OthersKept, Admitted
<1>2. \A d \in Conn : Admitted(d) => flow[d].key # flow[c].key
  BY DEF MarkExact
<1> QED
  BY <1>1, <1>2 DEF MarkExact

-----------------------------------------------------------------------------
(* What the steps do to the callers.                                        *)

\* No logout call and no login_handler has c for its caller.
Uncalled(c) ==
  /\ \A n \in Node : \A i \in DOMAIN notices[n] : notices[n][i].for # c
  /\ \A l \in logins : l.for # c

LEMMA NotCalled ==
  ASSUME CallersWait, NEW c \in Conn, flow[c].st \notin {"notify", "loggingin"}
  PROVE  Uncalled(c)
BY NoneAssumption DEF CallersWait, Uncalled

LEMMA DownNotCalled ==
  ASSUME CallersWait, NEW c \in Conn, Callee(c) # None, ~up[Callee(c)]
  PROVE  Uncalled(c)
BY NoneAssumption DEF CallersWait, Uncalled, Callee, Kicking

Note == [key : Key, for : Conn \cup {None}]

LEMMA NoteType ==
  ASSUME TypeOK, NEW n \in Node
  PROVE  /\ notices[n] \in Seq(Note)
         /\ Len(notices[n]) \in Nat
         /\ DOMAIN notices[n] = 1 .. Len(notices[n])
         /\ \A i \in DOMAIN notices[n] : notices[n][i] \in Note
<1>1. notices[n] \in Seq(Note)
  BY DEF TypeOK, Note
<1> HIDE DEF Note
<1> QED
  BY <1>1

(* Nobody's caller may do what it likes.                                    *)
LEMMA CallersKept ==
  ASSUME TypeOK, CallersWait, NEW c \in Conn, OthersKept(c), Uncalled(c),
         UNCHANGED << notices, logins, up >>
  PROVE  CallersWait'
<1>1. \A n \in Node : \A i \in DOMAIN notices[n] :
        notices[n][i].for \in Conn \cup {None} /\ notices[n][i].for # c
  BY NoteType DEF Note, Uncalled
<1>2. \A l \in logins : l.for \in Conn \cup {None} /\ l.for # c
  BY DEF TypeOK, Uncalled
<1> QED
  BY <1>1, <1>2, NoneAssumption DEF CallersWait, OthersKept

LEMMA InitIInv == Init => IInv
<1> SUFFICES ASSUME Init PROVE IInv
  OBVIOUS
<1>1. Cardinality(Token) \in Nat /\ Cardinality(Token) \in Uid
  BY UidAssumption, FS_CardinalityType DEF Uid
<1>2. Idle \in Flow
  BY DEF Idle, Flow, States, Last0
<1>3. TypeOK
  <2>1. nextid \in Uid /\ row \in [Token -> Uid]
    BY <1>1, UidAssumption DEF Init, Uid
  <2> QED
    BY <2>1 DEF Init, TypeOK, Idle
<1>4. FlowOK
  BY <1>2 DEF Init, FlowOK, Idle, Kicking
<1>5. CallersWait
  BY DEF Init, CallersWait
<1>6. MarkExact
  BY DEF Init, MarkExact, Admitted, Idle
<1> QED
  BY <1>3, <1>4, <1>5, <1>6 DEF IInv

-----------------------------------------------------------------------------
(* The steps of a login before accept() let it in.                          *)

LEMMA AuthGetStep ==
  ASSUME IInv, NEW c \in Conn, AuthGet(c)
  PROVE  IInv'
<1>0. /\ TypeOK /\ FlowOK /\ CallersWait /\ MarkExact /\ flow[c].st = "idle"
      /\ UNCHANGED << dbvars, user_login, user_online, notices, gatevars >>
  BY DEF IInv, AuthGet
<1>1. PICK tk \in Token, n \in Node : flow' = [flow EXCEPT ![c] =
            [Idle EXCEPT !.st = IF row[tk] = 0 THEN "nextid" ELSE "accept",
               !.token = tk, !.node = n,
               !.key = IF row[tk] = 0 THEN None
                       ELSE [uid |-> row[tk], type |-> "string"]]]
  BY DEF AuthGet
<1>2. [uid |-> row[tk], type |-> "string"] \in Key
  BY <1>0 DEF TypeOK, Key
<1>3. /\ OthersKept(c)
      /\ flow'[c] \in Flow /\ flow'[c].st \in {"nextid", "accept"}
      /\ flow'[c].token = tk /\ flow'[c].node = n
      /\ flow'[c].st = "accept" => flow'[c].key \in Key
  BY <1>0, <1>1, <1>2 DEF FlowOK, OthersKept, Flow, States, Idle, Last0
<1>4. TypeOK'
  BY <1>0, <1>3 DEF TypeOK, OthersKept, dbvars, gatevars
<1>5. FlowOK'
  BY <1>0, <1>1, <1>3 DEF FlowOK, OthersKept, Kicking, gatevars
<1>6. CallersWait'
  BY <1>0, <1>3, NotCalled, CallersKept DEF gatevars
<1>7. MarkExact'
  BY <1>0, <1>3, MarkUntouched DEF Admitted
<1> QED
  BY <1>4, <1>5, <1>6, <1>7 DEF IInv

LEMMA RegisterIdStep ==
  ASSUME IInv, NEW c \in Conn, RegisterId(c)
  PROVE  IInv'
<1>0. /\ TypeOK /\ FlowOK /\ CallersWait /\ MarkExact
      /\ flow[c].st = "nextid" /\ nextid < MaxUid /\ nextid' = nextid + 1
      /\ UNCHANGED << row, user_login, user_online, notices, gatevars >>
      /\ flow' = [flow EXCEPT ![c].st = "add", ![c].key = [uid |-> nextid', type |-> "number"]]
  BY DEF IInv, RegisterId
<1>1. nextid' \in Uid
  BY <1>0, UidAssumption DEF TypeOK, Uid
<1>2. [uid |-> nextid', type |-> "number"] \in Key
  BY <1>1 DEF Key
<1>3. /\ OthersKept(c)
      /\ flow'[c] \in Flow /\ flow'[c].st = "add"
      /\ flow'[c].token = flow[c].token /\ flow'[c].node = flow[c].node
      /\ flow'[c].key \in Key
  BY <1>0, <1>2 DEF FlowOK, OthersKept, Flow, States
<1>4. TypeOK'
  BY <1>0, <1>1, <1>3 DEF TypeOK, OthersKept, gatevars
<1>5. FlowOK'
  BY <1>0, <1>3 DEF FlowOK, OthersKept, Kicking, gatevars
<1>6. CallersWait'
  BY <1>0, <1>3, NotCalled, CallersKept DEF gatevars
<1>7. MarkExact'
  BY <1>0, <1>3, MarkUntouched DEF Admitted
<1> QED
  BY <1>4, <1>5, <1>6, <1>7 DEF IInv

LEMMA RegisterAddStep ==
  ASSUME IInv, NEW c \in Conn, RegisterAdd(c)
  PROVE  IInv'
<1>0. /\ TypeOK /\ FlowOK /\ CallersWait /\ MarkExact
      /\ flow[c].st = "add"
      /\ row' = [row EXCEPT ![flow[c].token] = flow[c].key.uid]
      /\ UNCHANGED << nextid, user_login, user_online, notices, gatevars >>
      /\ flow' = [flow EXCEPT ![c].st = "accept"]
  BY DEF IInv, RegisterAdd
<1>1. flow[c].key \in Key /\ flow[c].key.uid \in Uid
  BY <1>0 DEF TypeOK, Key
<1>3. /\ OthersKept(c)
      /\ flow'[c] \in Flow /\ flow'[c].st = "accept"
      /\ flow'[c].token = flow[c].token /\ flow'[c].node = flow[c].node
      /\ flow'[c].key = flow[c].key
  BY <1>0 DEF FlowOK, OthersKept, Flow, States
<1>4. TypeOK'
  BY <1>0, <1>1, <1>3 DEF TypeOK, OthersKept, gatevars
<1>5. FlowOK'
  BY <1>0, <1>3 DEF FlowOK, OthersKept, Kicking, gatevars
<1>6. CallersWait'
  BY <1>0, <1>3, NotCalled, CallersKept DEF gatevars
<1>7. MarkExact'
  BY <1>0, <1>3, MarkUntouched DEF Admitted
<1> QED
  BY <1>4, <1>5, <1>6, <1>7 DEF IInv

-----------------------------------------------------------------------------
(* The steps of login_handler and of the gates.                             *)

KeysTyped == \A c \in Conn : flow[c].st \notin {"idle", "nextid"} => flow[c].key \in Key

\* Connection c goes on with its login.
Goes(c) ==
  /\ OthersKept(c) /\ flow' \in [Conn -> Flow]
  /\ flow'[c].st \notin {"idle", "nextid"}
  /\ flow'[c].token = flow[c].token /\ flow'[c].node = flow[c].node
  /\ flow'[c].key = flow[c].key
  /\ flow'[c].st \in Kicking => flow'[c].last.server \in Node
  /\ flow'[c].st \in {"kickwait", "notify"} => up'[flow'[c].last.server]
  /\ flow'[c].st = "loggingin" => up'[flow'[c].node]

LEMMA GoesOn ==
  ASSUME TypeOK, FlowOK, NEW c \in Conn, flow[c].st \notin {"idle", "nextid"}, Goes(c),
         UNCHANGED up
  PROVE  FlowOK' /\ KeysTyped'
BY DEF TypeOK, FlowOK, Goes, OthersKept, KeysTyped

\* A login that is under way changes its place and nothing else.
LEMMA StateMoves ==
  ASSUME FlowOK, NEW c \in Conn, NEW s \in States \ {"idle", "nextid"},
         flow' = [flow EXCEPT ![c].st = s], s \in Kicking => flow[c].last.server \in Node,
         s \in {"kickwait", "notify"} => up'[flow[c].last.server],
         s = "loggingin" => up'[flow[c].node]
  PROVE  /\ Goes(c) /\ OthersKept(c)
         /\ flow'[c] = [flow[c] EXCEPT !.st = s]
         /\ flow'[c].st = s /\ flow'[c].key = flow[c].key /\ flow'[c].node = flow[c].node
         /\ flow'[c].last = flow[c].last /\ flow'[c].subid = flow[c].subid
<1>1. flow[c] \in Flow /\ flow \in [Conn -> Flow]
  BY DEF FlowOK
<1>2. flow'[c] = [flow[c] EXCEPT !.st = s] /\ OthersKept(c)
  BY <1>1 DEF OthersKept
<1>3. /\ flow'[c] \in Flow
      /\ flow'[c].st = s /\ flow'[c].key = flow[c].key /\ flow'[c].node = flow[c].node
      /\ flow'[c].last = flow[c].last /\ flow'[c].subid = flow[c].subid
      /\ flow'[c].token = flow[c].token
  BY <1>1, <1>2 DEF Flow
<1>4. flow' \in [Conn -> Flow]
  BY <1>1, <1>2, <1>3 DEF OthersKept
<1> QED
  BY <1>2, <1>3, <1>4 DEF Goes

LEMMA Ends ==
  ASSUME TypeOK, FlowOK, NEW c \in Conn, flow' = [flow EXCEPT ![c] = Idle],
         UNCHANGED up
  PROVE  /\ FlowOK' /\ KeysTyped' /\ OthersKept(c) /\ flow'[c].st = "idle" /\ ~Admitted(c)'
<1>1. Idle \in Flow
  BY DEF Idle, Flow, States, Last0
<1>2. flow' \in [Conn -> Flow] /\ OthersKept(c) /\ flow'[c] = Idle
  BY <1>1 DEF FlowOK, OthersKept
<1> QED
  BY <1>2 DEF TypeOK, FlowOK, OthersKept, KeysTyped, Idle, Admitted, Kicking

LEMMA AcceptStep ==
  ASSUME IInv, NEW c \in Conn, Accept(c)
  PROVE  IInv'
<1>0. /\ TypeOK /\ FlowOK /\ CallersWait /\ MarkExact /\ flow[c].st = "accept"
      /\ UNCHANGED << dbvars, user_online, notices, gatevars >>
      /\ flow[c].key \in Key /\ Uncalled(c) /\ ~Admitted(c)
  BY NotCalled DEF IInv, Accept, TypeOK, Admitted
<1>1. CASE flow' = [flow EXCEPT ![c] = Idle] /\ UNCHANGED user_login
  <2>1. FlowOK' /\ KeysTyped' /\ OthersKept(c) /\ ~Admitted(c)'
    BY <1>0, <1>1, Ends DEF gatevars
  <2>2. TypeOK'
    BY <1>0, <1>1, <2>1 DEF TypeOK, KeysTyped, dbvars, gatevars
  <2>3. CallersWait'
    BY <1>0, <2>1, CallersKept DEF gatevars
  <2>4. MarkExact'
    BY <1>0, <1>1, <2>1, MarkUntouched
  <2> QED
    BY <2>1, <2>2, <2>3, <2>4 DEF IInv
<1>2. CASE /\ flow[c].key \notin user_login
           /\ user_login' = user_login \cup {flow[c].key}
           /\ flow' = [flow EXCEPT
               ![c].st = IF user_online[flow[c].key] = None THEN "login" ELSE "kick",
               ![c].last = IF user_online[flow[c].key] = None THEN @
                           ELSE user_online[flow[c].key]]
  <2>1. user_online[flow[c].key] # None =>
          user_online[flow[c].key] \in [server : Node, subid : Nat]
    BY <1>0 DEF TypeOK
  <2>2. Goes(c) /\ Admitted(c)'
    <3> DEFINE e == user_online[flow[c].key]
               x == IF e = None THEN "login" ELSE "kick"
               y == IF e = None THEN flow[c].last ELSE e
    <3>1. /\ flow' = [flow EXCEPT ![c].st = x, ![c].last = y]
          /\ flow \in [Conn -> Flow] /\ flow[c] \in Flow
      BY <1>0, <1>2 DEF FlowOK
    <3>2. y \in [server : Node \cup {None}, subid : Nat]
      BY <2>1, <3>1 DEF Flow
    <3>3. x \in {"login", "kick"} /\ (x = "kick" => y.server \in Node)
      BY <2>1
    <3> HIDE DEF x, y
    <3>4. flow'[c] = [flow[c] EXCEPT !.st = x, !.last = y] /\ OthersKept(c)
      BY <3>1 DEF OthersKept
    <3>5. /\ flow'[c] \in Flow
          /\ flow'[c].st = x /\ flow'[c].last = y
          /\ flow'[c].token = flow[c].token /\ flow'[c].node = flow[c].node
          /\ flow'[c].key = flow[c].key
      BY <3>1, <3>2, <3>3, <3>4 DEF Flow, States
    <3>6. flow' \in [Conn -> Flow]
      BY <3>1, <3>4, <3>5 DEF OthersKept
    <3> QED
      BY <3>3, <3>4, <3>5, <3>6 DEF Goes, Kicking, Admitted
  <2>3. FlowOK' /\ KeysTyped'
    BY <1>0, <2>2, GoesOn DEF gatevars
  <2>4. TypeOK'
    BY <1>0, <1>2, <2>3 DEF TypeOK, KeysTyped, dbvars, gatevars
  <2>5. CallersWait'
    BY <1>0, <2>2, CallersKept DEF gatevars, Goes
  <2>6. MarkExact'
    BY <1>0, <1>2, <2>2, MarkAdded DEF Goes
  <2> QED
    BY <2>3, <2>4, <2>5, <2>6 DEF IInv
<1> QED
  BY <1>1, <1>2 DEF Accept

LEMMA AfterKickStep ==
  ASSUME IInv, NEW c \in Conn, AfterKick(c)
  PROVE  IInv'
<1> DEFINE still == flow[c].st = "kicked" /\ user_online[flow[c].key] # None
<1>0. /\ TypeOK /\ FlowOK /\ CallersWait /\ MarkExact
      /\ flow[c].st \in {"kicked", "kickfailed"}
      /\ UNCHANGED << dbvars, notices, gatevars >>
      /\ user_online' = [user_online EXCEPT ![flow[c].key] = IF still THEN @ ELSE None]
      /\ flow[c].key \in Key /\ Uncalled(c) /\ Admitted(c)
  BY NotCalled DEF IInv, AfterKick, TypeOK, Admitted
<1>1. user_online' \in [Key -> [server : Node, subid : Nat] \cup {None}]
  BY <1>0 DEF TypeOK
<1>2. CASE Finish(c)
  <2>1. FlowOK' /\ KeysTyped' /\ OthersKept(c) /\ ~Admitted(c)'
    BY <1>0, <1>2, Ends DEF Finish, gatevars
  <2>2. TypeOK'
    BY <1>0, <1>1, <1>2, <2>1 DEF TypeOK, KeysTyped, dbvars, gatevars, Finish
  <2>3. CallersWait'
    BY <1>0, <2>1, CallersKept DEF gatevars
  <2>4. MarkExact'
    BY <1>0, <1>2, <2>1, MarkRemoved DEF Finish
  <2> QED
    BY <2>1, <2>2, <2>3, <2>4 DEF IInv
<1>3. CASE flow' = [flow EXCEPT ![c].st = "login"] /\ UNCHANGED user_login
  <2>1. Goes(c) /\ Admitted(c)'
    <3>1. Goes(c) /\ flow'[c].st = "login"
      BY <1>0, <1>3, StateMoves DEF States, Kicking
    <3> QED
      BY <3>1 DEF Admitted
  <2>2. FlowOK' /\ KeysTyped'
    BY <1>0, <2>1, GoesOn DEF gatevars
  <2>3. TypeOK'
    BY <1>0, <1>1, <1>3, <2>2 DEF TypeOK, KeysTyped, dbvars, gatevars
  <2>4. CallersWait'
    BY <1>0, <2>1, CallersKept DEF gatevars, Goes
  <2>5. MarkExact'
    BY <1>0, <1>3, <2>1, MarkStays DEF Goes
  <2> QED
    BY <2>2, <2>3, <2>4, <2>5 DEF IInv
<1> QED
  BY <1>2, <1>3 DEF AfterKick

LEMMA LoginDoneStep ==
  ASSUME IInv, NEW c \in Conn, LoginDone(c)
  PROVE  IInv'
<1>0. /\ TypeOK /\ FlowOK /\ CallersWait /\ MarkExact
      /\ flow[c].st = "done" /\ Finish(c)
      /\ UNCHANGED << dbvars, notices, gatevars >>
      /\ user_online' = [user_online EXCEPT ![flow[c].key] =
           [server |-> flow[c].node, subid |-> flow[c].subid]]
      /\ flow[c].key \in Key /\ Uncalled(c) /\ Admitted(c)
  BY NotCalled DEF IInv, LoginDone, TypeOK, Admitted
<1>1. user_online' \in [Key -> [server : Node, subid : Nat] \cup {None}]
  BY <1>0 DEF TypeOK, FlowOK, Flow
<1>2. FlowOK' /\ KeysTyped' /\ OthersKept(c) /\ ~Admitted(c)'
  BY <1>0, Ends DEF Finish, gatevars
<1>3. TypeOK'
  BY <1>0, <1>1, <1>2 DEF TypeOK, KeysTyped, dbvars, gatevars, Finish
<1>4. CallersWait'
  BY <1>0, <1>2, CallersKept DEF gatevars
<1>5. MarkExact'
  BY <1>0, <1>2, MarkRemoved DEF Finish
<1> QED
  BY <1>2, <1>3, <1>4, <1>5 DEF IInv

(* Appending to the queue of a node puts one call behind the others.        *)
LEMMA NoteAppended ==
  ASSUME TypeOK, NEW n \in Node, NEW m \in Note,
         notices' = [notices EXCEPT ![n] = Append(notices[n], m)]
  PROVE  /\ \A o \in Node : notices'[o] \in Seq(Note)
         /\ \A o \in Node \ {n} : notices'[o] = notices[o]
         /\ DOMAIN notices'[n] = 1 .. Len(notices[n]) + 1
         /\ DOMAIN notices[n] = 1 .. Len(notices[n])
         /\ Len(notices[n]) \in Nat
         /\ \A i \in 1 .. Len(notices[n]) : notices'[n][i] = notices[n][i]
         /\ notices'[n][Len(notices[n]) + 1] = m
<1>1. /\ notices[n] \in Seq(Note) /\ Len(notices[n]) \in Nat
      /\ DOMAIN notices[n] = 1 .. Len(notices[n])
  BY NoteType
<1>2. notices'[n] = Append(notices[n], m) /\ \A o \in Node \ {n} : notices'[o] = notices[o]
  BY DEF TypeOK
<1> HIDE DEF Note
<1>3. /\ Append(notices[n], m) \in Seq(Note)
      /\ DOMAIN Append(notices[n], m) = 1 .. Len(notices[n]) + 1
      /\ Append(notices[n], m)[Len(notices[n]) + 1] = m
  BY <1>1
<1>4. \A i \in 1 .. Len(notices[n]) : Append(notices[n], m)[i] = notices[n][i]
  BY <1>1
<1>5. \A o \in Node \ {n} : notices'[o] \in Seq(Note)
  BY <1>2, NoteType
<1> QED
  BY <1>1, <1>2, <1>3, <1>4, <1>5

(* Taking the first call off the queue of a node moves the others up.       *)
LEMMA NoteTaken ==
  ASSUME TypeOK, NEW n \in Node, notices[n] # << >>,
         notices' = [notices EXCEPT ![n] = Tail(notices[n])]
  PROVE  /\ \A o \in Node : notices'[o] \in Seq(Note)
         /\ \A o \in Node \ {n} : notices'[o] = notices[o]
         /\ 1 \in DOMAIN notices[n] /\ Head(notices[n]) = notices[n][1]
         /\ \A i \in DOMAIN notices'[n] :
              i + 1 \in DOMAIN notices[n] /\ i \in Nat /\ i # 0 /\ notices'[n][i] = notices[n][i + 1]
<1>1. /\ notices[n] \in Seq(Note) /\ Len(notices[n]) \in Nat
      /\ DOMAIN notices[n] = 1 .. Len(notices[n])
  BY NoteType
<1>2. notices'[n] = Tail(notices[n]) /\ \A o \in Node \ {n} : notices'[o] = notices[o]
  BY DEF TypeOK
<1> HIDE DEF Note
<1>3. /\ Tail(notices[n]) \in Seq(Note) /\ Len(notices[n]) > 0
      /\ DOMAIN Tail(notices[n]) = 1 .. Len(notices[n]) - 1
      /\ Head(notices[n]) = notices[n][1]
  BY <1>1
<1>4. \A i \in 1 .. Len(notices[n]) - 1 : Tail(notices[n])[i] = notices[n][i + 1]
  BY <1>1
<1>5. \A o \in Node \ {n} : notices'[o] \in Seq(Note)
  BY <1>2, NoteType
<1>6. \A i \in 1 .. Len(notices[n]) - 1 : i + 1 \in 1 .. Len(notices[n]) /\ i \in Nat /\ i # 0
  BY <1>1
<1>7. 1 \in 1 .. Len(notices[n])
  BY <1>1, <1>3
<1> QED
  BY <1>1, <1>2, <1>3, <1>4, <1>5, <1>6, <1>7

(* CMD.logout moves only the kick that waits for this very call.            *)
LEMMA NoticeStep ==
  ASSUME IInv, NEW n \in Node, Notice(n)
  PROVE  IInv'
<1> DEFINE m == Head(notices[n])
<1>0. /\ TypeOK /\ FlowOK /\ CallersWait /\ MarkExact
      /\ notices[n] # << >>
      /\ notices' = [notices EXCEPT ![n] = Tail(notices[n])]
      /\ user_online' = [user_online EXCEPT ![m.key] = None]
      /\ UNCHANGED << dbvars, user_login, gatevars >>
  BY DEF IInv, Notice
<1>1. /\ \A o \in Node : notices'[o] \in Seq(Note)
      /\ \A o \in Node \ {n} : notices'[o] = notices[o]
      /\ 1 \in DOMAIN notices[n] /\ m = notices[n][1]
      /\ \A i \in DOMAIN notices'[n] :
           i + 1 \in DOMAIN notices[n] /\ i \in Nat /\ i # 0 /\ notices'[n][i] = notices[n][i + 1]
  BY <1>0, NoteTaken
<1>2. /\ m \in Note
      /\ m.for # None =>
           /\ m.for \in Conn /\ flow[m.for].st = "notify" /\ flow[m.for].key = m.key
           /\ flow[m.for].last.server = n
           /\ \A j \in DOMAIN notices[n] : notices[n][j].for = m.for => j = 1
  BY <1>0, <1>1, NoteType DEF Note, CallersWait
<1> HIDE DEF m
<1>3. user_online' \in [Key -> [server : Node, subid : Nat] \cup {None}]
  BY <1>0, <1>2 DEF TypeOK
<1>4. notices' \in [Node -> Seq([key : Key, for : Conn \cup {None}])]
  BY <1>0, <1>1 DEF Note, TypeOK
<1>5. CASE m.for = None /\ flow' = flow
  <2>1. TypeOK'
    BY <1>0, <1>3, <1>4, <1>5 DEF TypeOK, dbvars, gatevars
  <2>3. FlowOK' /\ MarkExact'
    BY <1>0, <1>5 DEF FlowOK, MarkExact, Admitted, gatevars
  <2>2. CallersWait'
    BY <1>0, <1>1, <1>5 DEF CallersWait, gatevars
  <2> QED
    BY <2>1, <2>2, <2>3 DEF IInv
<1>6. ASSUME NEW c \in Conn, m.for = c, flow' = [flow EXCEPT ![c].st = "kicked"]
      PROVE  IInv'
  <2>0. /\ Admitted(c) /\ flow[c].st = "notify" /\ flow[c].last.server = n
        /\ \A j \in DOMAIN notices[n] : notices[n][j].for = c => j = 1
    BY <1>2, <1>6, NoneAssumption DEF Admitted
  <2>1. Goes(c) /\ Admitted(c)'
    <3>1. Goes(c) /\ flow'[c].st = "kicked"
      BY <1>0, <1>6, StateMoves DEF States, Kicking
    <3> QED
      BY <3>1 DEF Admitted
  <2>2. FlowOK' /\ KeysTyped'
    BY <1>0, <2>0, <2>1, GoesOn DEF gatevars
  <2>3. TypeOK'
    BY <1>0, <1>3, <1>4, <2>2 DEF TypeOK, KeysTyped, dbvars, gatevars
  <2>4. MarkExact'
    BY <1>0, <2>0, <2>1, MarkStays DEF Goes
  <2>5. CallersWait'
    <3>1. \A o \in Node : \A i \in DOMAIN notices'[o] : notices'[o][i].for # c
      <4> SUFFICES ASSUME NEW o \in Node, NEW i \in DOMAIN notices'[o], notices'[o][i].for = c
                   PROVE  FALSE
        OBVIOUS
      <4>1. CASE o = n
        <5>1. i + 1 = 1 /\ i \in Nat /\ i # 0
          BY <1>1, <2>0, <4>1
        <5> QED
          BY <5>1
      <4>2. CASE o # n
        <5>1. i \in DOMAIN notices[o] /\ notices[o][i].for = c
          BY <1>1, <4>2
        <5>2. flow[c].last.server = o
          BY <1>0, <5>1, NoneAssumption DEF CallersWait
        <5> QED
          BY <2>0, <4>2, <5>2
      <4> QED
        BY <4>1, <4>2
    <3>2. \A l \in logins : l.for # c
      BY <1>0, <2>0, NoneAssumption DEF CallersWait
    <3>3. \A o \in Node : \A i \in DOMAIN notices'[o] : notices'[o][i] \in Note
      <4> HIDE DEF Note
      <4> QED
        BY <1>1
    <3>4. UNCHANGED << logins, up >> /\ \A d \in Conn \ {c} : flow'[d] = flow[d]
      BY <1>0, <2>1 DEF Goes, OthersKept, gatevars
    <3>5. (\A l \in logins : l.for # None =>
             /\ up[l.node]
             /\ flow[l.for].st = "loggingin" /\ flow[l.for].key = l.key
             /\ flow[l.for].node = l.node
             /\ \A k \in logins : k.for = l.for => k = l)'
      BY <1>0, <3>2, <3>4 DEF CallersWait, TypeOK
    <3>6. ASSUME NEW o \in Node, NEW i \in DOMAIN notices'[o], notices'[o][i].for # None
          PROVE  LET p == notices'[o][i] IN
                   /\ up'[o]
                   /\ flow'[p.for].st = "notify" /\ flow'[p.for].key = p.key
                   /\ flow'[p.for].last.server = o
                   /\ \A j \in DOMAIN notices'[o] : notices'[o][j].for = p.for => i = j
      <4>1. notices'[o][i].for \in Conn \ {c}
        BY <3>1, <3>3, <3>6 DEF Note
      <4>2. CASE o # n
        BY <1>0, <1>1, <3>4, <3>6, <4>1, <4>2 DEF CallersWait
      <4>3. CASE o = n
        <5>1. /\ i \in Nat /\ i + 1 \in DOMAIN notices[n] /\ notices'[n][i] = notices[n][i + 1]
              /\ \A j \in DOMAIN notices'[n] :
                   j + 1 \in DOMAIN notices[n] /\ j \in Nat /\ notices'[n][j] = notices[n][j + 1]
          BY <1>1, <4>3
        <5>2. LET p == notices[n][i + 1] IN
                /\ up[n]
                /\ flow[p.for].st = "notify" /\ flow[p.for].key = p.key
                /\ flow[p.for].last.server = n
                /\ \A j \in DOMAIN notices[n] : notices[n][j].for = p.for => i + 1 = j
          BY <1>0, <3>6, <4>3, <5>1 DEF CallersWait
        <5>3. \A j \in DOMAIN notices'[n] : notices'[n][j].for = notices'[n][i].for => i = j
          <6> SUFFICES ASSUME NEW j \in DOMAIN notices'[n], notices'[n][j].for = notices'[n][i].for
                       PROVE  i = j
            OBVIOUS
          <6>1. i + 1 = j + 1
            BY <5>1, <5>2
          <6> QED
            BY <6>1, <5>1
        <5> QED
          BY <3>4, <4>1, <4>3, <5>1, <5>2, <5>3
      <4> QED
        BY <4>2, <4>3
    <3> QED
      BY <3>5, <3>6 DEF CallersWait
  <2> QED
    BY <2>2, <2>3, <2>4, <2>5 DEF IInv
<1>7. CASE m.for = None
  BY <1>5, <1>7 DEF Notice, m
<1>8. CASE m.for # None
  BY <1>2, <1>6, <1>8 DEF Notice, m
<1> QED
  BY <1>7, <1>8

-----------------------------------------------------------------------------

(* A logout call for key k joins the queue of n, with c waiting for it or    *)
(* nobody: c begins to wait, or is None and no connection moves.            *)
LEMMA TellCalls ==
  ASSUME TypeOK, CallersWait, NEW n \in Node, NEW k \in Key, NEW c \in Conn \cup {None},
         c # None => up[n], Tell(n, k, c), UNCHANGED << logins, up >>,
         \/ c = None /\ flow' = flow
         \/ /\ c \in Conn /\ OthersKept(c) /\ Uncalled(c)
            /\ flow'[c].st = "notify" /\ flow'[c].key = k /\ flow'[c].last.server = n
  PROVE  CallersWait' /\ notices' \in [Node -> Seq([key : Key, for : Conn \cup {None}])]
<1> DEFINE m == [key |-> k, for |-> c]
           len == Len(notices[n])
<1>0. m \in Note /\ m.key = k /\ m.for = c
  BY DEF Note
<1>1. notices' = [notices EXCEPT ![n] = Append(notices[n], m)]
  BY DEF Tell
<1> HIDE DEF m
<1>2. /\ \A o \in Node : notices'[o] \in Seq(Note)
      /\ \A o \in Node \ {n} : notices'[o] = notices[o]
      /\ DOMAIN notices'[n] = 1 .. len + 1 /\ DOMAIN notices[n] = 1 .. len /\ len \in Nat
      /\ \A i \in 1 .. len : notices'[n][i] = notices[n][i]
      /\ notices'[n][len + 1] = m
  BY <1>0, <1>1, NoteAppended
<1>3. notices' \in [Node -> Seq([key : Key, for : Conn \cup {None}])]
  BY <1>1, <1>2 DEF Note, TypeOK
<1>4. /\ \A o \in Node : \A i \in DOMAIN notices[o] :
           /\ notices[o][i].for \in Conn \cup {None}
           /\ c # None => notices[o][i].for # c
      /\ c # None => \A l \in logins : l.for # c
      /\ \A l \in logins : l.for \in Conn \cup {None}
  BY NoteType, NoneAssumption DEF Note, Uncalled, TypeOK
<1>5. \A d \in Conn : d # c => flow'[d] = flow[d]
  BY DEF OthersKept
<1>6. (\A l \in logins : l.for # None =>
         /\ up[l.node]
         /\ flow[l.for].st = "loggingin" /\ flow[l.for].key = l.key
         /\ flow[l.for].node = l.node
         /\ \A p \in logins : p.for = l.for => p = l)'
  BY <1>4, <1>5, NoneAssumption DEF CallersWait
<1>7. ASSUME NEW o \in Node, NEW i \in DOMAIN notices'[o], notices'[o][i].for # None
      PROVE  LET p == notices'[o][i] IN
               /\ up'[o]
               /\ flow'[p.for].st = "notify" /\ flow'[p.for].key = p.key
               /\ flow'[p.for].last.server = o
               /\ \A j \in DOMAIN notices'[o] : notices'[o][j].for = p.for => i = j
  <2>1. CASE o # n
    <3>1. notices'[o] = notices[o] /\ notices[o][i].for \in Conn /\ notices[o][i].for # c
      BY <1>2, <1>4, <1>7, <2>1
    <3> QED
      BY <1>5, <1>7, <3>1 DEF CallersWait
  <2>2. CASE o = n /\ i \in 1 .. len
    <3>1. /\ notices'[n][i] = notices[n][i] /\ i \in DOMAIN notices[n]
          /\ notices[n][i].for \in Conn /\ notices[n][i].for # c
      BY <1>2, <1>4, <1>7, <2>2
    <3>2. LET p == notices[n][i] IN
            /\ up[n]
            /\ flow[p.for].st = "notify" /\ flow[p.for].key = p.key
            /\ flow[p.for].last.server = n
            /\ \A j \in DOMAIN notices[n] : notices[n][j].for = p.for => i = j
      BY <1>7, <2>2, <3>1, NoneAssumption DEF CallersWait
    <3>3. ASSUME NEW j \in DOMAIN notices'[n], notices'[n][j].for = notices'[n][i].for
          PROVE  i = j
      <4>1. CASE j \in 1 .. len
        BY <1>2, <3>1, <3>2, <3>3, <4>1
      <4>2. CASE j = len + 1
        BY <1>0, <1>2, <3>1, <3>3, <4>2
      <4> QED
        BY <1>2, <4>1, <4>2
    <3> QED
      BY <1>5, <2>2, <3>1, <3>2, <3>3
  <2>3. CASE o = n /\ i = len + 1
    <3>1. notices'[n][i] = m /\ c \in Conn
      BY <1>0, <1>2, <1>7, <2>3
    <3>2. \A j \in DOMAIN notices'[n] : notices'[n][j].for = c => i = j
      BY <1>2, <1>4, <2>3, <3>1, NoneAssumption
    <3> QED
      BY <1>0, <2>3, <3>1, <3>2, NoneAssumption
  <2> QED
    BY <1>2, <2>1, <2>2, <2>3
<1>8. CallersWait'
  BY <1>6, <1>7 DEF CallersWait
<1> QED
  BY <1>3, <1>8

LEMMA KickStep ==
  ASSUME IInv, NEW c \in Conn, Kick(c)
  PROVE  IInv'
<1> DEFINE n == flow[c].last.server
<1>0. /\ TypeOK /\ FlowOK /\ CallersWait /\ MarkExact
      /\ flow[c].st = "kick" /\ up[n] /\ n \in Node
      /\ UNCHANGED << dbvars, user_login, user_online, gatevars >>
      /\ flow[c].key \in Key /\ Uncalled(c) /\ Admitted(c)
  BY NotCalled DEF IInv, Kick, TypeOK, FlowOK, Admitted, Kicking
<1>1. CASE Tell(n, flow[c].key, c) /\ flow' = [flow EXCEPT ![c].st = "notify"]
  <2>1. /\ Goes(c) /\ OthersKept(c) /\ flow'[c].st = "notify"
        /\ flow'[c].key = flow[c].key /\ flow'[c].last.server = n
    BY <1>0, <1>1, StateMoves DEF States, gatevars
  <2>2. FlowOK' /\ KeysTyped'
    BY <1>0, <2>1, GoesOn DEF gatevars
  <2>3. CallersWait' /\ notices' \in [Node -> Seq([key : Key, for : Conn \cup {None}])]
    BY <1>0, <1>1, <2>1, TellCalls DEF gatevars
  <2>4. TypeOK'
    BY <1>0, <2>2, <2>3 DEF TypeOK, KeysTyped, dbvars, gatevars
  <2>5. MarkExact'
    BY <1>0, <2>1, MarkStays DEF Admitted
  <2> QED
    BY <2>2, <2>3, <2>4, <2>5 DEF IInv
<1>2. ASSUME NEW s \in {"kickwait", "kickfailed"}, flow' = [flow EXCEPT ![c].st = s],
             UNCHANGED notices
      PROVE  IInv'
  <2>1. Goes(c) /\ OthersKept(c) /\ flow'[c].st = s /\ flow'[c].key = flow[c].key
    BY <1>0, <1>2, StateMoves DEF States, gatevars
  <2>2. FlowOK' /\ KeysTyped'
    BY <1>0, <2>1, GoesOn DEF gatevars
  <2>3. CallersWait'
    BY <1>0, <1>2, <2>1, CallersKept DEF gatevars
  <2>4. TypeOK'
    BY <1>0, <1>2, <2>2 DEF TypeOK, KeysTyped, dbvars, gatevars
  <2>5. MarkExact'
    BY <1>0, <2>1, MarkStays DEF Admitted
  <2> QED
    BY <2>2, <2>3, <2>4, <2>5 DEF IInv
<1> QED
  BY <1>1, <1>2 DEF Kick

LEMMA KickLogoutStep ==
  ASSUME IInv, NEW c \in Conn, KickLogout(c)
  PROVE  IInv'
<1> DEFINE n == flow[c].last.server
           S == Session(n, flow[c].key)
<1>0. /\ TypeOK /\ FlowOK /\ CallersWait /\ MarkExact
      /\ flow[c].st = "kickwait" /\ n \in Node /\ up[n]
      /\ UNCHANGED << dbvars, user_login, user_online, up, internal_id, logins >>
      /\ flow[c].key \in Key /\ Uncalled(c) /\ Admitted(c)
  BY NotCalled DEF IInv, KickLogout, TypeOK, FlowOK, Admitted, Kicking
<1>1. CASE /\ users' = [users EXCEPT ![n] = @ \ S]
           /\ Tell(n, flow[c].key, c)
           /\ flow' = [flow EXCEPT ![c].st = "notify"]
  <2>1. /\ Goes(c) /\ OthersKept(c) /\ flow'[c].st = "notify"
        /\ flow'[c].key = flow[c].key /\ flow'[c].last.server = n
    BY <1>0, <1>1, StateMoves DEF States
  <2>2. FlowOK' /\ KeysTyped'
    BY <1>0, <2>1, GoesOn
  <2>3. CallersWait' /\ notices' \in [Node -> Seq([key : Key, for : Conn \cup {None}])]
    BY <1>0, <1>1, <2>1, TellCalls
  <2>4. TypeOK'
    BY <1>0, <1>1, <2>2, <2>3 DEF TypeOK, KeysTyped, dbvars
  <2>5. MarkExact'
    BY <1>0, <2>1, MarkStays DEF Admitted
  <2> QED
    BY <2>2, <2>3, <2>4, <2>5 DEF IInv
<1>2. CASE flow' = [flow EXCEPT ![c].st = "kicked"] /\ UNCHANGED << notices, users >>
  <2>1. Goes(c) /\ OthersKept(c) /\ flow'[c].st = "kicked" /\ flow'[c].key = flow[c].key
    BY <1>0, <1>2, StateMoves DEF States, Kicking
  <2>2. FlowOK' /\ KeysTyped'
    BY <1>0, <2>1, GoesOn
  <2>3. CallersWait'
    BY <1>0, <1>2, <2>1, CallersKept
  <2>4. TypeOK'
    BY <1>0, <1>2, <2>2 DEF TypeOK, KeysTyped, dbvars
  <2>5. MarkExact'
    BY <1>0, <2>1, MarkStays DEF Admitted
  <2> QED
    BY <2>2, <2>3, <2>4, <2>5 DEF IInv
<1> QED
  BY <1>1, <1>2 DEF KickLogout

LEMMA IdleLogoutStep ==
  ASSUME IInv, NEW n \in Node, NEW s \in users[n], IdleLogout(n, s)
  PROVE  IInv'
<1>0. /\ TypeOK /\ FlowOK /\ CallersWait /\ MarkExact
      /\ users' = [users EXCEPT ![n] = @ \ {s}] /\ Tell(n, s.key, None)
      /\ UNCHANGED << dbvars, user_login, user_online, flow, up, internal_id, logins >>
  BY DEF IInv, IdleLogout
<1>a. s.key \in Key
  BY <1>0 DEF TypeOK
<1>1. CallersWait' /\ notices' \in [Node -> Seq([key : Key, for : Conn \cup {None}])]
  BY <1>0, <1>a, TellCalls
<1>2. TypeOK'
  BY <1>0, <1>1 DEF TypeOK, dbvars
<1>3. FlowOK' /\ MarkExact'
  BY <1>0 DEF FlowOK, MarkExact, Admitted
<1> QED
  BY <1>1, <1>2, <1>3 DEF IInv

LEMMA LoginCallStep ==
  ASSUME IInv, NEW c \in Conn, LoginCall(c)
  PROVE  IInv'
<1> DEFINE n == flow[c].node
<1>0. /\ TypeOK /\ FlowOK /\ CallersWait /\ MarkExact
      /\ flow[c].st = "login" /\ up[n] /\ n \in Node
      /\ UNCHANGED << dbvars, user_online, notices, up, users >>
      /\ flow[c].key \in Key /\ Uncalled(c) /\ Admitted(c)
  BY NotCalled DEF IInv, LoginCall, TypeOK, FlowOK, Admitted
<1>1. CASE Finish(c) /\ UNCHANGED << internal_id, logins >>
  <2>1. FlowOK' /\ KeysTyped' /\ OthersKept(c) /\ ~Admitted(c)'
    BY <1>0, <1>1, Ends DEF Finish
  <2>2. TypeOK'
    BY <1>0, <1>1, <2>1 DEF TypeOK, KeysTyped, dbvars, Finish
  <2>3. CallersWait'
    BY <1>0, <1>1, <2>1, CallersKept
  <2>4. MarkExact'
    BY <1>0, <1>1, <2>1, MarkRemoved DEF Finish
  <2> QED
    BY <2>1, <2>2, <2>3, <2>4 DEF IInv
<1>2. CASE /\ internal_id' = [internal_id EXCEPT ![n] = @ + 1]
           /\ logins' = logins \cup
                {[node |-> n, key |-> flow[c].key, name |-> internal_id'[n], for |-> c]}
           /\ flow' = [flow EXCEPT ![c].st = "loggingin"]
           /\ UNCHANGED user_login
  <2>1. /\ Goes(c) /\ OthersKept(c) /\ flow'[c].st = "loggingin"
        /\ flow'[c].key = flow[c].key /\ flow'[c].node = n
    BY <1>0, <1>2, StateMoves DEF States, Kicking
  <2>2. FlowOK' /\ KeysTyped'
    BY <1>0, <2>1, GoesOn
  <2>3. internal_id' \in [Node -> Nat] /\ internal_id'[n] \in Nat
    BY <1>0, <1>2 DEF TypeOK
  <2>a. logins' \subseteq [node : Node, key : Key, name : Nat, for : Conn \cup {None}]
    BY <1>0, <1>2, <2>3 DEF TypeOK
  <2>4. TypeOK'
    BY <1>0, <1>2, <2>2, <2>3, <2>a DEF TypeOK, KeysTyped, dbvars
  <2>5. MarkExact'
    BY <1>0, <1>2, <2>1, MarkStays DEF Admitted
  <2>6. CallersWait'
    <3> DEFINE p == [node |-> n, key |-> flow[c].key, name |-> internal_id'[n], for |-> c]
    <3>1. p.node = n /\ p.key = flow[c].key /\ p.for = c /\ logins' = logins \cup {p}
      BY <1>2
    <3> HIDE DEF p
    <3>2. \A o \in Node : \A i \in DOMAIN notices[o] :
            notices[o][i].for \in Conn \cup {None} /\ notices[o][i].for # c
      BY <1>0, NoteType DEF Note, Uncalled
    <3>3. \A l \in logins : l.for \in Conn \cup {None} /\ l.for # c
      BY <1>0 DEF TypeOK, Uncalled
    <3>4. UNCHANGED << notices, up >> /\ \A d \in Conn \ {c} : flow'[d] = flow[d]
      BY <1>0, <2>1 DEF OthersKept
    <3>5. (\A o \in Node : \A i \in DOMAIN notices[o] :
             LET m == notices[o][i] IN
               m.for # None =>
                 /\ up[o]
                 /\ flow[m.for].st = "notify" /\ flow[m.for].key = m.key
                 /\ flow[m.for].last.server = o
                 /\ \A j \in DOMAIN notices[o] : notices[o][j].for = m.for => i = j)'
      BY <1>0, <3>2, <3>4 DEF CallersWait
    <3>6. ASSUME NEW l \in logins', l.for # None
          PROVE  /\ up'[l.node]
                 /\ flow'[l.for].st = "loggingin" /\ flow'[l.for].key = l.key
                 /\ flow'[l.for].node = l.node
                 /\ \A m \in logins' : m.for = l.for => m = l
      <4>1. CASE l = p
        BY <1>0, <2>1, <3>1, <3>3, <3>4, <4>1
      <4>2. CASE l \in logins
        BY <1>0, <3>1, <3>3, <3>4, <3>6, <4>2 DEF CallersWait
      <4> QED
        BY <3>1, <4>1, <4>2
    <3> QED
      BY <3>5, <3>6 DEF CallersWait
  <2> QED
    BY <2>2, <2>4, <2>5, <2>6 DEF IInv
<1> QED
  BY <1>1, <1>2 DEF LoginCall

(* login_handler answers the one accept() that waits for it.                *)
LEMMA LoginReturnStep ==
  ASSUME IInv, NEW l \in logins, LoginReturn(l)
  PROVE  IInv'
<1>0. /\ TypeOK /\ FlowOK /\ CallersWait /\ MarkExact
      /\ logins' = logins \ {l}
      /\ users' = [users EXCEPT ![l.node] = (@ \ Session(l.node, l.key))
                              \cup {[key |-> l.key, name |-> l.name]}]
      /\ UNCHANGED << dbvars, user_login, user_online, notices, up, internal_id >>
  BY DEF IInv, LoginReturn
<1>1. l.node \in Node /\ l.key \in Key /\ l.name \in Nat /\ l.for \in Conn \cup {None}
  BY <1>0 DEF TypeOK
<1>2. users' \in [Node -> SUBSET [key : Key, name : Nat]]
  BY <1>0, <1>1 DEF TypeOK
<1>3. logins' \subseteq [node : Node, key : Key, name : Nat, for : Conn \cup {None}]
  BY <1>0 DEF TypeOK
<1>4. CASE flow' = flow
  <2>1. TypeOK'
    BY <1>0, <1>2, <1>3, <1>4 DEF TypeOK, dbvars
  <2>2. FlowOK' /\ MarkExact'
    BY <1>0, <1>4 DEF FlowOK, MarkExact, Admitted
  <2>3. CallersWait'
    BY <1>0, <1>4 DEF CallersWait
  <2> QED
    BY <2>1, <2>2, <2>3 DEF IInv
<1>5. ASSUME NEW c \in Conn, l.for = c,
             flow' = [flow EXCEPT ![c].st = "done", ![c].subid = internal_id[l.node]]
      PROVE  IInv'
  <2>1. /\ flow[c].st = "loggingin" /\ flow[c].key = l.key /\ flow[c].node = l.node
        /\ \A m \in logins : m.for = c => m = l
    BY <1>0, <1>5, NoneAssumption DEF CallersWait
  <2>2. /\ OthersKept(c) /\ flow'[c].st = "done" /\ flow'[c].key = flow[c].key
        /\ flow'[c] \in Flow
        /\ flow'[c].token = flow[c].token /\ flow'[c].node = flow[c].node
    <3>1. flow[c] \in Flow /\ flow \in [Conn -> Flow] /\ internal_id[l.node] \in Nat
      BY <1>0, <1>1 DEF FlowOK, TypeOK
    <3>2. flow'[c] = [flow[c] EXCEPT !.st = "done", !.subid = internal_id[l.node]] /\ OthersKept(c)
      BY <1>5, <3>1 DEF OthersKept
    <3> QED
      BY <3>1, <3>2 DEF Flow, States
  <2>3. Goes(c)
    <3>1. flow' \in [Conn -> Flow]
      BY <1>0, <1>5, <2>2 DEF FlowOK, OthersKept
    <3> QED
      BY <2>2, <3>1 DEF Goes, Kicking
  <2>4. FlowOK' /\ KeysTyped'
    BY <1>0, <2>1, <2>3, GoesOn
  <2>5. TypeOK'
    BY <1>0, <1>2, <1>3, <2>4 DEF TypeOK, KeysTyped, dbvars
  <2>6. MarkExact'
    BY <1>0, <2>1, <2>2, MarkStays DEF Admitted
  <2>7. CallersWait'
    <3>2. \A o \in Node : \A i \in DOMAIN notices[o] :
            notices[o][i].for \in Conn \cup {None} /\ notices[o][i].for # c
      <4>1. \A o \in Node : \A i \in DOMAIN notices[o] : notices[o][i].for \in Conn \cup {None}
        BY <1>0, NoteType DEF Note
      <4>2. \A o \in Node : \A i \in DOMAIN notices[o] : notices[o][i].for # c
        BY <1>0, <2>1, NoneAssumption DEF CallersWait
      <4> QED
        BY <4>1, <4>2
    <3>3. \A m \in logins' : m \in logins /\ m.for \in Conn \cup {None} /\ m.for # c
      BY <1>0, <2>1 DEF TypeOK
    <3>4. UNCHANGED << notices, up >> /\ \A d \in Conn \ {c} : flow'[d] = flow[d]
      BY <1>0, <2>2 DEF OthersKept
    <3>5. (\A o \in Node : \A i \in DOMAIN notices[o] :
             LET m == notices[o][i] IN
               m.for # None =>
                 /\ up[o]
                 /\ flow[m.for].st = "notify" /\ flow[m.for].key = m.key
                 /\ flow[m.for].last.server = o
                 /\ \A j \in DOMAIN notices[o] : notices[o][j].for = m.for => i = j)'
      BY <1>0, <3>2, <3>4 DEF CallersWait
    <3>6. (\A p \in logins : p.for # None =>
             /\ up[p.node]
             /\ flow[p.for].st = "loggingin" /\ flow[p.for].key = p.key
             /\ flow[p.for].node = p.node
             /\ \A m \in logins : m.for = p.for => m = p)'
      BY <1>0, <3>3, <3>4 DEF CallersWait
    <3> QED
      BY <3>5, <3>6 DEF CallersWait
  <2> QED
    BY <2>4, <2>5, <2>6, <2>7 DEF IInv
<1> QED
  BY <1>1, <1>4, <1>5 DEF LoginReturn

-----------------------------------------------------------------------------
(* Failures.                                                                *)

LEMMA CallDownStep ==
  ASSUME IInv, NEW c \in Conn, CallDown(c)
  PROVE  IInv'
<1>0. /\ TypeOK /\ FlowOK /\ CallersWait /\ MarkExact
      /\ Callee(c) # None /\ ~up[Callee(c)] /\ CallFails(c)
      /\ UNCHANGED << dbvars, user_online, up, internal_id, users, notices, logins >>
  BY DEF IInv, CallDown, CallFails
<1>1. Uncalled(c)
  BY <1>0, DownNotCalled
<1>2. CASE flow[c].st \in Kicking /\ flow' = [flow EXCEPT ![c].st = "kickfailed"] /\ UNCHANGED user_login
  <2>1. Goes(c) /\ OthersKept(c) /\ flow'[c].st = "kickfailed" /\ flow'[c].key = flow[c].key
    BY <1>0, <1>2, StateMoves DEF States, Kicking
  <2>2. FlowOK' /\ KeysTyped'
    BY <1>0, <1>2, <2>1, GoesOn DEF Kicking
  <2>3. TypeOK'
    BY <1>0, <1>2, <2>2 DEF TypeOK, KeysTyped, dbvars
  <2>4. CallersWait'
    BY <1>0, <1>1, <2>1, CallersKept
  <2>5. MarkExact'
    BY <1>0, <1>2, <2>1, MarkStays DEF Admitted, Kicking
  <2> QED
    BY <2>2, <2>3, <2>4, <2>5 DEF IInv
<1>3. CASE flow[c].st \in {"login", "loggingin"} /\ Finish(c)
  <2>1. FlowOK' /\ KeysTyped' /\ OthersKept(c) /\ ~Admitted(c)'
    BY <1>0, <1>3, Ends DEF Finish
  <2>2. TypeOK'
    BY <1>0, <1>3, <2>1 DEF TypeOK, KeysTyped, dbvars, Finish
  <2>3. CallersWait'
    BY <1>0, <1>1, <2>1, CallersKept
  <2>4. MarkExact'
    BY <1>0, <1>3, <2>1, MarkRemoved DEF Finish, Admitted
  <2> QED
    BY <2>1, <2>2, <2>3, <2>4 DEF IInv
<1> QED
  BY <1>0, <1>2, <1>3 DEF CallFails

LEMMA RestartStep ==
  ASSUME IInv, NEW n \in Node, Restart(n)
  PROVE  IInv'
<1>0. /\ TypeOK /\ FlowOK /\ CallersWait /\ MarkExact
      /\ up' = [up EXCEPT ![n] = TRUE]
      /\ internal_id' = [internal_id EXCEPT ![n] = 0]
      /\ UNCHANGED << dbvars, user_login, user_online, flow, notices, users, logins >>
  BY DEF IInv, Restart
<1>1. TypeOK'
  BY <1>0 DEF TypeOK, dbvars
<1>2. \A o \in Node : up[o] => up'[o]
  BY <1>0 DEF TypeOK
<1>3. FlowOK'
  <2>1. \A c \in Conn : flow[c].st = "loggingin" => flow[c].node \in Node
    BY <1>0 DEF FlowOK
  <2>2. \A c \in Conn : flow[c].st \in {"kickwait", "notify"} => flow[c].last.server \in Node
    BY <1>0 DEF FlowOK, Kicking
  <2> QED
    BY <1>0, <1>2, <2>1, <2>2 DEF FlowOK
<1>4. CallersWait'
  <2>1. \A l \in logins : l.node \in Node
    BY <1>0 DEF TypeOK
  <2> QED
    BY <1>0, <1>2, <2>1 DEF CallersWait
<1>5. MarkExact'
  BY <1>0 DEF MarkExact, Admitted
<1> QED
  BY <1>1, <1>3, <1>4, <1>5 DEF IInv

LEMMA NoCaller ==
  ASSUME NEW m \in Note
  PROVE  /\ [m EXCEPT !.for = None] \in Note
         /\ [m EXCEPT !.for = None].for = None
         /\ [m EXCEPT !.for = None].key = m.key
BY DEF Note

LEMMA OrphanNote ==
  ASSUME NEW c \in Conn, NEW m \in Note
  PROVE  /\ Orphan(m, c) \in Note
         /\ Orphan(m, c).for # c
         /\ Orphan(m, c).for # None => Orphan(m, c) = m
<1>1. CASE m.for = c
  <2>1. Orphan(m, c) = [m EXCEPT !.for = None]
    BY <1>1 DEF Orphan
  <2> QED
    BY <2>1, NoCaller, NoneAssumption
<1>2. CASE m.for # c
  BY <1>2 DEF Orphan
<1> QED
  BY <1>1, <1>2

LEMMA OrphanLogin ==
  ASSUME NEW c \in Conn, NEW l \in [node : Node, key : Key, name : Nat, for : Conn \cup {None}]
  PROVE  /\ Orphan(l, c) \in [node : Node, key : Key, name : Nat, for : Conn \cup {None}]
         /\ Orphan(l, c).for # c
         /\ Orphan(l, c).for # None => Orphan(l, c) = l
<1>1. CASE l.for = c
  BY <1>1, NoneAssumption DEF Orphan
<1>2. CASE l.for # c
  BY <1>2 DEF Orphan
<1> QED
  BY <1>1, <1>2

LEMMA CallLostStep ==
  ASSUME IInv, NEW c \in Conn, CallLost(c)
  PROVE  IInv'
<1>0. /\ TypeOK /\ FlowOK /\ CallersWait /\ MarkExact
      /\ CallFails(c)
      /\ notices' = OrphanNotices(c)
      /\ logins' = {Orphan(l, c) : l \in logins}
      /\ UNCHANGED << dbvars, user_online, up, internal_id, users >>
  BY DEF IInv, CallLost, CallFails
<1>1. ASSUME NEW o \in Node
      PROVE  /\ notices'[o] \in Seq(Note)
             /\ DOMAIN notices'[o] = DOMAIN notices[o]
             /\ \A i \in DOMAIN notices[o] : notices'[o][i] = Orphan(notices[o][i], c)
  <2>1. notices'[o] = [i \in DOMAIN notices[o] |-> Orphan(notices[o][i], c)]
    BY <1>0 DEF OrphanNotices
  <2>2. /\ Len(notices[o]) \in Nat /\ DOMAIN notices[o] = 1 .. Len(notices[o])
        /\ \A i \in DOMAIN notices[o] : notices[o][i] \in Note
    BY <1>0, NoteType
  <2>3. \A i \in DOMAIN notices[o] : Orphan(notices[o][i], c) \in Note
    BY <2>2, OrphanNote
  <2> HIDE DEF Note
  <2> QED
    BY <2>1, <2>2, <2>3
<1>2. notices' \in [Node -> Seq([key : Key, for : Conn \cup {None}])]
  BY <1>0, <1>1 DEF Note, OrphanNotices
<1>3. logins' \subseteq [node : Node, key : Key, name : Nat, for : Conn \cup {None}]
  BY <1>0, OrphanLogin DEF TypeOK
<1>4. ASSUME OthersKept(c) PROVE CallersWait'
  <2>0. \A d \in Conn \ {c} : flow'[d] = flow[d]
    BY <1>4 DEF OthersKept
  <2>1. ASSUME NEW o \in Node, NEW i \in DOMAIN notices'[o], notices'[o][i].for # None
        PROVE  LET m == notices'[o][i] IN
                 /\ up'[o]
                 /\ flow'[m.for].st = "notify" /\ flow'[m.for].key = m.key
                 /\ flow'[m.for].last.server = o
                 /\ \A j \in DOMAIN notices'[o] : notices'[o][j].for = m.for => i = j
    <3>1. /\ i \in DOMAIN notices[o] /\ notices'[o][i] = notices[o][i]
          /\ notices[o][i].for \in Conn /\ notices[o][i].for # c /\ notices[o][i].for # None
      BY <1>0, <1>1, <2>1, NoteType, OrphanNote DEF Note
    <3>2. ASSUME NEW j \in DOMAIN notices'[o], notices'[o][j].for = notices'[o][i].for
          PROVE  i = j
      <4>1. j \in DOMAIN notices[o] /\ notices'[o][j] = notices[o][j]
        BY <1>0, <1>1, <2>1, <3>2, NoteType, OrphanNote
      <4> QED
        BY <1>0, <3>1, <3>2, <4>1 DEF CallersWait
    <3> QED
      BY <1>0, <2>0, <3>1, <3>2 DEF CallersWait
  <2>2. ASSUME NEW p \in logins', p.for # None
        PROVE  /\ up'[p.node]
               /\ flow'[p.for].st = "loggingin" /\ flow'[p.for].key = p.key
               /\ flow'[p.for].node = p.node
               /\ \A m \in logins' : m.for = p.for => m = p
    <3>1. p \in logins /\ p.for \in Conn /\ p.for # c
      BY <1>0, <1>3, <2>2, OrphanLogin DEF TypeOK
    <3>2. \A m \in logins' : m.for = p.for => m \in logins
      BY <1>0, <2>2, OrphanLogin DEF TypeOK
    <3> QED
      BY <1>0, <2>0, <2>2, <3>1, <3>2 DEF CallersWait
  <2> QED
    BY <2>1, <2>2 DEF CallersWait
<1>5. CASE flow[c].st \in Kicking /\ flow' = [flow EXCEPT ![c].st = "kickfailed"] /\ UNCHANGED user_login
  <2>1. Goes(c) /\ OthersKept(c) /\ flow'[c].st = "kickfailed" /\ flow'[c].key = flow[c].key
    BY <1>0, <1>5, StateMoves DEF States, Kicking
  <2>2. FlowOK' /\ KeysTyped'
    BY <1>0, <1>5, <2>1, GoesOn DEF Kicking
  <2>3. TypeOK'
    BY <1>0, <1>2, <1>3, <1>5, <2>2 DEF TypeOK, KeysTyped, dbvars
  <2>4. MarkExact'
    BY <1>0, <1>5, <2>1, MarkStays DEF Admitted, Kicking
  <2> QED
    BY <1>4, <2>1, <2>2, <2>3, <2>4 DEF IInv
<1>6. CASE flow[c].st \in {"login", "loggingin"} /\ Finish(c)
  <2>1. FlowOK' /\ KeysTyped' /\ OthersKept(c) /\ ~Admitted(c)'
    BY <1>0, <1>6, Ends DEF Finish
  <2>2. TypeOK'
    BY <1>0, <1>2, <1>3, <1>6, <2>1 DEF TypeOK, KeysTyped, dbvars, Finish
  <2>3. MarkExact'
    BY <1>0, <1>6, <2>1, MarkRemoved DEF Finish, Admitted
  <2> QED
    BY <1>4, <2>1, <2>2, <2>3 DEF IInv
<1> QED
  BY <1>0, <1>5, <1>6 DEF CallFails

(* A crash takes a beginning of the calls the node sent, without callers.   *)
LEMMA CutNotes ==
  ASSUME TypeOK, NEW n \in Node, NEW i \in 0 .. Len(notices[n])
  PROVE  LET s == [j \in 1 .. i |-> [notices[n][j] EXCEPT !.for = None]] IN
           s \in Seq(Note) /\ \A j \in DOMAIN s : s[j].for = None
<1>1. /\ Len(notices[n]) \in Nat /\ DOMAIN notices[n] = 1 .. Len(notices[n])
      /\ \A j \in DOMAIN notices[n] : notices[n][j] \in Note
  BY NoteType
<1>2. i \in Nat /\ \A j \in 1 .. i : j \in DOMAIN notices[n]
  BY <1>1
<1>3. \A j \in 1 .. i : /\ [notices[n][j] EXCEPT !.for = None] \in Note
                        /\ [notices[n][j] EXCEPT !.for = None].for = None
  BY <1>1, <1>2, NoCaller
<1> DEFINE s == [j \in 1 .. i |-> [notices[n][j] EXCEPT !.for = None]]
<1> HIDE DEF Note
<1>4. s \in [1 .. i -> Note] /\ DOMAIN s = 1 .. i
  BY <1>3
<1>5. \A j \in 1 .. i : s[j].for = None
  BY <1>3
<1> HIDE DEF s
<1>6. s \in Seq(Note)
  BY <1>2, <1>4, SeqDef
<1> QED
  BY <1>4, <1>5, <1>6 DEF s

LEMMA CrashStep ==
  ASSUME IInv, NEW n \in Node, Crash(n)
  PROVE  IInv'
<1>0. /\ TypeOK /\ FlowOK /\ CallersWait /\ MarkExact
      /\ up' = [up EXCEPT ![n] = FALSE]
      /\ users' = [users EXCEPT ![n] = {}]
      /\ logins' = {l \in logins : l.node # n}
      /\ flow' = [c \in Conn |->
           IF Callee(c) # n \/ flow[c].st = "done" THEN flow[c]
           ELSE IF flow[c].st \in Kicking THEN [flow[c] EXCEPT !.st = "kickfailed"]
           ELSE Idle]
      /\ user_login' = user_login \
           {flow[c].key : c \in {d \in Conn : flow[d].st # "idle" /\ flow'[d] = Idle}}
      /\ UNCHANGED << dbvars, user_online, internal_id >>
  BY DEF IInv, Crash
<1>1. PICK i \in 0 .. IF world = "late" THEN Len(notices[n]) ELSE 0 :
        notices' = [notices EXCEPT ![n] =
          [j \in 1 .. i |-> [notices[n][j] EXCEPT !.for = None]]]
  BY DEF Crash
<1>2. /\ notices'[n] \in Seq(Note) /\ \A j \in DOMAIN notices'[n] : notices'[n][j].for = None
      /\ \A o \in Node \ {n} : notices'[o] = notices[o]
  <2>1. Len(notices[n]) \in Nat
    BY <1>0, NoteType
  <2>2. i \in 0 .. Len(notices[n])
    BY <2>1
  <2>3. /\ notices'[n] = [j \in 1 .. i |-> [notices[n][j] EXCEPT !.for = None]]
        /\ \A o \in Node \ {n} : notices'[o] = notices[o]
    BY <1>0, <1>1 DEF TypeOK
  <2> QED
    BY <1>0, <2>2, <2>3, CutNotes
<1>3. notices' \in [Node -> Seq([key : Key, for : Conn \cup {None}])]
  BY <1>0, <1>1, <1>2 DEF Note, TypeOK
<1>4. n # None
  BY NoneAssumption
<1>5. ASSUME NEW d \in Conn
      PROVE  \/ flow'[d] = flow[d] /\ (flow[d].st # "done" => Callee(d) # n)
             \/ /\ flow[d].st \in Kicking /\ flow[d].last.server = n
                /\ flow'[d] = [flow[d] EXCEPT !.st = "kickfailed"]
             \/ /\ flow[d].st \in {"login", "loggingin"} /\ flow[d].node = n
                /\ flow'[d] = Idle
  BY <1>0, <1>4 DEF Callee
<1>6. ASSUME NEW d \in Conn
      PROVE  /\ flow'[d] \in Flow
             /\ flow'[d].st \notin {"idle", "nextid"} => flow'[d].key \in Key
             /\ flow'[d].st # "idle" => flow'[d].token \in Token /\ flow'[d].node \in Node
             /\ flow'[d].st \in Kicking => flow'[d].last.server \in Node
             /\ flow'[d].st \in {"kickwait", "notify"} => up'[flow'[d].last.server]
             /\ flow'[d].st = "loggingin" => up'[flow'[d].node]
  <2>1. flow[d] \in Flow
    BY <1>0 DEF FlowOK
  <2>2. CASE flow'[d] = flow[d] /\ (flow[d].st # "done" => Callee(d) # n)
    BY <1>0, <2>1, <2>2 DEF FlowOK, TypeOK, Callee, Kicking
  <2>3. CASE flow[d].st \in Kicking /\ flow'[d] = [flow[d] EXCEPT !.st = "kickfailed"]
    <3>1. /\ flow'[d] \in Flow /\ flow'[d].st = "kickfailed" /\ flow'[d].key = flow[d].key
          /\ flow'[d].token = flow[d].token /\ flow'[d].node = flow[d].node
      BY <2>1, <2>3 DEF Flow, States
    <3> QED
      BY <1>0, <2>3, <3>1 DEF FlowOK, TypeOK, Kicking
  <2>4. CASE flow'[d] = Idle
    BY <2>4 DEF Idle, Flow, States, Last0, Kicking
  <2> QED
    BY <1>5, <2>2, <2>3, <2>4
<1>7. FlowOK'
  BY <1>0, <1>6 DEF FlowOK
<1>8. TypeOK'
  BY <1>0, <1>3, <1>6 DEF TypeOK, dbvars
<1>9. CallersWait'
  <2>1. ASSUME NEW o \in Node, NEW k \in DOMAIN notices'[o], notices'[o][k].for # None
        PROVE  LET m == notices'[o][k] IN
                 /\ up'[o]
                 /\ flow'[m.for].st = "notify" /\ flow'[m.for].key = m.key
                 /\ flow'[m.for].last.server = o
                 /\ \A j \in DOMAIN notices'[o] : notices'[o][j].for = m.for => k = j
    <3>1. o # n /\ notices'[o] = notices[o] /\ notices[o][k].for \in Conn
      BY <1>0, <1>2, <2>1, NoteType DEF Note
    <3>2. LET m == notices[o][k] IN
            /\ up[o]
            /\ flow[m.for].st = "notify" /\ flow[m.for].key = m.key
            /\ flow[m.for].last.server = o
            /\ \A j \in DOMAIN notices[o] : notices[o][j].for = m.for => k = j
      BY <1>0, <2>1, <3>1 DEF CallersWait
    <3>3. flow'[notices[o][k].for] = flow[notices[o][k].for] /\ up'[o]
      BY <1>0, <1>5, <3>1, <3>2 DEF TypeOK
    <3> QED
      BY <3>1, <3>2, <3>3
  <2>2. ASSUME NEW p \in logins', p.for # None
        PROVE  /\ up'[p.node]
               /\ flow'[p.for].st = "loggingin" /\ flow'[p.for].key = p.key
               /\ flow'[p.for].node = p.node
               /\ \A m \in logins' : m.for = p.for => m = p
    <3>1. p \in logins /\ p.node # n /\ p.for \in Conn /\ p.node \in Node
      BY <1>0, <2>2 DEF TypeOK
    <3>2. /\ up[p.node] /\ flow[p.for].st = "loggingin" /\ flow[p.for].key = p.key
          /\ flow[p.for].node = p.node
          /\ \A m \in logins : m.for = p.for => m = p
      BY <1>0, <2>2, <3>1 DEF CallersWait
    <3>3. flow'[p.for] = flow[p.for] /\ up'[p.node]
      BY <1>0, <1>5, <3>1, <3>2 DEF TypeOK, Kicking
    <3> QED
      BY <1>0, <3>2, <3>3
  <2> QED
    BY <2>1, <2>2 DEF CallersWait
<1>10. MarkExact'
  <2>1. ASSUME NEW d \in Conn
        PROVE  /\ Admitted(d)' <=> Admitted(d) /\ flow'[d] # Idle
               /\ Admitted(d)' => flow'[d].key = flow[d].key
               /\ flow[d].st # "idle" /\ flow'[d] = Idle => Admitted(d)
    <3>0. Idle.st = "idle" /\ flow[d] \in Flow
      BY <1>0 DEF Idle, FlowOK
    <3>1. CASE flow'[d] = flow[d]
      BY <3>0, <3>1 DEF Admitted
    <3>2. CASE flow[d].st \in Kicking /\ flow'[d] = [flow[d] EXCEPT !.st = "kickfailed"]
      <4>1. flow'[d].st = "kickfailed" /\ flow'[d].key = flow[d].key
        BY <3>0, <3>2 DEF Flow
      <4> QED
        BY <3>0, <3>2, <4>1 DEF Admitted, Kicking
    <3>3. CASE flow[d].st \in {"login", "loggingin"} /\ flow'[d] = Idle
      BY <3>0, <3>3 DEF Admitted
    <3> QED
      BY <1>5, <3>1, <3>2, <3>3
  <2>2. \A d \in Conn : flow[d].st # "idle" /\ flow'[d] = Idle <=> Admitted(d) /\ flow'[d] = Idle
    BY <2>1 DEF Admitted
  <2>3. user_login' = user_login \ {flow[c].key : c \in {d \in Conn : Admitted(d) /\ flow'[d] = Idle}}
    BY <1>0, <2>2
  <2>4. \A c, d \in Conn : Admitted(c) /\ Admitted(d) /\ flow[c].key = flow[d].key => c = d
    BY <1>0 DEF MarkExact
  <2>5. (\A c, d \in Conn : Admitted(c) /\ Admitted(d) /\ flow[c].key = flow[d].key => c = d)'
    BY <2>1, <2>4
  <2>6. \A k : k \in user_login <=> \E d \in Conn : Admitted(d) /\ flow[d].key = k
    BY <1>0 DEF MarkExact
  <2>7. \A k : k \in user_login' <=> \E d \in Conn : Admitted(d)' /\ flow'[d].key = k
    BY <2>1, <2>3, <2>4, <2>6
  <2>8. user_login' = {flow'[c].key : c \in {d \in Conn : Admitted(d)'}}
    BY <2>7
  <2> QED
    BY <2>5, <2>8 DEF MarkExact
<1> QED
  BY <1>7, <1>8, <1>9, <1>10 DEF IInv

LEMMA StutterStep == IInv /\ UNCHANGED vars => IInv'
<1> SUFFICES ASSUME IInv, UNCHANGED vars PROVE IInv'
  OBVIOUS
<1>1. TypeOK'
  BY DEF IInv, TypeOK, vars, dbvars, gatevars
<1>2. FlowOK'
  BY DEF IInv, FlowOK, vars, dbvars, gatevars
<1>3. CallersWait'
  BY DEF IInv, CallersWait, vars, dbvars, gatevars
<1>4. MarkExact'
  BY DEF IInv, MarkExact, Admitted, vars, dbvars, gatevars
<1> QED
  BY <1>1, <1>2, <1>3, <1>4 DEF IInv

LEMMA InvStep == IInv /\ [Next]_vars => IInv'
BY AuthGetStep, RegisterIdStep, RegisterAddStep, AcceptStep, AfterKickStep, LoginDoneStep,
   NoticeStep, KickStep, KickLogoutStep, IdleLogoutStep, LoginCallStep, LoginReturnStep,
   CallDownStep, RestartStep, CallLostStep, CrashStep, StutterStep DEF Next, Handler, Step

(* login_server.lua, gated.lua: types, callers and marks are kept by every   *)
(* step, whatever crashes, is lost or comes late.                           *)
THEOREM Inductive == Spec => []IInv
BY InitIInv, InvStep, PTL DEF Spec

(* login_server.lua:145-157: for any accounts, nodes and connections a uid   *)
(* is marked exactly while one login of it is under way.                    *)
THEOREM MarksExact == Spec => []MarkExact
BY Inductive, PTL DEF IInv

-----------------------------------------------------------------------------
(***************************************************************************)
(* One session per account over all game nodes, when nodes crash and restart *)
(* at any moment, what a node sent is lost with it, and no two login_handlers *)
(* of one gate overlap.  Overlapping logins do break it (they return each     *)
(* other's subid, see the run of SingleSession with two accounts); those of   *)
(* one account never overlap.                                               *)
(***************************************************************************)

(* At most one login_handler yields on each gate.                           *)
LoginsApart == \A l, m \in logins : l.node = m.node => l = m

(* The accounts have rows: a connection's uid is that of its account.        *)
Registered ==
  world # "register" =>
    /\ \A t \in Token : row[t] # 0
    /\ \A c \in Conn : flow[c].st # "idle" =>
         /\ flow[c].st \notin {"nextid", "add"}
         /\ flow[c].key = [uid |-> row[flow[c].token], type |-> "string"]

(* A crash takes with it all that the node did; a login_handler that yields  *)
(* has a caller and drew the last internal_id; uids are strings.             *)
NodesOK ==
  /\ \A n \in Node : ~up[n] =>
       users[n] = {} /\ notices[n] = << >> /\ \A l \in logins : l.node # n
  /\ \A l \in logins : l.for \in Conn /\ l.name = internal_id[l.node]
  /\ \A n \in Node : \A s \in users[n] : s.key.type = "string"

(* The entry of the login master is what a kick was sent for, or gone, and   *)
(* gone while a login is under way.                                         *)
EntryKept ==
  \A c \in Conn :
    /\ flow[c].st \in Kicking \cup {"kicked"} =>
         user_online[flow[c].key] \in {None, flow[c].last}
    /\ flow[c].st \in {"login", "loggingin", "done"} => user_online[flow[c].key] = None

\* No node has a session of key k, node n has told nothing of it.
Absent(k) == \A n \in Node : \A s \in users[n] : s.key # k
Untold(n, k) == \A i \in DOMAIN notices[n] : notices[n][i].key # k
Silent(k) == Absent(k) /\ \A n \in Node : Untold(n, k)

(* No session is left, and no logout call that would make the login master   *)
(* forget the next one, when a login goes to a gate.                        *)
LoginIsSilent ==
  \A c \in Conn : flow[c].st \in {"kickfailed", "login", "loggingin"} => Silent(flow[c].key)

\* The login master, or the kick or login under way, names n for key k.
Names(n, k) ==
  \/ user_online[k] # None /\ user_online[k].server = n
  \/ \E c \in Conn : flow[c].st = "notify" /\ flow[c].key = k /\ flow[c].last.server = n
  \/ \E c \in Conn : flow[c].st = "done" /\ flow[c].key = k /\ flow[c].node = n

(* A logout call comes after the session it is about has gone, from the one  *)
(* node that the login master takes it for; only that of a kick comes after  *)
(* another one for the same uid.                                            *)
NoticesLate ==
  \A n \in Node : \A i \in DOMAIN notices[n] :
    /\ Absent(notices[n][i].key)
    /\ Names(n, notices[n][i].key)
    /\ \A j \in DOMAIN notices[n] :
         i < j /\ notices[n][j].key = notices[n][i].key => notices[n][j].for # None

(* The login master knows each session, or is about to be told: SessionKnown *)
(* without its condition on the world.                                      *)
Known ==
  \A n \in Node : \A s \in users[n] :
    \/ user_online[s.key] = [server |-> n, subid |-> s.name]
    \/ \E c \in Conn : flow[c].st = "done" /\ flow[c].key = s.key
                       /\ flow[c].node = n /\ flow[c].subid = s.name

SInv == Known /\ LoginIsSilent /\ NoticesLate

CInv == Registered /\ (world = "crash" => NodesOK /\ EntryKept /\ SInv)

-----------------------------------------------------------------------------
(* What holds of a uid in any state of the invariant.                       *)

LEMMA OneHolder ==
  ASSUME IInv, NEW c \in Conn, NEW d \in Conn, Admitted(c), Admitted(d),
         flow[c].key = flow[d].key
  PROVE  c = d
BY DEF IInv, MarkExact

(* Nothing is left of a uid that the login master does not know.            *)
LEMMA UnknownIsSilent ==
  ASSUME IInv, SInv, NEW k, user_online[k] = None,
         \A d \in Conn : flow[d].key = k => flow[d].st \notin {"notify", "done"}
  PROVE  Silent(k)
<1>1. Absent(k)
  <2> SUFFICES ASSUME NEW n \in Node, NEW s \in users[n], s.key = k PROVE FALSE
    BY DEF Absent
  <2>1. s.name \in Nat
    BY DEF IInv, TypeOK
  <2>2. user_online[k] # [server |-> n, subid |-> s.name]
    BY <2>1, NoneAssumption
  <2>3. user_online[s.key] # [server |-> n, subid |-> s.name]
    BY <2>2
  <2>4. PICK d \in Conn : flow[d].st = "done" /\ flow[d].key = s.key
    BY <2>3 DEF SInv, Known
  <2> QED
    BY <2>4
<1>2. \A n \in Node : Untold(n, k)
  BY DEF SInv, NoticesLate, Names, Untold
<1> QED
  BY <1>1, <1>2 DEF Silent

(* While a uid is being kicked, all that is left of it is on the node the    *)
(* kick goes to.                                                            *)
LEMMA KickGoesHome ==
  ASSUME IInv, EntryKept, SInv, NEW c \in Conn, flow[c].st \in Kicking
  PROVE  /\ \A n \in Node : \A s \in users[n] : s.key = flow[c].key =>
              /\ n = flow[c].last.server /\ s.name = flow[c].last.subid
              /\ user_online[flow[c].key] = flow[c].last
         /\ \A n \in Node : ~Untold(n, flow[c].key) => n = flow[c].last.server
<1> DEFINE k == flow[c].key
<1>1. Admitted(c) /\ user_online[k] \in {None, flow[c].last}
  BY DEF Kicking, Admitted, EntryKept
<1>2. \A d \in Conn : Admitted(d) /\ flow[d].key = k => d = c
  BY <1>1, OneHolder
<1>3. \A d \in Conn : flow[d].key = k => flow[d].st # "done"
  BY <1>2 DEF Kicking, Admitted
<1>4. ASSUME NEW n \in Node, NEW s \in users[n], s.key = k
      PROVE  n = flow[c].last.server /\ s.name = flow[c].last.subid /\ user_online[k] = flow[c].last
  <2>1. s.name \in Nat
    BY DEF IInv, TypeOK
  <2>2. user_online[k] = [server |-> n, subid |-> s.name]
    BY <1>3, <1>4 DEF SInv, Known
  <2>3. user_online[k] = flow[c].last
    BY <1>1, <2>1, <2>2, NoneAssumption
  <2> QED
    BY <2>2, <2>3
<1>5. ASSUME NEW n \in Node, ~Untold(n, k) PROVE n = flow[c].last.server
  <2>1. Names(n, k)
    BY <1>5 DEF SInv, NoticesLate, Untold
  <2>2. CASE user_online[k] # None /\ user_online[k].server = n
    BY <1>1, <2>2
  <2>3. CASE \E d \in Conn : flow[d].st = "notify" /\ flow[d].key = k /\ flow[d].last.server = n
    BY <1>2, <2>3 DEF Admitted
  <2> QED
    BY <1>3, <2>1, <2>2, <2>3 DEF Names
<1> QED
  BY <1>4, <1>5

(* There is one session of a uid at most.                                   *)
LEMMA KnownIsOne ==
  ASSUME IInv, EntryKept, Known,
         NEW m \in Node, NEW n \in Node, NEW s \in users[m], NEW t \in users[n],
         s.key = t.key
  PROVE  m = n /\ s = t
<1>1. /\ s.name \in Nat /\ t.name \in Nat
      /\ s = [key |-> s.key, name |-> s.name] /\ t = [key |-> t.key, name |-> t.name]
  BY DEF IInv, TypeOK
<1>2. ASSUME NEW d \in Conn, flow[d].st = "done" PROVE user_online[flow[d].key] = None
  BY <1>2 DEF EntryKept
<1>3. CASE user_online[s.key] = [server |-> m, subid |-> s.name]
  <2>1. user_online[s.key] # None
    BY <1>1, <1>3, NoneAssumption
  <2>2. user_online[t.key] = [server |-> n, subid |-> t.name]
    BY <1>2, <2>1 DEF Known
  <2>3. m = n /\ s.name = t.name
    BY <1>3, <2>2
  <2> QED
    BY <1>1, <2>3
<1>4. CASE \E d \in Conn : flow[d].st = "done" /\ flow[d].key = s.key
                           /\ flow[d].node = m /\ flow[d].subid = s.name
  <2>1. PICK d \in Conn : flow[d].st = "done" /\ flow[d].key = s.key
                          /\ flow[d].node = m /\ flow[d].subid = s.name
    BY <1>4
  <2>2. user_online[t.key] = None
    BY <1>2, <2>1
  <2>3. user_online[t.key] # [server |-> n, subid |-> t.name]
    BY <1>1, <2>2, NoneAssumption
  <2>4. PICK e \in Conn : flow[e].st = "done" /\ flow[e].key = t.key
                          /\ flow[e].node = n /\ flow[e].subid = t.name
    BY <2>3 DEF Known
  <2>5. d = e
    BY <2>1, <2>4, OneHolder DEF Admitted
  <2> QED
    BY <1>1, <2>1, <2>4, <2>5
<1> QED
  BY <1>3, <1>4 DEF Known

-----------------------------------------------------------------------------
(* What a step of one connection leaves alone.                              *)

LEMMA RegisteredKept ==
  ASSUME Registered, UNCHANGED << row, world >>,
         \A d \in Conn : \/ flow'[d] = flow[d]
                         \/ flow'[d].st = "idle"
                         \/ /\ flow[d].st # "idle" /\ flow'[d].st \notin {"nextid", "add"}
                            /\ flow'[d].key = flow[d].key /\ flow'[d].token = flow[d].token
  PROVE  Registered'
BY DEF Registered

\* What c needs for EntryKept after the step
EntryFor(c) ==
  /\ flow'[c].st \in Kicking \cup {"kicked"} =>
       user_online'[flow'[c].key] \in {None, flow'[c].last}
  /\ flow'[c].st \in {"login", "loggingin", "done"} => user_online'[flow'[c].key] = None

LEMMA EntryFrame ==
  ASSUME EntryKept, NEW c \in Conn, OthersKept(c), EntryFor(c), UNCHANGED user_online
  PROVE  EntryKept'
BY DEF EntryKept, EntryFor, OthersKept

LEMMA EntryChange ==
  ASSUME IInv, EntryKept, NEW c \in Conn, OthersKept(c), EntryFor(c), Admitted(c),
         NEW v, user_online' = [user_online EXCEPT ![flow[c].key] = v]
  PROVE  EntryKept'
<1>1. \A d \in Conn \ {c} : Admitted(d) => flow[d].key # flow[c].key
  BY OneHolder
<1>2. user_online \in [Key -> [server : Node, subid : Nat] \cup {None}]
  BY DEF IInv, TypeOK
<1>3. \A d \in Conn \ {c} : Admitted(d) => user_online'[flow[d].key] = user_online[flow[d].key]
  <2> SUFFICES ASSUME NEW d \in Conn \ {c}, Admitted(d)
               PROVE  user_online'[flow[d].key] = user_online[flow[d].key]
    OBVIOUS
  <2>1. flow[d].key \in Key /\ flow[d].key # flow[c].key
    BY <1>1 DEF IInv, TypeOK, Admitted
  <2> QED
    BY <1>2, <2>1
<1>4. \A d \in Conn \ {c} : flow'[d] = flow[d]
  BY DEF OthersKept
<1> QED
  BY <1>3, <1>4 DEF EntryKept, EntryFor, Kicking, Admitted

(* A step that moves one connection, which owed the login master nothing,    *)
(* and touches neither the gates nor what they told.                        *)
LEMMA QuietMove ==
  ASSUME SInv, NEW c \in Conn, OthersKept(c), UNCHANGED << users, notices, user_online >>,
         flow[c].st \notin {"notify", "done"},
         flow'[c].st \in {"kickfailed", "login", "loggingin"} => Silent(flow'[c].key)
  PROVE  SInv'
<1>0. \A d \in Conn \ {c} : flow'[d] = flow[d]
  BY DEF OthersKept
<1>1. Known'
  <2> SUFFICES ASSUME NEW n \in Node, NEW s \in users[n],
                      user_online[s.key] # [server |-> n, subid |-> s.name]
               PROVE  \E d \in Conn : flow'[d].st = "done" /\ flow'[d].key = s.key
                                      /\ flow'[d].node = n /\ flow'[d].subid = s.name
    BY DEF Known
  <2> QED
    BY <1>0 DEF SInv, Known
<1>2. LoginIsSilent'
  BY <1>0 DEF SInv, LoginIsSilent, Silent, Absent, Untold
<1>3. ASSUME NEW n \in Node, NEW k, Names(n, k) PROVE Names(n, k)'
  BY <1>0, <1>3 DEF Names
<1>4. NoticesLate'
  BY <1>3 DEF SInv, NoticesLate, Absent
<1> QED
  BY <1>1, <1>2, <1>4 DEF SInv

(* Registered, step by step.                                                *)
LEMMA RegisteredStep == IInv /\ Registered /\ Next => Registered'
<1> SUFFICES ASSUME IInv, Registered, Handler, UNCHANGED world PROVE Registered'
  BY DEF Next
<1> USE DEF dbvars, gatevars
<1>0. /\ TypeOK /\ FlowOK /\ CallersWait
      /\ \A d \in Conn : flow[d] \in Flow
  BY DEF IInv, FlowOK
<1>1. ASSUME NEW c \in Conn, NEW s \in States \ {"idle", "nextid", "add"}, flow[c].st # "idle",
             flow' = [flow EXCEPT ![c].st = s], UNCHANGED row
      PROVE  Registered'
  <2>1. /\ \A d \in Conn \ {c} : flow'[d] = flow[d]
        /\ flow'[c].st = s /\ flow'[c].key = flow[c].key /\ flow'[c].token = flow[c].token
    BY <1>0, <1>1 DEF FlowOK, Flow
  <2> QED
    BY <1>1, <2>1, RegisteredKept
<1>2. ASSUME NEW c \in Conn, flow' = [flow EXCEPT ![c] = Idle], UNCHANGED row
      PROVE  Registered'
  <2>1. (\A d \in Conn \ {c} : flow'[d] = flow[d]) /\ flow'[c].st = "idle"
    BY <1>0, <1>2 DEF FlowOK, Idle
  <2> QED
    BY <1>2, <2>1, RegisteredKept
<1>3. ASSUME flow' = flow, UNCHANGED row PROVE Registered'
  BY <1>3, RegisteredKept
<1>4. ASSUME NEW c \in Conn, AuthGet(c) PROVE Registered'
  <2>1. PICK tk \in Token, n \in Node : flow' = [flow EXCEPT ![c] =
            [Idle EXCEPT !.st = IF row[tk] = 0 THEN "nextid" ELSE "accept",
               !.token = tk, !.node = n,
               !.key = IF row[tk] = 0 THEN None
                       ELSE [uid |-> row[tk], type |-> "string"]]]
    BY <1>4 DEF AuthGet
  <2>2. UNCHANGED row
    BY <1>4 DEF AuthGet
  <2> SUFFICES ASSUME world # "register" PROVE Registered'
    BY DEF Registered
  <2>3. row[tk] # 0
    BY DEF Registered
  <2>4. /\ \A d \in Conn \ {c} : flow'[d] = flow[d]
        /\ flow'[c].st = "accept" /\ flow'[c].token = tk
        /\ flow'[c].key = [uid |-> row[tk], type |-> "string"]
    BY <1>0, <2>1, <2>3 DEF FlowOK, Idle
  <2> QED
    BY <2>2, <2>4 DEF Registered
<1>5. ASSUME NEW c \in Conn, RegisterId(c) \/ RegisterAdd(c) PROVE Registered'
  BY <1>5 DEF RegisterId, RegisterAdd, Registered
<1>6. ASSUME NEW c \in Conn, Accept(c) PROVE Registered'
  <2>1. CASE flow' = [flow EXCEPT ![c] = Idle]
    BY <1>2, <1>6, <2>1 DEF Accept
  <2>2. ASSUME NEW s \in {"login", "kick"}, NEW y,
               flow[c].st = "accept", flow' = [flow EXCEPT ![c].st = s, ![c].last = y]
        PROVE  Registered'
    <3>1. /\ \A d \in Conn \ {c} : flow'[d] = flow[d]
          /\ flow'[c].st = s /\ flow'[c].key = flow[c].key /\ flow'[c].token = flow[c].token
      BY <1>0, <2>2 DEF FlowOK, Flow
    <3>2. UNCHANGED row
      BY <1>6 DEF Accept
    <3> QED
      BY <2>2, <3>1, <3>2, RegisteredKept
  <2> QED
    BY <1>6, <2>1, <2>2 DEF Accept
<1>7. ASSUME NEW c \in Conn, AfterKick(c) PROVE Registered'
  BY <1>1, <1>2, <1>7 DEF AfterKick, Finish, States
<1>8. ASSUME NEW c \in Conn, LoginDone(c) PROVE Registered'
  BY <1>2, <1>8 DEF LoginDone, Finish
<1>9. ASSUME NEW c \in Conn, Kick(c) PROVE Registered'
  BY <1>1, <1>9 DEF Kick, States
<1>10. ASSUME NEW c \in Conn, KickLogout(c) PROVE Registered'
  BY <1>1, <1>10 DEF KickLogout, States
<1>11. ASSUME NEW c \in Conn, LoginCall(c) PROVE Registered'
  BY <1>1, <1>2, <1>11 DEF LoginCall, Finish, States
<1>12. ASSUME NEW c \in Conn, CallDown(c) \/ CallLost(c) PROVE Registered'
  <2>1. CallFails(c) /\ UNCHANGED row
    BY <1>12 DEF CallDown, CallLost, CallFails
  <2> QED
    BY <1>1, <1>2, <2>1 DEF CallFails, Finish, States, Kicking
<1>13. ASSUME NEW l \in logins, LoginReturn(l) PROVE Registered'
  <2>1. CASE l.for = None
    BY <1>3, <1>13, <2>1 DEF LoginReturn
  <2>2. CASE l.for # None
    <3>1. l.for \in Conn /\ flow[l.for].st = "loggingin"
      BY <1>0, <2>2 DEF TypeOK, CallersWait
    <3>2. /\ flow' = [flow EXCEPT ![l.for].st = "done", ![l.for].subid = internal_id[l.node]]
          /\ UNCHANGED row
      BY <1>13, <2>2 DEF LoginReturn
    <3>3. /\ \A d \in Conn \ {l.for} : flow'[d] = flow[d]
          /\ flow'[l.for].st = "done" /\ flow'[l.for].key = flow[l.for].key
          /\ flow'[l.for].token = flow[l.for].token
      BY <1>0, <3>1, <3>2 DEF FlowOK, Flow
    <3> QED
      BY <3>1, <3>2, <3>3, RegisteredKept
  <2> QED
    BY <2>1, <2>2
<1>14. ASSUME NEW n \in Node, Notice(n) PROVE Registered'
  <2>1. /\ Head(notices[n]) \in Note
        /\ Head(notices[n]).for # None => flow[Head(notices[n]).for].st = "notify"
    <3>1. notices[n] # << >> /\ notices[n] \in Seq(Note)
      BY <1>0, <1>14, NoteType DEF Notice
    <3>2. Head(notices[n]) = notices[n][1] /\ 1 \in DOMAIN notices[n]
      <4> HIDE DEF Note
      <4> QED
        BY <3>1
    <3> QED
      BY <1>0, <3>2, NoteType DEF CallersWait
  <2>2. CASE Head(notices[n]).for = None
    BY <1>3, <1>14, <2>2 DEF Notice
  <2>3. CASE Head(notices[n]).for # None
    <3>1. Head(notices[n]).for \in Conn
      BY <2>1, <2>3 DEF Note
    <3> QED
      BY <1>1, <1>14, <2>1, <2>3, <3>1 DEF Notice, States
  <2> QED
    BY <2>2, <2>3
<1>15. ASSUME NEW n \in Node, Crash(n) PROVE Registered'
  <2>1. /\ UNCHANGED row
        /\ \A d \in Conn : \/ flow'[d] = flow[d]
                           \/ flow[d].st \in Kicking /\ flow'[d] = [flow[d] EXCEPT !.st = "kickfailed"]
                           \/ flow'[d] = Idle
    BY <1>15 DEF Crash
  <2>2. ASSUME NEW d \in Conn
        PROVE  \/ flow'[d] = flow[d]
               \/ flow'[d].st = "idle"
               \/ /\ flow[d].st # "idle" /\ flow'[d].st \notin {"nextid", "add"}
                  /\ flow'[d].key = flow[d].key /\ flow'[d].token = flow[d].token
    <3>1. CASE flow[d].st \in Kicking /\ flow'[d] = [flow[d] EXCEPT !.st = "kickfailed"]
      <4>1. /\ flow'[d].st = "kickfailed"
            /\ flow'[d].key = flow[d].key /\ flow'[d].token = flow[d].token
        BY <1>0, <3>1 DEF Flow
      <4> QED
        BY <3>1, <4>1 DEF Kicking
    <3>2. CASE flow'[d] = Idle
      BY <3>2 DEF Idle
    <3> QED
      BY <2>1, <3>1, <3>2
  <2> QED
    BY <2>1, <2>2, RegisteredKept
<1>16. ASSUME NEW n \in Node, Restart(n) PROVE Registered'
  BY <1>3, <1>16 DEF Restart
<1>17. ASSUME NEW n \in Node, NEW s \in users[n], IdleLogout(n, s) PROVE Registered'
  BY <1>3, <1>17 DEF IdleLogout
<1> QED
  BY <1>4, <1>5, <1>6, <1>7, <1>8, <1>9, <1>10, <1>11, <1>12, <1>13, <1>14, <1>15, <1>16, <1>17
     DEF Handler, Step

-----------------------------------------------------------------------------
(* The other three parts, where nodes crash and nothing else goes wrong.     *)

Crashing == world = "crash" /\ NodesOK /\ EntryKept /\ SInv

LEMMA NodesFrame ==
  ASSUME NodesOK, UNCHANGED << up, users, notices, logins, internal_id >>
  PROVE  NodesOK'
BY DEF NodesOK

LEMMA AuthGetSession ==
  ASSUME IInv, Crashing, NEW c \in Conn,
         AuthGet(c) \/ RegisterId(c) \/ RegisterAdd(c)
  PROVE  NodesOK' /\ EntryKept' /\ SInv'
<1>1. UNCHANGED << up, users, notices, logins, internal_id, user_online >>
  BY DEF AuthGet, RegisterId, RegisterAdd, gatevars
<1>2. /\ OthersKept(c) /\ flow[c].st \in {"idle", "nextid", "add"}
      /\ flow'[c].st \in {"nextid", "accept", "add"}
  <2>1. \A d \in Conn : flow[d] \in Flow
    BY DEF IInv, FlowOK
  <2>2. flow \in [Conn -> Flow]
    BY DEF IInv, FlowOK
  <2>3. CASE AuthGet(c)
    <3>1. PICK tk \in Token, n \in Node : flow' = [flow EXCEPT ![c] =
            [Idle EXCEPT !.st = IF row[tk] = 0 THEN "nextid" ELSE "accept",
               !.token = tk, !.node = n,
               !.key = IF row[tk] = 0 THEN None
                       ELSE [uid |-> row[tk], type |-> "string"]]]
      BY <2>3 DEF AuthGet
    <3> QED
      BY <2>2, <2>3, <3>1 DEF AuthGet, Idle, OthersKept
  <2>4. CASE RegisterId(c)
    BY <2>1, <2>2, <2>4 DEF RegisterId, OthersKept, Flow
  <2>5. CASE RegisterAdd(c)
    BY <2>1, <2>2, <2>5 DEF RegisterAdd, OthersKept, Flow
  <2> QED
    BY <2>3, <2>4, <2>5
<1>3. NodesOK'
  BY <1>1, NodesFrame DEF Crashing
<1>4. EntryKept'
  BY <1>1, <1>2, EntryFrame DEF Crashing, EntryFor, Kicking
<1>5. SInv'
  BY <1>1, <1>2, QuietMove DEF Crashing
<1> QED
  BY <1>3, <1>4, <1>5

(* accept(): a uid that is not marked and not known has left nothing.       *)
LEMMA AcceptSession ==
  ASSUME IInv, Crashing, NEW c \in Conn, Accept(c)
  PROVE  NodesOK' /\ EntryKept' /\ SInv'
<1> DEFINE k == flow[c].key
<1>0. /\ TypeOK /\ FlowOK /\ MarkExact /\ flow[c].st = "accept" /\ k \in Key /\ flow[c] \in Flow
      /\ UNCHANGED << up, users, notices, logins, internal_id, user_online >>
  BY DEF IInv, Accept, gatevars, TypeOK, FlowOK
<1>1. NodesOK'
  BY <1>0, NodesFrame DEF Crashing
<1>2. CASE flow' = [flow EXCEPT ![c] = Idle] /\ UNCHANGED user_login
  <2>1. OthersKept(c) /\ flow'[c].st = "idle"
    BY <1>0, <1>2 DEF FlowOK, OthersKept, Idle
  <2> QED
    BY <1>0, <1>1, <2>1, EntryFrame, QuietMove DEF Crashing, EntryFor, Kicking
<1>3. CASE /\ k \notin user_login
           /\ flow' = [flow EXCEPT
               ![c].st = IF user_online[k] = None THEN "login" ELSE "kick",
               ![c].last = IF user_online[k] = None THEN @ ELSE user_online[k]]
  <2>1. \A d \in Conn : flow[d].key = k => flow[d].st \notin {"notify", "done"}
    BY <1>0, <1>3 DEF MarkExact, Admitted
  <2>2. CASE user_online[k] = None
    <3>1. Silent(k)
      BY <2>1, <2>2, UnknownIsSilent DEF Crashing
    <3>2. OthersKept(c) /\ flow'[c].st = "login" /\ flow'[c].key = k
      BY <1>0, <1>3, <2>2 DEF FlowOK, OthersKept, Flow
    <3> QED
      BY <1>0, <1>1, <2>2, <3>1, <3>2, EntryFrame, QuietMove DEF Crashing, EntryFor, Kicking
  <2>3. CASE user_online[k] # None
    <3>1. OthersKept(c) /\ flow'[c].st = "kick" /\ flow'[c].key = k /\ flow'[c].last = user_online[k]
      BY <1>0, <1>3, <2>3 DEF FlowOK, OthersKept, Flow
    <3> QED
      BY <1>0, <1>1, <3>1, EntryFrame, QuietMove DEF Crashing, EntryFor, Kicking
  <2> QED
    BY <2>2, <2>3
<1> QED
  BY <1>2, <1>3 DEF Accept

(* The login_handler after the kick: either the user is still online, or     *)
(* nothing of it is left when the login goes on.                            *)
LEMMA AfterKickSession ==
  ASSUME IInv, Crashing, NEW c \in Conn, AfterKick(c)
  PROVE  NodesOK' /\ EntryKept' /\ SInv'
<1> DEFINE k == flow[c].key
           still == flow[c].st = "kicked" /\ user_online[k] # None
<1>0. /\ TypeOK /\ FlowOK /\ flow[c].st \in {"kicked", "kickfailed"} /\ k \in Key /\ flow[c] \in Flow
      /\ user_online' = [user_online EXCEPT ![k] = IF still THEN @ ELSE None]
      /\ UNCHANGED << up, users, notices, logins, internal_id >>
      /\ Admitted(c)
  BY DEF IInv, AfterKick, gatevars, TypeOK, FlowOK, Admitted
<1>1. NodesOK'
  BY <1>0, NodesFrame DEF Crashing
<1>2. CASE still
  <2>1. flow' = [flow EXCEPT ![c] = Idle]
    BY <1>2 DEF AfterKick, Finish
  <2>2. user_online' = user_online
    BY <1>0, <1>2 DEF TypeOK
  <2>3. OthersKept(c) /\ flow'[c].st = "idle"
    BY <1>0, <2>1 DEF FlowOK, OthersKept, Idle
  <2> QED
    BY <1>0, <1>1, <2>2, <2>3, EntryFrame, QuietMove DEF Crashing, EntryFor, Kicking
<1>3. CASE ~still
  <2>1. flow' = [flow EXCEPT ![c].st = "login"]
    BY <1>3 DEF AfterKick
  <2>2. user_online' = [user_online EXCEPT ![k] = None]
    BY <1>0, <1>3
  <2>3. OthersKept(c) /\ flow'[c].st = "login" /\ flow'[c].key = k
    BY <1>0, <2>1 DEF FlowOK, OthersKept, Flow
  <2>4. user_online'[k] = None /\ \A q \in Key : q # k => user_online'[q] = user_online[q]
    BY <1>0, <2>2 DEF TypeOK
  <2>5. Silent(k)
    <3>1. CASE flow[c].st = "kickfailed"
      BY <3>1 DEF Crashing, SInv, LoginIsSilent
    <3>2. CASE flow[c].st = "kicked"
      <4>1. user_online[k] = None
        BY <1>3, <3>2
      <4>2. \A d \in Conn : flow[d].key = k => flow[d].st \notin {"notify", "done"}
        BY <1>0, <3>2, OneHolder DEF Admitted
      <4> QED
        BY <4>1, <4>2, UnknownIsSilent DEF Crashing
    <3> QED
      BY <1>0, <3>1, <3>2
  <2>6. EntryKept'
    BY <1>0, <2>2, <2>3, <2>4, EntryChange DEF Crashing, EntryFor, Kicking
  <2>7. \A n \in Node : \A s \in users[n] : s.key \in Key /\ s.key # k
    BY <1>0, <2>5 DEF Silent, Absent, TypeOK
  <2>8. \A n \in Node : \A i \in DOMAIN notices[n] : notices[n][i].key \in Key /\ notices[n][i].key # k
    BY <1>0, <2>5, NoteType DEF Silent, Untold, Note
  <2>9. \A d \in Conn \ {c} : flow'[d] = flow[d]
    BY <2>3 DEF OthersKept
  <2>10. Known'
    <3> SUFFICES ASSUME NEW n \in Node, NEW s \in users[n]
                 PROVE  \/ user_online'[s.key] = [server |-> n, subid |-> s.name]
                        \/ \E d \in Conn : flow'[d].st = "done" /\ flow'[d].key = s.key
                                           /\ flow'[d].node = n /\ flow'[d].subid = s.name
      BY <1>0 DEF Known
    <3>1. user_online'[s.key] = user_online[s.key]
      BY <2>4, <2>7
    <3>2. \A d \in Conn : flow[d].st = "done" => flow'[d] = flow[d]
      BY <1>0, <2>9
    <3> QED
      BY <3>1, <3>2 DEF Crashing, SInv, Known
  <2>11. LoginIsSilent'
    BY <1>0, <2>3, <2>5, <2>9 DEF Crashing, SInv, LoginIsSilent, Silent, Absent, Untold
  <2>12. ASSUME NEW n \in Node, NEW q \in Key, q # k, Names(n, q) PROVE Names(n, q)'
    BY <2>3, <2>4, <2>9, <2>12 DEF Names
  <2>13. NoticesLate'
    BY <1>0, <2>8, <2>12 DEF Crashing, SInv, NoticesLate, Absent
  <2> QED
    BY <1>1, <2>6, <2>10, <2>11, <2>13 DEF SInv
<1> QED
  BY <1>2, <1>3

(* The login master files what the gate answered.                           *)
LEMMA LoginDoneSession ==
  ASSUME IInv, Crashing, NEW c \in Conn, LoginDone(c)
  PROVE  NodesOK' /\ EntryKept' /\ SInv'
<1> DEFINE k == flow[c].key
           e == [server |-> flow[c].node, subid |-> flow[c].subid]
<1>0. /\ TypeOK /\ FlowOK /\ flow[c].st = "done" /\ k \in Key /\ flow[c] \in Flow
      /\ flow[c].node \in Node /\ flow[c].subid \in Nat
      /\ user_online' = [user_online EXCEPT ![k] = e]
      /\ flow' = [flow EXCEPT ![c] = Idle]
      /\ UNCHANGED << up, users, notices, logins, internal_id >>
      /\ Admitted(c)
  BY DEF IInv, LoginDone, Finish, gatevars, TypeOK, FlowOK, Flow, Admitted
<1>1. NodesOK'
  BY <1>0, NodesFrame DEF Crashing
<1>2. OthersKept(c) /\ flow'[c].st = "idle" /\ \A d \in Conn \ {c} : flow'[d] = flow[d]
  BY <1>0 DEF FlowOK, OthersKept, Idle
<1>3. e # None /\ e.server = flow[c].node /\ e.subid = flow[c].subid
  BY <1>0, NoneAssumption
<1> HIDE DEF e
<1>4. user_online'[k] = e /\ \A q \in Key : q # k => user_online'[q] = user_online[q]
  BY <1>0 DEF TypeOK
<1>5. EntryKept'
  BY <1>0, <1>2, EntryChange DEF Crashing, EntryFor, Kicking
<1>6. \A d \in Conn : flow[d].st = "done" /\ flow[d].key = k => d = c
  BY <1>0, OneHolder DEF Admitted
<1>7. Known'
  <2> SUFFICES ASSUME NEW n \in Node, NEW s \in users[n]
               PROVE  \/ user_online'[s.key] = [server |-> n, subid |-> s.name]
                      \/ \E d \in Conn : flow'[d].st = "done" /\ flow'[d].key = s.key
                                         /\ flow'[d].node = n /\ flow'[d].subid = s.name
    BY <1>0 DEF Known
  <2>1. s.key \in Key /\ s.name \in Nat
    BY <1>0 DEF TypeOK
  <2>2. CASE s.key = k
    <3>1. user_online[k] = None
      BY <1>0 DEF Crashing, EntryKept
    <3>2. user_online[s.key] # [server |-> n, subid |-> s.name]
      BY <2>1, <2>2, <3>1, NoneAssumption
    <3>3. flow[c].node = n /\ flow[c].subid = s.name
      BY <1>6, <2>2, <3>2 DEF Crashing, SInv, Known
    <3> QED
      BY <1>4, <2>2, <3>3 DEF e
  <2>3. CASE s.key # k
    BY <1>2, <1>4, <2>1, <2>3 DEF Crashing, SInv, Known
  <2> QED
    BY <2>2, <2>3
<1>8. LoginIsSilent'
  BY <1>0, <1>2 DEF Crashing, SInv, LoginIsSilent, Silent, Absent, Untold
<1>9. ASSUME NEW n \in Node, NEW q \in Key, Names(n, q) PROVE Names(n, q)'
  <2>1. CASE q # k
    BY <1>0, <1>2, <1>4, <1>9, <2>1 DEF Names
  <2>2. CASE q = k
    <3>1. user_online[k] = None /\ \A d \in Conn : flow[d].key = k => flow[d].st # "notify"
      BY <1>0, OneHolder DEF Crashing, EntryKept, Admitted
    <3>2. flow[c].node = n
      BY <1>6, <1>9, <2>2, <3>1 DEF Names
    <3> QED
      BY <1>3, <1>4, <2>2, <3>2 DEF Names
  <2> QED
    BY <2>1, <2>2
<1>10. NoticesLate'
  <2>1. \A n \in Node : \A i \in DOMAIN notices[n] : notices[n][i].key \in Key
    BY <1>0, NoteType DEF Note
  <2> QED
    BY <1>0, <1>9, <2>1 DEF Crashing, SInv, NoticesLate, Absent
<1> QED
  BY <1>1, <1>5, <1>7, <1>8, <1>10 DEF SInv

(* Steps of a login on a gate that leave what the gates know alone.         *)
LEMMA LoginCallSession ==
  ASSUME IInv, Crashing, NEW c \in Conn, LoginCall(c), LoginsApart'
  PROVE  NodesOK' /\ EntryKept' /\ SInv'
<1> DEFINE n == flow[c].node
           k == flow[c].key
<1>0. /\ TypeOK /\ FlowOK /\ flow[c].st = "login" /\ up[n] /\ n \in Node /\ flow[c] \in Flow
      /\ UNCHANGED << user_online, notices, up, users >>
  BY DEF IInv, LoginCall, FlowOK
<1>1. user_online[k] = None /\ Silent(k)
  BY <1>0 DEF Crashing, EntryKept, SInv, LoginIsSilent
<1>2. CASE Finish(c) /\ UNCHANGED << internal_id, logins >>
  <2>1. OthersKept(c) /\ flow'[c].st = "idle"
    BY <1>0, <1>2 DEF FlowOK, OthersKept, Idle, Finish
  <2> QED
    BY <1>0, <1>2, <2>1, NodesFrame, EntryFrame, QuietMove DEF Crashing, EntryFor, Kicking
<1>3. CASE /\ internal_id' = [internal_id EXCEPT ![n] = @ + 1]
           /\ logins' = logins \cup
                {[node |-> n, key |-> k, name |-> internal_id'[n], for |-> c]}
           /\ flow' = [flow EXCEPT ![c].st = "loggingin"]
  <2>1. OthersKept(c) /\ flow'[c].st = "loggingin" /\ flow'[c].key = k
    BY <1>0, <1>3 DEF FlowOK, OthersKept, Flow
  <2>2. NodesOK'
    <3> DEFINE p == [node |-> n, key |-> k, name |-> internal_id'[n], for |-> c]
    <3>1. p.node = n /\ p.for = c /\ p.name = internal_id'[n] /\ logins' = logins \cup {p}
      BY <1>3
    <3> HIDE DEF p
    <3>2. \A l \in logins : l.node = n => l = p
      BY <3>1 DEF LoginsApart
    <3>3. \A o \in Node : o # n => internal_id'[o] = internal_id[o]
      BY <1>0, <1>3 DEF TypeOK
    <3>4. \A l \in logins : l.node \in Node
      BY <1>0 DEF TypeOK
    <3> QED
      BY <1>0, <3>1, <3>2, <3>3, <3>4 DEF Crashing, NodesOK
  <2> QED
    BY <1>0, <1>1, <2>1, <2>2, EntryFrame, QuietMove DEF Crashing, EntryFor, Kicking
<1> QED
  BY <1>2, <1>3 DEF LoginCall

-----------------------------------------------------------------------------
(* A gate tells that uid k logged out, after its session has gone.          *)
LEMMA TellSession ==
  ASSUME IInv, Crashing, NEW n \in Node, up[n], NEW k \in Key, NEW c \in Conn \cup {None},
         Tell(n, k, c), Absent(k)', \A o \in Node : users'[o] \subseteq users[o],
         UNCHANGED << user_online, up, internal_id, logins >>,
         \A d \in Conn : flow[d].st \in {"kickfailed", "login", "loggingin"} => flow[d].key # k,
         \/ c = None /\ flow' = flow /\ Names(n, k) /\ Untold(n, k)
         \/ /\ c \in Conn /\ OthersKept(c) /\ flow[c].st \in {"kick", "kickwait"}
            /\ flow[c].key = k /\ flow[c].last.server = n
            /\ flow'[c].st = "notify" /\ flow'[c].key = k /\ flow'[c].last = flow[c].last
  PROVE  NodesOK' /\ EntryKept' /\ SInv'
<1> DEFINE m == [key |-> k, for |-> c]
           len == Len(notices[n])
<1>0. m \in Note /\ m.key = k /\ m.for = c
  BY DEF Note
<1>1. notices' = [notices EXCEPT ![n] = Append(notices[n], m)]
  BY DEF Tell
<1> HIDE DEF m
<1>2. /\ \A o \in Node \ {n} : notices'[o] = notices[o]
      /\ DOMAIN notices'[n] = 1 .. len + 1 /\ DOMAIN notices[n] = 1 .. len /\ len \in Nat
      /\ \A i \in 1 .. len : notices'[n][i] = notices[n][i]
      /\ notices'[n][len + 1] = m
  BY <1>0, <1>1, NoteAppended DEF IInv
<1>3. \A d \in Conn : flow[d].st \notin {"kick", "kickwait"} => flow'[d] = flow[d]
  BY DEF OthersKept
<1>4. NodesOK'
  BY <1>2 DEF Crashing, NodesOK
<1>5. EntryKept'
  BY <1>3 DEF Crashing, EntryKept, OthersKept, Kicking
<1>6. Known'
  <2> SUFFICES ASSUME NEW o \in Node, NEW s \in users'[o]
               PROVE  \/ user_online'[s.key] = [server |-> o, subid |-> s.name]
                      \/ \E d \in Conn : flow'[d].st = "done" /\ flow'[d].key = s.key
                                         /\ flow'[d].node = o /\ flow'[d].subid = s.name
    BY DEF Known
  <2>1. s \in users[o]
    OBVIOUS
  <2>2. \A d \in Conn : flow[d].st = "done" => flow'[d] = flow[d]
    BY <1>3
  <2> QED
    BY <2>1, <2>2 DEF Crashing, SInv, Known
<1>7. \A q : Absent(q) => Absent(q)'
  BY DEF Absent
<1>8. ASSUME NEW q, q # k, Silent(q) PROVE Silent(q)'
  <2>1. ASSUME NEW o \in Node, NEW i \in DOMAIN notices'[o] PROVE notices'[o][i].key # q
    <3>1. CASE o # n
      BY <1>2, <1>8, <3>1 DEF Silent, Untold
    <3>2. CASE o = n /\ i \in 1 .. len
      BY <1>2, <1>8, <3>2 DEF Silent, Untold
    <3>3. CASE o = n /\ i = len + 1
      BY <1>0, <1>2, <1>8, <3>3
    <3> QED
      BY <1>2, <3>1, <3>2, <3>3
  <2> QED
    BY <1>7, <1>8, <2>1 DEF Silent, Untold
<1>9. LoginIsSilent'
  <2>1. \A d \in Conn : flow'[d].st \in {"kickfailed", "login", "loggingin"} =>
          flow'[d] = flow[d]
    BY <1>3 DEF OthersKept
  <2> QED
    BY <1>8, <2>1 DEF Crashing, SInv, LoginIsSilent
<1>10. ASSUME NEW o \in Node, NEW q, Names(o, q) PROVE Names(o, q)'
  BY <1>3, <1>10 DEF Names
<1>11. Names(n, k)'
  BY <1>10 DEF Names
<1>12. ASSUME NEW o \in Node, NEW i \in DOMAIN notices'[o]
       PROVE  /\ Absent(notices[o][i].key)'
              /\ Names(o, notices[o][i].key)'
              /\ \A j \in DOMAIN notices'[o] :
                   i < j /\ notices'[o][j].key = notices'[o][i].key => notices'[o][j].for # None
  <2>1. CASE o # n
    BY <1>2, <1>7, <1>10, <2>1 DEF Crashing, SInv, NoticesLate
  <2>2. CASE o = n /\ i \in 1 .. len
    <3>1. notices'[n][i] = notices[n][i] /\ i \in DOMAIN notices[n]
      BY <1>2, <2>2
    <3>2. Absent(notices[n][i].key) /\ Names(n, notices[n][i].key)
      BY <3>1 DEF Crashing, SInv, NoticesLate
    <3>3. ASSUME NEW j \in DOMAIN notices'[n], i < j, notices'[n][j].key = notices'[n][i].key
          PROVE  notices'[n][j].for # None
      <4>1. CASE j \in 1 .. len
        BY <1>2, <3>1, <3>3, <4>1 DEF Crashing, SInv, NoticesLate
      <4>2. CASE j = len + 1
        BY <1>0, <1>2, <3>1, <3>3, <4>2, NoneAssumption DEF Untold
      <4> QED
        BY <1>2, <4>1, <4>2
    <3> QED
      BY <1>7, <1>10, <2>2, <3>1, <3>2, <3>3
  <2>3. CASE o = n /\ i = len + 1
    <3>1. \A j \in DOMAIN notices'[o] : ~(i < j)
      BY <1>2, <2>3
    <3> QED
      BY <1>0, <1>2, <1>11, <2>3, <3>1
  <2> QED
    BY <1>2, <2>1, <2>2, <2>3
<1>13. NoticesLate'
  BY <1>12 DEF NoticesLate
<1> QED
  BY <1>4, <1>5, <1>6, <1>9, <1>13 DEF SInv

(* A session whose uid no kick is about is named by its node alone.         *)
LEMMA IdleLogoutSession ==
  ASSUME IInv, Crashing, NEW n \in Node, NEW s \in users[n], IdleLogout(n, s)
  PROVE  NodesOK' /\ EntryKept' /\ SInv'
<1>a. /\ TypeOK /\ users' = [users EXCEPT ![n] = @ \ {s}] /\ Tell(n, s.key, None)
      /\ UNCHANGED << user_online, flow, up, internal_id, logins >>
  BY DEF IInv, IdleLogout
<1>b. s.key \in Key /\ s.name \in Nat
  BY <1>a DEF TypeOK
<1>0. /\ TypeOK /\ users' = [users EXCEPT ![n] = users[n] \ {s}] /\ Tell(n, s.key, None)
      /\ UNCHANGED << user_online, flow, up, internal_id, logins >>
      /\ s.key \in Key /\ s.name \in Nat
  BY <1>a, <1>b
<1>1. up[n]
  BY DEF Crashing, NodesOK
<1>2. Absent(s.key)'
  <2>1. \A o \in Node : \A t \in users[o] : t.key = s.key => o = n /\ t = s
    BY KnownIsOne DEF Crashing, SInv
  <2>2. \A o \in Node : users'[o] = IF o = n THEN users[n] \ {s} ELSE users[o]
    BY <1>0 DEF TypeOK
  <2> QED
    BY <2>1, <2>2 DEF Absent
<1>3. \A o \in Node : users'[o] \subseteq users[o]
  BY <1>0 DEF TypeOK
<1>4. \A d \in Conn : flow[d].st \in {"kickfailed", "login", "loggingin"} => flow[d].key # s.key
  BY DEF Crashing, SInv, LoginIsSilent, Silent, Absent
<1>5. Names(n, s.key)
  <2>1. CASE user_online[s.key] = [server |-> n, subid |-> s.name]
    <3>1. user_online[s.key] # None
      BY <1>0, <2>1, NoneAssumption
    <3> QED
      BY <2>1, <3>1 DEF Names
  <2>2. CASE \E d \in Conn : flow[d].st = "done" /\ flow[d].key = s.key
                             /\ flow[d].node = n /\ flow[d].subid = s.name
    BY <2>2 DEF Names
  <2> QED
    BY <2>1, <2>2 DEF Crashing, SInv, Known
<1>6. Untold(n, s.key)
  BY DEF Crashing, SInv, NoticesLate, Absent, Untold
<1> QED
  BY <1>0, <1>1, <1>2, <1>3, <1>4, <1>5, <1>6, TellSession

LEMMA KickSession ==
  ASSUME IInv, Crashing, NEW c \in Conn, Kick(c)
  PROVE  NodesOK' /\ EntryKept' /\ SInv'
<1>n. PICK n \in Node, k \in Key : n = flow[c].last.server /\ k = flow[c].key
  BY DEF IInv, Kick, TypeOK, FlowOK, Kicking
<1>0. /\ TypeOK /\ FlowOK /\ flow[c].st = "kick" /\ up[n]
      /\ UNCHANGED << user_online, up, users, internal_id, logins >> /\ Admitted(c)
  BY <1>n DEF IInv, Kick, TypeOK, FlowOK, Admitted, Kicking, gatevars
<1>1. \A o \in Node : \A s \in users[o] : s.key = k => o = n /\ s.name = flow[c].last.subid
  BY <1>n, <1>0, KickGoesHome DEF Crashing, Kicking
<1>2. CASE Session(n, k) = {}
  <2>1. Tell(n, k, c) /\ flow' = [flow EXCEPT ![c].st = "notify"]
    BY <1>n, <1>2 DEF Kick
  <2>2. OthersKept(c) /\ flow'[c].st = "notify" /\ flow'[c].key = k /\ flow'[c].last = flow[c].last
    BY <1>n, <1>0, <2>1, StateMoves DEF States, Kicking
  <2>3. Absent(k)'
    BY <1>n, <1>0, <1>1, <1>2 DEF Absent, Session
  <2>4. \A d \in Conn : flow[d].st \in {"kickfailed", "login", "loggingin"} => flow[d].key # k
    BY <1>n, <1>0, OneHolder DEF Admitted
  <2> QED
    BY <1>n, <1>0, <2>1, <2>2, <2>3, <2>4, TellSession
<1>3. CASE Session(n, k) # {}
  <2>1. flow' = [flow EXCEPT ![c].st = "kickwait"] /\ UNCHANGED notices
    BY <1>n, <1>0, <1>1, <1>3 DEF Kick, Session
  <2>2. OthersKept(c) /\ flow'[c].st = "kickwait" /\ flow'[c].key = k /\ flow'[c].last = flow[c].last
    BY <1>n, <1>0, <2>1, StateMoves DEF States, Kicking
  <2>3. NodesOK'
    BY <1>n, <1>0, <2>1, NodesFrame DEF Crashing
  <2>4. EntryKept'
    BY <1>n, <1>0, <2>2, EntryFrame DEF Crashing, EntryFor, EntryKept, Kicking
  <2>5. SInv'
    BY <1>n, <1>0, <2>1, <2>2, QuietMove DEF Crashing
  <2> QED
    BY <2>3, <2>4, <2>5
<1> QED
  BY <1>2, <1>3

LEMMA KickLogoutSession ==
  ASSUME IInv, Crashing, NEW c \in Conn, KickLogout(c)
  PROVE  NodesOK' /\ EntryKept' /\ SInv'
<1>n. PICK n \in Node, k \in Key : n = flow[c].last.server /\ k = flow[c].key
  BY DEF IInv, KickLogout, TypeOK, FlowOK, Kicking
<1>0. /\ TypeOK /\ FlowOK /\ flow[c].st = "kickwait" /\ up[n]
      /\ UNCHANGED << user_online, up, internal_id, logins >> /\ Admitted(c)
  BY <1>n DEF IInv, KickLogout, TypeOK, FlowOK, Admitted, Kicking
<1>1. \A o \in Node : \A s \in users[o] : s.key = k => o = n
  BY <1>n, <1>0, KickGoesHome DEF Crashing, Kicking
<1>2. CASE Session(n, k) = {}
  <2>1. flow' = [flow EXCEPT ![c].st = "kicked"] /\ UNCHANGED << notices, users >>
    BY <1>n, <1>2 DEF KickLogout
  <2>2. OthersKept(c) /\ flow'[c].st = "kicked" /\ flow'[c].key = k /\ flow'[c].last = flow[c].last
    BY <1>n, <1>0, <2>1, StateMoves DEF States, Kicking
  <2>3. NodesOK'
    BY <1>n, <1>0, <2>1, NodesFrame DEF Crashing
  <2>4. EntryKept'
    BY <1>n, <1>0, <2>2, EntryFrame DEF Crashing, EntryFor, EntryKept, Kicking
  <2>5. SInv'
    BY <1>n, <1>0, <2>1, <2>2, QuietMove DEF Crashing
  <2> QED
    BY <2>3, <2>4, <2>5
<1>3. CASE Session(n, k) # {}
  <2>1. /\ users' = [users EXCEPT ![n] = users[n] \ Session(n, k)] /\ Tell(n, k, c)
        /\ flow' = [flow EXCEPT ![c].st = "notify"]
    BY <1>n, <1>3 DEF KickLogout
  <2>2. OthersKept(c) /\ flow'[c].st = "notify" /\ flow'[c].key = k /\ flow'[c].last = flow[c].last
    BY <1>n, <1>0, <2>1, StateMoves DEF States, Kicking
  <2>3. \A o \in Node : users'[o] = IF o = n THEN users[n] \ Session(n, k) ELSE users[o]
    BY <1>n, <1>0, <2>1 DEF TypeOK
  <2>4. Absent(k)' /\ \A o \in Node : users'[o] \subseteq users[o]
    BY <1>1, <2>3 DEF Absent, Session
  <2>5. \A d \in Conn : flow[d].st \in {"kickfailed", "login", "loggingin"} => flow[d].key # k
    BY <1>n, <1>0, OneHolder DEF Admitted
  <2> QED
    BY <1>n, <1>0, <2>1, <2>2, <2>4, <2>5, TellSession
<1> QED
  BY <1>2, <1>3

(* CMD.logout: the login master forgets a uid that has no session; the call  *)
(* of a kick is the last that it hears of it.                               *)
LEMMA NoticeSession ==
  ASSUME IInv, Crashing, NEW n \in Node, Notice(n)
  PROVE  NodesOK' /\ EntryKept' /\ SInv'
<1> DEFINE m == Head(notices[n])
<1>a. /\ TypeOK /\ FlowOK /\ CallersWait
      /\ notices[n] # << >>
      /\ notices' = [notices EXCEPT ![n] = Tail(notices[n])]
      /\ user_online' = [user_online EXCEPT ![m.key] = None]
      /\ flow' = IF m.for = None THEN flow ELSE [flow EXCEPT ![m.for].st = "kicked"]
      /\ UNCHANGED << up, internal_id, users, logins >>
  BY DEF IInv, Notice, gatevars
<1>b. /\ \A o \in Node \ {n} : notices'[o] = notices[o]
      /\ 1 \in DOMAIN notices[n] /\ m = notices[n][1]
      /\ \A i \in DOMAIN notices'[n] :
           i + 1 \in DOMAIN notices[n] /\ i \in Nat /\ i # 0 /\ notices'[n][i] = notices[n][i + 1]
  BY <1>a, NoteTaken
<1>c. m \in Note /\ m.key \in Key
  <2>1. m \in Note
    BY <1>a, <1>b, NoteType
  <2> QED
    BY <2>1 DEF Note
<1>k. PICK k \in Key : k = m.key
  BY <1>c
<1>d. m.for # None =>
        /\ m.for \in Conn /\ flow[m.for].st = "notify" /\ flow[m.for].key = k
        /\ flow[m.for].last.server = n
        /\ \A j \in DOMAIN notices[n] : notices[n][j].for = m.for => j = 1
  BY <1>a, <1>b, <1>c, <1>k DEF Note, CallersWait
<1>e. /\ Absent(k) /\ Names(n, k)
      /\ \A j \in DOMAIN notices[n] : 1 < j /\ notices[n][j].key = k => notices[n][j].for # None
  BY <1>b, <1>k DEF Crashing, SInv, NoticesLate
<1> HIDE DEF m
<1>1. user_online'[k] = None /\ \A q \in Key : q # k => user_online'[q] = user_online[q]
  BY <1>a, <1>k DEF TypeOK
\* A call that is left was there before, one place behind.
<1>2. ASSUME NEW o \in Node, NEW i \in DOMAIN notices'[o]
      PROVE  \E j \in DOMAIN notices[o] :
               /\ notices'[o][i] = notices[o][j] /\ j = IF o = n THEN i + 1 ELSE i
  BY <1>b
<1>3. \A d \in Conn : \/ flow'[d] = flow[d]
                       \/ /\ d = m.for /\ d # None /\ flow[d].st = "notify" /\ flow[d].key = k
                          /\ flow'[d].st = "kicked" /\ flow'[d].key = k /\ flow'[d].last = flow[d].last
  <2>1. CASE m.for = None
    BY <1>a, <2>1
  <2>2. CASE m.for # None
    <3>0. PICK c \in Conn : c = m.for
      BY <1>d, <2>2
    <3>1. flow' = [flow EXCEPT ![c].st = "kicked"]
      BY <1>a, <2>2, <3>0
    <3>2. /\ OthersKept(c) /\ flow'[c].st = "kicked" /\ flow'[c].key = flow[c].key
          /\ flow'[c].last = flow[c].last
      BY <1>a, <3>1, StateMoves DEF States, Kicking
    <3> QED
      BY <1>d, <2>2, <3>0, <3>2 DEF OthersKept
  <2> QED
    BY <2>1, <2>2
<1>4. NodesOK'
  BY <1>a, <1>b DEF Crashing, NodesOK
<1>5. EntryKept'
  <2>1. ASSUME NEW d \in Conn, Admitted(d) PROVE user_online'[flow[d].key] \in {None, user_online[flow[d].key]}
    <3>1. flow[d].key \in Key
      BY <1>a, <2>1 DEF TypeOK, Admitted
    <3> QED
      BY <1>1, <3>1
  <2>2. ASSUME NEW d \in Conn
        PROVE  EntryFor(d)
    <3>1. CASE flow'[d] = flow[d]
      BY <2>1, <3>1 DEF Crashing, EntryKept, EntryFor, Kicking, Admitted
    <3>2. CASE flow'[d].st = "kicked" /\ flow'[d].key = k
      BY <1>1, <3>2 DEF EntryFor
    <3> QED
      BY <1>3, <3>1, <3>2
  <2> QED
    BY <2>2 DEF EntryKept, EntryFor
<1>6. Known'
  <2> SUFFICES ASSUME NEW o \in Node, NEW s \in users[o]
               PROVE  \/ user_online'[s.key] = [server |-> o, subid |-> s.name]
                      \/ \E d \in Conn : flow'[d].st = "done" /\ flow'[d].key = s.key
                                         /\ flow'[d].node = o /\ flow'[d].subid = s.name
    BY <1>a DEF Known
  <2>1. s.key \in Key /\ s.key # k
    BY <1>a, <1>e DEF TypeOK, Absent
  <2>2. user_online'[s.key] = user_online[s.key]
    BY <1>1, <2>1
  <2>3. \A d \in Conn : flow[d].st = "done" => flow'[d] = flow[d]
    BY <1>3
  <2> QED
    BY <2>2, <2>3 DEF Crashing, SInv, Known
<1>7. \A q : Absent(q) => Absent(q)'
  BY <1>a DEF Absent
<1>8. \A q : Silent(q) => Silent(q)'
  BY <1>2, <1>7 DEF Silent, Untold
<1>9. LoginIsSilent'
  <2>1. \A d \in Conn : flow'[d].st \in {"kickfailed", "login", "loggingin"} => flow'[d] = flow[d]
    BY <1>3
  <2> QED
    BY <1>8, <2>1 DEF Crashing, SInv, LoginIsSilent
\* Another call for k comes from the same node, from a kick that waits for it.
<1>10. ASSUME NEW o \in Node, NEW i \in DOMAIN notices'[o], notices'[o][i].key = k
       PROVE  m.for = None /\ Names(o, k)'
  <2>1. PICK j \in DOMAIN notices[o] : notices'[o][i] = notices[o][j] /\ j = IF o = n THEN i + 1 ELSE i
    BY <1>2
  <2>2. Names(o, k)
    BY <1>10, <2>1 DEF Crashing, SInv, NoticesLate
  <2>3. \A c \in Conn : flow[c].key = k /\ flow[c].st = "notify" =>
          user_online[k] \in {None, flow[c].last}
    BY DEF Crashing, EntryKept, Kicking
  <2>4. \A c \in Conn : flow[c].key = k /\ flow[c].st = "done" => user_online[k] = None
    BY DEF Crashing, EntryKept
  <2>5. \A c, d \in Conn : (/\ flow[c].key = k /\ flow[c].st \in {"notify", "done"}
                            /\ flow[d].key = k /\ flow[d].st \in {"notify", "done"}) => c = d
    <3> SUFFICES ASSUME NEW c \in Conn, NEW d \in Conn,
                        flow[c].key = k, flow[c].st \in {"notify", "done"},
                        flow[d].key = k, flow[d].st \in {"notify", "done"}
                 PROVE  c = d
      OBVIOUS
    <3>1. Admitted(c) /\ Admitted(d) /\ flow[c].key = flow[d].key
      BY DEF Admitted
    <3> QED
      BY <3>1, OneHolder
  <2>6. o = n
    BY <1>e, <2>2, <2>3, <2>4, <2>5 DEF Names
  <2>7. 1 < j /\ j \in Nat
    BY <1>b, <2>1, <2>6
  <2>8. notices[n][j].for # None /\ notices[n][j].key = k
    BY <1>10, <1>e, <2>1, <2>6, <2>7
  <2>9. notices[n][j].for \in Conn
    BY <1>a, <2>1, <2>6, <2>8, NoteType DEF Note
  <2>10. /\ flow[notices[n][j].for].st = "notify" /\ flow[notices[n][j].for].key = k
         /\ flow[notices[n][j].for].last.server = n
    BY <1>a, <2>1, <2>6, <2>8 DEF CallersWait
  <2>11. m.for = None
    <3> SUFFICES ASSUME m.for # None PROVE FALSE
      OBVIOUS
    <3>1. notices[n][j].for = m.for
      BY <1>d, <2>5, <2>9, <2>10
    <3>2. j = 1
      BY <1>d, <2>1, <2>6, <3>1
    <3> QED
      BY <2>7, <3>2
  <2> QED
    BY <1>a, <2>6, <2>9, <2>10, <2>11 DEF Names
<1>11. ASSUME NEW o \in Node, NEW q \in Key, q # k, Names(o, q) PROVE Names(o, q)'
  BY <1>1, <1>3, <1>11 DEF Names
<1>12. ASSUME NEW o \in Node, NEW i \in DOMAIN notices'[o]
       PROVE  /\ Absent(notices[o][i].key)'
              /\ Names(o, notices[o][i].key)'
              /\ \A j \in DOMAIN notices'[o] :
                   i < j /\ notices'[o][j].key = notices'[o][i].key => notices'[o][j].for # None
  <2>1. PICK a \in DOMAIN notices[o] : notices'[o][i] = notices[o][a] /\ a = IF o = n THEN i + 1 ELSE i
    BY <1>2
  <2>q. PICK q \in Key : q = notices[o][a].key
    BY <1>a, NoteType DEF Note
  <2>2. Absent(q) /\ Names(o, q)
    BY <2>q DEF Crashing, SInv, NoticesLate
  <2>3. Names(o, q)'
    BY <1>10, <1>11, <2>1, <2>2, <2>q
  <2>4. ASSUME NEW j \in DOMAIN notices'[o], i < j, notices'[o][j].key = notices'[o][i].key
        PROVE  notices'[o][j].for # None
    <3>1. PICK b \in DOMAIN notices[o] : notices'[o][j] = notices[o][b] /\ b = IF o = n THEN j + 1 ELSE j
      BY <1>2
    <3>2. i \in Nat /\ j \in Nat
      <4>1. DOMAIN notices[o] \subseteq Nat
        BY <1>a, NoteType
      <4> QED
        BY <1>b, <2>1, <3>1, <4>1
    <3>3. a < b
      BY <2>1, <2>4, <3>1, <3>2
    <3> QED
      BY <2>1, <2>4, <3>1, <3>3 DEF Crashing, SInv, NoticesLate
  <2> QED
    BY <1>7, <2>1, <2>2, <2>3, <2>4, <2>q
<1>13. NoticesLate'
  BY <1>12 DEF NoticesLate
<1> QED
  BY <1>4, <1>5, <1>6, <1>9, <1>13 DEF SInv

(* The gate files the session, with the subid that the login master will     *)
(* know it by: its login_handler was alone since it drew it.                *)
LEMMA LoginReturnSession ==
  ASSUME IInv, Registered, Crashing, NEW l \in logins, LoginReturn(l)
  PROVE  NodesOK' /\ EntryKept' /\ SInv'
<1>n. PICK c \in Conn, n \in Node, k \in Key : c = l.for /\ n = l.node /\ k = l.key
  BY DEF IInv, TypeOK, Crashing, NodesOK
<1>0. /\ TypeOK /\ FlowOK /\ CallersWait
      /\ logins' = logins \ {l}
      /\ users' = [users EXCEPT ![n] = (users[n] \ Session(n, k))
                                    \cup {[key |-> k, name |-> l.name]}]
      /\ flow' = [flow EXCEPT ![c].st = "done", ![c].subid = internal_id[n]]
      /\ UNCHANGED << user_online, notices, up, internal_id >>
  BY <1>n, NoneAssumption DEF IInv, LoginReturn
<1>1. /\ flow[c].st = "loggingin" /\ flow[c].key = k /\ flow[c].node = n /\ up[n]
      /\ l.name = internal_id[n]
  BY <1>0, <1>n, NoneAssumption DEF CallersWait, Crashing, NodesOK
<1>2. /\ OthersKept(c)
      /\ flow'[c].st = "done" /\ flow'[c].key = k /\ flow'[c].node = n /\ flow'[c].subid = l.name
  <2>1. flow \in [Conn -> Flow] /\ flow[c] \in Flow
    BY <1>0 DEF FlowOK
  <2>2. OthersKept(c) /\ flow'[c] = [flow[c] EXCEPT !.st = "done", !.subid = internal_id[n]]
    BY <1>0, <2>1 DEF OthersKept
  <2> QED
    BY <1>1, <2>1, <2>2 DEF Flow
<1>3. Silent(k) /\ user_online[k] = None
  BY <1>1 DEF Crashing, SInv, LoginIsSilent, EntryKept
<1>4. k.type = "string"
  <2>1. flow[c].key = [uid |-> row[flow[c].token], type |-> "string"]
    BY <1>1 DEF Registered, Crashing
  <2> QED
    BY <1>1, <2>1
<1>5. /\ \A o \in Node \ {n} : users'[o] = users[o]
      /\ \A s \in users'[n] : s \in users[n] \/ (s.key = k /\ s.name = l.name)
  BY <1>0 DEF TypeOK
<1>6. NodesOK'
  BY <1>0, <1>1, <1>4, <1>5 DEF Crashing, NodesOK
<1>7. EntryKept'
  BY <1>0, <1>2, <1>3, EntryFrame DEF Crashing, EntryFor, Kicking
<1>8. \A d \in Conn \ {c} : flow'[d] = flow[d]
  BY <1>2 DEF OthersKept
<1>9. Known'
  <2> SUFFICES ASSUME NEW o \in Node, NEW s \in users'[o]
               PROVE  \/ user_online'[s.key] = [server |-> o, subid |-> s.name]
                      \/ \E d \in Conn : flow'[d].st = "done" /\ flow'[d].key = s.key
                                         /\ flow'[d].node = o /\ flow'[d].subid = s.name
    BY DEF Known
  <2>1. CASE s \in users[o]
    <3>1. \A d \in Conn : flow[d].st = "done" => flow'[d] = flow[d]
      BY <1>1, <1>8
    <3>2. \/ user_online[s.key] = [server |-> o, subid |-> s.name]
          \/ \E d \in Conn : flow[d].st = "done" /\ flow[d].key = s.key
                             /\ flow[d].node = o /\ flow[d].subid = s.name
      BY <2>1 DEF Crashing, SInv, Known
    <3>3. user_online'[s.key] = user_online[s.key]
      BY <1>0
    <3> QED
      BY <3>1, <3>2, <3>3
  <2>2. CASE o = n /\ s.key = k /\ s.name = l.name
    BY <1>2, <2>2
  <2> QED
    BY <1>5, <2>1, <2>2
<1>10. \A q : q # k /\ Absent(q) => Absent(q)'
  BY <1>5 DEF Absent
<1>11. LoginIsSilent'
  <2> SUFFICES ASSUME NEW d \in Conn, flow'[d].st \in {"kickfailed", "login", "loggingin"}
               PROVE  Silent(flow[d].key)'
    BY DEF LoginIsSilent
  <2>1. d # c /\ flow'[d] = flow[d]
    BY <1>2, <1>8
  <2>2. flow[d].key # k
    BY <1>1, <2>1, OneHolder DEF Admitted
  <2> QED
    BY <1>0, <1>10, <2>1, <2>2 DEF Crashing, SInv, LoginIsSilent, Silent, Untold
<1>12. ASSUME NEW o \in Node, NEW q, Names(o, q) PROVE Names(o, q)'
  BY <1>0, <1>1, <1>8, <1>12 DEF Names
<1>13. NoticesLate'
  <2>1. \A o \in Node : \A i \in DOMAIN notices[o] : notices[o][i].key # k
    BY <1>3 DEF Silent, Untold
  <2> QED
    BY <1>0, <1>10, <1>12, <2>1 DEF Crashing, SInv, NoticesLate
<1> QED
  BY <1>6, <1>7, <1>9, <1>11, <1>13 DEF SInv

(* When the node that a kick goes to is down, all it kept of the uid is gone. *)
LEMMA CallDownSession ==
  ASSUME IInv, Crashing, NEW c \in Conn, CallDown(c)
  PROVE  NodesOK' /\ EntryKept' /\ SInv'
<1>0. /\ TypeOK /\ FlowOK /\ CallFails(c) /\ ~up[Callee(c)] /\ Callee(c) # None
      /\ UNCHANGED << user_online, up, internal_id, users, notices, logins >>
  BY DEF IInv, CallDown, CallFails
<1>1. NodesOK'
  BY <1>0, NodesFrame DEF Crashing
<1>2. CASE flow[c].st \in Kicking /\ flow' = [flow EXCEPT ![c].st = "kickfailed"]
  <2>1. flow[c].st = "kick" /\ flow[c].last.server \in Node /\ ~up[flow[c].last.server]
    BY <1>0, <1>2 DEF FlowOK, Callee, Kicking
  <2>2. OthersKept(c) /\ flow'[c].st = "kickfailed" /\ flow'[c].key = flow[c].key
    BY <1>0, <1>2, StateMoves DEF States, Kicking
  <2>3. users[flow[c].last.server] = {} /\ notices[flow[c].last.server] = << >>
    BY <2>1 DEF Crashing, NodesOK
  <2>4. Absent(flow[c].key)
    BY <1>2, <2>3, KickGoesHome DEF Crashing, Absent
  <2>5. \A o \in Node : Untold(o, flow[c].key)
    <3>1. Untold(flow[c].last.server, flow[c].key)
      BY <2>3 DEF Untold
    <3> QED
      BY <1>2, <3>1, KickGoesHome DEF Crashing
  <2>6. Silent(flow[c].key)
    BY <2>4, <2>5 DEF Silent
  <2> QED
    BY <1>0, <1>1, <2>1, <2>2, <2>6, EntryFrame, QuietMove DEF Crashing, EntryFor, Kicking
<1>3. CASE flow[c].st \in {"login", "loggingin"} /\ Finish(c)
  <2>1. OthersKept(c) /\ flow'[c].st = "idle"
    BY <1>0, <1>3 DEF FlowOK, OthersKept, Idle, Finish
  <2> QED
    BY <1>0, <1>1, <1>3, <2>1, EntryFrame, QuietMove DEF Crashing, EntryFor, Kicking
<1> QED
  BY <1>0, <1>2, <1>3 DEF CallFails

(* A crash takes the sessions of the node, what it told and the logins on it. *)
LEMMA CrashSession ==
  ASSUME IInv, Crashing, NEW n \in Node, Crash(n)
  PROVE  NodesOK' /\ EntryKept' /\ SInv'
<1>0. /\ TypeOK /\ FlowOK
      /\ up' = [up EXCEPT ![n] = FALSE]
      /\ users' = [users EXCEPT ![n] = {}]
      /\ logins' = {l \in logins : l.node # n}
      /\ flow' = [c \in Conn |->
           IF Callee(c) # n \/ flow[c].st = "done" THEN flow[c]
           ELSE IF flow[c].st \in Kicking THEN [flow[c] EXCEPT !.st = "kickfailed"]
           ELSE Idle]
      /\ UNCHANGED << user_online, internal_id >>
  BY DEF IInv, Crash
<1>1. notices' = [notices EXCEPT ![n] = << >>]
  <2>1. PICK i \in 0 .. 0 : notices' = [notices EXCEPT ![n] =
          [j \in 1 .. i |-> [notices[n][j] EXCEPT !.for = None]]]
    BY DEF Crash, Crashing
  <2>2. i = 0 /\ 1 .. i = {}
    OBVIOUS
  <2>3. [j \in 1 .. i |-> [notices[n][j] EXCEPT !.for = None]] = << >>
    BY <2>2
  <2> QED
    BY <2>1, <2>3
<1>2. /\ \A o \in Node \ {n} : /\ users'[o] = users[o] /\ notices'[o] = notices[o]
                               /\ up'[o] = up[o]
      /\ users'[n] = {} /\ notices'[n] = << >>
  BY <1>0, <1>1 DEF TypeOK
<1>3. ASSUME NEW d \in Conn
      PROVE  \/ flow'[d] = flow[d] /\ (flow[d].st # "done" => Callee(d) # n)
             \/ /\ flow[d].st \in Kicking /\ flow[d].last.server = n
                /\ flow'[d].st = "kickfailed" /\ flow'[d].key = flow[d].key
             \/ flow[d].st \in {"login", "loggingin"} /\ flow'[d].st = "idle"
  <2>1. n # None /\ flow[d] \in Flow
    BY <1>0, NoneAssumption DEF FlowOK
  <2> QED
    BY <1>0, <2>1 DEF Callee, Flow, Idle
<1>4. NodesOK'
  BY <1>0, <1>2 DEF Crashing, NodesOK
<1>5. EntryKept'
  BY <1>0, <1>3 DEF Crashing, EntryKept, Kicking
<1>6. Known'
  <2> SUFFICES ASSUME NEW o \in Node, NEW s \in users'[o]
               PROVE  \/ user_online'[s.key] = [server |-> o, subid |-> s.name]
                      \/ \E d \in Conn : flow'[d].st = "done" /\ flow'[d].key = s.key
                                         /\ flow'[d].node = o /\ flow'[d].subid = s.name
    BY DEF Known
  <2>1. s \in users[o]
    BY <1>2
  <2>2. \A d \in Conn : flow[d].st = "done" => flow'[d] = flow[d]
    BY <1>3 DEF Kicking
  <2> QED
    BY <1>0, <2>1, <2>2 DEF Crashing, SInv, Known
<1>7. \A q : Absent(q) => Absent(q)'
  BY <1>2 DEF Absent
<1>8. \A q : (\A o \in Node \ {n} : Untold(o, q)) => \A o \in Node : Untold(o, q)'
  BY <1>2 DEF Untold
<1>9. LoginIsSilent'
  <2> SUFFICES ASSUME NEW d \in Conn, flow'[d].st \in {"kickfailed", "login", "loggingin"}
               PROVE  Silent(flow[d].key)'
    BY DEF LoginIsSilent
  <2>q. PICK q : q = flow[d].key
    OBVIOUS
  <2>1. CASE flow'[d] = flow[d]
    BY <1>7, <1>8, <2>1 DEF Crashing, SInv, LoginIsSilent, Silent
  <2>2. CASE flow[d].st \in Kicking /\ flow[d].last.server = n /\ flow'[d].key = flow[d].key
    <3>1. Absent(q)'
      BY <1>2, <2>2, <2>q, KickGoesHome DEF Crashing, Absent
    <3>2. \A o \in Node \ {n} : Untold(o, q)
      BY <2>2, <2>q, KickGoesHome DEF Crashing
    <3>3. Silent(q)'
      BY <1>8, <3>1, <3>2 DEF Silent
    <3> QED
      BY <2>2, <2>q, <3>3
  <2> QED
    BY <1>3, <2>1, <2>2
<1>10. ASSUME NEW o \in Node \ {n}, NEW q, Names(o, q) PROVE Names(o, q)'
  <2>1. \A d \in Conn : flow[d].st = "done" => flow'[d] = flow[d]
    BY <1>3 DEF Kicking
  <2>2. \A d \in Conn : flow[d].st = "notify" /\ flow[d].last.server = o => flow'[d] = flow[d]
    BY <1>3
  <2> QED
    BY <1>0, <1>10, <2>1, <2>2 DEF Names
<1>11. NoticesLate'
  <2>1. \A o \in Node : \A i \in DOMAIN notices'[o] : o # n /\ notices'[o] = notices[o]
    BY <1>2
  <2> QED
    BY <1>7, <1>10, <2>1 DEF Crashing, SInv, NoticesLate
<1> QED
  BY <1>4, <1>5, <1>6, <1>9, <1>11 DEF SInv

LEMMA RestartSession ==
  ASSUME IInv, Crashing, NEW n \in Node, Restart(n)
  PROVE  NodesOK' /\ EntryKept' /\ SInv'
<1>0. /\ TypeOK /\ ~up[n]
      /\ up' = [up EXCEPT ![n] = TRUE]
      /\ internal_id' = [internal_id EXCEPT ![n] = 0]
      /\ UNCHANGED << user_online, flow, notices, users, logins >>
  BY DEF IInv, Restart
<1>1. \A o \in Node \ {n} : up'[o] = up[o] /\ internal_id'[o] = internal_id[o]
  BY <1>0 DEF TypeOK
<1>2. up'[n]
  BY <1>0 DEF TypeOK
<1>3. \A l \in logins : l.node \in Node
  BY <1>0 DEF TypeOK
<1>4. NodesOK'
  BY <1>0, <1>1, <1>2, <1>3 DEF Crashing, NodesOK
<1>5. EntryKept' /\ SInv'
  BY <1>0 DEF Crashing, EntryKept, SInv, Known, LoginIsSilent, Silent, Absent, Untold, NoticesLate, Names
<1> QED
  BY <1>4, <1>5

-----------------------------------------------------------------------------

LEMMA CInvStep ==
  IInv /\ CInv /\ [Next]_vars /\ (world = "crash" => LoginsApart') => CInv'
<1> SUFFICES ASSUME IInv, CInv, [Next]_vars, world = "crash" => LoginsApart' PROVE CInv'
  OBVIOUS
<1>1. CASE UNCHANGED vars
  BY <1>1 DEF CInv, Registered, NodesOK, EntryKept, SInv, Known, LoginIsSilent, Silent, Absent,
     Untold, NoticesLate, Names, vars, dbvars, gatevars
<1>2. CASE Next
  <2>1. Registered'
    BY <1>2, RegisteredStep DEF CInv
  <2>2. ASSUME world = "crash" PROVE NodesOK' /\ EntryKept' /\ SInv'
    <3>1. Crashing /\ Registered /\ Handler /\ LoginsApart'
      BY <1>2, <2>2 DEF CInv, Crashing, Next
    <3>2. \A c \in Conn : ~CallLost(c)
      BY <2>2 DEF CallLost
    <3> QED
      BY <3>1, <3>2, AuthGetSession, AcceptSession, AfterKickSession, LoginDoneSession,
         KickSession, KickLogoutSession, LoginCallSession, CallDownSession, LoginReturnSession,
         NoticeSession, CrashSession, RestartSession, IdleLogoutSession DEF Handler, Step
  <2>3. world' = world
    BY <1>2 DEF Next
  <2> QED
    BY <2>1, <2>2, <2>3 DEF CInv
<1> QED
  BY <1>1, <1>2

LEMMA InitCInv == Init => CInv
<1> SUFFICES ASSUME Init PROVE CInv
  OBVIOUS
<1>1. Registered
  <2>1. Cardinality(Token) \in Nat
    BY UidAssumption, FS_CardinalityType
  <2>2. world # "register" => \A t \in Token : row[t] # 0
    BY <2>1 DEF Init
  <2> QED
    BY <2>2 DEF Init, Registered, Idle
<1>2. NodesOK /\ EntryKept /\ SInv
  BY DEF Init, Idle, NodesOK, EntryKept, SInv, Known, LoginIsSilent, NoticesLate, Kicking
<1> QED
  BY <1>1, <1>2 DEF CInv

(* logind.lua:75-80: while no two login_handlers of a gate overlap, whatever *)
(* crashed, the login master knows the node and subid of each session or is *)
(* about to be told.                                                        *)
THEOREM KnownWhenApart == Spec /\ []LoginsApart => []SessionKnown
<1>1. Init => IInv /\ CInv
  BY InitIInv, InitCInv
<1>2. IInv /\ CInv /\ [Next]_vars /\ LoginsApart' => (IInv /\ CInv)'
  BY InvStep, CInvStep
<1>3. IInv /\ CInv => SessionKnown
  BY DEF CInv, SInv, Known, SessionKnown
<1> QED
  BY <1>1, <1>2, <1>3, PTL DEF Spec

LEMMA OneSession ==
  ASSUME IInv, CInv, world # "late"
  PROVE  SingleSession
<1> SUFFICES ASSUME world = "crash", NEW m \in Node, NEW n \in Node, NEW s \in users[m],
                    NEW t \in users[n], s.key.uid = t.key.uid
             PROVE  m = n /\ s = t
  BY DEF SingleSession
<1>1. s.key \in Key /\ t.key \in Key /\ s.key.type = "string" /\ t.key.type = "string"
  BY DEF IInv, TypeOK, CInv, NodesOK
<1>2. s.key = t.key
  BY <1>1 DEF Key
<1> QED
  BY <1>2, KnownIsOne DEF CInv, SInv

(* logind.lua:74 "only one can login": while no two login_handlers of a gate *)
(* overlap and a crash takes with it what the node sent, an account has at   *)
(* most one session on all nodes together.                                  *)
THEOREM OneWhenApart == Spec /\ []LoginsApart /\ [](world # "late") => []SingleSession
<1>1. Init => IInv /\ CInv
  BY InitIInv, InitCInv
<1>2. IInv /\ CInv /\ [Next]_vars /\ LoginsApart' => (IInv /\ CInv)'
  BY InvStep, CInvStep
<1>3. IInv /\ CInv /\ world # "late" => SingleSession
  BY OneSession
<1> QED
  BY <1>1, <1>2, <1>3, PTL DEF Spec

(* The login_handlers of one account do not overlap: the mark of its uid     *)
(* keeps the second login out until the first has been answered.            *)
LEMMA OneAccountApart ==
  ASSUME \A t, v \in Token : t = v
  PROVE  IInv /\ Registered /\ world = "crash" /\ (\A l \in logins : l.for \in Conn)
           => LoginsApart
<1> SUFFICES ASSUME IInv, Registered, world = "crash", \A l \in logins : l.for \in Conn,
                    NEW l \in logins, NEW m \in logins
             PROVE  l = m
  BY DEF LoginsApart
<1>1. l.for \in Conn /\ m.for \in Conn
  OBVIOUS
<1>2. flow[l.for].st = "loggingin" /\ flow[m.for].st = "loggingin"
  BY <1>1, NoneAssumption DEF IInv, CallersWait
<1>3. flow[l.for].token \in Token /\ flow[m.for].token \in Token
  BY <1>1, <1>2 DEF IInv, FlowOK
<1>4. flow[l.for].key = flow[m.for].key
  BY <1>1, <1>2, <1>3 DEF Registered
<1>5. l.for = m.for
  BY <1>1, <1>2, <1>4, OneHolder DEF Admitted
<1> QED
  BY <1>1, <1>5, NoneAssumption DEF IInv, CallersWait

LEMMA OneAccountStep ==
  ASSUME \A t, v \in Token : t = v
  PROVE  IInv /\ CInv /\ [Next]_vars => CInv'
<1>a. (IInv /\ Registered /\ world = "crash" /\ (\A l \in logins : l.for \in Conn) => LoginsApart)'
  BY OneAccountApart, PTL
<1> SUFFICES ASSUME IInv, CInv, [Next]_vars PROVE CInv'
  OBVIOUS
<1>1. ASSUME world = "crash" PROVE LoginsApart'
  <2>1. IInv' /\ Registered' /\ world' = "crash"
    BY <1>1, InvStep, RegisteredStep, RegisteredKept DEF CInv, Next, vars, dbvars, Registered
  <2>2. \A l \in logins : l.for \in Conn
    BY <1>1 DEF CInv, NodesOK
  <2>3. \A l \in logins' : l \in logins \/ \E c \in Conn : l.for = c
    <3>1. CASE UNCHANGED vars
      BY <3>1 DEF vars, gatevars
    <3>2. CASE Next
      <4>1. ASSUME NEW c \in Conn, LoginCall(c)
            PROVE  \A l \in logins' : l \in logins \/ l.for = c
        BY <4>1 DEF LoginCall, Finish
      <4>2. \A c \in Conn : ~CallLost(c)
        BY <1>1 DEF CallLost
      <4> QED
        BY <3>2, <4>1, <4>2 DEF Next, Handler, Step, AuthGet, RegisterId, RegisterAdd, Accept,
           AfterKick, LoginDone, Notice, Kick, KickLogout, IdleLogout, LoginReturn, CallDown,
           Crash, Restart, gatevars
    <3> QED
      BY <3>1, <3>2
  <2>4. (\A l \in logins : l.for \in Conn)'
    BY <2>2, <2>3
  <2> QED
    BY <1>a, <2>1, <2>4
<1> QED
  BY <1>1, CInvStep

(* logind.lua:75-80 for the logins of one account, over any connections and  *)
(* nodes that crash at any moment.                                          *)
THEOREM KnownOfOne ==
  ASSUME \A t, v \in Token : t = v
  PROVE  Spec => []SessionKnown
<1>1. Init => IInv /\ CInv
  BY InitIInv, InitCInv
<1>2. IInv /\ CInv /\ [Next]_vars => (IInv /\ CInv)'
  BY InvStep, OneAccountStep
<1>3. IInv /\ CInv => SessionKnown
  BY DEF CInv, SInv, Known, SessionKnown
<1> QED
  BY <1>1, <1>2, <1>3, PTL DEF Spec

(* logind.lua:74 for the logins of one account, when a crash takes with it   *)
(* what the node sent: it never has two sessions.                           *)
THEOREM OneOfOne ==
  ASSUME \A t, v \in Token : t = v, "late" \notin Worlds
  PROVE  Spec => []SingleSession
<1>1. Init => IInv /\ CInv /\ world # "late"
  BY InitIInv, InitCInv DEF Init
<1>2. IInv /\ CInv /\ [Next]_vars => (IInv /\ CInv)'
  BY InvStep, OneAccountStep
<1>3. world # "late" /\ [Next]_vars => (world # "late")'
  BY DEF Next, vars
<1>4. IInv /\ CInv /\ world # "late" => SingleSession
  BY OneSession
<1> QED
  BY <1>1, <1>2, <1>3, <1>4, PTL DEF Spec
=============================================================================
