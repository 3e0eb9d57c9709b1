---------------------------- MODULE MonitorProofs ----------------------------
(***************************************************************************)
(* Cmd.shutdown (module Monitor) for any nodes, names and services, when no  *)
(* service boots after it has begun and the center node does not crash in it; *)
(* any other node may crash at any moment.  And the types of the monitors'    *)
(* state, whatever crashes and boots.                                       *)
(***************************************************************************)
EXTENDS Monitor, TLAPS

\* No service boots after a shutdown has begun.
Undisturbed(b) == b.shutdown => ~b.late

\* Names that Cmd.shutdown has closed on all nodes
Closed == CASE shut.st = "names" -> service_name_list \ shut.todo
            [] shut.st = "polls" -> (service_name_list \ shut.todo) \ {shut.name}
            [] shut.st \in {"nodes", "aborted"} -> service_name_list
            [] OTHER -> {}

(* Cmd.shutdown takes the names one after the other; a node is told to abort *)
(* after the last, and what was closed stays closed, for nothing registers   *)
(* any more.                                                                *)
ClosedInTurn ==
  /\ is_shutdown <=> shut.st # "no"
  /\ is_shutdown => budget.shutdown
  /\ shut.st \notin {"nodes", "aborted"} => closing = {} /\ killed = {}
  /\ \A n \in node_monitors : \A s \in Closed : s \notin services_monitered[n]
  /\ shut.st = "polls" /\ shut.clean =>
       \A n \in node_monitors \ shut.left : shut.name \notin services_monitered[n]

Typed ==
  /\ budget \in [login : Nat, crash : Nat, shutdown : BOOLEAN, late : BOOLEAN]
  /\ is_shutdown \in BOOLEAN
  /\ shut \in [st : {"no", "names", "polls", "nodes", "aborted"}, todo : SUBSET Name,
               name : Name \cup {None}, forks : SUBSET Node, left : SUBSET Node,
               clean : BOOLEAN]
  /\ services_monitered \in [Node -> SUBSET Name]
  /\ node_monitors \subseteq Node /\ service_name_list \subseteq Name

IInv == Typed /\ Undisturbed(budget) /\ ClosedInTurn /\ ClosedBeforeAbort

-----------------------------------------------------------------------------

LEMMA InitInv ==
  ASSUME \A b \in Budgets : Undisturbed(b)
  PROVE  Init => IInv
<1> SUFFICES ASSUME Init PROVE IInv
  OBVIOUS
<1>1. Typed
  BY BudgetsAssumption DEF Init, Typed, NoShutdown
<1>2. ClosedInTurn
  BY DEF Init, ClosedInTurn, NoShutdown, Closed
<1> QED
  BY <1>1, <1>2 DEF Init, IInv, ClosedBeforeAbort

(* Steps of users, connectors and services that Cmd.shutdown does not see.   *)
LEMMA UnseenStep ==
  ASSUME IInv, UNCHANGED << shut, is_shutdown, killed, closing, node_monitors, service_name_list >>,
         services_monitered' \in [Node -> SUBSET Name],
         \A n \in Node : services_monitered'[n] \subseteq services_monitered[n],
         UNCHANGED budget \/ \E i \in Nat : budget' = [budget EXCEPT !.login = i]
  PROVE  IInv'
<1>1. /\ budget' \in [login : Nat, crash : Nat, shutdown : BOOLEAN, late : BOOLEAN]
      /\ budget'.shutdown = budget.shutdown /\ budget'.late = budget.late
      /\ budget'.crash = budget.crash
  BY DEF IInv, Typed
<1>2. Typed' /\ Undisturbed(budget)'
  BY <1>1 DEF IInv, Typed, Undisturbed
<1>3. ClosedInTurn'
  <2>1. Closed' = Closed
    BY DEF Closed
  <2>2. \A n \in node_monitors : services_monitered'[n] \subseteq services_monitered[n]
    BY DEF IInv, Typed
  <2> QED
    BY <1>1, <2>1, <2>2 DEF IInv, ClosedInTurn
<1> QED
  BY <1>2, <1>3 DEF IInv, ClosedBeforeAbort

(* What registers does so before Cmd.shutdown.                              *)
LEMMA BeforeStep ==
  ASSUME IInv, ~is_shutdown,
         UNCHANGED << budget, shut, is_shutdown, killed, closing >>,
         services_monitered' \in [Node -> SUBSET Name],
         node_monitors' \subseteq Node, service_name_list' \subseteq Name
  PROVE  IInv'
<1>1. shut.st = "no" /\ killed = {} /\ closing = {}
  BY DEF IInv, ClosedInTurn
<1>2. Closed' = {}
  BY <1>1 DEF Closed
<1> QED
  BY <1>1, <1>2 DEF IInv, Typed, Undisturbed, ClosedInTurn, ClosedBeforeAbort

LEMMA ConnectorInv ==
  ASSUME IInv, NEW n \in Node, ConnectorStep(n)
  PROVE  IInv'
<1>0. services_monitered \in [Node -> SUBSET Name]
  BY DEF IInv, Typed
<1>1. CASE RegisterNode(n)
  <2>1. ~is_shutdown /\ node_monitors' = node_monitors \cup {n}
        /\ UNCHANGED << budget, shut, is_shutdown, killed, closing, services_monitered, service_name_list >>
    BY <1>1 DEF RegisterNode, Goes
  <2> QED
    BY <1>0, <2>1, BeforeStep DEF IInv, Typed
<1>2. CASE ~RegisterNode(n)
  <2>1. UNCHANGED << budget, shut, is_shutdown, killed, closing, services_monitered,
                     service_name_list, node_monitors >>
    BY <1>2 DEF ConnectorStep, Connect, ConnectFails, ClearNode, GetUsers, RegisterUsers,
                Heartbeat, Goes
  <2> QED
    BY <1>0, <2>1, UnseenStep
<1> QED
  BY <1>1, <1>2

LEMMA UserInv ==
  ASSUME IInv, NEW u \in Uid, NEW n \in Node, UserAction(u, n)
  PROVE  IInv'
<1>0. services_monitered \in [Node -> SUBSET Name]
  BY DEF IInv, Typed
<1>1. UNCHANGED << shut, is_shutdown, killed, closing, services_monitered,
                   service_name_list, node_monitors >>
  BY DEF UserAction, Login, Online, Logout, Offline, UserStep, nodevars, monitorvars
<1>2. UNCHANGED budget \/ \E i \in Nat : budget' = [budget EXCEPT !.login = i]
  <2>1. CASE Login(u, n)
    <3>1. budget.login \in Nat /\ budget.login > 0
      BY <2>1 DEF Login, IInv, Typed
    <3>2. budget' = [budget EXCEPT !.login = budget.login - 1] /\ budget.login - 1 \in Nat
      BY <2>1, <3>1 DEF Login
    <3> QED
      BY <3>2
  <2>2. CASE ~Login(u, n)
    BY <2>2 DEF UserAction, Online, Logout, Offline
  <2> QED
    BY <2>1, <2>2
<1> QED
  BY <1>0, <1>1, <1>2, UnseenStep

LEMMA ServiceInv ==
  ASSUME IInv, NEW n \in Node, NEW s \in Name, ServiceAction(n, s)
  PROVE  IInv'
<1>0. services_monitered \in [Node -> SUBSET Name] /\ node_monitors \subseteq Node
      /\ service_name_list \subseteq Name
  BY DEF IInv, Typed
<1>1. UNCHANGED << budget, shut, is_shutdown, killed, closing, node_monitors >>
  BY DEF ServiceAction, Register, RegisterName, ServiceExits, Unregister, ServiceStep
<1>2. CASE Register(n, s)
  <2>1. UNCHANGED service_name_list /\ services_monitered' \in [Node -> SUBSET Name]
    BY <1>0, <1>2 DEF Register
  <2>2. ~is_shutdown
    BY <1>2 DEF Register, IInv, Undisturbed, ClosedInTurn
  <2> QED
    BY <1>0, <1>1, <2>1, <2>2, BeforeStep
<1>3. CASE RegisterName(n, s)
  <2>1. UNCHANGED services_monitered
    BY <1>3 DEF RegisterName
  <2>2. CASE is_shutdown
    BY <1>0, <1>1, <1>3, <2>1, <2>2, UnseenStep DEF RegisterName
  <2>3. CASE ~is_shutdown
    BY <1>0, <1>1, <1>3, <2>1, <2>3, BeforeStep DEF RegisterName
  <2> QED
    BY <2>2, <2>3
<1>4. CASE ServiceExits(n, s)
  BY <1>0, <1>1, <1>4, UnseenStep DEF ServiceExits
<1>5. CASE Unregister(n, s)
  <2>1. services_monitered' = [services_monitered EXCEPT ![n] = services_monitered[n] \ {s}]
        /\ UNCHANGED service_name_list
    BY <1>5 DEF Unregister
  <2> QED
    BY <1>0, <1>1, <2>1, UnseenStep
<1> QED
  BY <1>2, <1>3, <1>4, <1>5 DEF ServiceAction

-----------------------------------------------------------------------------
(* Cmd.shutdown itself.                                                     *)

LEMMA ShutdownInv == IInv /\ (Shutdown \/ PollsOver \/ CloseNodes) => IInv'
<1> SUFFICES ASSUME IInv, Shutdown \/ PollsOver \/ CloseNodes PROVE IInv'
  OBVIOUS
<1>0. /\ UNCHANGED << budget, services_monitered, node_monitors, service_name_list, closing, killed >>
      /\ Typed /\ Undisturbed(budget) /\ ClosedInTurn /\ ClosedBeforeAbort
  BY DEF IInv, Shutdown, PollsOver, CloseNodes, ShutStep
<1>1. CASE Shutdown
  <2>1. /\ shut.st = "no" /\ killed = {} /\ closing = {} /\ is_shutdown' = TRUE /\ budget.shutdown
        /\ shut' = [shut EXCEPT !.st = "names", !.todo = service_name_list]
    BY <1>0, <1>1 DEF Shutdown, ClosedInTurn
  <2>2. Typed' /\ shut'.st = "names" /\ shut'.todo = service_name_list
    BY <1>0, <2>1 DEF Typed
  <2>3. Closed' = {}
    BY <1>0, <2>2 DEF Closed
  <2> QED
    BY <1>0, <2>1, <2>2, <2>3 DEF IInv, Undisturbed, ClosedInTurn, ClosedBeforeAbort
<1>2. CASE PollsOver /\ shut.clean
  <2>1. /\ shut.st = "polls" /\ shut.left = {} /\ UNCHANGED is_shutdown
        /\ shut' = [NoShutdown EXCEPT !.st = "names", !.todo = shut.todo]
    BY <1>2 DEF PollsOver
  <2>2. Typed' /\ shut'.st = "names" /\ shut'.todo = shut.todo
    BY <1>0, <2>1 DEF Typed, NoShutdown
  <2>3. Closed' \subseteq Closed \cup {shut.name}
    BY <1>0, <2>1, <2>2 DEF Closed
  <2> QED
    BY <1>0, <1>2, <2>1, <2>2, <2>3 DEF IInv, Undisturbed, ClosedInTurn, ClosedBeforeAbort
<1>3. CASE PollsOver /\ ~shut.clean
  <2>1. /\ shut.st = "polls" /\ UNCHANGED is_shutdown
        /\ shut' = [shut EXCEPT !.left = node_monitors, !.clean = TRUE]
    BY <1>3 DEF PollsOver
  <2>2. Typed' /\ shut'.st = "polls" /\ shut'.todo = shut.todo /\ shut'.name = shut.name
        /\ shut'.left = node_monitors
    BY <1>0, <2>1 DEF Typed
  <2>3. Closed' = Closed
    BY <1>0, <2>1, <2>2 DEF Closed
  <2> QED
    BY <1>0, <2>1, <2>2, <2>3 DEF IInv, Undisturbed, ClosedInTurn, ClosedBeforeAbort
<1>4. CASE CloseNodes
  <2>1. /\ shut.st = "names" /\ shut.todo = {} /\ UNCHANGED is_shutdown
        /\ shut' = [NoShutdown EXCEPT !.st = "nodes", !.forks = node_monitors \ {Center}]
    BY <1>4 DEF CloseNodes
  <2>2. Typed' /\ shut'.st = "nodes"
    BY <1>0, <2>1 DEF Typed, NoShutdown
  <2>3. Closed' = Closed
    BY <1>0, <2>1, <2>2 DEF Closed
  <2> QED
    BY <1>0, <2>1, <2>2, <2>3 DEF IInv, Undisturbed, ClosedInTurn, ClosedBeforeAbort
<1> QED
  BY <1>1, <1>2, <1>3, <1>4

LEMMA CloseNameInv ==
  ASSUME IInv, NEW s \in Name, CloseName(s)
  PROVE  IInv'
<1>0. /\ UNCHANGED << budget, services_monitered, node_monitors, service_name_list, closing,
                      killed, is_shutdown >>
      /\ Typed /\ Undisturbed(budget) /\ ClosedInTurn /\ ClosedBeforeAbort
      /\ shut.st = "names"
      /\ shut' = [st |-> "polls", todo |-> shut.todo \ {s}, name |-> s,
                  forks |-> node_monitors, left |-> node_monitors, clean |-> TRUE]
  BY DEF IInv, CloseName, ShutStep
<1>1. Typed'
  BY <1>0 DEF Typed
<1>2. Closed' \subseteq Closed
  BY <1>0 DEF Closed
<1> QED
  BY <1>0, <1>1, <1>2 DEF IInv, Undisturbed, ClosedInTurn, ClosedBeforeAbort

LEMMA ForkInv ==
  ASSUME IInv, NEW n \in Node, CloseService(n) \/ Poll(n) \/ CloseNode(n)
  PROVE  IInv'
<1>0. /\ UNCHANGED << budget, services_monitered, node_monitors, service_name_list, killed,
                      is_shutdown >>
      /\ Typed /\ Undisturbed(budget) /\ ClosedInTurn /\ ClosedBeforeAbort
  BY DEF IInv, CloseService, Poll, CloseNode, ShutStep
<1>1. /\ shut'.st = shut.st /\ shut'.todo = shut.todo /\ shut'.name = shut.name
      /\ Typed' /\ Closed' = Closed
  <2>1. CASE CloseService(n) \/ CloseNode(n)
    <3>1. shut' = [shut EXCEPT !.forks = shut.forks \ {n}]
      BY <2>1 DEF CloseService, CloseNode
    <3>2. /\ shut'.st = shut.st /\ shut'.todo = shut.todo /\ shut'.name = shut.name /\ Typed'
      BY <1>0, <3>1 DEF Typed
    <3> QED
      BY <1>0, <3>2 DEF Closed
  <2>2. CASE Poll(n)
    <3>1. shut' = [shut EXCEPT !.left = shut.left \ {n},
            !.clean = shut.clean /\ n \in up /\ shut.name \notin services_monitered[n]]
      BY <2>2 DEF Poll
    <3>2. /\ shut'.st = shut.st /\ shut'.todo = shut.todo /\ shut'.name = shut.name /\ Typed'
      BY <1>0, <3>1 DEF Typed
    <3> QED
      BY <1>0, <3>2 DEF Closed
  <2> QED
    BY <2>1, <2>2
<1>2. shut.st \notin {"nodes", "aborted"} => UNCHANGED closing
  BY DEF CloseService, Poll, CloseNode
<1>3. shut'.st = "polls" /\ shut'.clean =>
        \A o \in node_monitors \ shut'.left : shut.name \notin services_monitered[o]
  <2>1. CASE CloseService(n) \/ CloseNode(n)
    <3>1. shut' = [shut EXCEPT !.forks = shut.forks \ {n}]
      BY <2>1 DEF CloseService, CloseNode
    <3>2. shut'.clean = shut.clean /\ shut'.left = shut.left
      BY <1>0, <3>1 DEF Typed
    <3> QED
      BY <1>0, <1>1, <3>2 DEF ClosedInTurn
  <2>2. CASE Poll(n)
    <3>1. shut' = [shut EXCEPT !.left = shut.left \ {n},
            !.clean = shut.clean /\ n \in up /\ shut.name \notin services_monitered[n]]
      BY <2>2 DEF Poll
    <3>2. /\ shut'.left = shut.left \ {n}
          /\ shut'.clean => shut.clean /\ shut.name \notin services_monitered[n]
      BY <1>0, <3>1 DEF Typed
    <3> QED
      BY <1>0, <1>1, <3>2 DEF ClosedInTurn
  <2> QED
    BY <2>1, <2>2
<1> QED
  BY <1>0, <1>1, <1>2, <1>3 DEF IInv, Undisturbed, ClosedInTurn, ClosedBeforeAbort

(* A node aborts when every name that is registered is closed everywhere.    *)
LEMMA AbortInv ==
  ASSUME IInv, NEW n \in Node, Abort(n)
  PROVE  IInv'
<1>0. /\ UNCHANGED << budget, node_monitors, service_name_list, is_shutdown >>
      /\ Typed /\ Undisturbed(budget) /\ ClosedInTurn /\ ClosedBeforeAbort
      /\ services_monitered' = [services_monitered EXCEPT ![n] = {}]
      /\ killed' = killed \cup {<< n, s >> : s \in {s \in services_monitered[n] :
                                              service[n][s] \in {"run", "exit"}}}
  BY DEF IInv, Abort, Gone
<1>1. shut.st \in {"nodes", "aborted"}
  BY <1>0 DEF Abort, ClosedInTurn
<1>2. Typed' /\ shut'.st \in {"nodes", "aborted"}
  BY <1>0, <1>1 DEF Typed, Abort
<1>3. Closed = service_name_list /\ Closed' = service_name_list
  BY <1>0, <1>1, <1>2 DEF Closed
<1>4. \A o \in Node : services_monitered'[o] \subseteq services_monitered[o]
  BY <1>0 DEF Typed
<1>5. ClosedInTurn'
  BY <1>0, <1>1, <1>2, <1>3, <1>4 DEF ClosedInTurn, Typed
<1>6. ClosedBeforeAbort'
  BY <1>0, <1>1, <1>3 DEF ClosedInTurn, ClosedBeforeAbort
<1> QED
  BY <1>0, <1>2, <1>5, <1>6 DEF IInv, Undisturbed

(* A crash undoes nothing that was closed.                                  *)
LEMMA CrashInv ==
  ASSUME IInv, NEW n \in Node, Crash(n), is_shutdown => n # Center
  PROVE  IInv'
<1>0. /\ Typed /\ Undisturbed(budget) /\ ClosedInTurn /\ ClosedBeforeAbort
      /\ budget.crash > 0 /\ budget' = [budget EXCEPT !.crash = budget.crash - 1]
      /\ services_monitered' = [services_monitered EXCEPT ![n] = {}]
      /\ closing' = closing \ {n} /\ UNCHANGED killed
  BY DEF IInv, Crash, Gone
<1>1. /\ budget' \in [login : Nat, crash : Nat, shutdown : BOOLEAN, late : BOOLEAN]
      /\ budget'.shutdown = budget.shutdown /\ budget'.late = budget.late
  <2>1. budget.crash - 1 \in Nat
    BY <1>0 DEF Typed
  <2> QED
    BY <1>0, <2>1 DEF Typed
<1>2. \A o \in Node : services_monitered'[o] \subseteq services_monitered[o]
  BY <1>0 DEF Typed
<1>3. CASE n = Center
  <2>1. ~is_shutdown /\ shut.st = "no" /\ closing = {} /\ killed = {}
    BY <1>0, <1>3 DEF ClosedInTurn
  <2>2. node_monitors' = {} /\ service_name_list' = {} /\ is_shutdown' = FALSE /\ shut' = NoShutdown
    BY <1>3 DEF Crash
  <2>3. Typed' /\ shut'.st = "no"
    BY <1>0, <1>1, <2>2 DEF Typed, NoShutdown
  <2>4. Closed' = {}
    BY <2>3 DEF Closed
  <2> QED
    BY <1>0, <1>1, <2>1, <2>2, <2>3, <2>4 DEF IInv, Undisturbed, ClosedInTurn, ClosedBeforeAbort
<1>4. CASE n # Center
  <2>1. UNCHANGED << node_monitors, service_name_list, is_shutdown, shut >>
    BY <1>4 DEF Crash, monitorvars
  <2>2. Typed'
    BY <1>0, <1>1, <2>1 DEF Typed
  <2>3. Closed' = Closed
    BY <2>1 DEF Closed
  <2> QED
    BY <1>0, <1>1, <1>2, <2>1, <2>2, <2>3
       DEF IInv, Typed, Undisturbed, ClosedInTurn, ClosedBeforeAbort
<1> QED
  BY <1>3, <1>4

LEMMA RestartInv ==
  ASSUME IInv, NEW n \in Node, Restart(n)
  PROVE  IInv'
BY UnseenStep DEF Restart, monitorvars, IInv, Typed

\* What the shutdown cannot survive
CenterCrashes == is_shutdown /\ Crash(Center)

LEMMA StepInv == IInv /\ [Next]_vars /\ ~CenterCrashes => IInv'
<1> SUFFICES ASSUME IInv, [Next]_vars, ~CenterCrashes PROVE IInv'
  OBVIOUS
<1>1. CASE UNCHANGED vars
  BY <1>1, UnseenStep DEF vars, nodevars, monitorvars, IInv, Typed
<1>2. ASSUME NEW n \in Node, Crash(n) PROVE IInv'
  BY <1>2, CrashInv DEF CenterCrashes
<1> QED
  BY <1>1, <1>2, ConnectorInv, UserInv, ServiceInv, ShutdownInv, CloseNameInv, ForkInv, AbortInv,
     RestartInv DEF Next, ShutdownStep

(* cluster_monitor.lua:28-97, node_monitor.lua:127-140: for any nodes, names *)
(* and services, whichever other nodes crash: a shutdown aborts no service of *)
(* a registered name on a registered node before its exit callback has run,  *)
(* unless the center node crashes in it or a service boots after it began.   *)
THEOREM Clean ==
  ASSUME \A b \in Budgets : Undisturbed(b)
  PROVE  Spec /\ [][~CenterCrashes]_vars => []ClosedBeforeAbort
<1>1. Init => IInv
  BY InitInv
<1>2. IInv => ClosedBeforeAbort
  BY DEF IInv
<1>3. IInv /\ [Next]_vars /\ [~CenterCrashes]_vars => IInv'
  <2>1. UNCHANGED vars /\ CenterCrashes => FALSE
    BY DEF CenterCrashes, Crash, Gone, vars
  <2> QED
    BY <2>1, StepInv
<1> QED
  BY <1>1, <1>2, <1>3, PTL DEF Spec

(* The same where no node crashes when there may be a shutdown.             *)
THEOREM CleanWithoutCrash ==
  ASSUME \A b \in Budgets : b.shutdown => ~b.late /\ b.crash = 0
  PROVE  Spec => []ClosedBeforeAbort
<1> DEFINE J == IInv /\ (budget.shutdown => budget.crash = 0)
<1>1. Init => J
  BY InitInv DEF Undisturbed, Init
<1>2. J => ClosedBeforeAbort
  BY DEF IInv
<1>3. J /\ [Next]_vars => J'
  <2> SUFFICES ASSUME IInv, budget.shutdown => budget.crash = 0, [Next]_vars PROVE J'
    OBVIOUS
  <2>1. ~CenterCrashes
    BY DEF CenterCrashes, Crash, IInv, ClosedInTurn
  <2>2. IInv'
    BY <2>1, StepInv
  <2>3. UNCHANGED budget \/ budget' = [budget EXCEPT !.login = @ - 1]
        \/ (budget.crash > 0 /\ budget' = [budget EXCEPT !.crash = @ - 1])
    BY DEF Next, vars, ConnectorStep, Connect, ConnectFails, RegisterNode, ClearNode, GetUsers,
       RegisterUsers, Heartbeat, Goes, Crash, Restart, UserAction, Login, Online, Logout, Offline,
       ServiceAction, Register, RegisterName, ServiceExits, Unregister, ServiceStep, Shutdown,
       ShutdownStep, PollsOver, CloseNodes, CloseName, CloseService, Poll, CloseNode, Abort,
       ShutStep
  <2>4. budget \in [login : Nat, crash : Nat, shutdown : BOOLEAN, late : BOOLEAN]
    BY DEF IInv, Typed
  <2> QED
    BY <2>2, <2>3, <2>4
<1> QED
  BY <1>1, <1>2, <1>3, PTL DEF Spec

-----------------------------------------------------------------------------
(* Types.                                                                   *)

\* With what the steps of Cmd.shutdown and of a crash need
TypeInv == TypeOK /\ Typed

LEMMA InitTypes == Init => TypeInv
<1> SUFFICES ASSUME Init PROVE TypeInv
  OBVIOUS
<1>1. \A n \in Node : Booted(n) \in [Name -> {"down", "boot", "run", "exit", "gone"}]
  BY DEF Booted
<1>2. TypeOK
  BY <1>1 DEF Init, TypeOK, NoShutdown, NoUsers
<1> QED
  BY <1>2, BudgetsAssumption DEF Init, TypeInv, Typed, NoShutdown

LEMMA ConnectorTypes ==
  ASSUME TypeInv, NEW n \in Node, ConnectorStep(n)
  PROVE  TypeInv'
<1>0. TypeOK /\ Typed
  BY DEF TypeInv
<1>1. UNCHANGED << budget, up, services_monitered, naming, service, closing, here,
                   service_name_list, is_shutdown, shut >>
  BY DEF ConnectorStep, Connect, ConnectFails, RegisterNode, ClearNode, GetUsers,
         RegisterUsers, Heartbeat, Goes
<1>2. connector' \in [Node -> {"none", "register", "clear", "users", "list", "connected"}]
  BY <1>0 DEF ConnectorStep, Connect, ConnectFails, RegisterNode, ClearNode, GetUsers,
              RegisterUsers, Heartbeat, Goes, TypeOK
<1>3. snapshot' \in [Node -> SUBSET Uid] /\ node_monitors' \subseteq Node
  BY <1>0 DEF ConnectorStep, Connect, ConnectFails, RegisterNode, ClearNode, GetUsers,
              RegisterUsers, Heartbeat, TypeOK
<1>4. users' \in [Uid \X Key -> Node \cup {None}]
  BY <1>0 DEF ConnectorStep, Connect, ConnectFails, RegisterNode, ClearNode, GetUsers,
              RegisterUsers, Heartbeat, TypeOK
<1> QED
  BY <1>0, <1>1, <1>2, <1>3, <1>4 DEF TypeInv, TypeOK, Typed

LEMMA UserTypes ==
  ASSUME TypeInv, NEW u \in Uid, NEW n \in Node, UserAction(u, n)
  PROVE  TypeInv'
<1>0. TypeOK /\ Typed
  BY DEF TypeInv
<1>1. UNCHANGED << up, nodevars, monitorvars >>
  BY DEF UserAction, Login, Online, Logout, Offline, UserStep
<1>2. here' \in [Node -> SUBSET Uid]
  BY <1>0 DEF UserAction, Login, Online, Logout, Offline, TypeOK
<1>3. users' \in [Uid \X Key -> Node \cup {None}]
  BY <1>0 DEF UserAction, Login, Online, Logout, Offline, TypeOK
<1>4. budget' \in [login : Nat, crash : Nat, shutdown : BOOLEAN, late : BOOLEAN]
  <2>1. CASE Login(u, n)
    <3>1. budget.login - 1 \in Nat
      BY <1>0, <2>1 DEF Login, Typed
    <3> QED
      BY <1>0, <2>1, <3>1 DEF Login, Typed
  <2>2. CASE UNCHANGED budget
    BY <1>0, <2>2 DEF Typed
  <2> QED
    BY <2>1, <2>2 DEF UserAction, Online, Logout, Offline
<1> QED
  BY <1>0, <1>1, <1>2, <1>3, <1>4 DEF TypeInv, TypeOK, Typed, nodevars, monitorvars

LEMMA MovedService ==
  ASSUME TypeOK, NEW n \in Node, NEW s \in Name, NEW st \in {"run", "exit", "gone"}
  PROVE  [service EXCEPT ![n][s] = st] \in [Node -> [Name -> {"down", "boot", "run", "exit", "gone"}]]
<1>1. service[n] \in [Name -> {"down", "boot", "run", "exit", "gone"}]
  BY DEF TypeOK
<1>2. [service[n] EXCEPT ![s] = st] \in [Name -> {"down", "boot", "run", "exit", "gone"}]
  BY <1>1
<1> QED
  BY <1>2 DEF TypeOK

LEMMA ServiceTypes ==
  ASSUME TypeInv, NEW n \in Node, NEW s \in Name, ServiceAction(n, s)
  PROVE  TypeInv'
<1>0. TypeOK /\ Typed
  BY DEF TypeInv
<1>1. UNCHANGED << budget, up, connector, snapshot, closing, uservars, node_monitors,
                   is_shutdown, shut >>
  BY DEF ServiceAction, Register, RegisterName, ServiceExits, Unregister, ServiceStep
<1>2. service' \in [Node -> [Name -> {"down", "boot", "run", "exit", "gone"}]]
  <2>1. CASE Register(n, s)
    <3>1. service' = [service EXCEPT ![n][s] = "run"]
      BY <2>1 DEF Register
    <3> QED
      BY <1>0, <3>1, MovedService
  <2>2. CASE ServiceExits(n, s)
    <3>1. service' = [service EXCEPT ![n][s] = "gone"]
      BY <2>2 DEF ServiceExits
    <3> QED
      BY <1>0, <3>1, MovedService
  <2>3. CASE UNCHANGED service
    BY <1>0, <2>3 DEF TypeOK
  <2> QED
    BY <2>1, <2>2, <2>3 DEF ServiceAction, RegisterName, Unregister
<1>3. services_monitered' \in [Node -> SUBSET Name] /\ naming' \subseteq Node \X Name
  <2>1. CASE Register(n, s)
    <3>1. \/ UNCHANGED << services_monitered, naming >>
          \/ /\ services_monitered' =
                  [services_monitered EXCEPT ![n] = services_monitered[n] \cup {s}]
             /\ naming' = naming \cup {<< n, s >>}
      BY <2>1 DEF Register
    <3>2. << n, s >> \in Node \X Name
      OBVIOUS
    <3>3. services_monitered' \in [Node -> SUBSET Name]
      BY <1>0, <3>1 DEF TypeOK
    <3>4. naming' \subseteq Node \X Name
      BY <1>0, <3>1, <3>2 DEF TypeOK
    <3> QED
      BY <3>3, <3>4
  <2>2. CASE RegisterName(n, s) \/ ServiceExits(n, s)
    <3>1. UNCHANGED services_monitered /\ naming' \subseteq naming
      BY <2>2 DEF RegisterName, ServiceExits
    <3> QED
      BY <1>0, <3>1 DEF TypeOK
  <2>3. CASE Unregister(n, s)
    BY <1>0, <2>3 DEF Unregister, TypeOK
  <2> QED
    BY <2>1, <2>2, <2>3 DEF ServiceAction
<1>4. service_name_list' \subseteq Name
  BY <1>0 DEF ServiceAction, Register, RegisterName, ServiceExits, Unregister, TypeOK
<1> QED
  BY <1>0, <1>1, <1>2, <1>3, <1>4 DEF TypeInv, TypeOK, Typed, uservars

\* Steps of Cmd.shutdown but the abort.
LEMMA ShutdownTypes ==
  ASSUME TypeInv,
         \/ Shutdown \/ PollsOver \/ CloseNodes
         \/ \E s \in Name : CloseName(s)
         \/ \E n \in Node : CloseService(n) \/ Poll(n) \/ CloseNode(n)
  PROVE  TypeInv'
<1>0. TypeOK /\ Typed
  BY DEF TypeInv
<1>1. UNCHANGED << budget, up, connector, snapshot, services_monitered, naming, uservars,
                   node_monitors, service_name_list >>
  BY DEF Shutdown, PollsOver, CloseNodes, CloseName, CloseService, Poll, CloseNode, ShutStep
<1>2. is_shutdown' \in BOOLEAN
  BY <1>0 DEF Shutdown, PollsOver, CloseNodes, CloseName, CloseService, Poll, CloseNode, Typed
<1>3. closing' \subseteq up
  BY <1>0 DEF Shutdown, PollsOver, CloseNodes, CloseName, CloseService, Poll, CloseNode, TypeOK
<1>4. service' \in [Node -> [Name -> {"down", "boot", "run", "exit", "gone"}]]
  <2>1. ASSUME NEW n \in Node, CloseService(n), ~UNCHANGED service
        PROVE  service' \in [Node -> [Name -> {"down", "boot", "run", "exit", "gone"}]]
    <3>1. /\ shut.name \in services_monitered[n]
          /\ service' = [service EXCEPT ![n][shut.name] = "exit"]
      BY <2>1 DEF CloseService
    <3>2. shut.name \in Name
      BY <1>0, <3>1 DEF TypeOK
    <3> QED
      BY <1>0, <3>1, <3>2, MovedService
  <2>2. CASE UNCHANGED service
    BY <1>0, <2>2 DEF TypeOK
  <2> QED
    BY <2>1, <2>2 DEF Shutdown, PollsOver, CloseNodes, CloseName, Poll, CloseNode
<1>5. shut' \in [st : {"no", "names", "polls", "nodes", "aborted"}, todo : SUBSET Name,
                 name : Name \cup {None}, forks : SUBSET Node, left : SUBSET Node,
                 clean : BOOLEAN]
  <2>0. NoShutdown \in [st : {"no", "names", "polls", "nodes", "aborted"}, todo : SUBSET Name,
                       name : Name \cup {None}, forks : SUBSET Node, left : SUBSET Node,
                       clean : BOOLEAN]
    BY DEF NoShutdown
  <2>1. CASE Shutdown \/ PollsOver \/ CloseNodes
    <3>1. CASE Shutdown
      BY <1>0, <3>1 DEF Shutdown, Typed
    <3>2. CASE PollsOver
      BY <1>0, <2>0, <3>2 DEF PollsOver, Typed
    <3>3. CASE CloseNodes
      BY <1>0, <2>0, <3>3 DEF CloseNodes, Typed
    <3> QED
      BY <2>1, <3>1, <3>2, <3>3
  <2>2. ASSUME NEW s \in Name, CloseName(s)
        PROVE  shut' \in [st : {"no", "names", "polls", "nodes", "aborted"}, todo : SUBSET Name,
                          name : Name \cup {None}, forks : SUBSET Node, left : SUBSET Node,
                          clean : BOOLEAN]
    BY <1>0, <2>2 DEF CloseName, Typed
  <2>3. ASSUME NEW n \in Node, CloseService(n) \/ Poll(n) \/ CloseNode(n)
        PROVE  shut' \in [st : {"no", "names", "polls", "nodes", "aborted"}, todo : SUBSET Name,
                          name : Name \cup {None}, forks : SUBSET Node, left : SUBSET Node,
                          clean : BOOLEAN]
    <3>1. \/ shut' = [shut EXCEPT !.forks = shut.forks \ {n}]
          \/ shut' = [shut EXCEPT !.left = shut.left \ {n},
               !.clean = shut.clean /\ n \in up /\ shut.name \notin services_monitered[n]]
      BY <2>3 DEF CloseService, Poll, CloseNode
    <3>2. CASE shut' = [shut EXCEPT !.forks = shut.forks \ {n}]
      BY <1>0, <3>2 DEF Typed
    <3>3. CASE shut' = [shut EXCEPT !.left = shut.left \ {n},
                 !.clean = shut.clean /\ n \in up /\ shut.name \notin services_monitered[n]]
      <4> DEFINE c == shut.clean /\ n \in up /\ shut.name \notin services_monitered[n]
      <4>1. c \in BOOLEAN
        BY <1>0 DEF Typed
      <4>2. shut' = [shut EXCEPT !.left = shut.left \ {n}, !.clean = c]
        BY <3>3
      <4> HIDE DEF c
      <4> QED
        BY <1>0, <4>1, <4>2 DEF Typed
    <3> QED
      BY <3>1, <3>2, <3>3
  <2> QED
    BY <2>1, <2>2, <2>3
<1> QED
  BY <1>0, <1>1, <1>2, <1>3, <1>4, <1>5 DEF TypeInv, TypeOK, Typed, uservars

LEMMA GoneTypes ==
  ASSUME TypeInv, NEW n \in Node, Gone(n)
  PROVE  /\ up' \subseteq Node /\ closing' \subseteq up'
         /\ connector' \in [Node -> {"none", "register", "clear", "users", "list", "connected"}]
         /\ snapshot' \in [Node -> SUBSET Uid]
         /\ services_monitered' \in [Node -> SUBSET Name] /\ naming' \subseteq Node \X Name
         /\ service' \in [Node -> [Name -> {"down", "boot", "run", "exit", "gone"}]]
         /\ here' \in [Node -> SUBSET Uid]
BY DEF TypeInv, TypeOK, Gone

LEMMA AbortTypes ==
  ASSUME TypeInv, NEW n \in Node, Abort(n)
  PROVE  TypeInv'
<1>0. TypeOK /\ Typed
  BY DEF TypeInv
<1>1. UNCHANGED << budget, users, node_monitors, service_name_list, is_shutdown >>
  BY DEF Abort
<1>2. shut' \in [st : {"no", "names", "polls", "nodes", "aborted"}, todo : SUBSET Name,
                 name : Name \cup {None}, forks : SUBSET Node, left : SUBSET Node,
                 clean : BOOLEAN]
  BY <1>0 DEF Abort, Typed
<1>3. Gone(n)
  BY DEF Abort
<1> QED
  BY <1>0, <1>1, <1>2, <1>3, GoneTypes DEF TypeInv, TypeOK, Typed

LEMMA CrashTypes ==
  ASSUME TypeInv, NEW n \in Node, Crash(n)
  PROVE  TypeInv'
<1>0. TypeOK /\ Typed
  BY DEF TypeInv
<1>1. budget' \in [login : Nat, crash : Nat, shutdown : BOOLEAN, late : BOOLEAN]
  <2>1. budget.crash - 1 \in Nat
    BY <1>0 DEF Crash, Typed
  <2> QED
    BY <1>0, <2>1 DEF Crash, Typed
<1>2. Gone(n)
  BY DEF Crash
<1>3. /\ node_monitors' \subseteq Node /\ service_name_list' \subseteq Name
      /\ is_shutdown' \in BOOLEAN
      /\ shut' \in [st : {"no", "names", "polls", "nodes", "aborted"}, todo : SUBSET Name,
                    name : Name \cup {None}, forks : SUBSET Node, left : SUBSET Node,
                    clean : BOOLEAN]
      /\ users' \in [Uid \X Key -> Node \cup {None}]
  <2>1. CASE n = Center
    <3>1. /\ node_monitors' = {} /\ service_name_list' = {} /\ is_shutdown' = FALSE
          /\ shut' = NoShutdown /\ users' = NoUsers
      BY <2>1 DEF Crash
    <3>2. NoShutdown \in [st : {"no", "names", "polls", "nodes", "aborted"}, todo : SUBSET Name,
                         name : Name \cup {None}, forks : SUBSET Node, left : SUBSET Node,
                         clean : BOOLEAN]
      BY DEF NoShutdown
    <3>3. NoUsers \in [Uid \X Key -> Node \cup {None}]
      BY DEF NoUsers
    <3> QED
      BY <3>1, <3>2, <3>3
  <2>2. CASE n # Center
    BY <1>0, <2>2 DEF Crash, monitorvars, TypeOK, Typed
  <2> QED
    BY <2>1, <2>2
<1> QED
  BY <1>1, <1>2, <1>3, GoneTypes DEF TypeInv, TypeOK, Typed

LEMMA RestartTypes ==
  ASSUME TypeInv, NEW n \in Node, Restart(n)
  PROVE  TypeInv'
<1>1. Booted(n) \in [Name -> {"down", "boot", "run", "exit", "gone"}]
  BY DEF Booted
<1> QED
  BY <1>1 DEF TypeInv, TypeOK, Typed, Restart, monitorvars, uservars

(* Types of node_monitor, cluster_monitor and online_snax, whatever crashes    *)
(* and boots; only a node that runs is about to abort, and it is forgotten    *)
(* when the process goes (node_monitor.lua:127-140).                         *)
THEOREM TypeCorrect == Spec => []TypeOK
<1>1. Init => TypeInv
  BY InitTypes
<1>2. TypeInv /\ [Next]_vars => TypeInv'
  <2> SUFFICES ASSUME TypeInv, [Next]_vars PROVE TypeInv'
    OBVIOUS
  <2>1. CASE UNCHANGED vars
    BY <2>1 DEF vars, nodevars, monitorvars, uservars, TypeInv, TypeOK, Typed
  <2> QED
    BY <2>1, ConnectorTypes, UserTypes, ServiceTypes, ShutdownTypes, AbortTypes, CrashTypes,
       RestartTypes DEF Next, ShutdownStep
<1>3. TypeInv => TypeOK
  BY DEF TypeInv
<1> QED
  BY <1>1, <1>2, <1>3, PTL DEF Spec
=============================================================================
