------------------------------ MODULE Monitor ------------------------------
(***************************************************************************)
(* The nodes of a cluster and what the center node knows of them:           *)
(* service/node_monitor.lua of every node with lualib/connector.lua and      *)
(* acceptor.lua, service/cluster_monitor.lua and service/online_snax.lua of  *)
(* the center node.                                                        *)
(*                                                                         *)
(* Gates and roles appear as what they tell online_snax (modules Gated and   *)
(* Role); services as what they tell their node_monitor.                    *)
(*                                                                         *)
(* node_monitor's Cmd.connect does not answer, so that the connector that    *)
(* cluster_monitor starts for a node waits for ever in its first call, or     *)
(* fails and tries again: it changes nothing and is left out.  Cmd.connect    *)
(* of cluster_monitor answers a heartbeat (delay -1) with E_FAKE_DISCONNECTED *)
(* at once, so that a connector goes through its connected_cb again and       *)
(* again.                                                                   *)
(***************************************************************************)
EXTENDS Naturals, FiniteSets

CONSTANTS
  Node, Center,
  Uid,
  Name,        \* names of services that register with their node_monitor
  Hosts,       \* name -> nodes that start such a service
  None,        \* Lua nil
  Budgets      \* bounds: what may happen in a behaviour, one of these

ASSUME CenterAssumption == Center \in Node /\ None \notin Node
ASSUME HostsAssumption == Hosts \in [Name -> SUBSET Node]
ASSUME BudgetsAssumption ==
  Budgets \subseteq [login : Nat, crash : Nat, shutdown : BOOLEAN, late : BOOLEAN]

VARIABLES
  budget,
  up,                  \* nodes whose process runs
  \* node_monitor of each node
  connector,           \* where the coroutine of its connector is
  snapshot,            \* the users that connected_cb got from get_users
  services_monitered,
  naming,              \* register_service_name is on its way
  service,             \* the processes of the services
  closing,             \* nodes whose is_shutdown is set: they abort soon
  \* cluster_monitor
  node_monitors, service_name_list, is_shutdown,
  shut,                \* Cmd.shutdown
  \* online_snax: Lua tells the uid of a gate, a number, from the one of a
  \* role, a string
  users,
  \* gates: who is logged in; roles: who is online, and who is going offline
  here, role, leaving,
  killed               \* history: services aborted before they had exited

nodevars == << connector, snapshot, services_monitered, naming, service, closing >>
monitorvars == << node_monitors, service_name_list, is_shutdown, shut >>
uservars == << users, here, role, leaving >>
vars == << budget, up, nodevars, monitorvars, uservars, killed >>

Key == {"number", "string"}
NoUsers == [x \in Uid \X Key |-> None]
NoShutdown == [st |-> "no", todo |-> {}, name |-> None, forks |-> {}, left |-> {}, clean |-> TRUE]
\* Services are followed in the behaviours that may have a shutdown.
Booted(n) == [s \in Name |-> IF budget.shutdown /\ n \in Hosts[s] THEN "boot" ELSE "down"]

Init ==
  /\ budget \in Budgets
  /\ up = Node
  /\ connector = [n \in Node |-> "none"]
  /\ snapshot = [n \in Node |-> {}]
  /\ services_monitered = [n \in Node |-> {}]
  /\ naming = {}
  /\ service = [n \in Node |-> Booted(n)]
  /\ closing = {}
  /\ node_monitors = {} /\ service_name_list = {} /\ is_shutdown = FALSE
  /\ shut = NoShutdown
  /\ users = NoUsers
  /\ here = [n \in Node |-> {}]
  /\ role = [n \in Node |-> {}]
  /\ leaving = [n \in Node |-> {}]
  /\ killed = {}

CenterUp == Center \in up

-----------------------------------------------------------------------------
(* The connector of node_monitor.                                           *)

Goes(n, from, to) ==
  /\ n \in up
  /\ connector[n] = from
  /\ connector' = [connector EXCEPT ![n] = to]
  /\ UNCHANGED << budget, up, services_monitered, naming, service, closing, here, role,
                  leaving, service_name_list, is_shutdown, shut, killed >>

(* connect(0) is answered.                                                  *)
Connect(n) ==
  /\ CenterUp
  /\ Goes(n, "none", "register")
  /\ UNCHANGED << snapshot, node_monitors, users >>

(* A call of connected_cb raises or is refused: back to the sleep.           *)
ConnectFails(n) ==
  /\ \/ connector[n] \in {"register", "clear", "list"} /\ ~CenterUp
     \/ connector[n] = "register" /\ is_shutdown
  /\ Goes(n, connector[n], "none")
  /\ UNCHANGED << snapshot, node_monitors, users >>

(* register_node: the node is unregistered and registered anew.              *)
RegisterNode(n) ==
  /\ CenterUp /\ ~is_shutdown
  /\ Goes(n, "register", "clear")
  /\ node_monitors' = node_monitors \cup {n}
  /\ UNCHANGED << snapshot, users >>

\* mutated: the entries of the node are left there
MutClearNode(n) ==
  /\ CenterUp
  /\ Goes(n, "clear", "users")
  /\ UNCHANGED << snapshot, node_monitors, users >>

(* clear_node of online_snax.                                               *)
ClearNode(n) ==
  /\ CenterUp
  /\ Goes(n, "clear", "users")
  /\ users' = [x \in DOMAIN users |-> IF users[x] = n THEN None ELSE users[x]]
  /\ UNCHANGED << snapshot, node_monitors >>

(* get_users of the node's own gate.                                        *)
GetUsers(n) ==
  /\ Goes(n, "users", "list")
  /\ snapshot' = [snapshot EXCEPT ![n] = here[n]]
  /\ UNCHANGED << node_monitors, users >>

(* register_node of online_snax lists what get_users had returned.           *)
RegisterUsers(n) ==
  /\ CenterUp
  /\ Goes(n, "list", "connected")
  /\ users' = [x \in DOMAIN users |->
       IF x[1] \in snapshot[n] /\ x[2] = "number" THEN n ELSE users[x]]
  /\ snapshot' = [snapshot EXCEPT ![n] = {}]
  /\ UNCHANGED node_monitors

\* mutated: a heartbeat is answered with E_OK
MutHeartbeat(n) ==
  /\ ~CenterUp
  /\ Goes(n, "connected", "none")
  /\ UNCHANGED << snapshot, node_monitors, users >>

(* connect(-1): E_FAKE_DISCONNECTED, or an error.                           *)
Heartbeat(n) ==
  /\ Goes(n, "connected", "none")
  /\ UNCHANGED << snapshot, node_monitors, users >>

-----------------------------------------------------------------------------
(* Users.                                                                   *)

UserStep == UNCHANGED << up, nodevars, monitorvars, killed >>

(* The login master lets an account be logged in at one gate.               *)
Login(u, n) ==
  /\ budget.login > 0 /\ n \in up
  /\ \A o \in Node : u \notin here[o]
  /\ budget' = [budget EXCEPT !.login = @ - 1]
  /\ here' = [here EXCEPT ![n] = @ \cup {u}]
  /\ UserStep /\ UNCHANGED << users, role, leaving >>

(* The role was loaded: Role:online.                                        *)
Online(u, n) ==
  /\ u \in here[n] \ role[n] /\ CenterUp
  /\ role' = [role EXCEPT ![n] = @ \cup {u}]
  /\ users' = [users EXCEPT ![<< u, "string" >>] = n]
  /\ UserStep /\ UNCHANGED << budget, here, leaving >>

(* The gate forgets the user; its role goes offline, unless its agent has     *)
(* closed one before (module Role).                                         *)
Logout(u, n) ==
  /\ u \in here[n]
  /\ here' = [here EXCEPT ![n] = @ \ {u}]
  /\ role' = [role EXCEPT ![n] = @ \ {u}]
  /\ \/ u \in role[n] /\ leaving' = [leaving EXCEPT ![n] = @ \cup {u}]
     \/ UNCHANGED leaving
  /\ UserStep /\ UNCHANGED << budget, users >>

(* Role:_offline; it saves the role though online_snax cannot be reached.    *)
Offline(u, n) ==
  /\ u \in leaving[n]
  /\ leaving' = [leaving EXCEPT ![n] = @ \ {u}]
  /\ users' = IF CenterUp THEN [users EXCEPT ![<< u, "string" >>] = None] ELSE users
  /\ UserStep /\ UNCHANGED << budget, here, role >>

-----------------------------------------------------------------------------
(* Services.                                                                *)

ServiceStep == UNCHANGED << budget, up, connector, snapshot, closing, uservars, node_monitors,
                            is_shutdown, shut, killed >>

(* Cmd.register of node_monitor, up to its call of cluster_monitor; refused   *)
(* after close_node.                                                        *)
Register(n, s) ==
  /\ n \in up /\ service[n][s] = "boot"
  /\ ~is_shutdown \/ budget.late
  /\ service' = [service EXCEPT ![n][s] = "run"]
  /\ IF n \in closing THEN UNCHANGED << services_monitered, naming >>
     ELSE /\ services_monitered' = [services_monitered EXCEPT ![n] = @ \cup {s}]
          /\ naming' = naming \cup {<< n, s >>}
  /\ ServiceStep /\ UNCHANGED service_name_list

(* register_service_name: refused during shutdown and for a node that is not  *)
(* registered; nobody tries again.                                          *)
RegisterName(n, s) ==
  /\ << n, s >> \in naming
  /\ naming' = naming \ {<< n, s >>}
  /\ service_name_list' =
       IF CenterUp /\ ~is_shutdown /\ n \in node_monitors
         THEN service_name_list \cup {s} ELSE service_name_list
  /\ ServiceStep /\ UNCHANGED << service, services_monitered >>

(* A service that was told to EXIT has run its exit callback.               *)
ServiceExits(n, s) ==
  /\ service[n][s] = "exit"
  /\ service' = [service EXCEPT ![n][s] = "gone"]
  /\ ServiceStep /\ UNCHANGED << services_monitered, naming, service_name_list >>

(* node_monitor, which is skynet's monitor, hears that it is gone.           *)
Unregister(n, s) ==
  /\ service[n][s] = "gone" /\ s \in services_monitered[n]
  /\ services_monitered' = [services_monitered EXCEPT ![n] = @ \ {s}]
  /\ ServiceStep /\ UNCHANGED << service, naming, service_name_list >>

-----------------------------------------------------------------------------
(* Cmd.shutdown: one name after the other; then the other nodes; then itself. *)

ShutStep == UNCHANGED << budget, up, connector, snapshot, naming, uservars, node_monitors,
                         service_name_list >>

Shutdown ==
  /\ budget.shutdown /\ CenterUp /\ ~is_shutdown
  /\ is_shutdown' = TRUE
  /\ shut' = [shut EXCEPT !.st = "names", !.todo = service_name_list]
  /\ ShutStep /\ UNCHANGED << services_monitered, service, closing, killed >>

\* _close_service_bytype: a fork for each node, then rounds of get_service_num.
CloseName(s) ==
  /\ shut.st = "names" /\ s \in shut.todo
  /\ shut' = [st |-> "polls", todo |-> shut.todo \ {s}, name |-> s,
              forks |-> node_monitors, left |-> node_monitors, clean |-> TRUE]
  /\ ShutStep /\ UNCHANGED << services_monitered, service, is_shutdown, closing, killed >>

\* close_service sends EXIT to the services of the name that are registered.
CloseService(n) ==
  /\ shut.st = "polls" /\ n \in shut.forks
  /\ shut' = [shut EXCEPT !.forks = @ \ {n}]
  /\ service' = IF n \in up /\ shut.name \in services_monitered[n]
                  THEN [service EXCEPT ![n][shut.name] = "exit"] ELSE service
  /\ ShutStep /\ UNCHANGED << services_monitered, is_shutdown, closing, killed >>

\* mutated: the answer of the last node alone counts
MutPoll(n) ==
  /\ shut.st = "polls" /\ n \in shut.left
  /\ shut' = [shut EXCEPT !.left = @ \ {n},
                          !.clean = n \in up /\ shut.name \notin services_monitered[n]]
  /\ ShutStep /\ UNCHANGED << services_monitered, service, is_shutdown, closing, killed >>

\* get_service_num of one node.
Poll(n) ==
  /\ shut.st = "polls" /\ n \in shut.left
  /\ shut' = [shut EXCEPT !.left = @ \ {n},
                          !.clean = @ /\ n \in up /\ shut.name \notin services_monitered[n]]
  /\ ShutStep /\ UNCHANGED << services_monitered, service, is_shutdown, closing, killed >>

\* mutated: all_ok and count are set once, before the first round
MutPollsOver ==
  /\ shut.st = "polls" /\ shut.left = {} /\ shut.forks = {}
  /\ shut' = IF shut.clean THEN [NoShutdown EXCEPT !.st = "names", !.todo = shut.todo]
                            ELSE [shut EXCEPT !.left = node_monitors]
  /\ ShutStep /\ UNCHANGED << services_monitered, service, is_shutdown, closing, killed >>

\* The forks ran before the second round.
PollsOver ==
  /\ shut.st = "polls" /\ shut.left = {} /\ shut.forks = {}
  /\ shut' = IF shut.clean THEN [NoShutdown EXCEPT !.st = "names", !.todo = shut.todo]
                            ELSE [shut EXCEPT !.left = node_monitors, !.clean = TRUE]
  /\ ShutStep /\ UNCHANGED << services_monitered, service, is_shutdown, closing, killed >>

CloseNodes ==
  /\ shut.st = "names" /\ shut.todo = {}
  /\ shut' = [NoShutdown EXCEPT !.st = "nodes", !.forks = node_monitors \ {Center}]
  /\ ShutStep /\ UNCHANGED << services_monitered, service, is_shutdown, closing, killed >>

\* close_node of node_monitor.
CloseNode(n) ==
  /\ shut.st = "nodes" /\ n \in shut.forks
  /\ shut' = [shut EXCEPT !.forks = @ \ {n}]
  /\ closing' = IF n \in up THEN closing \cup {n} ELSE closing
  /\ ShutStep /\ UNCHANGED << services_monitered, service, is_shutdown, killed >>

(* The process of n is gone: all that it kept is lost.                      *)
Gone(n) ==
  /\ up' = up \ {n}
  /\ connector' = [connector EXCEPT ![n] = "none"]
  /\ snapshot' = [snapshot EXCEPT ![n] = {}]
  /\ services_monitered' = [services_monitered EXCEPT ![n] = {}]
  /\ naming' = {x \in naming : x[1] # n}
  /\ service' = [service EXCEPT ![n] = [s \in Name |-> "down"]]
  /\ closing' = closing \ {n}
  /\ here' = [here EXCEPT ![n] = {}]
  /\ role' = [role EXCEPT ![n] = {}]
  /\ leaving' = [leaving EXCEPT ![n] = {}]

(* skynet.abort, three seconds after close_node, or eight seconds after the   *)
(* last fork of Cmd.shutdown.                                               *)
Abort(n) ==
  /\ \/ n \in closing /\ UNCHANGED shut
     \/ /\ n = Center /\ CenterUp
        /\ shut.st = "nodes" /\ shut.forks = {}
        /\ shut' = [shut EXCEPT !.st = "aborted"]
  /\ killed' = killed \cup {<< n, s >> : s \in {s \in services_monitered[n] :
                                              service[n][s] \in {"run", "exit"}}}
  /\ Gone(n)
  /\ UNCHANGED << budget, users, node_monitors, service_name_list, is_shutdown >>

-----------------------------------------------------------------------------
(* Crashes.                                                                 *)

Crash(n) ==
  /\ budget.crash > 0 /\ n \in up
  /\ budget' = [budget EXCEPT !.crash = @ - 1]
  /\ Gone(n)
  /\ IF n = Center
       THEN /\ node_monitors' = {} /\ service_name_list' = {} /\ is_shutdown' = FALSE
            /\ shut' = NoShutdown /\ users' = NoUsers
       ELSE UNCHANGED << monitorvars, users >>
  /\ UNCHANGED killed

(* The process starts again; its services get the addresses they had.        *)
Restart(n) ==
  /\ n \notin up /\ ~is_shutdown
  /\ up' = up \cup {n}
  /\ service' = [service EXCEPT ![n] = Booted(n)]
  /\ UNCHANGED << budget, connector, snapshot, services_monitered, naming, closing,
                  monitorvars, uservars, killed >>

-----------------------------------------------------------------------------

ConnectorStep(n) ==
  \/ Connect(n) \/ ConnectFails(n) \/ RegisterNode(n) \/ ClearNode(n)
  \/ GetUsers(n) \/ RegisterUsers(n) \/ Heartbeat(n)

UserAction(u, n) == Login(u, n) \/ Online(u, n) \/ Logout(u, n) \/ Offline(u, n)

ServiceAction(n, s) ==
  Register(n, s) \/ RegisterName(n, s) \/ ServiceExits(n, s) \/ Unregister(n, s)

ShutdownStep ==
  \/ PollsOver \/ CloseNodes
  \/ \E s \in Name : CloseName(s)
  \/ \E n \in Node : CloseService(n) \/ Poll(n) \/ CloseNode(n) \/ Abort(n)

Next ==
  \/ \E n \in Node : ConnectorStep(n) \/ Crash(n) \/ Restart(n)
  \/ \E u \in Uid, n \in Node : UserAction(u, n)
  \/ \E n \in Node, s \in Name : ServiceAction(n, s)
  \/ Shutdown \/ ShutdownStep

Spec == Init /\ [][Next]_vars

(* Connectors try again every five seconds, services answer and exit, and     *)
(* the coroutine of Cmd.shutdown goes on.                                   *)
FairSpec ==
  /\ Spec
  /\ \A n \in Node : WF_vars(ConnectorStep(n))
  /\ \A n \in Node, s \in Name : WF_vars(ServiceExits(n, s) \/ Unregister(n, s))
  /\ \A n \in Node, s \in Name : WF_vars(RegisterName(n, s))
  /\ \A u \in Uid, n \in Node : WF_vars(Offline(u, n))
  /\ WF_vars(ShutdownStep)

-----------------------------------------------------------------------------

TypeOK ==
  /\ up \subseteq Node /\ closing \subseteq up
  /\ connector \in [Node -> {"none", "register", "clear", "users", "list", "connected"}]
  /\ snapshot \in [Node -> SUBSET Uid]
  /\ services_monitered \in [Node -> SUBSET Name] /\ naming \subseteq Node \X Name
  /\ service \in [Node -> [Name -> {"down", "boot", "run", "exit", "gone"}]]
  /\ node_monitors \subseteq Node /\ service_name_list \subseteq Name
  /\ shut.st \in {"no", "names", "polls", "nodes", "aborted"}
  /\ users \in [Uid \X Key -> Node \cup {None}]
  /\ here \in [Node -> SUBSET Uid]

(* node_monitor.lua:35-66, online_snax.lua:75-108: whatever logins, logouts   *)
(* and crashes interleave with connected_cb, the list is again and again free *)
(* of users listed, under either key, at a node that runs and where they are  *)
(* not.                                                                     *)
GhostsGo ==
  []<>(\A x \in Uid \X Key :
         users[x] \in up => x[1] \in here[users[x]])

(* node_monitor.lua:42-45: who stays logged in gets to be listed under the    *)
(* uid that Cmd kick of the admin looks for, though its entry was cleared or  *)
(* taken by another node.                                                   *)
UserIsListed ==
  \A u \in Uid, n \in Node :
    u \in here[n] ~> users[<< u, "number" >>] = n \/ u \notin here[n] \/ ~CenterUp

(* cluster_monitor.lua:28-97, node_monitor.lua:127-140: when a node aborts    *)
(* because of the shutdown, the services of its registered names have run     *)
(* their exit callbacks.                                                    *)
ClosedBeforeAbort ==
  \A x \in killed : x[1] \notin node_monitors \/ x[2] \notin service_name_list

(* cluster_monitor.lua:192-218: a shutdown comes to its end on every node,     *)
(* unless the center node crashes in it.                                    *)
ShutdownEnds ==
  is_shutdown ~> ~is_shutdown \/ (shut.st = "aborted" /\ \A n \in node_monitors : n \notin up)

(* The entry of a user that is logged in is changed by its own node alone.    *)
OwnEntry ==
  [][\A u \in Uid, n \in Node :
       users[<< u, "number" >>] = n /\ u \in here[n] /\ u \in here'[n]
         => users'[<< u, "number" >>] = n \/ connector[n] # connector'[n] \/ up # up']_vars

(* Every service that registered has exited when its node aborts.            *)
AllClosed == killed = {}
=============================================================================
