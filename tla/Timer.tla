------------------------------- MODULE Timer -------------------------------
(***************************************************************************)
(* lualib/timer.lua: interval timers of a service.  One coroutine, the loop  *)
(* that start() forks, passes over them again and again; it waits while a     *)
(* callback yields, and then other coroutines add and remove timers.         *)
(*                                                                         *)
(* start() is called once for each Timer object, by set_interval              *)
(* (agent/apis/role_api.lua) or right after it was made.                     *)
(***************************************************************************)
EXTENDS Naturals, FiniteSets

CONSTANTS
  Interval,     \* the intervals that timers may have
  Times,        \* and how many times they may run, 0 for ever
  MaxHandle,    \* bound: timers added
  MaxTime       \* bound: seconds

\* What is assumed of them.
Constants ==
  Interval \subseteq Nat \ {0} /\ Times \subseteq Nat /\ MaxHandle \in Nat /\ MaxTime \in Nat

VARIABLES
  now,          \* date.second()
  running,
  handle,       \* timers added so far
  timer,        \* handle -> interval, wakeup, times and timestamp
  pending, timers, to_deleted,   \* sets of handles
  pass,         \* the pass of the loop: handles to visit, date.second() at its
                \* beginning, and the handle whose callback waits, or 0
  \* history
  fired,        \* handle -> times its callback was called
  dead          \* handles that were removed or had run out when the pass began

vars == << now, running, handle, timer, pending, timers, to_deleted, pass, fired, dead >>

Handle == 1 .. MaxHandle
NoTimer == [interval |-> 1, wakeup |-> 0, times |-> 0, timestamp |-> 0, added |-> [immediate |-> FALSE, times |-> 0]]
Asleep == [todo |-> {}, second |-> 0, in |-> 0, begun |-> FALSE]

Init ==
  /\ now = 0 /\ running = TRUE /\ handle = 0
  /\ timer = [h \in Handle |-> NoTimer]
  /\ pending = {} /\ timers = {} /\ to_deleted = {}
  /\ pass = Asleep
  /\ fired = [h \in Handle |-> 0] /\ dead = {}

-----------------------------------------------------------------------------

add_timer(interval, immediate, times) ==
  /\ running /\ handle < MaxHandle
  /\ handle' = handle + 1
  /\ timer' = [timer EXCEPT ![handle + 1] =
       [interval |-> interval, wakeup |-> IF immediate THEN 0 ELSE interval,
        times |-> times, timestamp |-> now,
        added |-> [immediate |-> immediate, times |-> times]]]
  /\ pending' = pending \cup {handle + 1}
  /\ UNCHANGED << now, running, timers, to_deleted, pass, fired, dead >>

remove_timer(h) ==
  /\ h \in pending \ to_deleted
  /\ to_deleted' = to_deleted \cup {h}
  /\ UNCHANGED << now, running, handle, timer, pending, timers, pass, fired, dead >>

stop ==
  /\ running
  /\ running' = FALSE
  /\ UNCHANGED << now, handle, timer, pending, timers, to_deleted, pass, fired, dead >>

\* mutated: removals are carried out before the pending timers are taken in
MutTakeIn == (timers \ to_deleted) \cup pending

\* Pending timers are taken in, again and again, and removals carried out.
TakeIn == (timers \cup pending) \ to_deleted

(* update() begins, when the loop's sleep is over.                          *)
Begin ==
  /\ running /\ ~pass.begun
  /\ timers' = TakeIn
  /\ pass' = [todo |-> timers', second |-> now, in |-> 0, begun |-> TRUE]
  /\ dead' = to_deleted
  /\ UNCHANGED << now, running, handle, timer, pending, to_deleted, fired >>

Due(h) == timer[h].wakeup <= pass.second - timer[h].timestamp

(* A timer that is due is set for its next time and its callback called.     *)
Visit(h) ==
  /\ pass.in = 0 /\ h \in pass.todo
  /\ IF Due(h)
       THEN /\ pass' = [pass EXCEPT !.todo = @ \ {h}, !.in = h]
            /\ timer' = [timer EXCEPT ![h].wakeup = @ + timer[h].interval]
            /\ fired' = [fired EXCEPT ![h] = @ + 1]
       ELSE /\ pass' = [pass EXCEPT !.todo = @ \ {h}]
            /\ UNCHANGED << timer, fired >>
  /\ UNCHANGED << now, running, handle, pending, timers, to_deleted, dead >>

(* Its callback returned or raised.                                         *)
Returned ==
  /\ pass.in # 0
  /\ LET h == pass.in IN
       /\ timer' = IF timer[h].times > 1 THEN [timer EXCEPT ![h].times = @ - 1] ELSE timer
       /\ to_deleted' = IF timer[h].times = 1 THEN to_deleted \cup {h} ELSE to_deleted
  /\ pass' = [pass EXCEPT !.in = 0]
  /\ UNCHANGED << now, running, handle, pending, timers, fired, dead >>

(* The pass is over and the loop sleeps, or ends if the timer was stopped.    *)
Over ==
  /\ pass.begun /\ pass.in = 0 /\ pass.todo = {}
  /\ pass' = Asleep
  /\ UNCHANGED << now, running, handle, timer, pending, timers, to_deleted, fired, dead >>

Tick ==
  /\ now < MaxTime
  /\ now' = now + 1
  /\ UNCHANGED << running, handle, timer, pending, timers, to_deleted, pass, fired, dead >>

Loop == Begin \/ (\E h \in Handle : Visit(h)) \/ Returned \/ Over

Next ==
  \/ \E i \in Interval, immediate \in BOOLEAN, t \in Times : add_timer(i, immediate, t)
  \/ \E h \in Handle : remove_timer(h)
  \/ stop \/ Loop \/ Tick

Spec == Init /\ [][Next]_vars

(* The loop goes on: its sleep ends, callbacks return.                      *)
FairSpec == Spec /\ WF_vars(Loop)

-----------------------------------------------------------------------------

\* How often the callback of h should have been called by this time.
Owed(h, time) ==
  (time - timer[h].timestamp) \div timer[h].interval
    + IF timer[h].added.immediate THEN 1 ELSE 0

\* A callback is called when it is owed, never more often than it was added
\* for, and not in a pass that began after it was removed.
NeverWrong ==
  \A h \in pending :
    /\ fired[h] <= Owed(h, now)
    /\ timer[h].added.times # 0 => fired[h] <= timer[h].added.times
    /\ pass.in = h => h \notin dead

\* Calls that slow callbacks held up are made up for.
CatchesUp ==
  \A h \in Handle :
    h \in pending /\ now = MaxTime ~>
      fired[h] = Owed(h, now) \/ h \in to_deleted \/ ~running

(* timer.lua:37-62: with timers added and removed during passes, though        *)
(* pending and to_deleted are never emptied, each callback is called exactly  *)
(* as often as its interval says until it is removed or has run out.          *)
FiresExact == []NeverWrong /\ CatchesUp

(* Once remove_timer returned the callback is not called.                    *)
RemovedAtOnce == [][\A h \in to_deleted : fired'[h] = fired[h]]_vars
=============================================================================
