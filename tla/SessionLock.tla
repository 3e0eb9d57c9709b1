----------------------------- MODULE SessionLock -----------------------------
(***************************************************************************)
(* lualib/session_lock.lua: the lock under which an agent runs the session  *)
(* functions of its role (requests that change it, the daily update, mail   *)
(* synchronisation), and lock_quit, with which the agent's only offline     *)
(* coroutine shuts the sessions out for good before it saves the role       *)
(* (cls/role.lua:112-116).  The lock itself is module Lock.                 *)
(***************************************************************************)
EXTENDS Lock

VARIABLES
  quit,        \* lock_quit was called
  pending,     \* coroutines whose lock_session has not succeeded yet
  quitter      \* the coroutine that called lock_quit, or None

svars == << locked, lock_count, lock_waiter, pc, depth, quit, pending, quitter >>

SInit ==
  /\ Init
  /\ quit = FALSE
  /\ pending = {}
  /\ quitter = None

-----------------------------------------------------------------------------
(* Mutated forms of the operations below.                                   *)

\* the early return on self.quit is forgotten
MutLockSession(co) ==
  /\ pc[co] = "out" /\ co # quitter
  /\ pending' = pending \cup {co}
  /\ lock(co)
  /\ UNCHANGED << quit, quitter >>

-----------------------------------------------------------------------------

(* lock_session, refused: the role is going offline.                        *)
LockSessionRefused(co) ==
  /\ pc[co] = "out" /\ co # quitter
  /\ quit
  /\ UNCHANGED svars

(* lock_session up to the lock.  No session function of the repository      *)
(* calls lock_session itself.                                               *)
LockSession(co) ==
  /\ pc[co] = "out"
  /\ ~quit
  /\ pending' = pending \cup {co}
  /\ lock(co)
  /\ UNCHANGED << quit, quitter >>

(* The session function returns: unlock(), then filter() drops the entry.   *)
SessionReturns(co) ==
  /\ co # quitter
  /\ unlock(co)
  /\ pending' = pending \ {co}
  /\ UNCHANGED << quit, quitter >>

(* The session function raises: unlock() and the error goes on, past the    *)
(* filter, so that the entry stays.                                         *)
SessionRaises(co) ==
  /\ co # quitter
  /\ unlock(co)
  /\ UNCHANGED << quit, pending, quitter >>

(* lock_quit: called once (cmd.lua:44, 64) by the offline coroutine, which   *)
(* never unlocks.                                                           *)
LockQuit(co) ==
  /\ pc[co] = "out"
  /\ quitter = None
  /\ quit' = TRUE
  /\ quitter' = co
  /\ lock(co)
  /\ UNCHANGED pending

Resume(co) == LockResume(co) /\ UNCHANGED << quit, pending, quitter >>

SNext ==
  \E co \in Co :
    \/ LockSessionRefused(co)
    \/ LockSession(co)
    \/ SessionReturns(co)
    \/ SessionRaises(co)
    \/ LockQuit(co)
    \/ Resume(co)

(* Woken coroutines are scheduled and session functions come to their end.  *)
SSpec ==
  /\ SInit /\ [][SNext]_svars
  /\ \A co \in Co :
       /\ WF_svars(Resume(co))
       /\ WF_svars(SessionReturns(co) \/ SessionRaises(co))

-----------------------------------------------------------------------------

(* role.lua:112-116: once lock_quit returned no session function runs, is   *)
(* about to run or waits, now or later: what save_db writes next is final,   *)
(* and no request is left suspended behind a lock that is never released.    *)
QuitIsLast ==
  quitter # None =>
    /\ pc[quitter] = "wait" => Last(lock_waiter) = quitter
    /\ locked = quitter => \A co \in Co \ {quitter} : pc[co] = "out"
==============================================================================
