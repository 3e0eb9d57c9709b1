------------------------------- MODULE MCLock -------------------------------
(***************************************************************************)
(* lock.lua with a few coroutines of one service.  Its client is either any  *)
(* code that calls lock_func, or the session lock of a role.                *)
(***************************************************************************)
EXTENDS SessionLock

VARIABLE client

mvars == << svars, client >>

MInit == SInit /\ client \in {"any", "sessions"}

MNext ==
  /\ \/ client = "any" /\ Next /\ UNCHANGED << quit, pending, quitter >>
     \/ client = "sessions" /\ SNext
  /\ UNCHANGED client

\* The fairness of Lock or of SessionLock, as the client is.
ForAny(A) == client = "any" /\ A /\ UNCHANGED << quit, pending, quitter, client >>
ForSessions(A) == client = "sessions" /\ A /\ UNCHANGED client

MSpec ==
  /\ MInit /\ [][MNext]_mvars
  /\ \A co \in Co :
       /\ WF_mvars(ForAny(LockResume(co)))
       /\ WF_mvars(ForAny(unlock(co)))
       /\ SF_mvars(ForAny(unlock(co) /\ lock_count <= 1))
       /\ WF_mvars(ForSessions(Resume(co)))
       /\ WF_mvars(ForSessions(SessionReturns(co) \/ SessionRaises(co)))
=============================================================================
