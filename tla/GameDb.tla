------------------------------- MODULE GameDb -------------------------------
(***************************************************************************)
(* service/gamedb_snax.lua over lualib-src/lua-unqlite.c: a row is set in     *)
(* redis, an asynchronous call, and then stored in the unqlite file of the   *)
(* node, the cold backup, in a transaction.                                *)
(*                                                                         *)
(* Calls of set are numbered as they come, and the number is the value they  *)
(* store.  The calls on the connection to redis are executed, and answered,  *)
(* in their order: executed and answered count them.                        *)
(***************************************************************************)
EXTENDS Naturals, Sequences

CONSTANTS
  Key,       \* accounts
  MaxCalls,  \* bound: calls of set
  MaxFaults  \* bound: failures of redis, of unqlite and of the node

Constants == MaxCalls \in Nat /\ MaxFaults \in Nat

VARIABLES
  up,        \* the service runs
  opened,    \* unqlitedb # nil
  keyof,     \* the key of each call so far
  executed, answered,
  redis,     \* key -> the call whose value redis has, 0 for none
  txn,       \* what the open transaction of unqlite has stored, 0 for nothing
  disk,      \* what is committed
  refused,   \* calls that redis did not answer with OK
  missed,    \* keys whose last set failed between redis and the backup
  faults

vars == << up, opened, keyof, executed, answered, redis, txn, disk, refused, missed, faults >>

Nothing == [k \in Key |-> 0]

Init ==
  /\ up = TRUE /\ opened \in BOOLEAN
  /\ keyof = << >> /\ executed = 0 /\ answered = 0
  /\ redis = Nothing /\ txn = Nothing /\ disk = Nothing
  /\ refused = {} /\ missed = {} /\ faults = 0

Fault == faults < MaxFaults /\ faults' = faults + 1

-----------------------------------------------------------------------------
(* Redis and its connection.                                               *)

(* set: the command is sent, and the coroutine waits for the answer.         *)
Call(k) ==
  /\ up /\ Len(keyof) < MaxCalls
  /\ keyof' = Append(keyof, k)
  /\ UNCHANGED << up, opened, executed, answered, redis, txn, disk, refused, missed, faults >>

Execute ==
  /\ executed < Len(keyof)
  /\ executed' = executed + 1
  /\ redis' = [redis EXCEPT ![keyof[executed + 1]] = executed + 1]
  /\ UNCHANGED << up, opened, keyof, answered, txn, disk, refused, missed, faults >>

(* Redis is out of memory, or read-only.                                    *)
Refuse ==
  /\ executed < Len(keyof) /\ Fault
  /\ executed' = executed + 1
  /\ refused' = refused \cup {executed + 1}
  /\ UNCHANGED << up, opened, keyof, answered, redis, txn, disk, missed >>

\* The calls under way get no answer; redis has executed some of them.
LoseCalls ==
  /\ executed' = Len(keyof) /\ answered' = Len(keyof)
  /\ missed' = missed \cup {keyof[i] : i \in answered + 1 .. executed}
  /\ UNCHANGED << keyof, redis, refused >>

(* The connection breaks: db:set raises in every coroutine that waits.       *)
Disconnect ==
  /\ up /\ answered < Len(keyof) /\ Fault
  /\ LoseCalls
  /\ UNCHANGED << up, opened, txn, disk >>

-----------------------------------------------------------------------------
(* The unqlite file.                                                       *)

\* What the file has when the transaction t is committed.
Committed(t) == [k \in Key |-> IF t[k] = 0 THEN disk[k] ELSE t[k]]

(* An error is raised and ends the handler: by fatal(), if unqlite logged     *)
(* something, and by the reopening of a database that was not opened, as     *)
(* config has no "unqlitedb".                                              *)
Raises == UNCHANGED << txn, disk >>

(* begin, which has no effect in an open transaction.  If it fails and        *)
(* nothing is raised, store begins a transaction by itself.                 *)
BeginFails == Raises

(* store fails, and if nothing is raised the handler goes on and commits.     *)
StoreFails == Raises \/ (disk' = Committed(txn) /\ txn' = Nothing)

Stored(k, i) == [txn EXCEPT ![k] = i]

(* commit fails: the transaction stays open or is rolled back.               *)
CommitFails(k, i) == txn' \in {Stored(k, i), Nothing} /\ UNCHANGED disk

commit(k, i) == disk' = Committed(Stored(k, i)) /\ txn' = Nothing

-----------------------------------------------------------------------------
(* set, when redis has answered its call: the oldest is answered first.       *)

AnswerTo(i) ==
  /\ up /\ answered < executed
  /\ answered' = answered + 1
  /\ i = answered'
  /\ UNCHANGED << up, opened, keyof, executed, redis, refused >>

\* mutated: a transaction of a failed set goes on without its store
MutSetDone(i) ==
  /\ AnswerTo(i) /\ i \notin refused /\ opened
  /\ disk' = Committed(txn) /\ txn' = Nothing
  /\ missed' = missed \ {keyof[i]}
  /\ UNCHANGED faults

SetDone(i) ==
  /\ AnswerTo(i) /\ i \notin refused /\ opened
  /\ commit(keyof[i], i)
  /\ missed' = missed \ {keyof[i]}
  /\ UNCHANGED faults

SetUnbacked(i) ==
  /\ AnswerTo(i) /\ i \notin refused
  /\ \/ ~opened /\ Raises /\ UNCHANGED faults
     \/ opened /\ Fault /\ (BeginFails \/ StoreFails \/ CommitFails(keyof[i], i))
  /\ missed' = missed \cup {keyof[i]}

SetRefused(i) ==
  /\ AnswerTo(i) /\ i \in refused
  /\ UNCHANGED << txn, disk, missed, faults >>

set == \E i \in 1 .. Len(keyof) : SetDone(i) \/ SetUnbacked(i) \/ SetRefused(i)

-----------------------------------------------------------------------------
(* The service.                                                            *)

(* The node dies: the journal rolls the open transaction back.               *)
Crash ==
  /\ up /\ Fault
  /\ up' = FALSE
  /\ txn' = Nothing
  /\ LoseCalls
  /\ UNCHANGED << opened, disk >>

(* exit: unqlite_close commits the open transaction.                         *)
Exit ==
  /\ up /\ Fault
  /\ up' = FALSE
  /\ disk' = Committed(txn) /\ txn' = Nothing
  /\ LoseCalls
  /\ UNCHANGED opened

(* init, after a restart: open may fail without raising.                     *)
Start ==
  /\ ~up
  /\ up' = TRUE
  /\ opened' \in BOOLEAN
  /\ UNCHANGED << keyof, executed, answered, redis, txn, disk, refused, missed, faults >>

Next ==
  \/ \E k \in Key : Call(k)
  \/ Execute \/ Refuse \/ Disconnect \/ set \/ Crash \/ Exit \/ Start

Spec == Init /\ [][Next]_vars

-----------------------------------------------------------------------------

\* A set of k is executed and its answer is still to come.
UnderWay(k) == \E i \in answered + 1 .. executed : keyof[i] = k

TypeOK ==
  /\ up \in BOOLEAN /\ opened \in BOOLEAN
  /\ keyof \in Seq(Key)
  /\ executed \in 0 .. Len(keyof) /\ answered \in 0 .. executed
  /\ redis \in [Key -> 0 .. executed]
  /\ txn \in [Key -> 0 .. answered] /\ disk \in [Key -> 0 .. answered]
  /\ refused \subseteq 1 .. executed /\ missed \subseteq Key
  /\ faults \in Nat

(* gamedb_snax.lua:24-38: whichever sets of an account interleave, the cold   *)
(* backup has a row that redis had, never an older one after a newer one,    *)
(* and it has the row of redis unless a set is under way or failed since.    *)
BackupExact ==
  \A k \in Key :
    /\ disk[k] <= redis[k]
    /\ disk[k] = redis[k] \/ UnderWay(k) \/ k \in missed

(* gamedb_snax.lua:37: when no call is under way the backup is complete.      *)
BackupComplete == answered = executed => disk = redis
=============================================================================
