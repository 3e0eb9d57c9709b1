---------------------------- MODULE ServiceProofs ----------------------------
(***************************************************************************)
(* Proofs about the services (module Services), for constants of any size:   *)
(* the cold backup (GameDb), the connections (MsgServer), the mails of a      *)
(* role (RoleMailbox) and the chat service (Chat).                          *)
(***************************************************************************)
EXTENDS Services, FiniteSetTheorems, SequenceTheorems, TLAPS

-----------------------------------------------------------------------------
(* The cold backup.                                                        *)

\* A call that redis executed and has not answered is not newer than the row.
Latest ==
  \A i \in answered + 1 .. executed : i \notin refused => redis[keyof[i]] >= i

\* A row whose call is not answered yet is of that call's key, and redis
\* accepted it.
Unanswered(k) ==
  redis[k] > answered => keyof[redis[k]] = k /\ redis[k] \notin refused

\* What the file has, and will have after a commit, was in redis, in that order.
Behind(k) ==
  /\ disk[k] <= redis[k] /\ txn[k] <= redis[k]
  /\ txn[k] = 0 \/ disk[k] <= txn[k]

Backed(k) == disk[k] = redis[k] \/ k \in missed \/ redis[k] > answered

Rows == \A k \in Key : Unanswered(k) /\ Behind(k) /\ Backed(k)

DbInv == TypeOK /\ Latest /\ Rows

-----------------------------------------------------------------------------
(* Lemmas.                                                                 *)

\* A commit of an open transaction leaves the file behind redis, and no further
\* behind it than it was.
LEMMA CommitKeeps ==
  ASSUME NEW t \in [Key -> Nat], disk \in [Key -> Nat], redis \in [Key -> Nat],
         \A k \in Key : disk[k] <= redis[k] /\ t[k] <= redis[k] /\ (t[k] = 0 \/ disk[k] <= t[k])
  PROVE  \A k \in Key :
           /\ Committed(t)[k] <= redis[k]
           /\ disk[k] <= Committed(t)[k]
           /\ t[k] # 0 => Committed(t)[k] = t[k]
<1> SUFFICES ASSUME NEW k \in Key
             PROVE  /\ Committed(t)[k] <= redis[k]
                    /\ disk[k] <= Committed(t)[k]
                    /\ t[k] # 0 => Committed(t)[k] = t[k]
  OBVIOUS
<1>1. Committed(t)[k] = IF t[k] = 0 THEN disk[k] ELSE t[k]
  BY DEF Committed
<1>2. disk[k] \in Nat /\ t[k] \in Nat /\ redis[k] \in Nat
  OBVIOUS
<1> QED BY <1>1, <1>2

\* The calls are counted within their sequence, and are of keys.
LEMMA Sizes ==
  ASSUME TypeOK
  PROVE  /\ answered \in Nat /\ executed \in Nat /\ Len(keyof) \in Nat
         /\ answered <= executed /\ executed <= Len(keyof)
         /\ \A i \in 1 .. Len(keyof) : keyof[i] \in Key
<1>1. keyof \in Seq(Key) /\ executed \in 0 .. Len(keyof) /\ answered \in 0 .. executed
  BY DEF TypeOK
<1>2. Len(keyof) \in Nat /\ \A i \in 1 .. Len(keyof) : keyof[i] \in Key
  BY <1>1
<1> QED BY <1>1, <1>2

\* The calls that get no answer are those whose rows may miss from the file.
LEMMA LoseCallsKeeps ==
  ASSUME DbInv, LoseCalls, disk' \in [Key -> 0 .. answered], txn' \in [Key -> 0 .. answered],
         up' \in BOOLEAN, opened' \in BOOLEAN, faults' \in Nat,
         \A k \in Key : Behind(k)' /\ disk[k] <= disk'[k]
  PROVE  DbInv'
<1>1. TypeOK'
  <2>1. executed' = Len(keyof) /\ answered' = Len(keyof)
    BY DEF LoseCalls
  <2>2. /\ answered \in Nat /\ executed \in Nat /\ Len(keyof) \in Nat
        /\ answered <= executed /\ executed <= Len(keyof)
        /\ \A i \in 1 .. Len(keyof) : keyof[i] \in Key
    BY Sizes DEF DbInv
  <2>3. missed' \subseteq Key
    <3>1. missed \subseteq Key /\ answered + 1 .. executed \subseteq 1 .. Len(keyof)
      BY <2>2 DEF DbInv, TypeOK
    <3> QED BY <2>2, <3>1 DEF LoseCalls
  <2>4. redis' \in [Key -> 0 .. executed'] /\ refused' \subseteq 1 .. executed'
    BY <2>1, <2>2 DEF DbInv, TypeOK, LoseCalls
  <2>5. txn' \in [Key -> 0 .. answered'] /\ disk' \in [Key -> 0 .. answered']
    <3>1. 0 .. answered \subseteq 0 .. answered'
      BY <2>1, <2>2
    <3> QED BY <3>1
  <2>6. keyof' \in Seq(Key) /\ executed' \in 0 .. Len(keyof') /\ answered' \in 0 .. executed'
    BY <2>1 DEF DbInv, TypeOK, LoseCalls
  <2> QED BY <2>3, <2>4, <2>5, <2>6 DEF TypeOK
<1>2. Latest'
  BY DEF DbInv, TypeOK, LoseCalls, Latest
<1>3. ASSUME NEW k \in Key PROVE Unanswered(k)'
  BY <1>3 DEF DbInv, TypeOK, LoseCalls, Unanswered
<1>4. ASSUME NEW k \in Key PROVE Backed(k)'
  <2>1. Backed(k) /\ Unanswered(k)
    BY <1>4 DEF DbInv, Rows
  <2>2. CASE redis[k] > answered
    <3>1. redis[k] \in answered + 1 .. executed /\ keyof[redis[k]] = k
      BY <1>4, <2>1, <2>2 DEF DbInv, TypeOK, Unanswered
    <3>2. k \in missed'
      BY <3>1 DEF LoseCalls
    <3> QED BY <3>2 DEF Backed
  <2>3. CASE k \in missed
    BY <2>3 DEF LoseCalls, Backed
  <2>4. CASE disk[k] = redis[k]
    BY <1>4, <2>4 DEF DbInv, TypeOK, LoseCalls, Backed, Behind
  <2> QED BY <2>1, <2>2, <2>3, <2>4 DEF Backed
<1> QED BY <1>1, <1>2, <1>3, <1>4 DEF DbInv, Rows

\* The next call is answered: its row is as new as the call, or newer calls for
\* the key are under way.
LEMMA Answered ==
  ASSUME DbInv, NEW i \in 1 .. Len(keyof), AnswerTo(i)
  PROVE  /\ i = answered + 1 /\ answered' = i /\ i <= executed
         /\ keyof[i] \in Key
         /\ i \notin refused => redis[keyof[i]] >= i
         /\ \A k \in Key : redis[k] = i => k = keyof[i] /\ i \notin refused
<1>1. i = answered + 1 /\ answered' = i /\ i <= executed
  BY DEF AnswerTo, DbInv, TypeOK
<1>2. keyof[i] \in Key
  BY DEF DbInv, TypeOK
<1>3. i \notin refused => redis[keyof[i]] >= i
  BY <1>1 DEF DbInv, TypeOK, Latest
<1>4. ASSUME NEW k \in Key, redis[k] = i PROVE k = keyof[i] /\ i \notin refused
  <2>1. Unanswered(k)
    BY <1>4 DEF DbInv, Rows
  <2>2. answered \in Nat
    BY DEF DbInv, TypeOK
  <2>3. redis[k] > answered
    BY <1>1, <1>4, <2>2
  <2> QED BY <1>4, <2>1, <2>3 DEF Unanswered
<1> QED BY <1>1, <1>2, <1>3, <1>4

\* What an answer leaves alone, whatever happens to the file: the rows of the
\* other keys, and of its own if the call was refused.
LEMMA AnswerKeeps ==
  ASSUME DbInv, NEW i \in 1 .. Len(keyof), AnswerTo(i),
         disk' \in [Key -> 0 .. i], txn' \in [Key -> 0 .. i], missed' \subseteq Key, faults' \in Nat,
         \A k \in Key : Behind(k)',
         \A k \in Key \ {keyof[i]} : disk[k] <= disk'[k] /\ (k \in missed => k \in missed'),
         Backed(keyof[i])'
  PROVE  DbInv'
<1>0. /\ i = answered + 1 /\ answered' = i /\ i <= executed
      /\ \A k \in Key : redis[k] = i => k = keyof[i] /\ i \notin refused
  BY Answered
<1>a. /\ answered \in Nat /\ executed \in Nat /\ Len(keyof) \in Nat
      /\ executed <= Len(keyof) /\ redis \in [Key -> 0 .. executed]
  BY Sizes DEF DbInv, TypeOK
<1>b. UNCHANGED << up, opened, keyof, executed, redis, refused >>
  BY DEF AnswerTo
<1>1. TypeOK'
  <2>1. answered' \in 0 .. executed'
    BY <1>0, <1>a, <1>b
  <2> QED BY <2>1, <1>0, <1>b DEF DbInv, TypeOK
<1>2. Latest'
  BY <1>0, <1>a, <1>b DEF DbInv, Latest
<1>3. ASSUME NEW k \in Key PROVE Unanswered(k)'
  BY <1>0, <1>a, <1>b, <1>3 DEF DbInv, Rows, Unanswered
<1>4. ASSUME NEW k \in Key PROVE Backed(k)'
  <2>1. CASE k = keyof[i]
    BY <2>1, <1>b DEF Backed
  <2>2. CASE k # keyof[i]
    <3>1. Backed(k) /\ redis[k] # i
      BY <1>0, <1>4, <2>2 DEF DbInv, Rows
    <3>2. disk[k] <= disk'[k] /\ disk'[k] <= redis[k] /\ (k \in missed => k \in missed')
      BY <1>4, <2>2, <1>b DEF Behind
    <3>3. disk[k] \in Nat /\ disk'[k] \in Nat /\ redis[k] \in Nat
      BY <1>0, <1>4, <1>a DEF DbInv, TypeOK
    <3> QED BY <1>0, <1>a, <1>b, <3>1, <3>2, <3>3 DEF Backed
  <2> QED BY <2>1, <2>2
<1> QED BY <1>1, <1>2, <1>3, <1>4 DEF DbInv, Rows

-----------------------------------------------------------------------------
(* Redis and its connection.                                               *)

LEMMA CallStep ==
  ASSUME DbInv, NEW k \in Key, Call(k)
  PROVE  DbInv'
<1>1. /\ answered \in Nat /\ executed \in Nat /\ Len(keyof) \in Nat
      /\ answered <= executed /\ executed <= Len(keyof)
  BY Sizes DEF DbInv
<1>2. /\ keyof' \in Seq(Key) /\ Len(keyof') = Len(keyof) + 1
      /\ \A i \in 1 .. Len(keyof) : keyof'[i] = keyof[i]
  BY DEF DbInv, TypeOK, Call
<1>a. UNCHANGED << up, opened, executed, answered, redis, txn, disk, refused, missed, faults >>
  BY DEF Call
<1>b. executed \in 0 .. Len(keyof')
  BY <1>1, <1>2
<1>3. TypeOK'
  BY <1>2, <1>a, <1>b DEF DbInv, TypeOK
<1>4. Latest'
  BY <1>1, <1>2, <1>a DEF DbInv, Latest
<1>5. ASSUME NEW j \in Key PROVE Unanswered(j)' /\ Behind(j)' /\ Backed(j)'
  <2>1. Unanswered(j) /\ Behind(j) /\ Backed(j) /\ redis[j] \in 0 .. executed
    BY <1>5 DEF DbInv, TypeOK, Rows
  <2>2. Behind(j)' /\ Backed(j)'
    BY <2>1 DEF Call, Behind, Backed
  <2>3. Unanswered(j)'
    BY <1>1, <1>2, <2>1 DEF Call, Unanswered
  <2> QED BY <2>2, <2>3
<1> QED BY <1>3, <1>4, <1>5 DEF DbInv, Rows

LEMMA ExecuteStep ==
  ASSUME DbInv, Execute
  PROVE  DbInv'
<1> DEFINE i == executed + 1
<1>1. /\ answered \in Nat /\ executed \in Nat /\ Len(keyof) \in Nat
      /\ answered <= executed /\ i <= Len(keyof) /\ keyof[i] \in Key
  BY Sizes DEF DbInv, Execute
<1>2. /\ executed' = i /\ redis' = [redis EXCEPT ![keyof[i]] = i]
      /\ redis \in [Key -> 0 .. executed] /\ refused \subseteq 1 .. executed
      /\ UNCHANGED << up, opened, keyof, answered, txn, disk, refused, missed, faults >>
  BY DEF DbInv, TypeOK, Execute
<1>3. \A k \in Key : redis'[k] = IF k = keyof[i] THEN i ELSE redis[k]
  BY <1>1, <1>2
<1>4. redis' \in [Key -> 0 .. executed'] /\ refused' \subseteq 1 .. executed'
  BY <1>1, <1>2
<1>5. TypeOK'
  BY <1>1, <1>2, <1>4 DEF DbInv, TypeOK
<1>6. Latest'
  <2> SUFFICES ASSUME NEW j \in answered + 1 .. i, j \notin refused
               PROVE  redis'[keyof[j]] >= j
    BY <1>2 DEF Latest
  <2>1. keyof[j] \in Key
    BY <1>1, Sizes DEF DbInv
  <2>2. CASE keyof[j] = keyof[i]
    BY <1>1, <1>3, <2>1, <2>2
  <2>3. CASE keyof[j] # keyof[i]
    BY <1>1, <1>3, <2>1, <2>3 DEF DbInv, Latest
  <2> QED BY <2>2, <2>3
<1>7. ASSUME NEW k \in Key PROVE Unanswered(k)' /\ Behind(k)' /\ Backed(k)'
  <2>1. Unanswered(k) /\ Behind(k) /\ Backed(k) /\ redis[k] \in 0 .. executed
    BY <1>2, <1>7 DEF DbInv, Rows
  <2>2. CASE k = keyof[i]
    <3>1. redis'[k] = i /\ i > answered' /\ redis[k] <= i /\ i \notin refused'
      BY <1>1, <1>2, <1>3, <2>1, <2>2
    <3>2. disk[k] \in Nat /\ txn[k] \in Nat
      BY <1>1, <1>7 DEF DbInv, TypeOK
    <3> QED BY <1>1, <1>2, <2>1, <2>2, <3>1, <3>2 DEF Unanswered, Behind, Backed
  <2>3. CASE k # keyof[i]
    BY <1>2, <1>3, <2>1, <2>3 DEF Unanswered, Behind, Backed
  <2> QED BY <2>2, <2>3
<1> QED BY <1>5, <1>6, <1>7 DEF DbInv, Rows

LEMMA RefuseStep ==
  ASSUME DbInv, Refuse
  PROVE  DbInv'
<1>1. /\ answered \in Nat /\ executed \in Nat /\ Len(keyof) \in Nat
      /\ answered <= executed /\ executed < Len(keyof)
  BY Sizes DEF DbInv, Refuse
<1>2. /\ executed' = executed + 1 /\ refused' = refused \cup {executed + 1}
      /\ redis \in [Key -> 0 .. executed] /\ refused \subseteq 1 .. executed
      /\ faults' \in Nat
      /\ UNCHANGED << up, opened, keyof, answered, redis, txn, disk, missed >>
  BY DEF DbInv, TypeOK, Refuse, Fault
<1>3. redis' \in [Key -> 0 .. executed'] /\ refused' \subseteq 1 .. executed'
  BY <1>1, <1>2
<1>4. TypeOK'
  BY <1>1, <1>2, <1>3 DEF DbInv, TypeOK
<1>5. Latest'
  BY <1>1, <1>2 DEF DbInv, Latest
<1>6. ASSUME NEW k \in Key PROVE Unanswered(k)' /\ Behind(k)' /\ Backed(k)'
  BY <1>1, <1>2, <1>6 DEF DbInv, Rows, Unanswered, Behind, Backed
<1> QED BY <1>4, <1>5, <1>6 DEF DbInv, Rows

LEMMA DisconnectStep ==
  ASSUME DbInv, Disconnect
  PROVE  DbInv'
<1>1. LoseCalls /\ UNCHANGED << up, opened, txn, disk >> /\ faults' \in Nat
  BY DEF DbInv, TypeOK, Disconnect, Fault
<1>2. UNCHANGED redis
  BY <1>1 DEF LoseCalls
<1>3. disk \in [Key -> 0 .. answered] /\ txn \in [Key -> 0 .. answered] /\ answered \in Nat
      /\ up \in BOOLEAN /\ opened \in BOOLEAN
  BY Sizes DEF DbInv, TypeOK
<1>4. \A k \in Key : Behind(k)' /\ disk[k] <= disk'[k]
  BY <1>1, <1>2, <1>3 DEF DbInv, Rows, Behind
<1> QED BY <1>1, <1>3, <1>4, LoseCallsKeeps

-----------------------------------------------------------------------------
(* The answers.                                                            *)

\* The values of the file are those of calls answered before n.
LEMMA CommitTypes ==
  ASSUME NEW n \in Nat, NEW t \in [Key -> 0 .. n], disk \in [Key -> 0 .. n]
  PROVE  Committed(t) \in [Key -> 0 .. n]
  BY DEF Committed

\* What the invariant says of the file, with the bound that an answer i raises.
LEMMA File ==
  ASSUME DbInv, NEW i \in 1 .. Len(keyof), AnswerTo(i)
  PROVE  /\ disk \in [Key -> Nat] /\ txn \in [Key -> Nat] /\ redis \in [Key -> Nat]
         /\ disk \in [Key -> 0 .. i] /\ txn \in [Key -> 0 .. i]
         /\ \A k \in Key : disk[k] < i
         /\ \A k \in Key : disk[k] <= redis[k] /\ txn[k] <= redis[k]
                           /\ (txn[k] = 0 \/ disk[k] <= txn[k])
         /\ UNCHANGED redis /\ i \in Nat
<1>1. /\ i = answered + 1 /\ answered \in Nat /\ executed \in Nat
  BY Answered, Sizes DEF DbInv
<1>2. /\ disk \in [Key -> 0 .. answered] /\ txn \in [Key -> 0 .. answered]
      /\ redis \in [Key -> 0 .. executed]
  BY DEF DbInv, TypeOK
<1>3. 0 .. answered \subseteq 0 .. i /\ 0 .. answered \subseteq Nat /\ 0 .. executed \subseteq Nat
  BY <1>1
<1>4. \A k \in Key : disk[k] < i
  BY <1>1, <1>2
<1>5. UNCHANGED redis
  BY DEF AnswerTo
<1> QED BY <1>1, <1>2, <1>3, <1>4, <1>5 DEF DbInv, Rows, Behind

\* The transaction with the row of the answered call is not older than the file.
LEMMA StoredKeeps ==
  ASSUME DbInv, NEW i \in 1 .. Len(keyof), AnswerTo(i), i \notin refused
  PROVE  LET t == Stored(keyof[i], i) IN
           /\ t \in [Key -> 0 .. i] /\ t \in [Key -> Nat] /\ t[keyof[i]] = i
           /\ \A k \in Key : disk[k] <= redis[k] /\ t[k] <= redis[k]
                             /\ (t[k] = 0 \/ disk[k] <= t[k])
<1> DEFINE t == Stored(keyof[i], i)
<1>1. /\ txn \in [Key -> 0 .. i] /\ disk \in [Key -> Nat] /\ i \in Nat /\ keyof[i] \in Key
      /\ redis[keyof[i]] >= i /\ disk[keyof[i]] < i /\ redis \in [Key -> Nat]
  BY File, Answered
<1>2. t = [k \in Key |-> IF k = keyof[i] THEN i ELSE txn[k]]
  BY <1>1 DEF Stored
<1>3. 0 .. i \subseteq Nat /\ i \in 0 .. i
  BY <1>1
<1>4. t \in [Key -> 0 .. i] /\ t \in [Key -> Nat] /\ t[keyof[i]] = i
  BY <1>1, <1>2, <1>3
<1>5. ASSUME NEW k \in Key
      PROVE  disk[k] <= redis[k] /\ t[k] <= redis[k] /\ (t[k] = 0 \/ disk[k] <= t[k])
  <2>1. disk[k] <= redis[k] /\ txn[k] <= redis[k] /\ (txn[k] = 0 \/ disk[k] <= txn[k])
    BY <1>5, File
  <2>2. CASE k = keyof[i]
    BY <1>1, <1>2, <2>1, <2>2
  <2>3. CASE k # keyof[i]
    BY <1>2, <1>5, <2>1, <2>3
  <2> QED BY <2>2, <2>3
<1> QED BY <1>4, <1>5

LEMMA SetDoneStep ==
  ASSUME DbInv, NEW i \in 1 .. Len(keyof), SetDone(i)
  PROVE  DbInv'
<1> DEFINE t == Stored(keyof[i], i)
<1>1. /\ AnswerTo(i) /\ i \notin refused /\ disk' = Committed(t) /\ txn' = Nothing
      /\ missed' = missed \ {keyof[i]} /\ faults' = faults
  BY DEF SetDone, commit
<1>2. /\ t \in [Key -> 0 .. i] /\ t \in [Key -> Nat] /\ t[keyof[i]] = i
      /\ \A k \in Key : disk[k] <= redis[k] /\ t[k] <= redis[k]
                        /\ (t[k] = 0 \/ disk[k] <= t[k])
  BY <1>1, StoredKeeps
<1>3. /\ disk \in [Key -> Nat] /\ redis \in [Key -> Nat] /\ disk \in [Key -> 0 .. i]
      /\ UNCHANGED redis /\ i \in Nat
  BY <1>1, File
<1>4. /\ i = answered + 1 /\ answered' = i /\ keyof[i] \in Key /\ redis[keyof[i]] >= i
      /\ i # 0
  BY <1>1, Answered
<1>5. \A k \in Key : /\ disk'[k] <= redis[k] /\ disk[k] <= disk'[k]
                     /\ t[k] # 0 => disk'[k] = t[k]
  BY <1>1, <1>2, <1>3, CommitKeeps
<1>6. disk' \in [Key -> 0 .. i] /\ txn' \in [Key -> 0 .. i]
  BY <1>1, <1>2, <1>3, CommitTypes DEF Nothing
<1>7. \A k \in Key : Behind(k)'
  BY <1>1, <1>3, <1>5 DEF Behind, Nothing
<1>8. Backed(keyof[i])'
  <2>1. disk'[keyof[i]] = i /\ keyof' = keyof
    BY <1>1, <1>2, <1>4, <1>5 DEF AnswerTo
  <2> QED BY <1>3, <1>4, <2>1 DEF Backed
<1>9. missed' \subseteq Key /\ faults' \in Nat
  BY <1>1 DEF DbInv, TypeOK
<1> QED BY <1>1, <1>5, <1>6, <1>7, <1>8, <1>9, AnswerKeeps

LEMMA SetUnbackedStep ==
  ASSUME DbInv, NEW i \in 1 .. Len(keyof), SetUnbacked(i)
  PROVE  DbInv'
<1> DEFINE t == Stored(keyof[i], i)
<1>1. AnswerTo(i) /\ i \notin refused /\ missed' = missed \cup {keyof[i]}
  BY DEF SetUnbacked
<1>2. Raises \/ StoreFails \/ CommitFails(keyof[i], i)
  BY DEF SetUnbacked, BeginFails
<1>3. /\ disk \in [Key -> Nat] /\ txn \in [Key -> Nat] /\ redis \in [Key -> Nat]
      /\ disk \in [Key -> 0 .. i] /\ txn \in [Key -> 0 .. i]
      /\ \A k \in Key : disk[k] <= redis[k] /\ txn[k] <= redis[k]
                        /\ (txn[k] = 0 \/ disk[k] <= txn[k])
      /\ UNCHANGED redis /\ i \in Nat
  BY <1>1, File
<1>4. Nothing \in [Key -> 0 .. i] /\ \A k \in Key : Nothing[k] = 0
  BY <1>3 DEF Nothing
<1>5. /\ disk' \in [Key -> 0 .. i] /\ txn' \in [Key -> 0 .. i]
      /\ \A k \in Key : disk[k] <= disk'[k] /\ disk'[k] <= redis[k]
                        /\ txn'[k] <= redis[k] /\ (txn'[k] = 0 \/ disk'[k] <= txn'[k])
  <2>1. CASE UNCHANGED << txn, disk >>
    BY <1>3, <2>1
  <2>2. CASE disk' = Committed(txn) /\ txn' = Nothing
    <3>1. \A k \in Key : Committed(txn)[k] <= redis[k] /\ disk[k] <= Committed(txn)[k]
      BY <1>3, CommitKeeps
    <3>2. Committed(txn) \in [Key -> 0 .. i]
      BY <1>3, CommitTypes
    <3> QED BY <1>3, <1>4, <2>2, <3>1, <3>2
  <2>3. CASE CommitFails(keyof[i], i)
    <3>1. /\ t \in [Key -> 0 .. i]
          /\ \A k \in Key : disk[k] <= redis[k] /\ t[k] <= redis[k]
                            /\ (t[k] = 0 \/ disk[k] <= t[k])
      BY <1>1, StoredKeeps
    <3>2. (txn' = t \/ txn' = Nothing) /\ disk' = disk
      BY <2>3 DEF CommitFails
    <3> QED BY <1>3, <1>4, <3>1, <3>2
  <2> QED BY <1>2, <2>1, <2>2, <2>3 DEF Raises, StoreFails
<1>6. \A k \in Key : Behind(k)'
  BY <1>3, <1>5 DEF Behind
<1>7. Backed(keyof[i])'
  BY <1>1 DEF Backed, AnswerTo
<1>8. missed' \subseteq Key /\ faults' \in Nat
  <2>1. missed \subseteq Key /\ keyof[i] \in Key /\ faults \in Nat
    BY <1>1, Answered DEF DbInv, TypeOK
  <2>2. faults' = faults \/ faults' = faults + 1
    BY DEF SetUnbacked, Fault
  <2> QED BY <1>1, <2>1, <2>2
<1> QED BY <1>1, <1>5, <1>6, <1>7, <1>8, AnswerKeeps

LEMMA SetRefusedStep ==
  ASSUME DbInv, NEW i \in 1 .. Len(keyof), SetRefused(i)
  PROVE  DbInv'
<1>1. AnswerTo(i) /\ i \in refused /\ UNCHANGED << txn, disk, missed, faults >>
  BY DEF SetRefused
<1>2. /\ disk \in [Key -> Nat] /\ disk \in [Key -> 0 .. i] /\ txn \in [Key -> 0 .. i]
      /\ redis \in [Key -> Nat] /\ UNCHANGED redis /\ i \in Nat
  BY <1>1, File
<1>3. /\ i = answered + 1 /\ answered' = i /\ keyof[i] \in Key
      /\ \A k \in Key : redis[k] = i => i \notin refused
  BY <1>1, Answered
<1>4. \A k \in Key : Behind(k)' /\ disk[k] <= disk'[k]
  BY <1>1, <1>2 DEF DbInv, Rows, Behind
<1>5. Backed(keyof[i])'
  <2>1. Backed(keyof[i]) /\ redis[keyof[i]] # i /\ keyof' = keyof
    BY <1>1, <1>3 DEF DbInv, Rows, AnswerTo
  <2>2. redis[keyof[i]] \in Nat /\ answered \in Nat
    BY <1>2, <1>3, Sizes DEF DbInv
  <2> QED BY <1>1, <1>2, <1>3, <2>1, <2>2 DEF Backed
<1>6. missed' \subseteq Key /\ faults' \in Nat
  BY <1>1 DEF DbInv, TypeOK
<1> QED BY <1>1, <1>2, <1>4, <1>5, <1>6, AnswerKeeps

-----------------------------------------------------------------------------
(* The service.                                                            *)

\* What the invariant says of the file while no call is answered.
LEMMA Closing ==
  ASSUME DbInv
  PROVE  /\ disk \in [Key -> Nat] /\ txn \in [Key -> Nat] /\ redis \in [Key -> Nat]
         /\ disk \in [Key -> 0 .. answered] /\ txn \in [Key -> 0 .. answered]
         /\ answered \in Nat
         /\ \A k \in Key : disk[k] <= redis[k] /\ txn[k] <= redis[k]
                           /\ (txn[k] = 0 \/ disk[k] <= txn[k])
<1>1. answered \in Nat /\ executed \in Nat
  BY Sizes DEF DbInv
<1>2. 0 .. answered \subseteq Nat /\ 0 .. executed \subseteq Nat
  BY <1>1
<1> QED BY <1>1, <1>2 DEF DbInv, TypeOK, Rows, Behind

LEMMA CrashStep ==
  ASSUME DbInv, Crash
  PROVE  DbInv'
<1>1. /\ LoseCalls /\ txn' = Nothing /\ up' \in BOOLEAN /\ UNCHANGED << opened, disk >>
      /\ faults' = faults + 1
  BY DEF Crash, Fault
<1>a. faults' \in Nat /\ UNCHANGED redis
  BY <1>1 DEF DbInv, TypeOK, LoseCalls
<1>2. txn' \in [Key -> 0 .. answered] /\ \A k \in Key : txn'[k] = 0
  BY <1>1, Closing DEF Nothing
<1>3. \A k \in Key : Behind(k)' /\ disk[k] <= disk'[k]
  BY <1>1, <1>a, <1>2, Closing DEF Behind
<1>4. disk' \in [Key -> 0 .. answered] /\ opened' \in BOOLEAN
  BY <1>1, Closing DEF DbInv, TypeOK
<1> QED BY <1>1, <1>a, <1>2, <1>3, <1>4, LoseCallsKeeps

LEMMA ExitStep ==
  ASSUME DbInv, Exit
  PROVE  DbInv'
<1>1. /\ LoseCalls /\ disk' = Committed(txn) /\ txn' = Nothing /\ up' \in BOOLEAN
      /\ UNCHANGED opened /\ faults' = faults + 1
  BY DEF Exit, Fault
<1>a. faults' \in Nat /\ UNCHANGED redis
  BY <1>1 DEF DbInv, TypeOK, LoseCalls
<1>2. txn' \in [Key -> 0 .. answered] /\ \A k \in Key : txn'[k] = 0
  BY <1>1, Closing DEF Nothing
<1>3. disk' \in [Key -> 0 .. answered] /\ opened' \in BOOLEAN
  BY <1>1, Closing, CommitTypes DEF DbInv, TypeOK
<1>4. \A k \in Key : disk'[k] <= redis[k] /\ disk[k] <= disk'[k]
  BY <1>1, Closing, CommitKeeps
<1>5. \A k \in Key : Behind(k)' /\ disk[k] <= disk'[k]
  BY <1>1, <1>a, <1>2, <1>4, Closing DEF Behind
<1> QED BY <1>1, <1>a, <1>2, <1>3, <1>5, LoseCallsKeeps

LEMMA StartStep ==
  ASSUME DbInv, Start
  PROVE  DbInv'
  BY DEF DbInv, TypeOK, Latest, Rows, Unanswered, Behind, Backed, Start

-----------------------------------------------------------------------------

(* The state between redis and the file keeps its shape whatever interleaves  *)
(* and fails (gamedb_snax.lua).                                             *)
THEOREM DbInductive == Spec => []DbInv
<1>1. Init => DbInv
  <2> SUFFICES ASSUME Init PROVE DbInv
    OBVIOUS
  <2>1. TypeOK
    BY DEF Init, TypeOK, Nothing
  <2>2. Latest
    <3>1. answered = 0 /\ executed = 0
      BY DEF Init
    <3>2. \A i \in 1 .. 0 : FALSE
      OBVIOUS
    <3>3. answered + 1 .. executed = 1 .. 0
      BY <3>1
    <3> QED BY <3>2, <3>3 DEF Latest
  <2>3. answered = 0 /\ \A k \in Key : redis[k] = 0 /\ disk[k] = 0 /\ txn[k] = 0
    BY DEF Init, Nothing
  <2>4. Rows
    <3> SUFFICES ASSUME NEW k \in Key PROVE Unanswered(k) /\ Behind(k) /\ Backed(k)
      BY DEF Rows
    <3>1. answered = 0 /\ redis[k] = 0 /\ disk[k] = 0 /\ txn[k] = 0
      BY <2>3
    <3> QED BY <3>1 DEF Unanswered, Behind, Backed
  <2> QED BY <2>1, <2>2, <2>4 DEF DbInv
<1>2. DbInv /\ [Next]_vars => DbInv'
  <2> SUFFICES ASSUME DbInv, [Next]_vars PROVE DbInv'
    OBVIOUS
  <2>1. ASSUME NEW k \in Key, Call(k) PROVE DbInv'
    BY <2>1, CallStep
  <2>2. CASE Execute
    BY <2>2, ExecuteStep
  <2>3. CASE Refuse
    BY <2>3, RefuseStep
  <2>4. CASE Disconnect
    BY <2>4, DisconnectStep
  <2>5. CASE set
    BY <2>5, SetDoneStep, SetUnbackedStep, SetRefusedStep DEF set
  <2>6. CASE Crash
    BY <2>6, CrashStep
  <2>7. CASE Exit
    BY <2>7, ExitStep
  <2>8. CASE Start
    BY <2>8, StartStep
  <2>9. CASE UNCHANGED vars
    BY <2>9 DEF vars, DbInv, TypeOK, Latest, Rows, Unanswered, Behind, Backed
  <2> QED BY <2>1, <2>2, <2>3, <2>4, <2>5, <2>6, <2>7, <2>8, <2>9 DEF Next
<1> QED BY <1>1, <1>2, PTL DEF Spec

(* gamedb_snax.lua:24-38: the cold backup never goes back to an older row,     *)
(* and has the row of redis unless a set is under way or failed since.        *)
THEOREM BackedUp == Spec => []BackupExact
<1>1. DbInv => BackupExact
  <2> SUFFICES ASSUME DbInv, NEW k \in Key
               PROVE  /\ disk[k] <= redis[k]
                      /\ disk[k] = redis[k] \/ UnderWay(k) \/ k \in missed
    BY DEF BackupExact
  <2>1. Unanswered(k) /\ Behind(k) /\ Backed(k)
    BY DEF DbInv, Rows
  <2>2. ASSUME redis[k] > answered PROVE UnderWay(k)
    <3>1. redis[k] \in answered + 1 .. executed
      BY <2>2, Sizes DEF DbInv, TypeOK
    <3> QED BY <2>1, <2>2, <3>1 DEF Unanswered, UnderWay
  <2> QED BY <2>1, <2>2 DEF Behind, Backed
<1> QED BY <1>1, DbInductive, PTL

-----------------------------------------------------------------------------
(* The connections of a gate.                                              *)

LEMMA ClientConstants ==
  Polite \subseteq BOOLEAN /\ MaxHandshake \in Nat /\ None \notin User \cup Fd
BY ServicesAssumption DEF Server!Constants

(* u.version is the last index accepted, so no older one exceeds it.        *)
VersionIsLast ==
  \A u \in User : \A i \in DOMAIN accepted[u] : accepted[u][i] <= version[u]

(* Only a socket that there is can be bound or expected to shake hands: a    *)
(* socket that was never opened is as clean as one that closed.             *)
OnLiveSockets ==
  \A fd \in Fd :
    connection[fd] # None \/ fd \in handshake => sock[fd] \in {"open", "closing"}

(* No session has a socket before it is online.                             *)
NewHasNoFd == \A u \in User : user_online[u] = "new" => ufd[u] = None

(* With polite clients the tables of sockets and of sessions are inverse to  *)
(* each other over the sessions that are online; a socket whose handshake is *)
(* not over is bound only while an auth_handler of it yields, which is why a *)
(* second handshake cannot take it from its session.                        *)
TablesAgree ==
  polite =>
    /\ \A fd \in Fd : connection[fd] # None =>
         user_online[connection[fd]] = "online" /\ ufd[connection[fd]] = fd
    /\ \A u \in User : user_online[u] = "online" /\ ufd[u] # None => connection[ufd[u]] = u
    /\ \A fd \in handshake : connection[fd] # None => \E c \in auths : c.fd = fd

ClientsInv ==
  /\ Server!TypeOK
  /\ Server!NoReplay
  /\ VersionIsLast
  /\ OnLiveSockets
  /\ NewHasNoFd
  /\ TablesAgree
-----------------------------------------------------------------------------

Increasing(s) == \A i, j \in DOMAIN s : i < j => s[i] < s[j]

(* An index above all those of an increasing history may follow them.        *)
LEMMA AppendIncreasing ==
  ASSUME NEW s \in Seq(Nat), NEW v \in Nat, NEW idx \in Nat,
         Increasing(s), \A i \in DOMAIN s : s[i] <= v, idx > v
  PROVE  /\ Append(s, idx) \in Seq(Nat)
         /\ Increasing(Append(s, idx))
         /\ \A i \in DOMAIN Append(s, idx) : Append(s, idx)[i] <= idx
<1> DEFINE t == Append(s, idx)
<1>1. /\ t \in Seq(Nat)
      /\ Len(s) \in Nat
      /\ DOMAIN s = 1 .. Len(s)
      /\ DOMAIN t = 1 .. Len(s) + 1
      /\ t[Len(s) + 1] = idx
  OBVIOUS
<1>a. \A i \in 1 .. Len(s) : t[i] = s[i]
  OBVIOUS
<1>b. \A i \in 1 .. Len(s) : s[i] \in Nat
  OBVIOUS
<1> HIDE DEF t
<1>2. \A i \in 1 .. Len(s) : t[i] \in Nat /\ t[i] < idx
  <2> SUFFICES ASSUME NEW i \in 1 .. Len(s) PROVE t[i] \in Nat /\ t[i] < idx
    OBVIOUS
  <2>1. s[i] <= v /\ s[i] \in Nat /\ t[i] = s[i]
    BY <1>1, <1>a, <1>b
  <2> QED
    BY <2>1
<1>3. Increasing(t)
  <2> SUFFICES ASSUME NEW i \in DOMAIN t, NEW j \in DOMAIN t, i < j
               PROVE  t[i] < t[j]
    BY DEF Increasing
  <2>1. i \in 1 .. Len(s)
    BY <1>1
  <2>2. CASE j \in 1 .. Len(s)
    BY <2>1, <2>2, <1>1, <1>a DEF Increasing
  <2>3. CASE j = Len(s) + 1
    BY <2>1, <2>3, <1>1, <1>2
  <2> QED
    BY <2>2, <2>3, <1>1
<1>4. ASSUME NEW i \in DOMAIN t PROVE t[i] <= idx
  <2>1. CASE i \in 1 .. Len(s)
    BY <2>1, <1>2
  <2>2. CASE i = Len(s) + 1
    BY <2>2, <1>1
  <2> QED
    BY <2>1, <2>2, <1>1
<1> QED
  BY <1>1, <1>3, <1>4 DEF t

LEMMA ClientsInit == Server!Init => ClientsInv
<1> SUFFICES ASSUME Server!Init PROVE ClientsInv
  OBVIOUS
<1>1. Server!TypeOK
  BY ClientConstants DEF Server!Init, Server!TypeOK
<1>2. Server!NoReplay /\ VersionIsLast
  <2>1. \A u \in User : DOMAIN accepted[u] = {}
    BY DEF Server!Init
  <2> QED
    BY <2>1 DEF Server!NoReplay, VersionIsLast
<1>3. OnLiveSockets /\ NewHasNoFd /\ TablesAgree
  BY DEF Server!Init, OnLiveSockets, NewHasNoFd, TablesAgree
<1> QED
  BY <1>1, <1>2, <1>3 DEF ClientsInv

LEMMA ClientLoginStep ==
  ASSUME ClientsInv, NEW u \in User, Server!Login(u), UNCHANGED polite
  PROVE  ClientsInv'
<1> USE ClientConstants
<1>1. Server!TypeOK' /\ Server!NoReplay' /\ VersionIsLast' /\ OnLiveSockets' /\ NewHasNoFd'
  BY DEF ClientsInv, Server!Login, Server!TypeOK, Server!NoReplay, VersionIsLast, OnLiveSockets, NewHasNoFd
<1>2. TablesAgree'
  BY DEF ClientsInv, Server!Login, Server!TypeOK, TablesAgree, NewHasNoFd
<1> QED
  BY <1>1, <1>2 DEF ClientsInv

(* server.logout unbinds the one socket that is bound to the session.       *)
LEMMA ClientLogoutStep ==
  ASSUME ClientsInv, NEW u \in User, Server!Logout(u), UNCHANGED polite
  PROVE  ClientsInv'
<1> USE ClientConstants
<1>1. Server!NoReplay' /\ VersionIsLast'
  BY DEF ClientsInv, Server!Logout, Server!NoReplay, VersionIsLast
<1>2. Server!TypeOK /\ OnLiveSockets /\ NewHasNoFd /\ TablesAgree /\ user_online[u] = "online"
  BY DEF ClientsInv, Server!Logout
<1>3. CASE ufd[u] = None
  <2>1. Server!TypeOK' /\ OnLiveSockets' /\ NewHasNoFd'
    BY <1>2, <1>3 DEF Server!Logout, Server!TypeOK, OnLiveSockets, NewHasNoFd
  <2>2. polite => \A fd \in Fd : connection[fd] # u
    <3> SUFFICES ASSUME polite, NEW fd \in Fd, connection[fd] = u PROVE FALSE
      OBVIOUS
    <3>1. connection[fd] # None
      OBVIOUS
    <3>2. ufd[u] = fd
      BY <1>2, <3>1 DEF TablesAgree
    <3> QED
      BY <1>3, <3>2
  <2>3. TablesAgree'
    BY <1>2, <1>3, <2>2 DEF Server!Logout, Server!TypeOK, TablesAgree
  <2> QED
    BY <1>1, <2>1, <2>3 DEF ClientsInv
<1>4. CASE ufd[u] # None
  <2>0. /\ ufd[u] \in Fd
        /\ connection' = [connection EXCEPT ![ufd[u]] = None]
        /\ sock' = [sock EXCEPT ![ufd[u]] = IF @ = "open" THEN "closing" ELSE @]
        /\ user_online' = [user_online EXCEPT ![u] = "out"]
        /\ UNCHANGED << version, ufd, handshake, auths, accepted, polite >>
    BY <1>2, <1>4 DEF Server!Logout, Server!closeclient, Server!TypeOK
  <2>1. Server!TypeOK' /\ NewHasNoFd'
    BY <1>2, <2>0 DEF Server!TypeOK, NewHasNoFd
  <2>2. OnLiveSockets'
    BY <1>2, <2>0 DEF Server!TypeOK, OnLiveSockets
  <2>3. polite => \A fd \in Fd : connection[fd] = u => fd = ufd[u]
    BY <1>2 DEF Server!TypeOK, TablesAgree
  <2>4. ASSUME polite, NEW v \in User, v # u, user_online[v] = "online", ufd[v] # None
        PROVE  connection[ufd[v]] = v /\ ufd[v] # ufd[u]
    BY <1>2, <1>4, <2>4 DEF Server!TypeOK, TablesAgree
  <2>5. TablesAgree'
    BY <1>2, <2>0, <2>3, <2>4 DEF Server!TypeOK, TablesAgree
  <2> QED
    BY <1>1, <2>1, <2>2, <2>5 DEF ClientsInv
<1> QED
  BY <1>3, <1>4

LEMMA ClientConnectStep ==
  ASSUME ClientsInv, NEW fd \in Fd, Server!Connect(fd), UNCHANGED polite
  PROVE  ClientsInv'
<1> USE ClientConstants
<1>1. Server!TypeOK' /\ Server!NoReplay' /\ VersionIsLast' /\ OnLiveSockets' /\ NewHasNoFd'
  BY DEF ClientsInv, Server!Connect, Server!TypeOK, Server!NoReplay, VersionIsLast, OnLiveSockets, NewHasNoFd
<1>2. connection[fd] = None
  BY DEF ClientsInv, Server!Connect, OnLiveSockets
<1>3. TablesAgree'
  BY <1>2 DEF ClientsInv, Server!Connect, Server!TypeOK, TablesAgree
<1> QED
  BY <1>1, <1>3 DEF ClientsInv

LEMMA ClientDisconnectStep ==
  ASSUME ClientsInv, NEW fd \in Fd, Server!Disconnect(fd), UNCHANGED polite
  PROVE  ClientsInv'
<1> USE ClientConstants
<1>0. Server!TypeOK /\ OnLiveSockets /\ NewHasNoFd /\ TablesAgree
  BY DEF ClientsInv
<1>1. Server!NoReplay' /\ VersionIsLast'
  BY DEF ClientsInv, Server!Disconnect, Server!NoReplay, VersionIsLast
<1>2. Server!TypeOK'
  BY <1>0 DEF Server!Disconnect, Server!TypeOK
<1>3. OnLiveSockets' /\ NewHasNoFd'
  BY <1>0 DEF Server!Disconnect, Server!TypeOK, OnLiveSockets, NewHasNoFd
<1>4. TablesAgree'
  BY <1>0 DEF Server!Disconnect, Server!TypeOK, TablesAgree
<1> QED
  BY <1>1, <1>2, <1>3, <1>4 DEF ClientsInv

(* do_auth up to its yield: the index is above all earlier ones, and the     *)
(* socket, which waits for its handshake, is bound to nobody yet.            *)
LEMMA ClientAuthStep ==
  ASSUME ClientsInv, NEW fd \in Fd, Server!Auth(fd), UNCHANGED polite
  PROVE  ClientsInv'
<1> USE ClientConstants
<1>0. /\ Server!TypeOK /\ Server!NoReplay /\ VersionIsLast /\ OnLiveSockets /\ NewHasNoFd /\ TablesAgree
      /\ sock[fd] = "open" /\ fd \in handshake /\ Server!ClientMaySend(fd)
      /\ UNCHANGED << user_online, handshake, sock, polite >>
  BY DEF ClientsInv, Server!Auth
<1>1. PICK u \in User, idx \in Server!Index : Server!ClientMayReturn(u) /\ Server!DoAuth(fd, u, idx)
  BY DEF Server!Auth
<1>2. idx \in Nat
  BY ClientConstants DEF Server!Index
<1>3. /\ user_online[u] = "online" /\ idx > version[u]
      /\ version' = [version EXCEPT ![u] = idx]
      /\ ufd' = [ufd EXCEPT ![u] = fd]
      /\ connection' = [connection EXCEPT ![fd] = u]
      /\ auths' = auths \cup {[fd |-> fd, u |-> u, idx |-> idx]}
      /\ accepted' = [accepted EXCEPT ![u] = Append(accepted[u], idx)]
  BY <1>1 DEF Server!DoAuth
<1>4. /\ accepted[u] \in Seq(Nat) /\ version[u] \in Nat
      /\ Increasing(accepted[u]) /\ \A i \in DOMAIN accepted[u] : accepted[u][i] <= version[u]
  BY <1>0 DEF Server!TypeOK, Server!NoReplay, VersionIsLast, Increasing
<1>5. /\ Append(accepted[u], idx) \in Seq(Nat)
      /\ Increasing(Append(accepted[u], idx))
      /\ \A i \in DOMAIN Append(accepted[u], idx) : Append(accepted[u], idx)[i] <= idx
  BY <1>2, <1>3, <1>4, AppendIncreasing
<1>6. Server!TypeOK'
  BY <1>0, <1>2, <1>3, <1>5 DEF Server!TypeOK
<1>7. Server!NoReplay'
  <2>1. \A v \in User : Increasing(accepted'[v])
    BY <1>0, <1>3, <1>5 DEF Server!TypeOK, Server!NoReplay, Increasing
  <2> QED
    BY <2>1 DEF Server!NoReplay, Increasing
<1>8. VersionIsLast'
  BY <1>0, <1>3, <1>5 DEF Server!TypeOK, VersionIsLast
<1>9. OnLiveSockets' /\ NewHasNoFd'
  BY <1>0, <1>3 DEF Server!TypeOK, OnLiveSockets, NewHasNoFd
<1>10. TablesAgree'
  <2> SUFFICES ASSUME polite PROVE TablesAgree'
    BY <1>0 DEF TablesAgree
  <2>1. connection[fd] = None /\ \A e \in Fd : connection[e] # u
    BY <1>0, <1>1 DEF Server!ClientMaySend, Server!ClientMayReturn, TablesAgree
  <2>2. (\A e \in Fd : connection[e] # None =>
          user_online[connection[e]] = "online" /\ ufd[connection[e]] = e)'
    BY <1>0, <1>3, <2>1 DEF Server!TypeOK, TablesAgree
  <2>3. (\A v \in User : user_online[v] = "online" /\ ufd[v] # None => connection[ufd[v]] = v)'
    BY <1>0, <1>3, <2>1 DEF Server!TypeOK, TablesAgree
  <2>4. (\A e \in handshake : connection[e] # None => \E c \in auths : c.fd = e)'
    <3> SUFFICES ASSUME NEW e \in handshake', connection'[e] # None
                 PROVE  \E c \in auths' : c.fd = e
      OBVIOUS
    <3>1. CASE e = fd
      <4>1. [fd |-> fd, u |-> u, idx |-> idx] \in auths'
        BY <1>3
      <4> QED
        BY <3>1, <4>1
    <3>2. CASE e # fd
      <4>1. e \in handshake /\ connection[e] # None
        BY <1>0, <1>3, <3>2 DEF Server!TypeOK
      <4>2. PICK c \in auths : c.fd = e
        BY <1>0, <4>1 DEF TablesAgree
      <4> QED
        BY <1>3, <4>2
    <3> QED
      BY <3>1, <3>2
  <2> QED
    BY <2>2, <2>3, <2>4 DEF TablesAgree
<1> QED
  BY <1>6, <1>7, <1>8, <1>9, <1>10 DEF ClientsInv

LEMMA ClientAuthRefusedStep ==
  ASSUME ClientsInv, NEW fd \in Fd, Server!AuthRefused(fd), UNCHANGED polite
  PROVE  ClientsInv'
<1>1. Server!TypeOK' /\ Server!NoReplay' /\ VersionIsLast' /\ OnLiveSockets' /\ NewHasNoFd'
  BY DEF ClientsInv, Server!AuthRefused, Server!closeclient, Server!TypeOK, Server!NoReplay, VersionIsLast, OnLiveSockets, NewHasNoFd
<1>2. TablesAgree'
  BY DEF ClientsInv, Server!AuthRefused, Server!TypeOK, TablesAgree
<1> QED
  BY <1>1, <1>2 DEF ClientsInv

(* auth() goes on after auth_handler, whatever became of the socket.        *)
LEMMA ClientAuthReturnStep ==
  ASSUME ClientsInv, NEW c \in auths, NEW ok \in BOOLEAN, Server!AuthReturn(c, ok), UNCHANGED polite
  PROVE  ClientsInv'
<1>1. Server!TypeOK /\ OnLiveSockets /\ TablesAgree /\ c.fd \in Fd
  BY DEF ClientsInv, Server!TypeOK
<1>2. Server!NoReplay' /\ VersionIsLast' /\ NewHasNoFd'
  BY DEF ClientsInv, Server!AuthReturn, Server!NoReplay, VersionIsLast, NewHasNoFd
<1>3. Server!TypeOK' /\ OnLiveSockets'
  BY <1>1 DEF Server!AuthReturn, Server!closeclient, Server!TypeOK, OnLiveSockets
<1>4. TablesAgree'
  BY <1>1 DEF Server!AuthReturn, Server!TypeOK, TablesAgree
<1> QED
  BY <1>2, <1>3, <1>4 DEF ClientsInv

LEMMA ClientStutterStep == ClientsInv /\ UNCHANGED Server!vars => ClientsInv'
BY DEF ClientsInv, Server!TypeOK, Server!NoReplay, VersionIsLast, OnLiveSockets, NewHasNoFd,
       TablesAgree, Server!vars

-----------------------------------------------------------------------------

(* msg_server.lua: the tables' types, the histories and the bindings are     *)
(* kept by every handler.                                                   *)
THEOREM ClientsInductive == Server!Spec => []ClientsInv
<1>1. Server!Init => ClientsInv
  BY ClientsInit
<1>2. ClientsInv /\ [Server!Next]_(Server!vars) => ClientsInv'
  BY ClientLoginStep, ClientLogoutStep, ClientConnectStep, ClientDisconnectStep,
     ClientAuthStep, ClientAuthRefusedStep, ClientAuthReturnStep, ClientStutterStep
     DEF Server!Next, Server!Handler
<1> QED
  BY <1>1, <1>2, PTL DEF Server!Spec

(* msg_server.lua:190-200: whatever sockets the handshakes of a session come *)
(* on and however they overlap, the accepted indexes only grow.              *)
THEOREM NeverReplayed == Server!Spec => []NoReplay
BY ClientsInductive, PTL DEF ClientsInv, NoReplay

(* msg_server.lua:100-107, 162-172: nothing is kept for a closed socket, and *)
(* with polite clients sockets and sessions name each other until a logout,  *)
(* which leaves no socket bound to the session.                             *)
THEOREM BindingsKept == Server!Spec => []BindingsExact
<1>1. ClientsInv => BindingsExact
  <2> SUFFICES ASSUME ClientsInv PROVE Server!BindingsExact
    BY DEF BindingsExact
  <2>1. Server!NothingKept
    BY DEF ClientsInv, OnLiveSockets, Server!NothingKept
  <2>2. ASSUME polite PROVE Server!FdIsBound
    BY <2>2, ClientConstants DEF ClientsInv, Server!TypeOK, OnLiveSockets, TablesAgree, Server!FdIsBound
  <2>3. ASSUME polite PROVE Server!LogoutUnbinds
    BY <2>3 DEF ClientsInv, TablesAgree, Server!LogoutUnbinds
  <2> QED
    BY <2>1, <2>2, <2>3 DEF Server!BindingsExact
<1> QED
  BY <1>1, ClientsInductive, PTL

-----------------------------------------------------------------------------
(* The mails of a role: the inductive invariant.                            *)

\* The mails of a type that are on their way to the role.
Answering(t) == {m \in Mails!Mail : \E i \in DOMAIN answers : m \in answers[i][t]}

\* The mails of a type, wherever they are.
MailsOf(t) == box[t] \cup Answering(t) \cup waiting[t]

Boxes == [Mails!Type -> SUBSET Mails!Mail]

MailsTyped ==
  /\ last \in Nat /\ removed \subseteq Mails!Mail
  /\ box \in Boxes /\ waiting \in Boxes /\ answers \in Seq(Boxes)

\* A place in the order of create_time is that of one mail.
OneOfEach == \A t \in Mails!Type : \A m, k \in MailsOf(t) : m.n = k.n => m = k

\* The next mail is newer than any before it.
NextIsNewest == \A t \in Mails!Type : \A m \in MailsOf(t) \cup removed : m.n <= last

WithinLimit ==
  \A t \in Mails!Type :
    /\ Cardinality(box[t]) <= MAILBOX_LIMIT
    /\ \A i \in DOMAIN answers : Cardinality(answers[i][t]) <= MAILBOX_LIMIT

\* What made room was older than all that is there, on its way or waits.
NewestStay == \A d \in removed, m \in MailsOf("private") : d.n < m.n

\* Nothing but the mailbox service brings private mails, in their order.
InTheirOrder(b, sent, w) ==
  /\ \A m \in b["private"], k \in w["private"] : m.n < k.n
  /\ \A i \in DOMAIN sent : \A k \in sent[i]["private"] :
       /\ \A m \in b["private"] : m.n < k.n
       /\ \A m \in w["private"] : k.n < m.n
  /\ \A i, j \in DOMAIN sent : i < j =>
       \A m \in sent[i]["private"], k \in sent[j]["private"] : m.n < k.n

PulledInOrder == InTheirOrder(box, answers, waiting)

MailsInv ==
  MailsTyped /\ OneOfEach /\ NextIsNewest /\ WithinLimit /\ NewestStay /\ PulledInOrder

-----------------------------------------------------------------------------
(* Counting the older mails of a set gives each its place, from 0 on.        *)

Apart(S) == S \subseteq Mails!Mail /\ \A m, k \in S : m.n = k.n => m = k

LEMMA MailsConstants == MAILBOX_LIMIT \in Nat \ {0} /\ MaxMail \in Nat
BY ServicesAssumption DEF Mails!Constants

LEMMA SameCardinality == \A S : Mails!Cardinality(S) = Cardinality(S)
BY DEF Cardinality, Mails!Cardinality

LEMMA ApartFinite ==
  ASSUME NEW S, Apart(S)
  PROVE  IsFiniteSet(S) /\ Cardinality(S) \in Nat
<1> DEFINE place == [m \in S |-> m.n]
<1>1. place \in Injection(S, 1 .. MaxMail)
  <2>1. \A m \in S : m.n \in 1 .. MaxMail
    BY DEF Apart, Mails!Mail
  <2>2. \A m, k \in S : place[m] = place[k] => m = k
    BY DEF Apart
  <2> QED
    BY <2>1, <2>2 DEF Injection, IsInjective
<1>2. IsFiniteSet(1 .. MaxMail)
  BY MailsConstants, FS_Interval
<1>3. IsFiniteSet(S)
  BY <1>1, <1>2, FS_Injection
<1> QED
  BY <1>3, FS_CardinalityType

LEMMA OlderCounts ==
  ASSUME NEW S, Apart(S), NEW m \in S
  PROVE  Cardinality(Mails!Older(S, m)) \in 0 .. Cardinality(S) - 1
<1>1. IsFiniteSet(S) /\ Cardinality(S) \in Nat
  BY ApartFinite
<1>2. m.n \in Nat
  BY MailsConstants DEF Apart, Mails!Mail
<1>3. Mails!Older(S, m) \subseteq S \ {m}
  BY <1>2 DEF Mails!Older
<1>4. /\ IsFiniteSet(S \ {m})
      /\ Cardinality(S \ {m}) = Cardinality(S) - 1
  BY <1>1, FS_RemoveElement
<1>5. /\ IsFiniteSet(Mails!Older(S, m))
      /\ Cardinality(Mails!Older(S, m)) <= Cardinality(S \ {m})
  BY <1>3, <1>4, FS_Subset
<1>6. Cardinality(Mails!Older(S, m)) \in Nat
  BY <1>5, FS_CardinalityType
<1> QED
  BY <1>1, <1>4, <1>5, <1>6

LEMMA OlderGrows ==
  ASSUME NEW S, Apart(S), NEW m \in S, NEW k \in S, m.n < k.n
  PROVE  Cardinality(Mails!Older(S, m)) < Cardinality(Mails!Older(S, k))
<1> DEFINE A == Mails!Older(S, m)
           C == Mails!Older(S, k)
<1>0. IsFiniteSet(S)
  BY ApartFinite
<1>1. \A x \in S : x.n \in Nat
  BY MailsConstants DEF Apart, Mails!Mail
<1>2. m \notin A /\ A \subseteq S /\ C \subseteq S /\ A \cup {m} \subseteq C
  BY <1>1 DEF Mails!Older
<1>3. IsFiniteSet(A) /\ IsFiniteSet(C)
  BY <1>0, <1>2, FS_Subset
<1>4. Cardinality(A) \in Nat /\ Cardinality(C) \in Nat
  BY <1>3, FS_CardinalityType
<1> HIDE DEF A, C
<1>5. Cardinality(A \cup {m}) = Cardinality(A) + 1
  BY <1>2, <1>3, FS_AddElement
<1>6. Cardinality(A \cup {m}) <= Cardinality(C)
  BY <1>2, <1>3, FS_Subset
<1>7. Cardinality(A) < Cardinality(C)
  BY <1>4, <1>5, <1>6
<1> QED
  BY <1>7 DEF A, C

\* So the mails whose places are within an interval are no more than it is long.
LEMMA PlacesCount ==
  ASSUME NEW S, Apart(S), NEW lo \in Nat, NEW hi \in Int,
         NEW P \in SUBSET S, \A m \in P : Cardinality(Mails!Older(S, m)) \in lo .. hi
  PROVE  Cardinality(P) <= IF lo > hi THEN 0 ELSE hi - lo + 1
<1> DEFINE place == [m \in P |-> Cardinality(Mails!Older(S, m))]
<1>1. place \in Injection(P, lo .. hi)
  <2>1. place \in [P -> lo .. hi]
    OBVIOUS
  <2>2. ASSUME NEW m \in P, NEW k \in P, place[m] = place[k] PROVE m = k
    <3>1. m \in S /\ k \in S /\ m.n \in Nat /\ k.n \in Nat
      BY MailsConstants DEF Apart, Mails!Mail
    <3>2. Cardinality(Mails!Older(S, m)) = Cardinality(Mails!Older(S, k))
      BY <2>2
    <3>3. /\ Cardinality(Mails!Older(S, m)) \in Nat
          /\ m.n < k.n => Cardinality(Mails!Older(S, m)) < Cardinality(Mails!Older(S, k))
          /\ k.n < m.n => Cardinality(Mails!Older(S, k)) < Cardinality(Mails!Older(S, m))
      BY <3>1, OlderCounts, OlderGrows, ApartFinite
    <3>4. m.n = k.n
      BY <3>1, <3>2, <3>3
    <3> QED
      BY <3>1, <3>4 DEF Apart
  <2> QED
    BY <2>1, <2>2 DEF Injection, IsInjective
<1>2. IsFiniteSet(lo .. hi) /\ Cardinality(lo .. hi) = IF lo > hi THEN 0 ELSE hi - lo + 1
  BY FS_Interval
<1> QED
  BY <1>1, <1>2, FS_Injection

\* The mailbox service answers with no more than MAILBOX_LIMIT mails.
LEMMA AnswerBounded ==
  ASSUME NEW t \in Mails!Type, Apart(waiting[t])
  PROVE  /\ Mails!Answer(t) \subseteq waiting[t]
         /\ Cardinality(Mails!Answer(t)) <= MAILBOX_LIMIT
<1>1. Mails!Answer(t) \in SUBSET waiting[t]
  BY DEF Mails!Answer
<1>2. ASSUME NEW m \in Mails!Answer(t)
      PROVE  Cardinality(Mails!Older(waiting[t], m)) \in 0 .. MAILBOX_LIMIT - 1
  <2>1. m \in waiting[t] /\ Cardinality(Mails!Older(waiting[t], m)) < MAILBOX_LIMIT
    BY SameCardinality DEF Mails!Answer
  <2>2. Cardinality(Mails!Older(waiting[t], m)) \in Nat
    BY <2>1, OlderCounts, ApartFinite
  <2> QED
    BY <2>1, <2>2, MailsConstants
<1>3. Cardinality(Mails!Answer(t)) <= IF 0 > MAILBOX_LIMIT - 1 THEN 0 ELSE MAILBOX_LIMIT - 1 - 0 + 1
  BY <1>1, <1>2, PlacesCount, MailsConstants
<1> QED
  BY <1>1, <1>3, MailsConstants

\* What is answered is older than what goes on waiting.
LEMMA AnswerOldest ==
  ASSUME NEW t \in Mails!Type, Apart(waiting[t]),
         NEW m \in Mails!Answer(t), NEW k \in waiting[t] \ Mails!Answer(t)
  PROVE  m.n < k.n
<1>1. m \in waiting[t] /\ k \in waiting[t] /\ m.n \in Nat /\ k.n \in Nat
  BY MailsConstants DEF Mails!Answer, Apart, Mails!Mail
<1>2. /\ Cardinality(Mails!Older(waiting[t], m)) < MAILBOX_LIMIT
      /\ ~(Cardinality(Mails!Older(waiting[t], k)) < MAILBOX_LIMIT)
  BY SameCardinality DEF Mails!Answer
<1>3. /\ Cardinality(Mails!Older(waiting[t], m)) \in Nat
      /\ Cardinality(Mails!Older(waiting[t], k)) \in Nat
  BY <1>1, OlderCounts, ApartFinite
<1>4. CASE m.n = k.n
  BY <1>1, <1>2, <1>4 DEF Apart
<1>5. CASE k.n < m.n
  <2>1. Cardinality(Mails!Older(waiting[t], k)) < Cardinality(Mails!Older(waiting[t], m))
    BY <1>1, <1>5, OlderGrows
  <2> QED
    BY <2>1, <1>2, <1>3, MailsConstants
<1> QED
  BY <1>1, <1>4, <1>5

\* As many mails go as come, so a box within its limit stays within it.
LEMMA AddBounded ==
  ASSUME NEW t \in Mails!Type, NEW b, Apart(b), Cardinality(b) <= MAILBOX_LIMIT,
         NEW new, Apart(new), Cardinality(new) <= MAILBOX_LIMIT
  PROVE  /\ new \subseteq Mails!add_mails(t, b, new)
         /\ Mails!add_mails(t, b, new) \subseteq b \cup new
         /\ Cardinality(Mails!add_mails(t, b, new)) <= MAILBOX_LIMIT
<1> DEFINE c == Cardinality(new)
           A == Mails!Arranged(t, b)
           R == Mails!delete_old_mails(t, b, c)
<1>0. /\ IsFiniteSet(b) /\ Cardinality(b) \in Nat /\ IsFiniteSet(new) /\ c \in Nat
      /\ MAILBOX_LIMIT \in Nat
  BY ApartFinite, MailsConstants
<1>1. Mails!add_mails(t, b, new) = R \cup new
  BY SameCardinality DEF Mails!add_mails
<1>2. A \subseteq b /\ Apart(A)
  BY DEF Mails!Arranged, Apart
<1>3. /\ IsFiniteSet(A) /\ Cardinality(A) \in Nat /\ Cardinality(A) <= Cardinality(b)
  BY <1>0, <1>2, ApartFinite, FS_Subset
<1>4. /\ c >= Cardinality(b) => R = {}
      /\ c < Cardinality(b) =>
           R = {m \in A : Mails!Cardinality(Mails!Older(A, m)) >= c}
  BY <1>0, SameCardinality DEF Mails!delete_old_mails
<1> HIDE DEF c, A, R
<1>5. R \subseteq b /\ IsFiniteSet(R) /\ Cardinality(R) \in Nat
  <2>1. R \subseteq b
    BY <1>0, <1>2, <1>4
  <2> QED
    BY <2>1, <1>0, FS_Subset, FS_CardinalityType
<1>6. Cardinality(R) + c <= MAILBOX_LIMIT
  <2>1. CASE c >= Cardinality(b)
    <3>1. R = {} /\ Cardinality(R) = 0
      BY <2>1, <1>4, FS_EmptySet
    <3> QED
      BY <3>1, <1>0 DEF c
  <2>2. CASE c < Cardinality(b)
    <3>1. R = {m \in A : Mails!Cardinality(Mails!Older(A, m)) >= c}
      BY <2>2, <1>4
    <3>2. ASSUME NEW m \in R
          PROVE  Cardinality(Mails!Older(A, m)) \in c .. Cardinality(A) - 1
      <4>1. m \in A /\ Cardinality(Mails!Older(A, m)) >= c
        BY <3>1, SameCardinality
      <4>2. Cardinality(Mails!Older(A, m)) \in 0 .. Cardinality(A) - 1
        BY <4>1, <1>2, OlderCounts
      <4> QED
        BY <4>1, <4>2, <1>0, <1>3
    <3>3. R \in SUBSET A /\ Cardinality(A) - 1 \in Int
      BY <3>1, <1>3
    <3>4. Cardinality(R) <= IF c > Cardinality(A) - 1 THEN 0 ELSE Cardinality(A) - 1 - c + 1
      BY <3>2, <3>3, <1>0, <1>2, PlacesCount
    <3> QED
      BY <3>4, <2>2, <1>0, <1>3, <1>5
  <2> QED
    BY <2>1, <2>2, <1>0
<1>7. Cardinality(R \cup new) <= Cardinality(R) + c
  <2>1. Cardinality(R \cup new) = Cardinality(R) + Cardinality(new) - Cardinality(R \cap new)
    BY <1>0, <1>5, FS_Union
  <2>2. IsFiniteSet(R \cap new)
    BY <1>0, FS_Subset
  <2>3. Cardinality(R \cap new) \in Nat
    BY <2>2, FS_CardinalityType
  <2> QED
    BY <2>1, <2>3, <1>0, <1>5 DEF c
<1>8. Cardinality(R \cup new) <= MAILBOX_LIMIT
  <2>1. IsFiniteSet(R \cup new)
    BY <1>0, <1>5, FS_Union
  <2>2. Cardinality(R \cup new) \in Nat
    BY <2>1, FS_CardinalityType
  <2> QED
    BY <2>2, <1>0, <1>5, <1>6, <1>7
<1> QED
  BY <1>1, <1>5, <1>8

\* A private mail that goes is older than those that stay.
LEMMA OldestGo ==
  ASSUME NEW b, Apart(b), NEW c \in Nat,
         NEW m \in Mails!delete_old_mails("private", b, c),
         NEW d \in b \ Mails!delete_old_mails("private", b, c)
  PROVE  m \in b /\ d.n < m.n
<1>1. Mails!Arranged("private", b) = b
  BY DEF Mails!Arranged
<1>2. ~(c >= Mails!Cardinality(b))
  BY DEF Mails!delete_old_mails
<1>3. Mails!delete_old_mails("private", b, c) = {x \in b : Mails!Cardinality(Mails!Older(b, x)) >= c}
  BY <1>1, <1>2 DEF Mails!delete_old_mails
<1>4. m \in b /\ d \in b /\ m.n \in Nat /\ d.n \in Nat
  BY <1>3, MailsConstants DEF Apart, Mails!Mail
<1>5. Cardinality(Mails!Older(b, m)) >= c /\ ~(Cardinality(Mails!Older(b, d)) >= c)
  BY <1>3, SameCardinality
<1>6. /\ Cardinality(Mails!Older(b, m)) \in Nat
      /\ Cardinality(Mails!Older(b, d)) \in Nat
  BY <1>4, OlderCounts, ApartFinite
<1>7. CASE m.n = d.n
  BY <1>4, <1>5, <1>7 DEF Apart
<1>8. CASE m.n < d.n
  <2>1. Cardinality(Mails!Older(b, m)) < Cardinality(Mails!Older(b, d))
    BY <1>4, <1>8, OlderGrows
  <2> QED
    BY <2>1, <1>5, <1>6
<1> QED
  BY <1>4, <1>7, <1>8

-----------------------------------------------------------------------------
(* The steps of the role's mailbox.                                         *)

\* The boxes, what waits and the answers are sets of mails with places of their own.
LEMMA BoxesApart ==
  ASSUME MailsInv, NEW t \in Mails!Type
  PROVE  /\ Apart(box[t]) /\ Apart(waiting[t])
         /\ box[t] \subseteq Mails!Mail /\ waiting[t] \subseteq Mails!Mail
BY DEF MailsInv, MailsTyped, Boxes, OneOfEach, MailsOf, Apart

LEMMA AnswersApart ==
  ASSUME MailsInv, NEW t \in Mails!Type, NEW i \in DOMAIN answers
  PROVE  /\ answers[i] \in Boxes /\ answers[i][t] \subseteq Mails!Mail
         /\ answers[i][t] \subseteq Answering(t) /\ answers[i][t] \subseteq MailsOf(t)
         /\ Apart(answers[i][t])
<1>1. answers[i] \in Boxes
  BY DEF MailsInv, MailsTyped
<1>2. answers[i][t] \subseteq Mails!Mail
  BY <1>1 DEF Boxes
<1>3. answers[i][t] \subseteq Answering(t) /\ answers[i][t] \subseteq MailsOf(t)
  BY <1>2 DEF Answering, MailsOf
<1> QED
  BY <1>1, <1>2, <1>3 DEF MailsInv, OneOfEach, Apart

\* The answers behind the first one.
LEMMA AnswersLeft ==
  ASSUME MailsInv, answers # << >>
  PROVE  /\ 1 \in DOMAIN answers /\ Head(answers) = answers[1] /\ Tail(answers) \in Seq(Boxes)
         /\ \A i \in DOMAIN Tail(answers) :
              /\ i + 1 \in DOMAIN answers /\ Tail(answers)[i] = answers[i + 1]
              /\ i \in Int /\ 1 < i + 1
BY DEF MailsInv, MailsTyped

\* Mails go from the boxes, or an answer that came is dropped.
LEMMA FewerMails ==
  ASSUME MailsInv, box' \in Boxes,
         \A t \in Mails!Type : box'[t] \subseteq box[t],
         answers' = answers \/ (answers # << >> /\ answers' = Tail(answers)),
         UNCHANGED << last, waiting, removed >>
  PROVE  MailsInv'
<1>0. "private" \in Mails!Type
  BY DEF Mails!Type
<1>1. /\ answers' \in Seq(Boxes)
      /\ \E k \in {0, 1} : \A i \in DOMAIN answers' :
           i \in Int /\ i + k \in DOMAIN answers /\ answers'[i] = answers[i + k]
  <2>1. CASE answers' = answers
    <3>1. answers \in Seq(Boxes)
      BY DEF MailsInv, MailsTyped
    <3>2. \A i \in DOMAIN answers : i \in Int /\ i + 0 = i
      BY <3>1
    <3> QED
      BY <2>1, <3>1, <3>2
  <2>2. CASE answers # << >> /\ answers' = Tail(answers)
    BY <2>2, AnswersLeft
  <2> QED
    BY <2>1, <2>2
<1>2. PICK k \in {0, 1} : \A i \in DOMAIN answers' :
        i \in Int /\ i + k \in DOMAIN answers /\ answers'[i] = answers[i + k]
  BY <1>1
<1>3. \A t \in Mails!Type : MailsOf(t)' \subseteq MailsOf(t)
  BY <1>2 DEF MailsOf, Answering
<1>4. MailsTyped'
  BY <1>1 DEF MailsInv, MailsTyped
<1>5. OneOfEach' /\ NextIsNewest' /\ NewestStay'
  BY <1>0, <1>3 DEF MailsInv, OneOfEach, NextIsNewest, NewestStay
<1>6. PulledInOrder'
  <2>1. \A i, j \in DOMAIN answers' : i < j => i + k < j + k
    BY <1>2
  <2> QED
    BY <1>0, <1>2, <2>1 DEF MailsInv, PulledInOrder, InTheirOrder
<1>7. WithinLimit'
  <2> SUFFICES ASSUME NEW t \in Mails!Type
               PROVE  /\ Cardinality(box'[t]) <= MAILBOX_LIMIT
                      /\ \A i \in DOMAIN answers' : Cardinality(answers'[i][t]) <= MAILBOX_LIMIT
    BY DEF WithinLimit
  <2>1. IsFiniteSet(box[t]) /\ Cardinality(box[t]) \in Nat
    BY BoxesApart, ApartFinite
  <2>2. IsFiniteSet(box'[t]) /\ Cardinality(box'[t]) <= Cardinality(box[t])
    BY <2>1, FS_Subset
  <2>3. Cardinality(box'[t]) \in Nat
    BY <2>2, FS_CardinalityType
  <2>4. Cardinality(box'[t]) <= MAILBOX_LIMIT
    BY <2>1, <2>2, <2>3, MailsConstants DEF MailsInv, WithinLimit
  <2> QED
    BY <1>2, <2>4 DEF MailsInv, WithinLimit
<1> QED
  BY <1>4, <1>5, <1>6, <1>7 DEF MailsInv

LEMMA ArriveStep ==
  ASSUME MailsInv, NEW t \in Mails!Type, NEW attachment \in BOOLEAN, Mails!Arrive(t, attachment)
  PROVE  MailsInv'
<1> DEFINE e == [n |-> last + 1, attachment |-> attachment]
<1>1. /\ waiting' = [waiting EXCEPT ![t] = waiting[t] \cup {e}]
      /\ last' = last + 1 /\ last < MaxMail
      /\ UNCHANGED << box, answers, removed >>
  BY DEF Mails!Arrive, Mails!pulls
<1>2. last \in Nat /\ MaxMail \in Nat
  BY MailsConstants DEF MailsInv, MailsTyped
<1>3. e \in Mails!Mail /\ e.n = last + 1
  BY <1>1, <1>2 DEF Mails!Mail
<1> HIDE DEF e
<1>4. MailsTyped'
  BY <1>1, <1>2, <1>3 DEF MailsInv, MailsTyped, Boxes
<1>5. \A s \in Mails!Type : MailsOf(s)' \subseteq MailsOf(s) \cup {e}
  BY <1>1 DEF MailsOf, Answering, MailsInv, MailsTyped, Boxes
<1>6. \A s \in Mails!Type : \A m \in MailsOf(s) \cup removed : m.n \in Nat /\ m.n < e.n
  BY <1>2, <1>3, MailsConstants
  DEF MailsOf, Answering, MailsInv, MailsTyped, Boxes, NextIsNewest, Mails!Mail
<1>7. OneOfEach'
  BY <1>3, <1>5, <1>6, <1>2 DEF MailsInv, OneOfEach
<1>8. NextIsNewest'
  BY <1>1, <1>2, <1>3, <1>5, <1>6 DEF NextIsNewest
<1>9. WithinLimit'
  BY <1>1 DEF MailsInv, WithinLimit
<1>10. "private" \in Mails!Type
  BY DEF Mails!Type
<1>11. NewestStay'
  BY <1>1, <1>5, <1>6, <1>10 DEF MailsInv, NewestStay
<1>12. PulledInOrder'
  <2>1. \A k \in waiting'["private"] : k \in waiting["private"] \/ k = e
    BY <1>1, <1>10 DEF MailsInv, MailsTyped, Boxes
  <2>2. \A m \in box["private"] : m.n < e.n
    BY <1>6, <1>10 DEF MailsOf
  <2>3. \A i \in DOMAIN answers : \A m \in answers[i]["private"] : m.n < e.n
    BY <1>6, <1>10, AnswersApart
  <2> QED
    BY <1>1, <2>1, <2>2, <2>3 DEF MailsInv, PulledInOrder, InTheirOrder
<1> QED
  BY <1>4, <1>7, <1>8, <1>9, <1>11, <1>12 DEF MailsInv

LEMMA AgentMailStep ==
  ASSUME MailsInv, NEW attachment \in BOOLEAN, Mails!send_agent_mail(attachment)
  PROVE  MailsInv'
<1> DEFINE e == [n |-> last + 1, attachment |-> attachment]
           added == Mails!add_mails("system", box["system"], {e})
<1>1. /\ box' = [box EXCEPT !["system"] = added]
      /\ last' = last + 1 /\ last < MaxMail
      /\ UNCHANGED << waiting, answers, removed >>
  BY DEF Mails!send_agent_mail, Mails!pulls
<1>2. last \in Nat /\ MaxMail \in Nat /\ MAILBOX_LIMIT \in Nat \ {0}
  BY MailsConstants DEF MailsInv, MailsTyped
<1>3. e \in Mails!Mail /\ e.n = last + 1
  BY <1>1, <1>2 DEF Mails!Mail
<1>4. "private" \in Mails!Type /\ "system" \in Mails!Type /\ "private" # "system"
  BY DEF Mails!Type
<1> HIDE DEF e
<1>5. Apart({e}) /\ Cardinality({e}) <= MAILBOX_LIMIT
  <2>1. Cardinality({e}) = 1
    BY FS_Singleton
  <2>2. {e} \subseteq Mails!Mail /\ \A m, k \in {e} : m = k
    BY <1>3
  <2> QED
    BY <2>1, <2>2, <1>2 DEF Apart
<1>6. Apart(box["system"]) /\ Cardinality(box["system"]) <= MAILBOX_LIMIT
  BY <1>4, BoxesApart DEF MailsInv, WithinLimit
<1>7. added \subseteq box["system"] \cup {e} /\ Cardinality(added) <= MAILBOX_LIMIT
  BY <1>4, <1>5, <1>6, AddBounded
<1> HIDE DEF added
<1>8. MailsTyped'
  <2>1. added \in SUBSET Mails!Mail
    BY <1>3, <1>4, <1>7 DEF MailsInv, MailsTyped, Boxes
  <2>2. box' \in Boxes
    BY <1>1, <2>1 DEF MailsInv, MailsTyped, Boxes
  <2> QED
    BY <1>1, <1>2, <2>2 DEF MailsInv, MailsTyped
<1>9. \A s \in Mails!Type : MailsOf(s)' \subseteq MailsOf(s) \cup {e}
  BY <1>1, <1>4, <1>7 DEF MailsOf, Answering, MailsInv, MailsTyped, Boxes
<1>10. \A s \in Mails!Type : \A m \in MailsOf(s) \cup removed : m.n \in Nat /\ m.n < e.n
  BY <1>2, <1>3, MailsConstants
  DEF MailsOf, Answering, MailsInv, MailsTyped, Boxes, NextIsNewest, Mails!Mail
<1>11. OneOfEach'
  BY <1>2, <1>3, <1>9, <1>10 DEF MailsInv, OneOfEach
<1>12. NextIsNewest'
  BY <1>1, <1>2, <1>3, <1>9, <1>10 DEF NextIsNewest
<1>13. WithinLimit'
  BY <1>1, <1>4, <1>7 DEF MailsInv, MailsTyped, Boxes, WithinLimit
<1>14. NewestStay'
  BY <1>1, <1>9, <1>10, <1>4 DEF MailsInv, NewestStay
<1>15. PulledInOrder'
  BY <1>1, <1>4 DEF MailsInv, MailsTyped, Boxes, PulledInOrder, InTheirOrder
<1> QED
  BY <1>8, <1>11, <1>12, <1>13, <1>14, <1>15 DEF MailsInv

\* What the service answers is newer than all it has answered, and older than
\* what goes on waiting.
LEMMA AnsweredStep ==
  ASSUME MailsInv, Mails!Answered
  PROVE  MailsInv'
<1> DEFINE e == [t \in Mails!Type |-> Mails!Answer(t)]
           l == Len(answers) + 1
<1>0. "private" \in Mails!Type
  BY DEF Mails!Type
<1>1. /\ answers' = Append(answers, e)
      /\ waiting' = [t \in Mails!Type |-> waiting[t] \ Mails!Answer(t)]
      /\ UNCHANGED << last, box, removed >>
  BY DEF Mails!Answered
<1>2. ASSUME NEW t \in Mails!Type
      PROVE  /\ e[t] = Mails!Answer(t) /\ e[t] \subseteq waiting[t]
             /\ e[t] \subseteq Mails!Mail /\ Cardinality(e[t]) <= MAILBOX_LIMIT
             /\ waiting'[t] = waiting[t] \ e[t]
  BY <1>1, BoxesApart, AnswerBounded
<1>3. \A m \in e["private"], k \in waiting'["private"] : m.n < k.n
  BY <1>0, <1>2, BoxesApart, AnswerOldest
<1>4. e \in Boxes
  BY <1>2 DEF Boxes
<1> HIDE DEF e
<1>5. /\ answers' \in Seq(Boxes) /\ DOMAIN answers' = 1 .. l /\ l \in Nat
      /\ DOMAIN answers = 1 .. l - 1
      /\ answers'[l] = e
      /\ \A i \in DOMAIN answers : answers'[i] = answers[i]
  BY <1>1, <1>4 DEF MailsInv, MailsTyped
<1> HIDE DEF l
<1>6. \A i \in DOMAIN answers' :
        i \in Int /\ ((i \in DOMAIN answers /\ i < l) \/ i = l)
  BY <1>5
<1>7. MailsTyped'
  BY <1>1, <1>5 DEF MailsInv, MailsTyped, Boxes
<1>8. \A t \in Mails!Type : MailsOf(t)' \subseteq MailsOf(t)
  BY <1>1, <1>2, <1>5, <1>6 DEF MailsOf, Answering
<1>9. OneOfEach' /\ NextIsNewest' /\ NewestStay'
  BY <1>0, <1>1, <1>8 DEF MailsInv, OneOfEach, NextIsNewest, NewestStay
<1>10. WithinLimit'
  BY <1>1, <1>2, <1>5, <1>6 DEF MailsInv, WithinLimit
<1>11. PulledInOrder'
  <2>1. InTheirOrder(box, answers, waiting)
    BY DEF MailsInv, PulledInOrder
  <2>2. waiting'["private"] \subseteq waiting["private"] /\ e["private"] \subseteq waiting["private"]
    BY <1>0, <1>2
  <2>3. ASSUME NEW i \in DOMAIN answers', NEW k \in answers'[i]["private"]
        PROVE  /\ \A m \in box["private"] : m.n < k.n
               /\ \A m \in waiting'["private"] : k.n < m.n
    BY <1>3, <1>5, <1>6, <2>1, <2>2 DEF InTheirOrder
  <2>4. ASSUME NEW i \in DOMAIN answers', NEW j \in DOMAIN answers', i < j,
               NEW m \in answers'[i]["private"], NEW k \in answers'[j]["private"]
        PROVE  m.n < k.n
    <3>1. i \in DOMAIN answers /\ answers'[i] = answers[i]
      <4>1. i # l
        BY <1>6, <2>4, <1>5
      <4> QED
        BY <1>5, <1>6, <4>1
    <3>2. CASE j = l
      BY <1>5, <2>1, <2>2, <3>1, <3>2 DEF InTheirOrder
    <3>3. CASE j \in DOMAIN answers
      BY <1>5, <2>1, <2>4, <3>1, <3>3 DEF InTheirOrder
    <3> QED
      BY <1>6, <3>2, <3>3
  <2> QED
    BY <1>1, <2>1, <2>2, <2>3, <2>4 DEF PulledInOrder, InTheirOrder
<1> QED
  BY <1>7, <1>9, <1>10, <1>11 DEF MailsInv

\* What an answer brings is newer than all private mails there were, and the mails
\* that make room for it are the oldest.
LEMMA PulledStep ==
  ASSUME MailsInv, Mails!Pulled
  PROVE  MailsInv'
<1> DEFINE e == answers[1]
<1>0. "private" \in Mails!Type
  BY DEF Mails!Type
<1>1. /\ answers # << >> /\ answers' = Tail(answers)
      /\ box' = [t \in Mails!Type |-> Mails!add_mails(t, box[t], Head(answers)[t])]
      /\ removed' = removed \cup (box["private"] \ box'["private"])
      /\ UNCHANGED << last, waiting >>
  BY DEF Mails!Pulled
<1>2. /\ 1 \in DOMAIN answers /\ Head(answers) = e /\ answers' \in Seq(Boxes)
      /\ \A i \in DOMAIN answers' :
           i \in Int /\ i + 1 \in DOMAIN answers /\ 1 < i + 1 /\ answers'[i] = answers[i + 1]
  BY <1>1, AnswersLeft
<1> HIDE DEF e
<1>3. ASSUME NEW t \in Mails!Type
      PROVE  /\ Apart(box[t]) /\ Apart(e[t]) /\ e[t] \subseteq MailsOf(t)
             /\ box'[t] = Mails!add_mails(t, box[t], e[t])
             /\ box'[t] \subseteq box[t] \cup e[t]
             /\ Cardinality(box'[t]) <= MAILBOX_LIMIT
  <2>1. Apart(box[t]) /\ Cardinality(box[t]) <= MAILBOX_LIMIT
    BY BoxesApart DEF MailsInv, WithinLimit
  <2>2. Apart(e[t]) /\ e[t] \subseteq MailsOf(t)
    BY <1>2, AnswersApart DEF e
  <2>3. Cardinality(e[t]) <= MAILBOX_LIMIT
    BY <1>2 DEF MailsInv, WithinLimit, e
  <2>4. box'[t] = Mails!add_mails(t, box[t], e[t])
    BY <1>1, <1>2
  <2> QED
    BY <2>1, <2>2, <2>3, <2>4, AddBounded
<1>4. \A t \in Mails!Type : MailsOf(t)' \subseteq MailsOf(t)
  <2> SUFFICES ASSUME NEW t \in Mails!Type PROVE MailsOf(t)' \subseteq MailsOf(t)
    OBVIOUS
  <2>1. box'[t] \subseteq MailsOf(t)
    BY <1>3 DEF MailsOf
  <2>2. Answering(t)' \subseteq Answering(t)
    BY <1>2 DEF Answering
  <2> QED
    BY <1>1, <2>1, <2>2 DEF MailsOf
<1>5. \A m \in MailsOf("private") : m \in Mails!Mail
  BY <1>0, BoxesApart DEF MailsOf, Answering
<1>6. MailsTyped'
  <2>1. \A t \in Mails!Type : MailsOf(t) \subseteq Mails!Mail
    BY BoxesApart DEF MailsOf, Answering
  <2>2. \A t \in Mails!Type : box'[t] \subseteq Mails!Mail
    BY <1>4, <2>1 DEF MailsOf
  <2>3. box' \in Boxes
    BY <1>1, <2>2 DEF Boxes
  <2>4. removed' \subseteq Mails!Mail
    BY <1>0, <1>1, BoxesApart DEF MailsInv, MailsTyped
  <2> QED
    BY <1>1, <1>2, <2>3, <2>4 DEF MailsInv, MailsTyped
<1>7. OneOfEach'
  BY <1>4 DEF MailsInv, OneOfEach
<1>8. removed' \subseteq removed \cup MailsOf("private")
  BY <1>1 DEF MailsOf
<1>9. NextIsNewest'
  BY <1>0, <1>1, <1>4, <1>8 DEF MailsInv, NextIsNewest
<1>10. WithinLimit'
  BY <1>2, <1>3 DEF MailsInv, WithinLimit
<1>11. InTheirOrder(box, answers, waiting)
  BY DEF MailsInv, PulledInOrder
<1>12. \A m \in box["private"] \cup e["private"] :
         /\ \A k \in waiting["private"] : m.n < k.n
         /\ \A i \in DOMAIN answers' : \A k \in answers'[i]["private"] : m.n < k.n
  BY <1>2, <1>11 DEF InTheirOrder, e
<1>13. NewestStay'
  <2> SUFFICES ASSUME NEW d \in removed', NEW m \in MailsOf("private")' PROVE d.n < m.n
    BY DEF NewestStay
  <2>1. m \in MailsOf("private")
    BY <1>0, <1>4
  <2>2. CASE d \in removed
    BY <2>1, <2>2 DEF MailsInv, NewestStay
  <2>3. CASE d \in box["private"] \ box'["private"]
    <3>1. CASE m \in waiting["private"] \/ \E i \in DOMAIN answers' : m \in answers'[i]["private"]
      BY <2>3, <3>1, <1>12
    <3>2. CASE m \in box'["private"]
      <4>1. CASE m \in e["private"]
        BY <2>3, <4>1, <1>2, <1>11 DEF InTheirOrder, e
      <4>2. CASE m \notin e["private"]
        <5> DEFINE c == Mails!Cardinality(e["private"])
        <5>1. c \in Nat
          BY <1>0, <1>3, ApartFinite, SameCardinality
        <5>2. box'["private"] =
                Mails!delete_old_mails("private", box["private"], c) \cup e["private"]
          BY <1>0, <1>3 DEF Mails!add_mails
        <5> HIDE DEF c
        <5> QED
          BY <2>3, <3>2, <4>2, <5>1, <5>2, <1>0, <1>3, OldestGo
      <4> QED
        BY <4>1, <4>2
    <3> QED
      BY <1>1, <3>1, <3>2 DEF MailsOf, Answering
  <2> QED
    BY <1>1, <2>2, <2>3
<1>14. PulledInOrder'
  <2>1. box'["private"] \subseteq box["private"] \cup e["private"]
    BY <1>0, <1>3
  <2>2. \A i, j \in DOMAIN answers' : i < j => i + 1 < j + 1
    BY <1>2
  <2>3. ASSUME NEW m \in box'["private"]
        PROVE  /\ \A k \in waiting["private"] : m.n < k.n
               /\ \A i \in DOMAIN answers' : \A k \in answers'[i]["private"] : m.n < k.n
    BY <1>12, <2>1, <2>3
  <2>4. \A i \in DOMAIN answers' : \A k \in answers'[i]["private"], m \in waiting["private"] : k.n < m.n
    BY <1>2, <1>11 DEF InTheirOrder
  <2>5. \A i, j \in DOMAIN answers' : i < j =>
          \A m \in answers'[i]["private"], k \in answers'[j]["private"] : m.n < k.n
    BY <1>2, <1>11, <2>2 DEF InTheirOrder
  <2> QED
    BY <1>1, <2>3, <2>4, <2>5 DEF PulledInOrder, InTheirOrder
<1> QED
  BY <1>6, <1>7, <1>9, <1>10, <1>13, <1>14 DEF MailsInv

LEMMA OtherMailStep ==
  ASSUME MailsInv,
         \/ Mails!update_mailbox \/ Mails!PullFailed \/ Mails!Age \/ Mails!clear_month_mails
         \/ \E t \in Mails!Type : \E m \in box[t] : Mails!delete_mail(t, m)
         \/ UNCHANGED Mails!vars
  PROVE  MailsInv'
<1>0. box \in Boxes
  BY DEF MailsInv, MailsTyped
<1>1. CASE \/ Mails!update_mailbox \/ Mails!PullFailed \/ Mails!Age \/ UNCHANGED Mails!vars
  <2>1. /\ answers' = answers \/ (answers # << >> /\ answers' = Tail(answers))
        /\ UNCHANGED << last, box, waiting, removed >>
    BY <1>1 DEF Mails!update_mailbox, Mails!PullFailed, Mails!Age, Mails!pulls, Mails!vars
  <2> QED
    BY <1>0, <2>1, FewerMails
<1>2. CASE Mails!clear_month_mails
  <2>1. /\ box' = [t \in Mails!Type |-> {m \in box[t] : m.n > old}]
        /\ UNCHANGED << last, waiting, answers, removed >>
    BY <1>2 DEF Mails!clear_month_mails, Mails!pulls
  <2>2. box' \in Boxes /\ \A t \in Mails!Type : box'[t] \subseteq box[t]
    BY <1>0, <2>1 DEF Boxes
  <2> QED
    BY <2>1, <2>2, FewerMails
<1>3. CASE \E t \in Mails!Type : \E m \in box[t] : Mails!delete_mail(t, m)
  <2>0. PICK t \in Mails!Type : \E m \in box[t] : Mails!delete_mail(t, m)
    BY <1>3
  <2>1. PICK m \in box[t] : Mails!delete_mail(t, m)
    BY <2>0
  <2>2. /\ box' = [box EXCEPT ![t] = box[t] \ {m}]
        /\ UNCHANGED << last, waiting, answers, removed >>
    BY <2>1 DEF Mails!delete_mail, Mails!pulls
  <2>3. box' \in Boxes /\ \A s \in Mails!Type : box'[s] \subseteq box[s]
    BY <1>0, <2>2 DEF Boxes
  <2> QED
    BY <2>2, <2>3, FewerMails
<1> QED
  BY <1>1, <1>2, <1>3

\* The types of the boxes, the places of mails, and what made room for what.
THEOREM MailsInductive == Mails!Spec => []MailsInv
<1>1. Mails!Init => MailsInv
  <2> SUFFICES ASSUME Mails!Init PROVE MailsInv
    OBVIOUS
  <2>1. /\ last = 0 /\ removed = {} /\ \A t \in Mails!Type : box[t] = {} /\ waiting[t] = {}
        /\ box \in Boxes /\ waiting \in Boxes
        /\ answers \in Seq(Boxes) /\ DOMAIN answers = {}
    BY DEF Mails!Init, Boxes
  <2>2. "private" \in Mails!Type
    BY DEF Mails!Type
  <2>3. WithinLimit
    <3>1. Cardinality({}) = 0 /\ 0 <= MAILBOX_LIMIT
      BY FS_EmptySet, MailsConstants
    <3>2. \A t \in Mails!Type : Cardinality(box[t]) <= MAILBOX_LIMIT
      BY <2>1, <3>1
    <3> QED
      BY <2>1, <3>2 DEF WithinLimit
  <2> QED
    BY <2>1, <2>2, <2>3
    DEF MailsInv, MailsTyped, OneOfEach, NextIsNewest, NewestStay, PulledInOrder, InTheirOrder,
        MailsOf, Answering
<1>2. MailsInv /\ [Mails!Next]_(Mails!vars) => MailsInv'
  BY ArriveStep, AgentMailStep, AnsweredStep, PulledStep, OtherMailStep DEF Mails!Next
<1> QED
  BY <1>1, <1>2, PTL DEF Mails!Spec

(* mailbox.lua:100-176: whatever the limit and however many mails come, a box *)
(* never outgrows MAILBOX_LIMIT, and private mails that go to make room are   *)
(* older than all that stay.                                                *)
THEOREM MailsBounded == Mails!Spec => []BoxesBounded
<1>1. MailsInv => BoxesBounded
  BY SameCardinality
  DEF MailsInv, WithinLimit, NewestStay, MailsOf, BoxesBounded, Mails!BoxesBounded
<1> QED
  BY <1>1, MailsInductive, PTL

-----------------------------------------------------------------------------
(* The chat: what one node gets in one channel.                              *)

Numbers == Seq(Nat)
Elems(s) == {s[i] : i \in DOMAIN s}
Grows(s) == \A i, j \in DOMAIN s : i < j => s[i] < s[j]
Precedes(s, t) == \A x \in Elems(s), y \in Elems(t) : x < y

(* What was seen to, H, what is kept for a broadcast, W, the calls that are   *)
(* on their way, C, and what the speaker has, S, grow from part to part.     *)
LineOK(H, W, C, S) ==
  /\ Grows(H) /\ Grows(W) /\ Grows(S)
  /\ Precedes(H, W) /\ Precedes(H, S) /\ Precedes(W, S)
  /\ \A i \in DOMAIN C : /\ Grows(C[i])
                         /\ Precedes(H, C[i]) /\ Precedes(W, C[i]) /\ Precedes(C[i], S)
  /\ \A i, j \in DOMAIN C : i < j => Precedes(C[i], C[j])

InCalls(C) == UNION {Elems(C[i]) : i \in DOMAIN C}
All(H, W, C, S) == Elems(H) \cup Elems(W) \cup InCalls(C) \cup Elems(S)

\* B are the parts into which S was cut.
Cut(B, S) ==
  /\ B \in Seq(Numbers)
  /\ \A k \in DOMAIN B : Grows(B[k])
  /\ \A k, l \in DOMAIN B : k < l => Precedes(B[k], B[l])
  /\ InCalls(B) = Elems(S)

LEMMA Joined ==
  ASSUME NEW s \in Numbers, NEW t \in Numbers
  PROVE  /\ s \o t \in Numbers /\ Elems(s \o t) = Elems(s) \cup Elems(t)
         /\ Grows(s) /\ Grows(t) /\ Precedes(s, t) => Grows(s \o t)
<1> DEFINE u == s \o t
<1>1. /\ u \in Seq(Nat) /\ Len(s) \in Nat /\ Len(t) \in Nat
      /\ DOMAIN s = 1 .. Len(s) /\ DOMAIN t = 1 .. Len(t) /\ DOMAIN u = 1 .. Len(s) + Len(t)
      /\ \A i \in 1 .. Len(s) : u[i] = s[i]
      /\ \A i \in 1 .. Len(t) : u[i + Len(s)] = t[i]
  BY DEF Numbers
<1> HIDE DEF u
<1>2. \A i \in DOMAIN u : /\ i \in Int
                          /\ \/ i \in DOMAIN s /\ u[i] = s[i]
                             \/ i > Len(s) /\ i - Len(s) \in DOMAIN t /\ u[i] = t[i - Len(s)]
  <2>1. ASSUME NEW i \in DOMAIN u, i > Len(s) PROVE i - Len(s) \in DOMAIN t /\ u[i] = t[i - Len(s)]
    <3>1. i - Len(s) \in 1 .. Len(t) /\ (i - Len(s)) + Len(s) = i
      BY <1>1, <2>1
    <3> QED
      BY <1>1, <3>1
  <2> QED
    BY <1>1, <2>1
<1>3. Elems(u) = Elems(s) \cup Elems(t)
  <2>1. Elems(u) \subseteq Elems(s) \cup Elems(t)
    BY <1>2 DEF Elems
  <2>2. ASSUME NEW i \in DOMAIN t PROVE i + Len(s) \in DOMAIN u /\ u[i + Len(s)] = t[i]
    BY <1>1
  <2>3. Elems(s) \subseteq Elems(u) /\ Elems(t) \subseteq Elems(u)
    BY <1>1, <2>2 DEF Elems
  <2> QED
    BY <2>1, <2>3
<1>4. ASSUME Grows(s), Grows(t), Precedes(s, t), NEW i \in DOMAIN u, NEW j \in DOMAIN u, i < j
      PROVE  u[i] < u[j]
  <2>1. CASE i \in DOMAIN s /\ j \in DOMAIN s
    BY <1>1, <1>4, <2>1 DEF Grows
  <2>2. CASE i \in DOMAIN s /\ j > Len(s)
    <3>1. u[i] \in Elems(s) /\ u[i] \in Nat
      <4>1. u[i] = s[i] /\ u[i] \in Nat
        BY <1>1, <2>2
      <4> QED
        BY <2>2, <4>1 DEF Elems
    <3>2. u[j] \in Elems(t) /\ u[j] \in Nat
      <4>1. j - Len(s) \in DOMAIN t /\ u[j] = t[j - Len(s)] /\ u[j] \in Nat
        BY <1>1, <1>2, <2>2
      <4> QED
        BY <4>1 DEF Elems
    <3> QED
      BY <1>4, <3>1, <3>2 DEF Precedes
  <2>3. CASE i > Len(s) /\ j > Len(s)
    <3>1. i - Len(s) < j - Len(s)
      BY <1>1, <1>2, <1>4, <2>3
    <3>2. /\ i - Len(s) \in DOMAIN t /\ u[i] = t[i - Len(s)]
          /\ j - Len(s) \in DOMAIN t /\ u[j] = t[j - Len(s)]
      BY <1>1, <1>2, <2>3
    <3> QED
      BY <1>4, <3>1, <3>2 DEF Grows
  <2>4. i \in Nat /\ j \in Nat /\ (i > Len(s) => j > Len(s))
    BY <1>1, <1>4
  <2>5. (i \in DOMAIN s \/ i > Len(s)) /\ (j \in DOMAIN s \/ j > Len(s))
    BY <1>2
  <2> QED
    BY <2>1, <2>2, <2>3, <2>4, <2>5
<1>5. u \in Numbers
  BY <1>1 DEF Numbers
<1> QED
  BY <1>3, <1>4, <1>5 DEF u, Grows

LEMMA EmptyLine ==
  /\ << >> \in Numbers /\ << >> \in Seq(Numbers) /\ Elems(<< >>) = {} /\ InCalls(<< >>) = {}
  /\ Grows(<< >>)
  /\ \A s : Precedes(<< >>, s) /\ Precedes(s, << >>)
  /\ \A H, W, S : LineOK(H, W, << >>, S) <=>
       /\ Grows(H) /\ Grows(W) /\ Grows(S)
       /\ Precedes(H, W) /\ Precedes(H, S) /\ Precedes(W, S)
<1>1. /\ DOMAIN << >> = {}
      /\ << >> \in Seq(Nat) /\ << >> \in Seq(Numbers)
  OBVIOUS
<1>2. /\ << >> \in Numbers /\ Elems(<< >>) = {} /\ InCalls(<< >>) = {} /\ Grows(<< >>)
      /\ \A s : Precedes(<< >>, s) /\ Precedes(s, << >>)
  BY <1>1 DEF Numbers, Elems, InCalls, Grows, Precedes
<1>3. ASSUME NEW H, NEW W, NEW S
      PROVE  LineOK(H, W, << >>, S) <=>
               /\ Grows(H) /\ Grows(W) /\ Grows(S)
               /\ Precedes(H, W) /\ Precedes(H, S) /\ Precedes(W, S)
  BY <1>1 DEF LineOK
<1> QED
  BY <1>1, <1>2, <1>3

LEMMA PrecedesJoined ==
  ASSUME NEW s \in Numbers, NEW t \in Numbers
  PROVE  \A u : /\ Precedes(s, u) /\ Precedes(t, u) => Precedes(s \o t, u)
                /\ Precedes(u, s) /\ Precedes(u, t) => Precedes(u, s \o t)
BY Joined DEF Precedes

(* The speaker gets a message.                                              *)
LEMMA LineSpoken ==
  ASSUME NEW H, NEW W, NEW C, NEW S \in Numbers, NEW x \in Nat,
         LineOK(H, W, C, S), \A y \in All(H, W, C, S) : y < x
  PROVE  /\ LineOK(H, W, C, Append(S, x)) /\ Append(S, x) \in Numbers
         /\ All(H, W, C, Append(S, x)) = All(H, W, C, S) \cup {x}
<1> DEFINE t == << x >>
<1>1. t \in Numbers /\ Append(S, x) = S \o t /\ Elems(t) = {x} /\ Grows(t)
  BY DEF Numbers, Elems, Grows
<1> HIDE DEF t
<1>2. Elems(S \o t) = Elems(S) \cup {x} /\ S \o t \in Numbers
  BY <1>1, Joined
<1>3. ASSUME NEW u, Elems(u) \subseteq All(H, W, C, S) PROVE Precedes(u, t)
  BY <1>1, <1>3 DEF Precedes
<1>4. /\ Precedes(S, t) /\ Precedes(H, t) /\ Precedes(W, t)
      /\ \A i \in DOMAIN C : Precedes(C[i], t)
  BY <1>3 DEF All, InCalls
<1>5. Grows(S \o t)
  BY <1>1, <1>4, Joined DEF LineOK
<1>6. LineOK(H, W, C, S \o t)
  BY <1>1, <1>4, <1>5, PrecedesJoined DEF LineOK
<1> QED
  BY <1>1, <1>2, <1>6 DEF All

(* What the speaker has is lost.                                            *)
LEMMA LineLost ==
  ASSUME NEW H, NEW W, NEW C, NEW S, LineOK(H, W, C, S), All(H, W, C, S) \subseteq Nat
  PROVE  /\ LineOK(H, W, C, << >>)
         /\ All(H, W, C, << >>) = All(H, W, C, S) \ Elems(S)
<1>1. LineOK(H, W, C, << >>)
  BY EmptyLine DEF LineOK
<1>2. ASSUME NEW x \in Elems(H) \cup Elems(W) \cup InCalls(C) PROVE x \notin Elems(S)
  <2>1. x \in Elems(S) => x < x /\ x \in Nat
    BY <1>2 DEF LineOK, Precedes, InCalls, All
  <2> QED
    BY <2>1
<1> QED
  BY <1>1, <1>2, EmptyLine DEF All

(* The speaker sends what it has, in parts.                                  *)
LEMMA LineSent ==
  ASSUME NEW H, NEW W, NEW C \in Seq(Numbers), NEW S, NEW B \in Seq(Numbers),
         Cut(B, S), LineOK(H, W, C, S)
  PROVE  /\ LineOK(H, W, C \o B, << >>) /\ C \o B \in Seq(Numbers)
         /\ All(H, W, C \o B, << >>) = All(H, W, C, S)
<1> DEFINE D == C \o B
<1>1. /\ D \in Seq(Numbers) /\ Len(C) \in Nat /\ Len(B) \in Nat
      /\ DOMAIN C = 1 .. Len(C) /\ DOMAIN B = 1 .. Len(B) /\ DOMAIN D = 1 .. Len(C) + Len(B)
      /\ \A i \in 1 .. Len(C) : D[i] = C[i]
      /\ \A i \in 1 .. Len(B) : D[i + Len(C)] = B[i]
  BY DEF Cut
<1> HIDE DEF D
<1>2. \A i \in DOMAIN D : /\ i \in Int
                          /\ \/ i \in DOMAIN C /\ D[i] = C[i]
                             \/ i > Len(C) /\ i - Len(C) \in DOMAIN B /\ D[i] = B[i - Len(C)]
  <2>1. ASSUME NEW i \in DOMAIN D, i > Len(C) PROVE i - Len(C) \in DOMAIN B /\ D[i] = B[i - Len(C)]
    <3>1. i - Len(C) \in 1 .. Len(B) /\ (i - Len(C)) + Len(C) = i
      BY <1>1, <2>1
    <3> QED
      BY <1>1, <3>1
  <2> QED
    BY <1>1, <2>1
<1>3. InCalls(D) = InCalls(C) \cup InCalls(B)
  <2>1. InCalls(D) \subseteq InCalls(C) \cup InCalls(B)
    BY <1>2 DEF InCalls
  <2>2. ASSUME NEW i \in DOMAIN B PROVE i + Len(C) \in DOMAIN D /\ D[i + Len(C)] = B[i]
    BY <1>1
  <2>3. InCalls(C) \subseteq InCalls(D) /\ InCalls(B) \subseteq InCalls(D)
    BY <1>1, <2>2 DEF InCalls
  <2> QED
    BY <2>1, <2>3
<1>4. \A k \in DOMAIN B : Elems(B[k]) \subseteq Elems(S) /\ Grows(B[k])
  BY DEF Cut, InCalls
<1>5. \A k \in DOMAIN B : \A u : Precedes(u, S) => Precedes(u, B[k])
  BY <1>4 DEF Precedes
<1>6. ASSUME NEW i \in DOMAIN D
      PROVE  Grows(D[i]) /\ Precedes(H, D[i]) /\ Precedes(W, D[i])
  BY <1>2, <1>4, <1>5 DEF LineOK
<1>7. ASSUME NEW i \in DOMAIN D, NEW j \in DOMAIN D, i < j PROVE Precedes(D[i], D[j])
  <2>1. CASE i \in DOMAIN C /\ j \in DOMAIN C
    BY <1>1, <1>7, <2>1 DEF LineOK
  <2>2. CASE i \in DOMAIN C /\ j > Len(C)
    BY <1>1, <1>2, <1>5, <2>2 DEF LineOK
  <2>3. CASE i > Len(C) /\ j > Len(C)
    <3>1. Len(C) \in Nat /\ i \in Int /\ j \in Int
      BY <1>2
    <3>2. /\ i - Len(C) \in DOMAIN B /\ D[i] = B[i - Len(C)]
          /\ j - Len(C) \in DOMAIN B /\ D[j] = B[j - Len(C)]
      <4>1. i \notin DOMAIN C /\ j \notin DOMAIN C
        BY <2>3, <3>1
      <4> QED
        BY <1>2, <4>1
    <3>3. i - Len(C) < j - Len(C)
      BY <1>7, <3>1
    <3>4. \A k, l \in DOMAIN B : k < l => Precedes(B[k], B[l])
      BY DEF Cut
    <3> QED
      BY ONLY <3>2, <3>3, <3>4
  <2> QED
    BY <1>1, <1>2, <1>7, <2>1, <2>2, <2>3
<1>8. LineOK(H, W, D, << >>)
  BY <1>6, <1>7, EmptyLine DEF LineOK
<1>9. All(H, W, D, << >>) = All(H, W, C, S)
  BY <1>3, EmptyLine DEF All, Cut
<1> QED
  BY <1>1, <1>8, <1>9 DEF D

(* A call arrives and its messages are kept.                                 *)
LEMMA LineKept ==
  ASSUME NEW H, NEW W \in Numbers, NEW C \in Seq(Numbers), NEW S, C # << >>, LineOK(H, W, C, S)
  PROVE  /\ LineOK(H, W \o Head(C), Tail(C), S)
         /\ All(H, W \o Head(C), Tail(C), S) = All(H, W, C, S)
<1> DEFINE h == Head(C)
           D == Tail(C)
<1>1. /\ Len(C) \in Nat /\ DOMAIN C = 1 .. Len(C) /\ 1 \in DOMAIN C /\ h = C[1] /\ h \in Numbers
      /\ DOMAIN D = 1 .. Len(C) - 1 /\ \A i \in 1 .. Len(C) - 1 : D[i] = C[i + 1]
  OBVIOUS
<1> HIDE DEF h, D
<1>2. \A i \in DOMAIN D : i \in Int /\ i + 1 \in DOMAIN C /\ 1 < i + 1 /\ D[i] = C[i + 1]
  BY <1>1
<1>3. W \o h \in Numbers /\ Elems(W \o h) = Elems(W) \cup Elems(h) /\ Grows(W \o h)
  BY <1>1, Joined DEF LineOK
<1>4. InCalls(C) = Elems(h) \cup InCalls(D)
  <2>1. InCalls(C) \subseteq Elems(h) \cup InCalls(D)
    <3>1. ASSUME NEW i \in DOMAIN C, i # 1 PROVE i - 1 \in DOMAIN D /\ D[i - 1] = C[i]
      <4>1. i - 1 \in 1 .. Len(C) - 1 /\ (i - 1) + 1 = i
        BY <1>1, <3>1
      <4> QED
        BY <1>1, <4>1
    <3> QED
      BY <1>1, <3>1 DEF InCalls
  <2> QED
    BY <1>1, <1>2, <2>1 DEF InCalls
<1>5. /\ Precedes(H, W \o h) /\ Precedes(W \o h, S)
      /\ \A i \in DOMAIN D : Precedes(W \o h, D[i])
  BY <1>1, <1>2, PrecedesJoined DEF LineOK
<1>6. \A i, j \in DOMAIN D : i < j => i + 1 < j + 1
  BY <1>2
<1>7. LineOK(H, W \o h, D, S)
  BY <1>2, <1>3, <1>5, <1>6 DEF LineOK
<1>8. All(H, W \o h, D, S) = All(H, W, C, S)
  BY <1>3, <1>4 DEF All
<1> QED
  BY <1>7, <1>8 DEF h, D

(* What was kept is sent on to the players.                                  *)
LEMMA LineHandled ==
  ASSUME NEW H \in Numbers, NEW W \in Numbers, NEW C, NEW S, LineOK(H, W, C, S)
  PROVE  /\ LineOK(H \o W, << >>, C, S) /\ H \o W \in Numbers
         /\ All(H \o W, << >>, C, S) = All(H, W, C, S)
<1>1. H \o W \in Numbers /\ Elems(H \o W) = Elems(H) \cup Elems(W) /\ Grows(H \o W)
  BY Joined DEF LineOK
<1>2. /\ Precedes(H \o W, S) /\ \A i \in DOMAIN C : Precedes(H \o W, C[i])
  BY PrecedesJoined DEF LineOK
<1> QED
  BY <1>1, <1>2, EmptyLine DEF LineOK, All

(* The node crashes: what it kept and the calls to it are lost.               *)
LEMMA LineCrashed ==
  ASSUME NEW H, NEW W, NEW C, NEW S, LineOK(H, W, C, S), All(H, W, C, S) \subseteq Nat
  PROVE  /\ LineOK(H, << >>, << >>, S)
         /\ All(H, << >>, << >>, S) = All(H, W, C, S) \ (Elems(W) \cup InCalls(C))
<1>1. LineOK(H, << >>, << >>, S)
  BY EmptyLine DEF LineOK
<1>2. ASSUME NEW x \in Elems(W) \cup InCalls(C) PROVE x \notin Elems(H) /\ x \notin Elems(S)
  <2>1. x \in Elems(H) \/ x \in Elems(S) => x < x /\ x \in Nat
    BY <1>2 DEF LineOK, Precedes, InCalls, All
  <2> QED
    BY <2>1
<1> QED
  BY <1>1, <1>2, EmptyLine DEF All

-----------------------------------------------------------------------------
(* The parts of a dispatch.                                                  *)

LEMMA Quotient ==
  ASSUME NEW a \in Nat, NEW m \in Nat \ {0}
  PROVE  /\ a \div m \in Nat
         /\ (a \div m) * m <= a /\ a < (a \div m) * m + m
OBVIOUS

LEMMA Multiples ==
  ASSUME NEW a \in Nat, NEW b \in Nat, NEW m \in Nat, a <= b
  PROVE  a * m <= b * m /\ a * m \in Nat /\ b * m \in Nat
OBVIOUS

\* A dispatch cuts what the speaker has: nothing is lost or sent twice.
LEMMA BuffersCut ==
  ASSUME NEW S \in Numbers, Grows(S)
  PROVE  Cut(Chats!Buffers(S), S)
<1> DEFINE m == chat_max_buffer
           L == Len(S)
           N == (L + m - 1) \div m
           lo(k) == (k - 1) * m + 1
           hi(k) == Chats!Min({k * m, L})
           B == Chats!Buffers(S)
<1>1. m \in Nat \ {0}
  BY ServicesAssumption DEF Chats!Constants
<1>2. L \in Nat /\ DOMAIN S = 1 .. L /\ \A p \in 1 .. L : S[p] \in Nat
  BY DEF Numbers
<1>3. B = [k \in 1 .. N |-> SubSeq(S, lo(k), hi(k))]
  BY DEF Chats!Buffers
<1>4. L + m - 1 \in Nat
  BY <1>1, <1>2
<1>5. N \in Nat /\ N * m <= L + m - 1 /\ L + m - 1 < N * m + m
  BY <1>1, <1>4, Quotient
<1>6. ASSUME NEW k \in 1 .. N
      PROVE  /\ k \in Nat /\ k - 1 \in Nat /\ k * m \in Nat /\ (k - 1) * m \in Nat
             /\ k * m = (k - 1) * m + m
             /\ (k - 1) * m < L
  <2> HIDE DEF N
  <2>1. k \in Nat /\ k - 1 \in Nat /\ k <= N
    BY <1>5
  <2>2. k * m = (k - 1) * m + m /\ k * m \in Nat /\ (k - 1) * m \in Nat
    BY <1>1, <2>1
  <2>3. k * m <= N * m
    BY <1>1, <1>5, <2>1, Multiples
  <2>4. N * m \in Nat
    BY <1>1, <1>5
  <2>5. (k - 1) * m < L
    <3>1. PICK x \in Nat, y \in Nat, z \in Nat : x = k * m /\ y = (k - 1) * m /\ z = N * m
      BY ONLY <2>2, <2>4
    <3>2. x = y + m /\ x <= z /\ z <= L + m - 1 /\ m \in Nat /\ L \in Nat
      BY <1>1, <1>2, <1>5, <2>2, <2>3, <3>1
    <3>3. y < L
      BY ONLY <3>1, <3>2
    <3> QED
      BY ONLY <3>1, <3>3
  <2> QED
    BY ONLY <2>1, <2>2, <2>5
<1>7. ASSUME NEW k \in 1 .. N
      PROVE  /\ hi(k) \in Nat /\ hi(k) <= L /\ hi(k) <= k * m
             /\ hi(k) = k * m \/ hi(k) = L
             /\ lo(k) \in Nat \ {0} /\ lo(k) <= hi(k)
  <2>1. k * m \in Nat /\ (k - 1) * m \in Nat /\ k * m = (k - 1) * m + m /\ (k - 1) * m < L
    BY <1>6
  <2> DEFINE e == k * m
             f == (k - 1) * m
  <2> HIDE DEF e, f, m, L
  <2>2. hi(k) \in {e, L} /\ hi(k) <= e /\ hi(k) <= L
    <3>1. Chats!Min({e, L}) = CHOOSE x \in {e, L} : \A y \in {e, L} : x =< y
      BY DEF Chats!Min
    <3>2. \E x \in {e, L} : \A y \in {e, L} : x =< y
      BY <1>2, <2>1 DEF e
    <3> QED
      BY <3>1, <3>2 DEF e
  <2>3. e \in Nat /\ f \in Nat /\ e = f + m /\ f < L
    BY <2>1 DEF e, f
  <2>4. lo(k) = f + 1
    BY DEF f
  <2> QED
    BY <1>1, <1>2, <2>2, <2>3, <2>4 DEF e
<1> HIDE DEF N, m, L, lo, hi, B
<1>8. ASSUME NEW k \in 1 .. N
      PROVE  /\ B[k] \in Numbers /\ Len(B[k]) = hi(k) - lo(k) + 1
             /\ DOMAIN B[k] = 1 .. hi(k) - lo(k) + 1
             /\ \A j \in DOMAIN B[k] :
                  /\ lo(k) + j - 1 \in lo(k) .. hi(k) /\ lo(k) + j - 1 \in 1 .. L
                  /\ B[k][j] = S[lo(k) + j - 1]
  <2>1. B[k] = SubSeq(S, lo(k), hi(k))
    BY <1>3
  <2> DEFINE a == lo(k)
             b == hi(k)
  <2>2. a \in Nat \ {0} /\ b \in Nat /\ a <= b /\ b <= L
    BY <1>7
  <2> HIDE DEF a, b
  <2>3. SubSeq(S, a, b) = [j \in 1 .. b - a + 1 |-> S[a + j - 1]]
    BY <1>2, <2>2
  <2>4. \A j \in 1 .. b - a + 1 : a + j - 1 \in a .. b /\ a + j - 1 \in 1 .. L
    BY <1>2, <2>2
  <2>5. b - a + 1 \in Nat
    BY <2>2
  <2>6. [j \in 1 .. b - a + 1 |-> S[a + j - 1]] \in Seq(Nat)
    BY <1>2, <2>4, <2>5
  <2> QED
    BY <2>1, <2>3, <2>4, <2>5, <2>6 DEF a, b, Numbers
<1>9. ASSUME NEW k \in 1 .. N
      PROVE  /\ Elems(B[k]) \subseteq {S[p] : p \in lo(k) .. hi(k)}
             /\ {S[p] : p \in lo(k) .. hi(k)} \subseteq Elems(B[k])
  <2>1. \A p \in lo(k) .. hi(k) : /\ p - lo(k) + 1 \in DOMAIN B[k]
                                  /\ lo(k) + (p - lo(k) + 1) - 1 = p
    BY <1>7, <1>8
  <2> QED
    BY <1>8, <2>1 DEF Elems
<1>10. B \in Seq(Numbers) /\ DOMAIN B = 1 .. N
  BY <1>3, <1>5, <1>8
<1>11. ASSUME NEW k \in 1 .. N PROVE Grows(B[k])
  <2> SUFFICES ASSUME NEW i \in DOMAIN B[k], NEW j \in DOMAIN B[k], i < j
               PROVE  B[k][i] < B[k][j]
    BY DEF Grows
  <2>1. i \in Int /\ j \in Int /\ lo(k) \in Nat
    <3>1. lo(k) \in Nat /\ hi(k) \in Nat
      BY <1>7
    <3>2. DOMAIN B[k] = 1 .. hi(k) - lo(k) + 1
      BY <1>8
    <3> QED
      BY <3>1, <3>2
  <2>2. lo(k) + i - 1 < lo(k) + j - 1
    BY <2>1
  <2> QED
    BY <1>2, <1>8, <2>2 DEF Grows
<1>12. ASSUME NEW k \in 1 .. N, NEW l \in 1 .. N, k < l PROVE Precedes(B[k], B[l])
  <2>1. hi(k) < lo(l)
    <3>1. k \in Nat /\ l - 1 \in Nat /\ k <= l - 1 /\ m \in Nat
      BY <1>1, <1>5, <1>12
    <3>2. k * m <= (l - 1) * m /\ k * m \in Nat /\ (l - 1) * m \in Nat
      BY <3>1, Multiples
    <3>3. hi(k) <= k * m /\ hi(k) \in Nat
      BY <1>7
    <3> QED
      BY <3>2, <3>3 DEF lo
  <2>2. \A p \in lo(k) .. hi(k), q \in lo(l) .. hi(l) : p \in 1 .. L /\ q \in 1 .. L /\ p < q
    BY <1>2, <1>7, <2>1
  <2>3. \A p \in lo(k) .. hi(k), q \in lo(l) .. hi(l) : S[p] < S[q]
    BY <1>2, <2>2 DEF Grows
  <2> QED
    BY <1>9, <2>3 DEF Precedes
<1>13. InCalls(B) \subseteq Elems(S)
  <2>1. \A k \in 1 .. N : Elems(B[k]) \subseteq Elems(S)
    BY <1>2, <1>8 DEF Elems
  <2> QED
    BY <1>10, <2>1 DEF InCalls
<1>14. ASSUME NEW p \in 1 .. L PROVE \E k \in 1 .. N : S[p] \in Elems(B[k])
  <2> DEFINE k == (p + m - 1) \div m
  <2>1. p + m - 1 \in Nat
    BY <1>1, <1>2
  <2>2. k \in Nat /\ k * m <= p + m - 1 /\ p + m - 1 < k * m + m
    BY <1>1, <2>1, Quotient
  <2> HIDE DEF k
  <2>3. k * m \in Nat /\ p <= k * m /\ k # 0
    BY <1>1, <1>2, <2>2
  <2>4. k <= N
    <3>1. SUFFICES ASSUME N < k PROVE FALSE
      BY <1>5, <2>2
    <3>2. k - 1 \in Nat /\ N <= k - 1 /\ m \in Nat
      BY <1>1, <1>5, <2>2, <3>1
    <3>3. N * m <= (k - 1) * m /\ N * m \in Nat /\ (k - 1) * m \in Nat
      BY <1>5, <3>2, Multiples
    <3>4. k * m = (k - 1) * m + m
      BY <1>1, <2>2
    <3> QED
      BY <1>1, <1>2, <1>5, <2>2, <3>3, <3>4
  <2>5. k \in 1 .. N
    BY <1>5, <2>2, <2>3, <2>4
  <2>6. lo(k) <= p /\ p <= hi(k)
    <3>1. k * m = (k - 1) * m + m /\ (k - 1) * m \in Nat
      BY <1>1, <2>2, <2>3
    <3>2. lo(k) <= p
      BY <1>1, <1>2, <2>2, <3>1 DEF lo
    <3> QED
      BY <1>2, <1>7, <2>3, <2>5, <3>2
  <2>7. p \in lo(k) .. hi(k)
    BY <1>2, <1>7, <2>5, <2>6
  <2> QED
    BY <1>9, <2>5, <2>7
<1>15. Elems(S) \subseteq InCalls(B)
  <2>1. \A p \in 1 .. L : S[p] \in InCalls(B)
    BY <1>10, <1>14 DEF InCalls
  <2> QED
    BY <1>2, <2>1 DEF Elems
<1> QED
  BY <1>10, <1>11, <1>12, <1>13, <1>15 DEF Cut, B

\* Calls of other channels make no difference.
LEMMA LinePadded ==
  ASSUME NEW H, NEW W, NEW C \in Seq(Numbers), NEW S, NEW E \in Seq({<< >>}), LineOK(H, W, C, S)
  PROVE  /\ LineOK(H, W, C \o E, S) /\ C \o E \in Seq(Numbers)
         /\ All(H, W, C \o E, S) = All(H, W, C, S)
<1> DEFINE D == C \o E
<1>1. /\ D \in Seq(Numbers) /\ Len(C) \in Nat /\ Len(E) \in Nat
      /\ DOMAIN C = 1 .. Len(C) /\ DOMAIN D = 1 .. Len(C) + Len(E)
      /\ \A i \in 1 .. Len(C) : D[i] = C[i]
      /\ \A i \in 1 .. Len(E) : D[i + Len(C)] = << >>
  <2>1. E \in Seq(Numbers) /\ \A i \in 1 .. Len(E) : E[i] = << >>
    BY EmptyLine
  <2> QED
    BY <2>1
<1> HIDE DEF D
<1>2. \A i \in DOMAIN D : i \in Int /\ ((i \in DOMAIN C /\ D[i] = C[i]) \/ D[i] = << >>)
  <2>1. ASSUME NEW i \in DOMAIN D, i > Len(C) PROVE D[i] = << >>
    <3>1. i - Len(C) \in 1 .. Len(E) /\ (i - Len(C)) + Len(C) = i
      BY <1>1, <2>1
    <3> QED
      BY <1>1, <3>1
  <2> QED
    BY <1>1, <2>1
<1>3. InCalls(D) = InCalls(C)
  <2>1. InCalls(D) \subseteq InCalls(C)
    BY <1>2, EmptyLine DEF InCalls
  <2>2. \A i \in DOMAIN C : i \in DOMAIN D /\ D[i] = C[i]
    BY <1>1
  <2>3. InCalls(C) \subseteq InCalls(D)
    BY <2>2 DEF InCalls
  <2> QED
    BY <2>1, <2>3
<1>4. LineOK(H, W, D, S)
  BY <1>2, EmptyLine DEF LineOK
<1> QED
  BY <1>1, <1>3, <1>4 DEF All, D

-----------------------------------------------------------------------------
(* The calls on their way to a node, and those of a channel among them.       *)

Messages == [channel : Channel, buffer : Numbers]
OfChannel(q, ch) == [i \in DOMAIN q |-> IF q[i].channel = ch THEN q[i].buffer ELSE << >>]
Sent(B, ch) == [i \in DOMAIN B |-> [channel |-> ch, buffer |-> B[i]]]
Blank(B) == [i \in DOMAIN B |-> << >>]

LEMMA OfChannelSeq ==
  ASSUME NEW q \in Seq(Messages), NEW ch
  PROVE  /\ OfChannel(q, ch) \in Seq(Numbers)
         /\ Len(OfChannel(q, ch)) = Len(q) /\ DOMAIN OfChannel(q, ch) = DOMAIN q
<1>1. Len(q) \in Nat /\ DOMAIN q = 1 .. Len(q) /\ \A i \in 1 .. Len(q) : q[i].buffer \in Numbers
  <2>1. Len(q) \in Nat /\ DOMAIN q = 1 .. Len(q) /\ \A i \in 1 .. Len(q) : q[i] \in Messages
    OBVIOUS
  <2> QED
    BY <2>1 DEF Messages
<1>2. << >> \in Numbers
  BY EmptyLine
<1>3. OfChannel(q, ch) = [i \in 1 .. Len(q) |-> IF q[i].channel = ch THEN q[i].buffer ELSE << >>]
  BY <1>1 DEF OfChannel
<1>4. \A i \in 1 .. Len(q) : (IF q[i].channel = ch THEN q[i].buffer ELSE << >>) \in Numbers
  BY <1>1, <1>2
<1> QED
  BY <1>1, <1>3, <1>4

LEMMA OfChannelEmpty == \A ch : OfChannel(<< >>, ch) = << >>
BY DEF OfChannel

LEMMA OfChannelTail ==
  ASSUME NEW q \in Seq(Messages), NEW ch, q # << >>
  PROVE  /\ OfChannel(q, ch) # << >>
         /\ OfChannel(Tail(q), ch) = Tail(OfChannel(q, ch))
         /\ Head(OfChannel(q, ch)) = IF Head(q).channel = ch THEN Head(q).buffer ELSE << >>
<1> DEFINE f == OfChannel(q, ch)
           g == OfChannel(Tail(q), ch)
<1>1. /\ Len(q) \in Nat \ {0} /\ DOMAIN q = 1 .. Len(q) /\ 1 \in 1 .. Len(q) /\ Head(q) = q[1]
      /\ Tail(q) \in Seq(Messages) /\ Len(Tail(q)) = Len(q) - 1
      /\ DOMAIN Tail(q) = 1 .. Len(q) - 1 /\ \A i \in 1 .. Len(q) - 1 : Tail(q)[i] = q[i + 1]
  OBVIOUS
<1>2. f \in Seq(Numbers) /\ Len(f) = Len(q) /\ DOMAIN f = DOMAIN q
  BY OfChannelSeq
<1>3. g = [i \in 1 .. Len(q) - 1 |-> IF q[i + 1].channel = ch THEN q[i + 1].buffer ELSE << >>]
  BY <1>1 DEF OfChannel
<1>4. \A i \in 1 .. Len(q) : f[i] = IF q[i].channel = ch THEN q[i].buffer ELSE << >>
  BY <1>1 DEF OfChannel
<1> HIDE DEF f, g
<1>5. /\ f # << >> /\ Head(f) = f[1]
      /\ Tail(f) \in Seq(Numbers) /\ Len(Tail(f)) = Len(q) - 1
      /\ \A i \in 1 .. Len(q) - 1 : Tail(f)[i] = f[i + 1]
  <2>1. Len(f) # 0
    BY <1>1, <1>2
  <2>2. f # << >>
    BY <2>1
  <2> QED
    BY <1>1, <1>2, <2>2
<1>6. \A i \in 1 .. Len(q) - 1 : i + 1 \in 1 .. Len(q)
  BY <1>1
<1>7. g = Tail(f)
  <2>1. g \in Seq(Numbers) /\ Len(g) = Len(q) - 1
    BY <1>1, OfChannelSeq DEF g
  <2>2. \A i \in 1 .. Len(q) - 1 : g[i] = Tail(f)[i]
    BY <1>3, <1>4, <1>5, <1>6
  <2> QED
    BY <1>5, <2>1, <2>2, SeqEqual
<1> QED
  BY <1>1, <1>4, <1>5, <1>7 DEF f, g

LEMMA OfChannelSent ==
  ASSUME NEW q \in Seq(Messages), NEW B \in Seq(Numbers), NEW ch \in Channel, NEW d
  PROVE  /\ Sent(B, ch) \in Seq(Messages) /\ q \o Sent(B, ch) \in Seq(Messages)
         /\ OfChannel(q \o Sent(B, ch), d) =
              OfChannel(q, d) \o (IF d = ch THEN B ELSE Blank(B))
         /\ Blank(B) \in Seq({<< >>})
<1> DEFINE e == Sent(B, ch)
           u == q \o e
           E == IF d = ch THEN B ELSE Blank(B)
           f == OfChannel(q, d)
           g == OfChannel(u, d)
<1>1. /\ Len(q) \in Nat /\ DOMAIN q = 1 .. Len(q)
      /\ Len(B) \in Nat /\ DOMAIN B = 1 .. Len(B) /\ \A i \in 1 .. Len(B) : B[i] \in Numbers
  OBVIOUS
<1>2. e = [i \in 1 .. Len(B) |-> [channel |-> ch, buffer |-> B[i]]]
  BY <1>1 DEF Sent
<1>3. \A i \in 1 .. Len(B) : [channel |-> ch, buffer |-> B[i]] \in Messages
  BY <1>1 DEF Messages
<1>4. e \in Seq(Messages) /\ Len(e) = Len(B)
      /\ \A i \in 1 .. Len(B) : e[i].channel = ch /\ e[i].buffer = B[i]
  BY <1>1, <1>2, <1>3
<1> HIDE DEF e
<1>5. /\ u \in Seq(Messages) /\ DOMAIN u = 1 .. Len(q) + Len(B)
      /\ \A i \in 1 .. Len(q) : u[i] = q[i]
      /\ \A i \in 1 .. Len(B) : u[i + Len(q)] = e[i]
  BY <1>1, <1>4
<1>6. f \in Seq(Numbers) /\ Len(f) = Len(q) /\ DOMAIN f = 1 .. Len(q)
  BY <1>1, OfChannelSeq
<1>7. E \in Seq(Numbers) /\ Len(E) = Len(B)
      /\ \A i \in 1 .. Len(B) : E[i] = IF d = ch THEN B[i] ELSE << >>
  <2>1. CASE d = ch
    BY <1>1, <2>1
  <2>2. CASE d # ch
    <3>1. E = [i \in 1 .. Len(B) |-> << >>]
      BY <1>1, <2>2 DEF Blank
    <3> QED
      BY <1>1, <2>2, <3>1, EmptyLine
  <2> QED
    BY <2>1, <2>2
<1>8. g = [i \in 1 .. Len(q) + Len(B) |-> IF u[i].channel = d THEN u[i].buffer ELSE << >>]
  BY <1>5 DEF OfChannel
<1>9. \A i \in 1 .. Len(q) : f[i] = IF q[i].channel = d THEN q[i].buffer ELSE << >>
  BY <1>1 DEF OfChannel
<1> HIDE DEF u, E, f, g
<1>10. /\ f \o E \in Seq(Numbers) /\ Len(f \o E) = Len(q) + Len(B)
       /\ \A i \in 1 .. Len(q) : (f \o E)[i] = f[i]
       /\ \A i \in 1 .. Len(B) : (f \o E)[i + Len(q)] = E[i]
  <2>1. PICK m \in Nat, n \in Nat : m = Len(f) /\ n = Len(E) /\ m = Len(q) /\ n = Len(B)
    BY <1>1, <1>6, <1>7
  <2>2. /\ f \o E \in Seq(Numbers) /\ Len(f \o E) = m + n
        /\ \A i \in 1 .. m + n : (f \o E)[i] = IF i <= m THEN f[i] ELSE E[i - m]
    <3>1. /\ f \o E \in Seq(Numbers) /\ Len(f \o E) = Len(f) + Len(E)
          /\ \A i \in 1 .. Len(f) + Len(E) :
               (f \o E)[i] = IF i <= Len(f) THEN f[i] ELSE E[i - Len(f)]
      <4>1. f \in Seq(Numbers) /\ E \in Seq(Numbers)
        BY <1>6, <1>7
      <4> QED
        BY ONLY <4>1, ConcatProperties
    <3> QED
      BY ONLY <2>1, <3>1
  <2>3. ASSUME NEW i \in 1 .. n PROVE (f \o E)[i + m] = E[i]
    <3>1. i + m \in 1 .. m + n /\ ~ (i + m <= m) /\ (i + m) - m = i
      BY ONLY m \in Nat, n \in Nat, i \in 1 .. n
    <3> QED
      BY ONLY <2>2, <3>1
  <2>4. ASSUME NEW i \in 1 .. m PROVE (f \o E)[i] = f[i]
    <3>1. i \in 1 .. m + n /\ i <= m
      BY ONLY m \in Nat, n \in Nat, i \in 1 .. m
    <3> QED
      BY ONLY <2>2, <3>1
  <2> QED
    BY ONLY <2>1, <2>2, <2>3, <2>4
<1> DEFINE h == f \o E
<1> HIDE DEF h
<1>11. ASSUME NEW i \in 1 .. Len(q) + Len(B) PROVE g[i] = h[i]
  <2>1. CASE i <= Len(q)
    <3>1. i \in 1 .. Len(q)
      BY <1>1, <2>1
    <3> QED
      BY <1>5, <1>8, <1>9, <1>10, <3>1 DEF h
  <2>2. CASE i > Len(q)
    <3>1. i - Len(q) \in 1 .. Len(B) /\ (i - Len(q)) + Len(q) = i
      BY <1>1, <2>2
    <3>2. u[i] = e[i - Len(q)] /\ h[i] = E[i - Len(q)]
      BY <1>5, <1>10, <3>1 DEF h
    <3>3. g[i] = IF ch = d THEN B[i - Len(q)] ELSE << >>
      BY <1>4, <1>8, <3>1, <3>2
    <3> QED
      BY <1>7, <3>1, <3>2, <3>3
  <2>3. i \in Int /\ Len(q) \in Int
    BY <1>1
  <2> QED
    BY <2>1, <2>2, <2>3
<1>12. g = h
  <2>1. g \in Seq(Numbers) /\ Len(g) = Len(q) + Len(B)
    <3>1. Len(u) = Len(q) + Len(B)
      BY <1>1, <1>5
    <3> QED
      BY <1>5, <3>1, OfChannelSeq DEF g
  <2> QED
    BY <1>10, <1>11, <2>1, SeqEqual DEF h
<1>13. Blank(B) \in Seq({<< >>})
  <2>1. Blank(B) = [i \in 1 .. Len(B) |-> << >>]
    BY <1>1 DEF Blank
  <2> QED
    BY <1>1, <2>1
<1> QED
  BY <1>4, <1>5, <1>12, <1>13 DEF u, E, f, g, e, h

-----------------------------------------------------------------------------
(* Messages.                                                               *)

Kept(n, ch) == IF ch = World THEN world_cache[n] ELSE << >>

Line(n, ch) ==
  LineOK(handled[n][ch], Kept(n, ch), OfChannel(calls[n], ch), chat_cache[ch])

Reaches(n, ch) ==
  All(handled[n][ch], Kept(n, ch), OfChannel(calls[n], ch), chat_cache[ch])

Said == UNION {Elems(spoken[ch]) : ch \in Channel}
Newest(c) == (\A x \in Said : x <= c) /\ (c = 0 \/ c \in Said)

MessageTypes ==
  /\ chat_cache \in [Channel -> Numbers] /\ spoken \in [Channel -> Numbers]
  /\ calls \in [Node -> Seq(Messages)]
  /\ world_cache \in [Node -> Numbers]
  /\ unheard \in [Node -> SUBSET Nat]
  /\ handled \in [Node -> [Channel -> Numbers]]

\* A number is of one message, and of none of another channel.
Numbered ==
  /\ \E c \in Nat : Newest(c)
  /\ \A ch, d \in Channel : ch # d => Elems(spoken[ch]) \cap Elems(spoken[d]) = {}
  /\ \A n \in Node : unheard[n] \subseteq Said

Reached ==
  \A n \in Node, ch \in Channel :
    Line(n, ch) /\ Reaches(n, ch) = Elems(spoken[ch]) \ unheard[n]

MessageInv == MessageTypes /\ Numbered /\ Reached

LEMMA MessageTyped ==
  ASSUME MessageTypes
  PROVE  /\ \A ch \in Channel : chat_cache[ch] \in Numbers /\ spoken[ch] \in Numbers
         /\ \A n \in Node : /\ calls[n] \in Seq(Messages)
                            /\ world_cache[n] \in Numbers /\ unheard[n] \subseteq Nat
         /\ \A n \in Node, ch \in Channel :
              handled[n][ch] \in Numbers /\ Kept(n, ch) \in Numbers
BY EmptyLine DEF MessageTypes, Kept

LEMMA ElemsNat == ASSUME NEW s \in Numbers PROVE Elems(s) \subseteq Nat
BY DEF Numbers, Elems

LEMMA ToSetElems == \A s : Chats!ToSet(s) = Elems(s)
BY DEF Chats!ToSet, Elems

\* Messages are numbered from 1 on.
LEMMA CountNewest ==
  ASSUME MessageTypes, NEW c \in Nat, Newest(c)
  PROVE  Chats!Count = c
<1> DEFINE T == {0} \cup Said
<1>1. Chats!Count = Chats!Max({0} \cup UNION {Elems(spoken[ch]) : ch \in Channel})
  BY ToSetElems DEF Chats!Count
<1>2. Chats!Count = Chats!Max(T)
  BY <1>1 DEF Said
<1>3. T \subseteq Nat
  BY MessageTyped, ElemsNat DEF Said
<1>4. c \in T /\ \A x \in T : c >= x
  BY <1>3 DEF Newest
<1> HIDE DEF T
<1>5. Chats!Max(T) = CHOOSE x \in T : \A y \in T : x >= y
  BY DEF Chats!Max
<1>6. \A x \in T : (\A y \in T : x >= y) => x = c
  BY <1>3, <1>4
<1> QED
  BY <1>2, <1>4, <1>5, <1>6

\* What a listener is told of was said.
LEMMA ReachesSaid ==
  ASSUME MessageInv, NEW n \in Node, NEW ch \in Channel
  PROVE  /\ Reaches(n, ch) \subseteq Elems(spoken[ch]) /\ Elems(spoken[ch]) \subseteq Said
         /\ Elems(handled[n][ch]) \subseteq Reaches(n, ch)
         /\ Elems(Kept(n, ch)) \subseteq Reaches(n, ch)
         /\ InCalls(OfChannel(calls[n], ch)) \subseteq Reaches(n, ch)
         /\ Elems(chat_cache[ch]) \subseteq Reaches(n, ch)
         /\ Reaches(n, ch) \subseteq Nat
<1>1. Reaches(n, ch) \subseteq Elems(spoken[ch])
  BY DEF MessageInv, Reached
<1>2. Elems(spoken[ch]) \subseteq Nat
  BY MessageTyped, ElemsNat DEF MessageInv
<1> QED
  BY <1>1, <1>2 DEF Reaches, All, Said

LEMMA MessagesInit == ASSUME Chats!Init PROVE MessageInv
<1>1. \A ch \in Channel : chat_cache[ch] = << >> /\ spoken[ch] = << >>
  BY DEF Chats!Init, Chats!NoMessages
<1>2. \A n \in Node : calls[n] = << >> /\ world_cache[n] = << >> /\ unheard[n] = {}
  BY DEF Chats!Init
<1>3. \A n \in Node, ch \in Channel : handled[n][ch] = << >>
  BY DEF Chats!Init, Chats!NoMessages
<1>4. << >> \in Numbers /\ << >> \in Seq(Messages) /\ Elems(<< >>) = {} /\ InCalls(<< >>) = {}
  BY EmptyLine
<1>5. MessageTypes
  BY <1>4 DEF Chats!Init, Chats!NoMessages, MessageTypes
<1>6. Said = {}
  BY <1>1, <1>4 DEF Said
<1>7. Numbered
  <2>1. Newest(0)
    BY <1>6 DEF Newest
  <2> QED
    BY <1>1, <1>2, <1>4, <2>1 DEF Numbered
<1>8. ASSUME NEW n \in Node, NEW ch \in Channel
      PROVE  Line(n, ch) /\ Reaches(n, ch) = Elems(spoken[ch]) \ unheard[n]
  <2>1. Kept(n, ch) = << >> /\ OfChannel(calls[n], ch) = << >>
    BY <1>2, OfChannelEmpty DEF Kept
  <2>2. LineOK(<< >>, << >>, << >>, << >>) /\ All(<< >>, << >>, << >>, << >>) = {}
    BY <1>4, EmptyLine DEF All
  <2> QED
    BY <1>1, <1>2, <1>3, <1>4, <2>1, <2>2 DEF Line, Reaches
<1> QED
  BY <1>5, <1>7, <1>8 DEF MessageInv, Reached

LEMMA MessagesFramed ==
  ASSUME MessageInv, UNCHANGED << chat_cache, calls, world_cache, spoken, unheard, handled >>
  PROVE  MessageInv'
<1>1. MessageTypes'
  BY DEF MessageInv, MessageTypes
<1>2. Said' = Said /\ Numbered'
  BY DEF MessageInv, Numbered, Newest, Said
<1>3. ASSUME NEW n \in Node, NEW ch \in Channel
      PROVE  Line(n, ch)' = Line(n, ch) /\ Reaches(n, ch)' = Reaches(n, ch)
  BY DEF Line, Reaches, Kept
<1> QED
  BY <1>1, <1>2, <1>3 DEF MessageInv, Reached

\* Only new_chat says something.
LEMMA NumberedKept ==
  ASSUME Numbered, spoken' = spoken, \A n \in Node : unheard'[n] \subseteq Said
  PROVE  Numbered'
<1>1. Said' = Said
  BY DEF Said
<1> QED
  BY <1>1 DEF Numbered, Newest

LEMMA SpokenReached ==
  ASSUME MessageInv, NEW ch \in Channel, Chats!new_chat(ch)
  PROVE  MessageInv'
<1>1. PICK c \in Nat : Newest(c)
  BY DEF MessageInv, Numbered
<1> DEFINE x == c + 1
<1>2. Chats!Count + 1 = x
  BY <1>1, CountNewest DEF MessageInv
<1> HIDE DEF x
<1>3. /\ chat_cache' = [chat_cache EXCEPT ![ch] = Append(@, x)]
      /\ spoken' = [spoken EXCEPT ![ch] = Append(@, x)]
      /\ UNCHANGED << calls, world_cache, unheard, handled >>
  BY <1>2 DEF Chats!new_chat, Chats!listener
<1>4. /\ chat_cache \in [Channel -> Numbers] /\ spoken \in [Channel -> Numbers]
      /\ chat_cache[ch] \in Numbers /\ spoken[ch] \in Numbers
  BY MessageTyped DEF MessageInv, MessageTypes
<1>5. x \in Nat /\ \A y \in Said : y \in Nat /\ y < x
  <2>1. Said \subseteq Nat
    BY MessageTyped, ElemsNat DEF Said, MessageInv
  <2> QED
    BY <1>1, <2>1 DEF Newest, x
<1>6. \A s \in Numbers : Append(s, x) \in Numbers /\ Elems(Append(s, x)) = Elems(s) \cup {x}
  <2>1. \A s \in Numbers : Append(s, x) = s \o << x >>
    BY <1>5 DEF Numbers
  <2>2. << x >> \in Numbers /\ Elems(<< x >>) = {x}
    BY <1>5 DEF Numbers, Elems
  <2> QED
    BY <2>1, <2>2, Joined
<1>7. MessageTypes'
  BY <1>3, <1>4, <1>6 DEF MessageInv, MessageTypes
<1>8. \A d \in Channel : Elems(spoken'[d]) = Elems(spoken[d]) \cup (IF d = ch THEN {x} ELSE {})
  BY <1>3, <1>4, <1>6
<1>9. Said' = Said \cup {x}
  BY <1>8 DEF Said
<1>10. Numbered'
  <2>1. Newest(x)'
    BY <1>5, <1>9 DEF Newest
  <2>2. ASSUME NEW d \in Channel, NEW e \in Channel, d # e
        PROVE  Elems(spoken'[d]) \cap Elems(spoken'[e]) = {}
    <3>1. Elems(spoken[d]) \cap Elems(spoken[e]) = {}
      BY <2>2 DEF MessageInv, Numbered
    <3>2. x \notin Elems(spoken[d]) /\ x \notin Elems(spoken[e])
      BY <1>5 DEF Said
    <3> QED
      BY <1>8, <2>2, <3>1, <3>2
  <2>3. \A n \in Node : unheard'[n] \subseteq Said'
    BY <1>3, <1>9 DEF MessageInv, Numbered
  <2> QED
    BY <1>5, <2>1, <2>2, <2>3 DEF Numbered
<1>11. ASSUME NEW n \in Node, NEW d \in Channel
       PROVE  Line(n, d)' /\ Reaches(n, d)' = Elems(spoken'[d]) \ unheard'[n]
  <2>1. Line(n, d) /\ Reaches(n, d) = Elems(spoken[d]) \ unheard[n]
    BY DEF MessageInv, Reached
  <2> DEFINE H == handled[n][d]
             W == Kept(n, d)
             C == OfChannel(calls[n], d)
             S == chat_cache[d]
  <2>2. LineOK(H, W, C, S) /\ All(H, W, C, S) = Elems(spoken[d]) \ unheard[n]
    BY <2>1 DEF Line, Reaches
  <2>3. handled'[n][d] = H /\ Kept(n, d)' = W /\ OfChannel(calls[n], d)' = C
    BY <1>3 DEF Kept
  <2>4. unheard'[n] = unheard[n] /\ unheard[n] \subseteq Said
    BY <1>3 DEF MessageInv, Numbered
  <2> HIDE DEF H, W, C
  <2>5. CASE d = ch
    <3>1. S \in Numbers /\ S' = Append(S, x)
      BY <1>3, <1>4, <2>5
    <3> HIDE DEF S
    <3>2. \A y \in All(H, W, C, S) : y < x
      BY <1>5, <2>2 DEF Said
    <3>3. LineOK(H, W, C, Append(S, x)) /\ All(H, W, C, Append(S, x)) = All(H, W, C, S) \cup {x}
      BY <1>5, <2>2, <3>1, <3>2, LineSpoken
    <3>4. x \notin unheard[n]
      BY <1>5, <2>4
    <3>5. All(H, W, C, Append(S, x)) = Elems(spoken'[d]) \ unheard'[n]
      BY <1>8, <2>2, <2>4, <2>5, <3>3, <3>4
    <3> QED
      BY <2>3, <3>1, <3>3, <3>5 DEF Line, Reaches, S
  <2>6. CASE d # ch
    <3>1. S' = S /\ Elems(spoken'[d]) = Elems(spoken[d])
      BY <1>3, <1>4, <1>8, <2>6
    <3> QED
      BY <2>2, <2>3, <2>4, <3>1 DEF Line, Reaches
  <2> QED
    BY <2>5, <2>6
<1> QED
  BY <1>7, <1>10, <1>11 DEF MessageInv, Reached

\* A dispatch to those that are registered, and to no others.
LEMMA DispatchReached ==
  ASSUME MessageInv, NEW ch \in Channel, Chats!dispatch(ch)
  PROVE  MessageInv'
<1> DEFINE S == chat_cache[ch]
           B == Chats!Buffers(S)
           told == listeners \cap live
<1>1. /\ calls' = [n \in Node |-> IF n \in told THEN calls[n] \o Sent(B, ch) ELSE calls[n]]
      /\ unheard' = [n \in Node |-> IF n \in told THEN unheard[n] ELSE unheard[n] \cup Elems(S)]
      /\ chat_cache' = [chat_cache EXCEPT ![ch] = << >>]
      /\ UNCHANGED << world_cache, spoken, handled >>
  <2>1. /\ calls' = [n \in Node |-> IF n \in told
                       THEN calls[n] \o [i \in DOMAIN B |-> [channel |-> ch, buffer |-> B[i]]]
                       ELSE calls[n]]
        /\ unheard' = [n \in Node |-> IF n \in told THEN unheard[n]
                                      ELSE unheard[n] \cup Chats!ToSet(S)]
    BY DEF Chats!dispatch
  <2>2. Chats!ToSet(S) = Elems(S)
    BY ToSetElems
  <2>3. Sent(B, ch) = [i \in DOMAIN B |-> [channel |-> ch, buffer |-> B[i]]]
    BY DEF Sent
  <2>4. /\ chat_cache' = [chat_cache EXCEPT ![ch] = << >>]
        /\ UNCHANGED << world_cache, spoken, handled >>
    BY DEF Chats!dispatch, Chats!listener
  <2> HIDE DEF B, S, told
  <2> QED
    BY <2>1, <2>2, <2>3, <2>4
<1>2. /\ chat_cache \in [Channel -> Numbers] /\ S \in Numbers /\ Elems(S) \subseteq Nat
      /\ calls \in [Node -> Seq(Messages)] /\ << >> \in Numbers
      /\ \A n \in Node : calls[n] \in Seq(Messages) /\ unheard[n] \subseteq Nat
  BY MessageTyped, ElemsNat, EmptyLine DEF MessageInv, MessageTypes
<1>3. \A n \in Node : Grows(S)
  BY DEF MessageInv, Reached, Line, LineOK
<1>4. \A n \in Node : Cut(B, S) /\ B \in Seq(Numbers)
  <2>1. \A n \in Node : Cut(B, S)
    BY <1>2, <1>3, BuffersCut
  <2> HIDE DEF B, S
  <2> QED
    BY <2>1 DEF Cut
<1> HIDE DEF B, told
<1>5. MessageTypes'
  <2>1. \A n \in Node : calls[n] \o Sent(B, ch) \in Seq(Messages)
    BY <1>2, <1>4, OfChannelSent
  <2>2. calls' \in [Node -> Seq(Messages)]
    BY <1>1, <1>2, <2>1
  <2>3. chat_cache' \in [Channel -> Numbers]
    BY <1>1, <1>2
  <2>4. unheard' \in [Node -> SUBSET Nat]
    BY <1>1, <1>2
  <2> QED
    BY <1>1, <2>2, <2>3, <2>4 DEF MessageInv, MessageTypes
<1>6. Numbered'
  <2>1. \A n \in Node : Elems(S) \subseteq Said
    BY ReachesSaid
  <2>2. \A n \in Node : unheard'[n] \subseteq Said
    BY <1>1, <2>1 DEF MessageInv, Numbered
  <2> QED
    BY <1>1, <2>2, NumberedKept DEF MessageInv
<1>7. ASSUME NEW n \in Node, NEW d \in Channel
      PROVE  Line(n, d)' /\ Reaches(n, d)' = Elems(spoken'[d]) \ unheard'[n]
  <2> DEFINE H == handled[n][d]
             W == Kept(n, d)
             C == OfChannel(calls[n], d)
             T == chat_cache[d]
  <2>1. LineOK(H, W, C, T) /\ All(H, W, C, T) = Elems(spoken[d]) \ unheard[n]
    BY DEF MessageInv, Reached, Line, Reaches
  <2>2. handled'[n][d] = H /\ Kept(n, d)' = W /\ spoken'[d] = spoken[d]
    BY <1>1 DEF Kept
  <2>3. C \in Seq(Numbers)
    BY <1>2, OfChannelSeq
  <2>4. All(H, W, C, T) \subseteq Nat /\ Elems(S) \subseteq Elems(spoken[ch])
    <3>1. All(H, W, C, T) \subseteq Nat
      BY ReachesSaid DEF Reaches
    <3> QED
      BY <3>1, ReachesSaid
  <2>5. T' = IF d = ch THEN << >> ELSE T
    BY <1>1, <1>2
  <2>6. d = ch => T = S
    OBVIOUS
  <2>7. d # ch => Elems(S) \cap Elems(spoken[d]) = {}
    BY <2>4 DEF MessageInv, Numbered
  <2>10. Cut(B, S) /\ B \in Seq(Numbers)
    BY <1>4
  <2> HIDE DEF H, W, S, T
  <2>8. CASE n \in told
    <3>1. unheard'[n] = unheard[n] /\ calls'[n] = calls[n] \o Sent(B, ch)
      BY <1>1, <2>8
    <3>2. /\ OfChannel(calls[n] \o Sent(B, ch), d) = C \o (IF d = ch THEN B ELSE Blank(B))
          /\ Blank(B) \in Seq({<< >>})
      BY <1>2, <2>10, OfChannelSent
    <3> HIDE DEF C
    <3>3. CASE d = ch
      <4>1. Cut(B, T)
        BY <2>6, <2>10, <3>3
      <4>2. C \in Seq(Numbers) /\ B \in Seq(Numbers) /\ LineOK(H, W, C, T)
        BY <2>1, <2>3, <2>10
      <4>3. LineOK(H, W, C \o B, << >>) /\ All(H, W, C \o B, << >>) = All(H, W, C, T)
        BY <4>1, <4>2, LineSent
      <4> QED
        BY <2>1, <2>2, <2>5, <3>1, <3>2, <3>3, <4>3 DEF Line, Reaches, T
    <3>4. CASE d # ch
      <4>1. LineOK(H, W, C \o Blank(B), T) /\ All(H, W, C \o Blank(B), T) = All(H, W, C, T)
        BY <2>1, <2>3, <3>2, LinePadded
      <4> QED
        BY <2>1, <2>2, <2>5, <3>1, <3>2, <3>4, <4>1 DEF Line, Reaches, T
    <3> QED
      BY <3>3, <3>4
  <2>9. CASE n \notin told
    <3>1. unheard'[n] = unheard[n] \cup Elems(S) /\ calls'[n] = calls[n]
      BY <1>1, <2>9
    <3>2. OfChannel(calls[n], d)' = C
      BY <3>1
    <3> HIDE DEF C
    <3>3. CASE d = ch
      <4>1. LineOK(H, W, C, << >>) /\ All(H, W, C, << >>) = All(H, W, C, T) \ Elems(T)
        BY <2>1, <2>4, LineLost
      <4>2. All(H, W, C, << >>) = Elems(spoken[d]) \ (unheard[n] \cup Elems(S))
        BY <2>1, <2>6, <3>3, <4>1
      <4> QED
        BY <2>2, <2>5, <3>1, <3>2, <3>3, <4>1, <4>2 DEF Line, Reaches, T
    <3>4. CASE d # ch
      <4>1. Elems(spoken[d]) \ unheard[n] = Elems(spoken[d]) \ (unheard[n] \cup Elems(S))
        BY <2>7, <3>4
      <4> QED
        BY <2>1, <2>2, <2>5, <3>1, <3>2, <3>4, <4>1 DEF Line, Reaches, T
    <3> QED
      BY <3>3, <3>4
  <2> QED
    BY <2>8, <2>9
<1> QED
  BY <1>5, <1>6, <1>7 DEF MessageInv, Reached

\* A call arrives: its messages are kept, or sent on at once.
LEMMA DispatchedReached ==
  ASSUME MessageInv, NEW n \in Node, Chats!Dispatched(n)
  PROVE  MessageInv'
<1> DEFINE q == calls[n]
           c == Head(q)
<1>1. /\ q # << >>
      /\ calls' = [calls EXCEPT ![n] = Tail(@)]
      /\ IF c.channel = World
         THEN /\ world_cache' = [world_cache EXCEPT ![n] = @ \o c.buffer] /\ handled' = handled
         ELSE /\ handled' = [handled EXCEPT ![n][c.channel] = @ \o c.buffer]
              /\ world_cache' = world_cache
      /\ UNCHANGED << chat_cache, spoken, unheard >>
  BY DEF Chats!Dispatched
<1>2. /\ calls \in [Node -> Seq(Messages)] /\ q \in Seq(Messages)
      /\ world_cache \in [Node -> Numbers] /\ world_cache[n] \in Numbers
      /\ handled \in [Node -> [Channel -> Numbers]] /\ handled[n] \in [Channel -> Numbers]
  BY DEF MessageInv, MessageTypes
<1>3. c \in Messages /\ Tail(q) \in Seq(Messages)
  BY <1>1, <1>2
<1>4. c.channel \in Channel /\ c.buffer \in Numbers
  BY <1>3 DEF Messages
<1>5. \A d \in Channel : handled[n][d] \o c.buffer \in Numbers
  <2>1. \A d \in Channel : handled[n][d] \in Numbers
    BY <1>2
  <2> QED
    BY <1>4, <2>1, Joined
<1>6. world_cache[n] \o c.buffer \in Numbers
  BY <1>2, <1>4, Joined
<1> HIDE DEF c, q
<1>7. MessageTypes'
  <2>1. calls' \in [Node -> Seq(Messages)]
    BY <1>1, <1>2, <1>3 DEF q
  <2>2. CASE c.channel = World
    BY <1>1, <1>2, <1>6, <2>1, <2>2 DEF MessageInv, MessageTypes
  <2>3. CASE c.channel # World
    <3>1. handled' = [handled EXCEPT ![n] = [handled[n] EXCEPT ![c.channel] = @ \o c.buffer]]
      BY <1>1, <1>2, <2>3
    <3>2. [handled[n] EXCEPT ![c.channel] = @ \o c.buffer] \in [Channel -> Numbers]
      BY <1>2, <1>4, <1>5
    <3>3. handled' \in [Node -> [Channel -> Numbers]]
      BY <1>2, <3>1, <3>2
    <3> QED
      BY <1>1, <2>1, <2>3, <3>3 DEF MessageInv, MessageTypes
  <2> QED
    BY <2>2, <2>3
<1>8. Numbered'
  <2>1. \A m \in Node : unheard'[m] \subseteq Said
    BY <1>1 DEF MessageInv, Numbered
  <2> QED
    BY <1>1, <2>1, NumberedKept DEF MessageInv
<1>9. ASSUME NEW m \in Node, NEW d \in Channel
      PROVE  Line(m, d)' /\ Reaches(m, d)' = Elems(spoken'[d]) \ unheard'[m]
  <2> DEFINE H == handled[m][d]
             W == Kept(m, d)
             C == OfChannel(calls[m], d)
             S == chat_cache[d]
  <2>1. LineOK(H, W, C, S) /\ All(H, W, C, S) = Elems(spoken[d]) \ unheard[m]
    BY DEF MessageInv, Reached, Line, Reaches
  <2>2. H \in Numbers /\ W \in Numbers
    BY MessageTyped DEF MessageInv
  <2>3. CASE m # n
    <3>1. handled'[m][d] = H
      BY <1>1, <1>2, <2>3
    <3>2. world_cache'[m] = world_cache[m] /\ calls'[m] = calls[m]
      BY <1>1, <1>2, <2>3
    <3>3. Kept(m, d)' = W /\ OfChannel(calls[m], d)' = C
      BY <3>2 DEF Kept
    <3> QED
      BY <1>1, <2>1, <3>1, <3>3 DEF Line, Reaches
  <2>4. CASE m = n
    <3> DEFINE h == IF c.channel = d THEN c.buffer ELSE << >>
    <3>1. /\ C \in Seq(Numbers) /\ C # << >>
          /\ OfChannel(Tail(q), d) = Tail(C) /\ Head(C) = h
      BY <1>1, <1>2, <2>4, OfChannelSeq, OfChannelTail DEF q, c
    <3>2. calls'[m] = Tail(q)
      BY <1>1, <1>2, <2>4 DEF q
    <3>3. OfChannel(calls[m], d)' = Tail(C)
      BY <3>1, <3>2
    <3> HIDE DEF C
    <3>4. LineOK(H, W \o h, Tail(C), S) /\ All(H, W \o h, Tail(C), S) = All(H, W, C, S)
      BY <2>1, <2>2, <3>1, LineKept
    <3>5. h \in Numbers /\ W \o h \in Numbers
      BY <1>4, <2>2, EmptyLine, Joined
    <3>6. CASE c.channel = World \/ c.channel # d
      <4>1. handled'[m][d] = H
        BY <1>1, <1>2, <2>4, <3>6
      <4>2. Kept(m, d)' = W \o h
        <5>1. CASE d = World /\ c.channel = World
          BY <1>1, <1>2, <2>4, <5>1 DEF Kept
        <5>2. CASE d = World /\ c.channel # World
          <6>1. Kept(m, d)' = W
            BY <1>1, <5>2 DEF Kept
          <6>2. h = << >> /\ W \o << >> = W
            BY <2>2, <5>2 DEF Numbers
          <6> QED
            BY <6>1, <6>2
        <5>3. CASE d # World
          <6>1. Kept(m, d)' = << >> /\ W = << >> /\ h = << >>
            BY <3>6, <5>3 DEF Kept
          <6>2. << >> \o << >> = << >>
            OBVIOUS
          <6> QED
            BY <6>1, <6>2
        <5> QED
          BY <5>1, <5>2, <5>3
      <4> HIDE DEF H, W, h
      <4> QED
        BY <1>1, <2>1, <3>3, <3>4, <4>1, <4>2 DEF Line, Reaches
    <3>7. CASE c.channel # World /\ c.channel = d
      <4>1. handled'[m][d] = H \o h
        BY <1>1, <1>2, <2>4, <3>7
      <4>2. Kept(m, d)' = << >> /\ W = << >>
        BY <3>7 DEF Kept
      <4>3. W \o h = h
        BY <3>5, <4>2 DEF Numbers
      <4> HIDE DEF H, W, h
      <4>4. LineOK(H, h, Tail(C), S) /\ All(H, h, Tail(C), S) = All(H, W, C, S)
        BY <3>4, <4>3
      <4>5. /\ LineOK(H \o h, << >>, Tail(C), S)
            /\ All(H \o h, << >>, Tail(C), S) = All(H, h, Tail(C), S)
        BY <2>2, <3>5, <4>4, LineHandled
      <4> QED
        BY <1>1, <2>1, <3>3, <4>1, <4>2, <4>4, <4>5 DEF Line, Reaches
    <3> QED
      BY <3>6, <3>7
  <2> QED
    BY <2>3, <2>4
<1> QED
  BY <1>7, <1>8, <1>9 DEF MessageInv, Reached

\* The broadcast.
LEMMA BroadcastReached ==
  ASSUME MessageInv, NEW n \in Node, Chats!update_world_chat(n)
  PROVE  MessageInv'
<1>1. /\ handled' = [handled EXCEPT ![n][World] = @ \o world_cache[n]]
      /\ world_cache' = [world_cache EXCEPT ![n] = << >>]
      /\ UNCHANGED << chat_cache, calls, spoken, unheard >>
  BY DEF Chats!update_world_chat, Chats!speaker
<1>2. /\ world_cache \in [Node -> Numbers] /\ world_cache[n] \in Numbers
      /\ handled \in [Node -> [Channel -> Numbers]] /\ handled[n] \in [Channel -> Numbers]
      /\ << >> \in Numbers /\ World \in Channel
  BY EmptyLine, ServicesAssumption DEF MessageInv, MessageTypes, Chats!Constants
<1>3. handled[n][World] \in Numbers /\ handled[n][World] \o world_cache[n] \in Numbers
  BY <1>2, Joined
<1>4. MessageTypes'
  <2>1. handled' = [handled EXCEPT ![n] = [handled[n] EXCEPT ![World] = @ \o world_cache[n]]]
    BY <1>1, <1>2
  <2>2. [handled[n] EXCEPT ![World] = @ \o world_cache[n]] \in [Channel -> Numbers]
    BY <1>2, <1>3
  <2>3. handled' \in [Node -> [Channel -> Numbers]] /\ world_cache' \in [Node -> Numbers]
    BY <1>1, <1>2, <2>1, <2>2
  <2> QED
    BY <1>1, <2>3 DEF MessageInv, MessageTypes
<1>5. Numbered'
  <2>1. \A m \in Node : unheard'[m] \subseteq Said
    BY <1>1 DEF MessageInv, Numbered
  <2> QED
    BY <1>1, <2>1, NumberedKept DEF MessageInv
<1>6. ASSUME NEW m \in Node, NEW d \in Channel
      PROVE  Line(m, d)' /\ Reaches(m, d)' = Elems(spoken'[d]) \ unheard'[m]
  <2> DEFINE H == handled[m][d]
             W == Kept(m, d)
             C == OfChannel(calls[m], d)
             S == chat_cache[d]
  <2>1. LineOK(H, W, C, S) /\ All(H, W, C, S) = Elems(spoken[d]) \ unheard[m]
    BY DEF MessageInv, Reached, Line, Reaches
  <2>2. H \in Numbers /\ W \in Numbers
    BY MessageTyped DEF MessageInv
  <2>3. C' = C /\ S' = S
    BY <1>1
  <2>4. CASE m = n /\ d = World
    <3>1. handled'[m][d] = H \o W
      BY <1>1, <1>2, <2>4 DEF Kept
    <3>2. Kept(m, d)' = << >>
      BY <1>1, <1>2, <2>4 DEF Kept
    <3> HIDE DEF H, W, C, S
    <3>3. LineOK(H \o W, << >>, C, S) /\ All(H \o W, << >>, C, S) = All(H, W, C, S)
      BY <2>1, <2>2, LineHandled
    <3> QED
      BY <1>1, <2>1, <2>3, <3>1, <3>2, <3>3 DEF Line, Reaches, C, S
  <2>5. CASE m # n \/ d # World
    <3>1. handled'[m][d] = H
      BY <1>1, <1>2, <2>5
    <3>2. Kept(m, d)' = W
      BY <1>1, <1>2, <2>5 DEF Kept
    <3> QED
      BY <1>1, <2>1, <2>3, <3>1, <3>2 DEF Line, Reaches
  <2> QED
    BY <2>4, <2>5
<1> QED
  BY <1>4, <1>5, <1>6 DEF MessageInv, Reached

\* A node crashes with what it kept and what was on its way to it.
LEMMA CrashReached ==
  ASSUME MessageInv, NEW n \in Node, Chats!Crash(n)
  PROVE  MessageInv'
<1> DEFINE q == calls[n]
           lost == Elems(world_cache[n]) \cup UNION {Elems(c.buffer) : c \in Elems(q)}
<1>1. /\ calls' = [calls EXCEPT ![n] = << >>]
      /\ world_cache' = [world_cache EXCEPT ![n] = << >>]
      /\ unheard' = [unheard EXCEPT ![n] = @ \cup lost]
      /\ UNCHANGED << chat_cache, spoken, handled >>
  <2>1. unheard' = [unheard EXCEPT ![n] = @ \cup Chats!ToSet(world_cache[n])
                       \cup UNION {Chats!ToSet(c.buffer) : c \in Chats!ToSet(q)}]
    BY DEF Chats!Crash
  <2>2. unheard' = [unheard EXCEPT ![n] = @ \cup Elems(world_cache[n])
                       \cup UNION {Elems(c.buffer) : c \in Elems(q)}]
    BY <2>1 DEF Chats!ToSet, Elems
  <2>3. \A x : x \cup lost = x \cup Elems(world_cache[n]) \cup UNION {Elems(c.buffer) : c \in Elems(q)}
    OBVIOUS
  <2> HIDE DEF lost
  <2>4. unheard' = [unheard EXCEPT ![n] = @ \cup lost]
    BY <2>2, <2>3
  <2> QED
    BY <2>4 DEF Chats!Crash
<1>2. /\ calls \in [Node -> Seq(Messages)] /\ q \in Seq(Messages)
      /\ world_cache \in [Node -> Numbers] /\ world_cache[n] \in Numbers
      /\ unheard \in [Node -> SUBSET Nat]
      /\ << >> \in Numbers /\ << >> \in Seq(Messages)
  BY EmptyLine DEF MessageInv, MessageTypes
<1>3. \A i \in DOMAIN q : q[i].channel \in Channel /\ q[i].buffer \in Numbers
  <2>1. \A i \in DOMAIN q : q[i] \in Messages
    BY <1>2
  <2> QED
    BY <2>1 DEF Messages
<1>4. \A i \in DOMAIN q : \A ch : Elems(OfChannel(q, ch)[i]) =
                                IF q[i].channel = ch THEN Elems(q[i].buffer) ELSE {}
  BY EmptyLine DEF OfChannel
<1>5. \A ch : InCalls(OfChannel(q, ch)) = UNION {Elems(OfChannel(q, ch)[i]) : i \in DOMAIN q}
  BY DEF InCalls, OfChannel
<1>6. ASSUME NEW ch \in Channel
      PROVE  /\ Elems(Kept(n, ch)) \cup InCalls(OfChannel(q, ch)) \subseteq lost \cap Elems(spoken[ch])
             /\ Elems(spoken[ch]) \subseteq Said
  <2>1. Elems(Kept(n, ch)) \subseteq lost
    BY EmptyLine DEF Kept
  <2>2. InCalls(OfChannel(q, ch)) \subseteq lost
    <3>1. ASSUME NEW i \in DOMAIN q, NEW x \in Elems(OfChannel(q, ch)[i])
          PROVE  x \in lost
      <4>1. x \in Elems(q[i].buffer)
        BY <1>4
      <4>2. q[i] \in Elems(q)
        BY DEF Elems
      <4> QED
        BY <4>1, <4>2
    <3> HIDE DEF lost, q
    <3> QED
      BY <1>5, <3>1
  <2> HIDE DEF lost, q
  <2> QED
    BY <2>1, <2>2, ReachesSaid DEF q
<1>7. ASSUME NEW x \in lost
      PROVE  \E ch \in Channel : x \in Elems(Kept(n, ch)) \cup InCalls(OfChannel(q, ch))
  <2>1. CASE x \in Elems(world_cache[n])
    <3>1. World \in Channel /\ Kept(n, World) = world_cache[n]
      BY ServicesAssumption DEF Kept, Chats!Constants
    <3> QED
      BY <2>1, <3>1
  <2>2. CASE x \in UNION {Elems(c.buffer) : c \in Elems(q)}
    <3>1. PICK i \in DOMAIN q : x \in Elems(q[i].buffer)
      BY <2>2 DEF Elems
    <3>2. q[i].channel \in Channel /\ x \in Elems(OfChannel(q, q[i].channel)[i])
      BY <1>3, <1>4, <3>1
    <3>3. x \in InCalls(OfChannel(q, q[i].channel))
      BY <1>5, <3>1, <3>2
    <3> QED
      BY <3>2, <3>3
  <2> QED
    BY <2>1, <2>2
<1>8. ASSUME NEW ch \in Channel
      PROVE  lost \cap Elems(spoken[ch]) = Elems(Kept(n, ch)) \cup InCalls(OfChannel(q, ch))
  <2>1. ASSUME NEW x \in lost, x \in Elems(spoken[ch])
        PROVE  x \in Elems(Kept(n, ch)) \cup InCalls(OfChannel(q, ch))
    <3> HIDE DEF lost, q
    <3>1. PICK d \in Channel : x \in Elems(Kept(n, d)) \cup InCalls(OfChannel(q, d))
      BY <1>7
    <3>2. x \in Elems(spoken[d])
      BY <1>6, <3>1
    <3>3. d = ch
      BY <2>1, <3>2 DEF MessageInv, Numbered
    <3> QED
      BY <3>1, <3>3
  <2> HIDE DEF lost, q
  <2> QED
    BY <1>6, <2>1
<1>9. lost \subseteq Said /\ lost \subseteq Nat
  <2> HIDE DEF lost, q
  <2>1. lost \subseteq Said
    BY <1>6, <1>7
  <2>2. Said \subseteq Nat
    BY MessageTyped, ElemsNat DEF Said, MessageInv
  <2> QED
    BY <2>1, <2>2
<1> HIDE DEF lost
<1>10. MessageTypes'
  <2>1. unheard' \in [Node -> SUBSET Nat]
    <3>1. unheard[n] \cup lost \in SUBSET Nat
      BY <1>2, <1>9
    <3> QED
      BY <1>1, <1>2, <3>1
  <2>2. calls' \in [Node -> Seq(Messages)] /\ world_cache' \in [Node -> Numbers]
    BY <1>1, <1>2
  <2> QED
    BY <1>1, <2>1, <2>2 DEF MessageInv, MessageTypes
<1>11. Numbered'
  <2>1. \A m \in Node : unheard'[m] \subseteq Said
    BY <1>1, <1>2, <1>9 DEF MessageInv, Numbered
  <2> QED
    BY <1>1, <2>1, NumberedKept DEF MessageInv
<1>12. ASSUME NEW m \in Node, NEW d \in Channel
       PROVE  Line(m, d)' /\ Reaches(m, d)' = Elems(spoken'[d]) \ unheard'[m]
  <2> DEFINE H == handled[m][d]
             W == Kept(m, d)
             C == OfChannel(calls[m], d)
             S == chat_cache[d]
  <2>1. LineOK(H, W, C, S) /\ All(H, W, C, S) = Elems(spoken[d]) \ unheard[m]
    BY DEF MessageInv, Reached, Line, Reaches
  <2>2. All(H, W, C, S) \subseteq Nat
    BY ReachesSaid DEF Reaches
  <2>3. H' = H /\ S' = S /\ spoken'[d] = spoken[d]
    BY <1>1
  <2>4. CASE m = n
    <3>1. calls'[m] = << >> /\ world_cache'[m] = << >> /\ unheard'[m] = unheard[m] \cup lost
      BY <1>1, <1>2, <2>4
    <3>2. Kept(m, d)' = << >> /\ OfChannel(calls[m], d)' = << >>
      BY <3>1, OfChannelEmpty DEF Kept
    <3>3. lost \cap Elems(spoken[d]) = Elems(W) \cup InCalls(C)
      BY <1>8, <2>4
    <3> HIDE DEF H, W, C, S
    <3>4. LineOK(H, << >>, << >>, S) /\ All(H, << >>, << >>, S) = All(H, W, C, S) \ (Elems(W) \cup InCalls(C))
      BY <2>1, <2>2, LineCrashed
    <3>5. All(H, << >>, << >>, S) = Elems(spoken[d]) \ (unheard[m] \cup lost)
      BY <2>1, <3>3, <3>4
    <3> QED
      BY <2>3, <3>1, <3>2, <3>4, <3>5 DEF Line, Reaches, H, S
  <2>5. CASE m # n
    <3>1. calls'[m] = calls[m] /\ world_cache'[m] = world_cache[m] /\ unheard'[m] = unheard[m]
      BY <1>1, <1>2, <2>5
    <3>2. Kept(m, d)' = W /\ OfChannel(calls[m], d)' = C
      BY <3>1 DEF Kept
    <3> QED
      BY <2>1, <2>3, <3>1, <3>2 DEF Line, Reaches
  <2> QED
    BY <2>4, <2>5
<1> QED
  BY <1>10, <1>11, <1>12 DEF MessageInv, Reached

\* The speaker crashes with what it has not sent.
LEMMA SpeakerCrashReached ==
  ASSUME MessageInv, Chats!SpeakerCrash
  PROVE  MessageInv'
<1> DEFINE lost == UNION {Elems(chat_cache[ch]) : ch \in Channel}
<1>1. /\ chat_cache' = [ch \in Channel |-> << >>]
      /\ unheard' = [n \in Node |-> unheard[n] \cup lost]
      /\ UNCHANGED << calls, world_cache, spoken, handled >>
  BY ToSetElems DEF Chats!SpeakerCrash, Chats!NoMessages, Chats!listener
<1>2. << >> \in Numbers /\ unheard \in [Node -> SUBSET Nat]
  BY EmptyLine DEF MessageInv, MessageTypes
<1>3. lost \subseteq Nat
  BY MessageTyped, ElemsNat DEF MessageInv
<1>4. ASSUME NEW n \in Node PROVE lost \subseteq Said
  BY ReachesSaid
<1>5. ASSUME NEW n \in Node, NEW ch \in Channel
      PROVE  lost \cap Elems(spoken[ch]) = Elems(chat_cache[ch])
  <2>1. \A d \in Channel : Elems(chat_cache[d]) \subseteq Elems(spoken[d])
    BY ReachesSaid
  <2>2. \A d \in Channel : d # ch => Elems(spoken[d]) \cap Elems(spoken[ch]) = {}
    BY DEF MessageInv, Numbered
  <2> QED
    BY <2>1, <2>2
<1> HIDE DEF lost
<1>6. MessageTypes'
  BY <1>1, <1>2, <1>3 DEF MessageInv, MessageTypes
<1>7. Numbered'
  <2>1. \A n \in Node : unheard'[n] \subseteq Said
    BY <1>1, <1>4 DEF MessageInv, Numbered
  <2> QED
    BY <1>1, <2>1, NumberedKept DEF MessageInv
<1>8. ASSUME NEW n \in Node, NEW d \in Channel
      PROVE  Line(n, d)' /\ Reaches(n, d)' = Elems(spoken'[d]) \ unheard'[n]
  <2> DEFINE H == handled[n][d]
             W == Kept(n, d)
             C == OfChannel(calls[n], d)
             S == chat_cache[d]
  <2>1. LineOK(H, W, C, S) /\ All(H, W, C, S) = Elems(spoken[d]) \ unheard[n]
    BY DEF MessageInv, Reached, Line, Reaches
  <2>2. All(H, W, C, S) \subseteq Nat
    BY ReachesSaid DEF Reaches
  <2>3. /\ H' = H /\ Kept(n, d)' = W /\ OfChannel(calls[n], d)' = C /\ S' = << >>
        /\ spoken'[d] = spoken[d] /\ unheard'[n] = unheard[n] \cup lost
    BY <1>1 DEF Kept
  <2>4. lost \cap Elems(spoken[d]) = Elems(S)
    BY <1>5
  <2> HIDE DEF H, W, C, S
  <2>5. LineOK(H, W, C, << >>) /\ All(H, W, C, << >>) = All(H, W, C, S) \ Elems(S)
    BY <2>1, <2>2, LineLost
  <2>6. All(H, W, C, << >>) = Elems(spoken[d]) \ (unheard[n] \cup lost)
    BY <2>1, <2>4, <2>5
  <2> QED
    BY <2>3, <2>5, <2>6 DEF Line, Reaches, H, S
<1> QED
  BY <1>6, <1>7, <1>8 DEF MessageInv, Reached

LEMMA MessageStep == ASSUME MessageInv, Chats!Next PROVE MessageInv'
<1> USE DEF Chats!speaker, Chats!listener, Chats!agents, Chats!history
<1>1. CASE \E ch \in Channel : Chats!new_chat(ch) \/ Chats!dispatch(ch)
  BY <1>1, SpokenReached, DispatchReached
<1>2. CASE \E n \in Node : Chats!Dispatched(n) \/ Chats!update_world_chat(n) \/ Chats!Crash(n)
  BY <1>2, DispatchedReached, BroadcastReached, CrashReached
<1>3. CASE \E n \in Node : Chats!register_listener(n)
  BY <1>3, MessagesFramed DEF Chats!register_listener
<1>4. CASE \E n \in Node : Chats!Subscribed(n)
  BY <1>4, MessagesFramed DEF Chats!Subscribed
<1>5. CASE \E n \in Node : Chats!Restart(n)
  BY <1>5, MessagesFramed DEF Chats!Restart
<1>6. CASE \E u \in Uuid : Chats!Start(u) \/ Chats!Kick(u) \/ Chats!IdleLogout(u)
  BY <1>6, MessagesFramed DEF Chats!Start, Chats!Kick, Chats!IdleLogout
<1>7. CASE \E u \in Uuid, a \in Agent : Chats!Login(u, a)
  BY <1>7, MessagesFramed DEF Chats!Login
<1>8. CASE \E a \in Agent : Chats!LoadRole(a) \/ Chats!LoadGot(a) \/ Chats!Online(a)
  BY <1>8, MessagesFramed DEF Chats!LoadRole, Chats!LoadGot, Chats!Online
<1>9. CASE \E a \in Agent : Chats!Offline(a) \/ Chats!Quit(a) \/ Chats!Saved(a)
  BY <1>9, MessagesFramed DEF Chats!Offline, Chats!Quit, Chats!Saved
<1>10. CASE Chats!SpeakerCrash
  BY <1>10, SpeakerCrashReached
<1> QED
  BY <1>1, <1>2, <1>3, <1>4, <1>5, <1>6, <1>7, <1>8, <1>9, <1>10 DEF Chats!Next

-----------------------------------------------------------------------------
(* Subscriptions.                                                          *)

ChatBudget == [chat : Nat, login : Nat, crash : Nat,
               world : SUBSET {"reuse", "reconnect", "idle", "early", "center"}]
Player == [agent : Agent, zinc_client : Nat]
Notices == [t : {"subscribe", "unsubscribe"}, uuid : Uuid, player : Player]
Served == [Uuid -> Player \cup {None}]

Gate == [st : {"out"}, agent : Agent \cup {None}] \cup [st : {"in", "kicking"}, agent : Agent]

AgentState ==
  [used : BOOLEAN, uid : Uuid \cup {None}, client : BOOLEAN, conn : Nat,
   role : Uuid \cup {None}, load : {"none", "get", "online"}, for : Uuid \cup {None},
   closed : BOOLEAN, close : {"none", "offline", "quit", "save", "done"}]

\* What an agent waits for is about a role, or about an account to have one.
Ready(r) ==
  /\ r.load # "none" => r.for # None
  /\ r.load = "online" \/ r.close \in {"offline", "quit"} => r.role # None

PlayerTypes ==
  /\ budget \in ChatBudget
  /\ gate \in [Uuid -> Gate]
  /\ ag \in [Agent -> AgentState] /\ \A a \in Agent : Ready(ag[a])
  /\ players \in [Node -> Served]
  /\ inbox \in [Node -> Seq(Notices)]

\* The agent that has the session of u, or still closes it.
ServedBy(u, a) == gate[u].st # "out" /\ gate[u].agent = a

\* An agent with the session of u, one that is kicked, and one of no session.
InOK(r, u) ==
  /\ ~r.closed /\ r.close = "none"
  /\ r.uid \in {None, u} /\ r.role \in {None, u}
  /\ r.load # "none" => r.for = u
  /\ r.load = "get" => r.role = None
  /\ r.client \/ (r.role = None /\ r.load = "none" /\ r.uid = None)

KickOK(r, u) ==
  ~r.client /\ r.load = "none" /\ r.role = u /\ r.close \in {"offline", "quit", "save"}

FreeOK(r) == ~r.client /\ r.load = "none" /\ r.close \in {"none", "done"}

AgentOK(a) ==
  /\ ~ag[a].used => ag[a] = Chats!FreshAgent
  /\ \A u \in Uuid : ServedBy(u, a) =>
       /\ ag[a].used
       /\ gate[u].st = "in" => InOK(ag[a], u)
       /\ gate[u].st = "kicking" => KickOK(ag[a], u)
  /\ (\A u \in Uuid : ~ServedBy(u, a)) => FreeOK(ag[a])

\* In a world without complications an agent serves one user.
AgentsServe ==
  /\ \A u, v \in Uuid, a \in Agent : ServedBy(u, a) /\ ServedBy(v, a) => u = v
  /\ \A a \in Agent : AgentOK(a)

\* What a message makes of the entry that it is about.
Entry(m) == IF m.t = "subscribe" THEN m.player ELSE None

\* When p has taken in q, the entry of u is x.
Settles(p, q, u, x) ==
  /\ (\A i \in DOMAIN q : q[i].uuid # u) => p[u] = x
  /\ \A i \in DOMAIN q :
       (q[i].uuid = u /\ \A j \in DOMAIN q : i < j => q[j].uuid # u) => Entry(q[i]) = x

\* The player of u, if n was told of it and not yet of its end.
Told(r, u) == r.role = u /\ r.load = "none" /\ r.close \in {"none", "offline", "quit"}

Here(n, u) ==
  LET a == gate[u].agent IN
    IF gate[u].st # "out" /\ Home[a] = n /\ Told(ag[a], u)
      THEN [agent |-> a, zinc_client |-> ag[a].conn] ELSE None

Settled == \A n \in Node, u \in Uuid : Settles(players[n], inbox[n], u, Here(n, u))

PlayerInv == PlayerTypes /\ (budget.world = {} => AgentsServe /\ Settled)

LEMMA SettlesEmpty == \A p, u, x : Settles(p, << >>, u, x) <=> p[u] = x
<1>1. DOMAIN << >> = {}
  OBVIOUS
<1> QED
  BY <1>1 DEF Settles

LEMMA SettlesAppended ==
  ASSUME NEW p, NEW q \in Seq(Notices), NEW m \in Notices
  PROVE  /\ Append(q, m) \in Seq(Notices)
         /\ Settles(p, Append(q, m), m.uuid, Entry(m))
         /\ \A u, a : u # m.uuid /\ Settles(p, q, u, a) => Settles(p, Append(q, m), u, a)
<1> DEFINE r == Append(q, m)
           e == Len(q) + 1
<1>1. /\ r \in Seq(Notices) /\ Len(q) \in Nat /\ DOMAIN q = 1 .. Len(q)
      /\ DOMAIN r = 1 .. e /\ r[e] = m
      /\ \A i \in 1 .. Len(q) : r[i] = q[i]
  OBVIOUS
<1> HIDE DEF r
<1>2. /\ e \in DOMAIN r
      /\ \A i \in DOMAIN r : i \in Int /\ (i = e \/ (i \in DOMAIN q /\ r[i] = q[i] /\ i < e))
  BY <1>1
<1>3. DOMAIN q \subseteq DOMAIN r
  BY <1>1
<1> HIDE DEF e
<1>4. Settles(p, r, m.uuid, Entry(m))
  BY <1>1, <1>2 DEF Settles
<1>5. ASSUME NEW u, NEW a, u # m.uuid, Settles(p, q, u, a) PROVE Settles(p, r, u, a)
  <2>1. (\A i \in DOMAIN r : r[i].uuid # u) => p[u] = a
    <3>1. \A i \in DOMAIN q : r[i] = q[i] /\ i \in DOMAIN r
      BY <1>1, <1>3
    <3> QED
      BY <1>5, <3>1 DEF Settles
  <2>2. ASSUME NEW i \in DOMAIN r, r[i].uuid = u, \A j \in DOMAIN r : i < j => r[j].uuid # u
        PROVE  Entry(r[i]) = a
    <3>1. i \in DOMAIN q /\ r[i] = q[i]
      BY <1>1, <1>2, <1>5, <2>2
    <3>2. \A j \in DOMAIN q : i < j => q[j].uuid # u
      BY <1>1, <1>3, <2>2
    <3> QED
      BY <1>5, <2>2, <3>1, <3>2 DEF Settles
  <2> QED
    BY <2>1, <2>2 DEF Settles
<1> QED
  BY <1>1, <1>4, <1>5 DEF r

LEMMA SettlesHeard ==
  ASSUME NEW p \in Served, NEW q \in Seq(Notices), q # << >>, NEW u \in Uuid, NEW a,
         Settles(p, q, u, a)
  PROVE  Settles([p EXCEPT ![Head(q).uuid] = Entry(Head(q))], Tail(q), u, a)
<1> DEFINE m == Head(q)
           r == Tail(q)
           s == [p EXCEPT ![m.uuid] = Entry(m)]
<1>1. /\ Len(q) \in Nat \ {0} /\ DOMAIN q = 1 .. Len(q) /\ 1 \in DOMAIN q /\ m = q[1]
      /\ DOMAIN r = 1 .. Len(q) - 1
      /\ \A i \in 1 .. Len(q) - 1 : r[i] = q[i + 1]
  OBVIOUS
<1>2. s[u] = IF u = m.uuid THEN Entry(m) ELSE p[u]
  BY DEF Served
<1> HIDE DEF m, r, s
<1>3. \A i \in DOMAIN r : i \in Int /\ i + 1 \in DOMAIN q /\ 1 < i + 1 /\ r[i] = q[i + 1]
  BY <1>1
<1>4. ASSUME NEW j \in DOMAIN q, j # 1 PROVE j \in Int /\ j - 1 \in DOMAIN r /\ r[j - 1] = q[j]
  <2>1. j \in Int /\ j - 1 \in 1 .. Len(q) - 1 /\ (j - 1) + 1 = j
    BY <1>1, <1>4
  <2> QED
    BY <1>1, <2>1
<1>5. ASSUME \A i \in DOMAIN r : r[i].uuid # u PROVE s[u] = a
  <2>1. \A j \in DOMAIN q : j # 1 => q[j].uuid # u
    BY <1>4, <1>5
  <2>2. CASE u = m.uuid
    <3>1. \A j \in DOMAIN q : 1 < j => q[j].uuid # u
      BY <1>1, <2>1
    <3>2. q[1].uuid = u /\ 1 \in DOMAIN q
      BY <1>1, <2>2
    <3>3. Entry(q[1]) = a
      BY <3>1, <3>2 DEF Settles
    <3> QED
      BY <1>1, <1>2, <2>2, <3>3
  <2>3. CASE u # m.uuid
    <3>1. \A j \in DOMAIN q : q[j].uuid # u
      BY <1>1, <2>1, <2>3
    <3> QED
      BY <1>2, <2>3, <3>1 DEF Settles
  <2> QED
    BY <2>2, <2>3
<1>6. ASSUME NEW i \in DOMAIN r, r[i].uuid = u, \A j \in DOMAIN r : i < j => r[j].uuid # u
      PROVE  Entry(r[i]) = a
  <2>1. i + 1 \in DOMAIN q /\ q[i + 1] = r[i] /\ i \in Int /\ 1 < i + 1
    BY <1>3
  <2>2. ASSUME NEW j \in DOMAIN q, i + 1 < j PROVE q[j].uuid # u
    <3>1. j \in Int
      BY <1>1
    <3>2. j # 1
      BY <2>1, <2>2, <3>1
    <3>3. j - 1 \in DOMAIN r /\ r[j - 1] = q[j] /\ i < j - 1
      BY <1>4, <2>1, <2>2, <3>1, <3>2
    <3> QED
      BY <1>6, <3>3
  <2>3. q[i + 1].uuid = u /\ \A j \in DOMAIN q : i + 1 < j => q[j].uuid # u
    BY <1>6, <2>1, <2>2
  <2>4. Entry(q[i + 1]) = a
    BY <2>1, <2>3 DEF Settles
  <2> QED
    BY <2>1, <2>4
<1> QED
  BY <1>5, <1>6 DEF Settles, m, r, s

LEMMA PlayersInit == ASSUME Chats!Init PROVE PlayerInv
<1>1. << >> \in Seq(Notices) /\ Chats!Nobody \in Served
  BY DEF Chats!Nobody, Served
<1>2. budget \in ChatBudget
  BY ServicesAssumption DEF Chats!Init, Chats!Constants, ChatBudget
<1>3. Chats!FreshAgent \in AgentState /\ Ready(Chats!FreshAgent) /\ FreeOK(Chats!FreshAgent)
  BY DEF Chats!FreshAgent, AgentState, Ready, FreeOK
<1>4. gate \in [Uuid -> Gate] /\ \A u \in Uuid : gate[u].st = "out"
  BY DEF Chats!Init, Gate
<1>5. \A a \in Agent : ag[a] = Chats!FreshAgent
  BY DEF Chats!Init
<1>6. PlayerTypes
  BY <1>1, <1>2, <1>3, <1>4, <1>5 DEF Chats!Init, PlayerTypes
<1>7. AgentsServe
  BY <1>3, <1>4, <1>5 DEF AgentsServe, AgentOK, ServedBy
<1>8. ASSUME NEW n \in Node, NEW u \in Uuid
      PROVE  Settles(players[n], inbox[n], u, Here(n, u))
  <2>1. inbox[n] = << >> /\ players[n][u] = None /\ Here(n, u) = None
    BY <1>4 DEF Chats!Init, Chats!Nobody, Here
  <2> QED
    BY <2>1, SettlesEmpty
<1> QED
  BY <1>6, <1>7, <1>8 DEF PlayerInv, Settled

LEMMA PlayersFramed ==
  ASSUME PlayerInv, UNCHANGED << budget, gate, ag, players, inbox >>
  PROVE  PlayerInv'
<1>1. PlayerTypes'
  BY DEF PlayerInv, PlayerTypes
<1>2. \A n \in Node, u \in Uuid : Here(n, u)' = Here(n, u)
  BY DEF Here
<1>3. Settled => Settled'
  BY <1>2 DEF Settled
<1>4. AgentsServe => AgentsServe'
  BY DEF AgentsServe, AgentOK, ServedBy
<1> QED
  BY <1>1, <1>3, <1>4 DEF PlayerInv

\* A budget that is used stays of its kind.
LEMMA BudgetUsed ==
  ASSUME PlayerTypes,
         \/ budget' = budget
         \/ budget.login > 0 /\ budget' = [budget EXCEPT !.login = @ - 1]
         \/ budget.crash > 0 /\ budget' = [budget EXCEPT !.crash = @ - 1]
  PROVE  budget' \in ChatBudget /\ budget'.world = budget.world
<1>1. budget \in ChatBudget
  BY DEF PlayerTypes
<1>2. CASE budget.login > 0 /\ budget' = [budget EXCEPT !.login = @ - 1]
  BY <1>1, <1>2 DEF ChatBudget
<1>3. CASE budget.crash > 0 /\ budget' = [budget EXCEPT !.crash = @ - 1]
  BY <1>1, <1>3 DEF ChatBudget
<1> QED
  BY <1>1, <1>2, <1>3

\* One agent changes, or one session.
LEMMA AgentChanges ==
  ASSUME PlayerTypes, NEW a \in Agent, NEW s \in AgentState, Ready(s), ag' = [ag EXCEPT ![a] = s]
  PROVE  /\ ag' \in [Agent -> AgentState] /\ \A b \in Agent : Ready(ag'[b])
         /\ \A b \in Agent : ag'[b] = IF b = a THEN s ELSE ag[b]
<1>1. ag \in [Agent -> AgentState] /\ \A b \in Agent : Ready(ag[b])
  BY DEF PlayerTypes
<1>2. \A b \in Agent : ag'[b] = IF b = a THEN s ELSE ag[b]
  BY <1>1
<1>3. \A b \in Agent : Ready(ag'[b])
  BY <1>1, <1>2
<1> QED
  BY <1>1, <1>2, <1>3

LEMMA GateChanges ==
  ASSUME PlayerTypes, NEW u \in Uuid, NEW g \in Gate, gate' = [gate EXCEPT ![u] = g]
  PROVE  /\ gate' \in [Uuid -> Gate]
         /\ \A v \in Uuid : gate'[v] = IF v = u THEN g ELSE gate[v]
BY DEF PlayerTypes

\* A message joins those on their way.
LEMMA MessageSent ==
  ASSUME PlayerTypes, NEW h \in Node, NEW m \in Notices,
         inbox' = [inbox EXCEPT ![h] = Append(@, m)]
  PROVE  /\ inbox' \in [Node -> Seq(Notices)]
         /\ \A n \in Node : inbox'[n] = IF n = h THEN Append(inbox[n], m) ELSE inbox[n]
<1>1. inbox \in [Node -> Seq(Notices)] /\ inbox[h] \in Seq(Notices)
  BY DEF PlayerTypes
<1>2. Append(inbox[h], m) \in Seq(Notices)
  BY <1>1
<1> QED
  BY <1>1, <1>2

-----------------------------------------------------------------------------
(* An agent and its user take a step, when an agent serves one user.        *)

LEMMA OneServes ==
  ASSUME PlayerTypes, AgentsServe, NEW u \in Uuid, NEW a \in Agent,
         NEW s \in AgentState, NEW g \in Gate,
         \A b \in Agent : ag'[b] = IF b = a THEN s ELSE ag[b],
         \A v \in Uuid : gate'[v] = IF v = u THEN g ELSE gate[v],
         \A v \in Uuid : ServedBy(v, a) => v = u,
         ServedBy(u, a) \/ gate[u].st = "out",
         g.st # "out" => g.agent = a,
         s.used,
         g.st = "in" => InOK(s, u),
         g.st = "kicking" => KickOK(s, u),
         g.st = "out" => FreeOK(s)
  PROVE  /\ AgentsServe'
         /\ \A n \in Node, v \in Uuid : v # u => Here(n, v)' = Here(n, v)
<1>1. \A v \in Uuid, b \in Agent :
        ServedBy(v, b)' <=> IF v = u THEN g.st # "out" /\ b = a ELSE ServedBy(v, b)
  BY DEF ServedBy
<1>2. \A v, w \in Uuid, b \in Agent : ServedBy(v, b) /\ ServedBy(w, b) => v = w
  BY DEF AgentsServe
<1>3. \A v, w \in Uuid, b \in Agent : ServedBy(v, b)' /\ ServedBy(w, b)' => v = w
  BY <1>1, <1>2
<1>4. ASSUME NEW b \in Agent, b # a PROVE AgentOK(b)'
  <2>1. ag'[b] = ag[b] /\ AgentOK(b)
    BY <1>4 DEF AgentsServe
  <2>2. ~ServedBy(u, b) /\ ~ServedBy(u, b)'
    BY <1>1, <1>4 DEF ServedBy
  <2>3. \A v \in Uuid : ServedBy(v, b)' <=> ServedBy(v, b)
    BY <1>1, <2>2
  <2>4. \A v \in Uuid : ServedBy(v, b) => gate'[v] = gate[v]
    BY <2>2
  <2> QED
    BY <2>1, <2>3, <2>4 DEF AgentOK
<1>5. AgentOK(a)'
  <2>1. ag'[a] = s /\ gate'[u] = g
    OBVIOUS
  <2>2. \A v \in Uuid : ServedBy(v, a)' => v = u
    BY <1>1
  <2>3. (\A v \in Uuid : ~ServedBy(v, a)') => g.st = "out"
    BY <1>1
  <2> QED
    BY <2>1, <2>2, <2>3 DEF AgentOK
<1>6. ASSUME NEW n \in Node, NEW v \in Uuid, v # u PROVE Here(n, v)' = Here(n, v)
  <2>1. gate'[v] = gate[v]
    BY <1>6
  <2>2. CASE gate[v].st = "out"
    BY <2>1, <2>2 DEF Here
  <2>3. CASE gate[v].st # "out"
    <3>1. gate[v].agent \in Agent
      BY <2>3 DEF PlayerTypes, Gate
    <3>2. gate[v].agent # a
      BY <1>6, <2>3 DEF ServedBy
    <3>3. ag'[gate[v].agent] = ag[gate[v].agent]
      BY <3>1, <3>2
    <3> QED
      BY <2>1, <3>3 DEF Here
  <2> QED
    BY <2>2, <2>3
<1> QED
  BY <1>3, <1>4, <1>5, <1>6 DEF AgentsServe

\* The listeners are not told, and who is there stays.
LEMMA QuietSettled ==
  ASSUME Settled, UNCHANGED << players, inbox >>, NEW u \in Uuid,
         \A n \in Node, v \in Uuid : v # u => Here(n, v)' = Here(n, v),
         \A n \in Node : Here(n, u)' = Here(n, u)
  PROVE  Settled'
<1>1. \A n \in Node, v \in Uuid : Here(n, v)' = Here(n, v)
  OBVIOUS
<1> QED
  BY <1>1 DEF Settled

\* The listener of a node is told what becomes of a user there.
LEMMA ToldSettled ==
  ASSUME PlayerTypes, Settled, players' = players, NEW u \in Uuid,
         NEW h \in Node, NEW m \in Notices, m.uuid = u,
         inbox' = [inbox EXCEPT ![h] = Append(@, m)],
         \A n \in Node, v \in Uuid : v # u => Here(n, v)' = Here(n, v),
         \A n \in Node : Here(n, u)' = IF n = h THEN Entry(m) ELSE Here(n, u)
  PROVE  Settled'
<1> SUFFICES ASSUME NEW n \in Node, NEW v \in Uuid
             PROVE  Settles(players[n], inbox'[n], v, Here(n, v)')
  BY DEF Settled
<1>1. inbox'[n] = IF n = h THEN Append(inbox[n], m) ELSE inbox[n]
  BY MessageSent
<1>2. inbox[n] \in Seq(Notices) /\ Settles(players[n], inbox[n], v, Here(n, v))
  BY DEF PlayerTypes, Settled
<1>3. CASE n = h /\ v = u
  <2>1. Settles(players[n], Append(inbox[n], m), u, Entry(m))
    BY <1>2, SettlesAppended
  <2>2. Here(n, v)' = Entry(m)
    BY <1>3
  <2> QED
    BY <1>1, <1>3, <2>1, <2>2
<1>4. CASE n = h /\ v # u
  <2>1. Settles(players[n], Append(inbox[n], m), v, Here(n, v))
    BY <1>2, <1>4, SettlesAppended
  <2>2. Here(n, v)' = Here(n, v)
    BY <1>4
  <2> QED
    BY <1>1, <1>4, <2>1, <2>2
<1>5. CASE n # h
  <2>1. Here(n, v)' = Here(n, v)
    BY <1>5
  <2> QED
    BY <1>1, <1>2, <1>5, <2>1
<1> QED
  BY <1>3, <1>4, <1>5

\* Who is not there, or not yet or no longer told of, has no entry.
LEMMA HereNot ==
  ASSUME NEW u \in Uuid, NEW a,
         \/ gate[u].st = "out"
         \/ gate[u].agent = a /\ ~Told(ag[a], u)
  PROVE  \A n \in Node : Here(n, u) = None
BY DEF Here

\* An agent of no session waits for nothing.
LEMMA ServesOne ==
  ASSUME PlayerTypes, AgentsServe, NEW a \in Agent, ~FreeOK(ag[a])
  PROVE  \E u \in Uuid : /\ ServedBy(u, a) /\ \A v \in Uuid : ServedBy(v, a) => v = u
                         /\ gate[u] \in Gate /\ gate[u].agent = a
                         /\ \/ gate[u].st = "in" /\ InOK(ag[a], u)
                            \/ gate[u].st = "kicking" /\ KickOK(ag[a], u)
                         /\ ag[a].used
<1>1. AgentOK(a) /\ \A u, v \in Uuid : ServedBy(u, a) /\ ServedBy(v, a) => u = v
  BY DEF AgentsServe
<1>2. PICK u \in Uuid : ServedBy(u, a)
  BY <1>1 DEF AgentOK
<1>3. gate[u] \in Gate /\ gate[u].st \in {"in", "kicking"} /\ gate[u].agent = a
  BY <1>2 DEF PlayerTypes, Gate, ServedBy
<1> QED
  BY <1>1, <1>2, <1>3 DEF AgentOK

-----------------------------------------------------------------------------
(* The steps of an agent.                                                  *)

LEMMA LoginSettles ==
  ASSUME PlayerInv, NEW u \in Uuid, NEW a \in Agent, Chats!Login(u, a)
  PROVE  PlayerInv'
<1> DEFINE r == ag[a]
           s == [r EXCEPT !.used = TRUE]
           g == [st |-> "in", agent |-> a]
<1>1. /\ gate[u].st = "out" /\ (~r.used \/ "reuse" \in budget.world)
      /\ budget.login > 0 /\ budget' = [budget EXCEPT !.login = @ - 1]
      /\ ag' = [ag EXCEPT ![a] = s] /\ gate' = [gate EXCEPT ![u] = g]
      /\ UNCHANGED << players, inbox >>
  BY DEF Chats!Login, Chats!listener
<1>2. PlayerTypes /\ r \in AgentState /\ Ready(r) /\ g \in Gate
  BY DEF PlayerInv, PlayerTypes, Gate
<1>3. /\ s \in AgentState /\ s.used /\ s.client = r.client /\ s.load = r.load /\ s.uid = r.uid
      /\ s.role = r.role /\ s.for = r.for /\ s.closed = r.closed /\ s.close = r.close
  BY <1>2 DEF AgentState
<1>4. Ready(s) /\ g.st = "in" /\ g.agent = a
  BY <1>2, <1>3 DEF Ready
<1>5. budget' \in ChatBudget /\ budget'.world = budget.world
  BY <1>1, <1>2, BudgetUsed
<1> HIDE DEF s, g
<1>6. /\ ag' \in [Agent -> AgentState] /\ \A b \in Agent : Ready(ag'[b])
      /\ gate' \in [Uuid -> Gate]
      /\ \A b \in Agent : ag'[b] = IF b = a THEN s ELSE ag[b]
      /\ \A v \in Uuid : gate'[v] = IF v = u THEN g ELSE gate[v]
  BY <1>1, <1>2, <1>3, <1>4, AgentChanges, GateChanges
<1>7. PlayerTypes'
  BY <1>1, <1>2, <1>5, <1>6 DEF PlayerTypes
<1>8. ASSUME budget.world = {}, AgentsServe, Settled
      PROVE  AgentsServe' /\ Settled'
  <2>1. ~r.used /\ AgentOK(a)
    BY <1>1, <1>8 DEF AgentsServe
  <2>2. \A v \in Uuid : ~ServedBy(v, a)
    BY <2>1 DEF AgentOK
  <2>3. r = Chats!FreshAgent
    BY <2>1 DEF AgentOK
  <2>4. InOK(s, u)
    BY <1>3, <2>3 DEF InOK, Chats!FreshAgent
  <2>5. AgentsServe' /\ \A n \in Node, v \in Uuid : v # u => Here(n, v)' = Here(n, v)
    BY <1>1, <1>2, <1>3, <1>4, <1>6, <1>8, <2>2, <2>4, OneServes
  <2>6. \A n \in Node : Here(n, u) = None
    BY <1>1, HereNot
  <2>7. \A n \in Node : Here(n, u)' = None
    <3>1. s.role = None /\ None \notin Uuid
      BY <1>3, <2>3, ServicesAssumption DEF Chats!FreshAgent, Chats!Constants
    <3>2. gate'[u].agent = a /\ ~Told(ag'[a], u)
      BY <1>4, <1>6, <3>1 DEF Told
    <3> QED
      BY <3>2 DEF Here
  <2> QED
    BY <1>1, <1>8, <2>5, <2>6, <2>7, QuietSettled
<1> QED
  BY <1>5, <1>7, <1>8 DEF PlayerInv

LEMMA StartSettles ==
  ASSUME PlayerInv, NEW u \in Uuid, Chats!Start(u)
  PROVE  PlayerInv'
<1> DEFINE a == gate[u].agent
           r == ag[a]
           s == [r EXCEPT !.uid = u, !.client = TRUE, !.conn = r.conn + 1]
<1>1. /\ gate[u].st = "in" /\ (r.client => "reconnect" \in budget.world)
      /\ \/ budget.login > 0 /\ budget' = [budget EXCEPT !.login = @ - 1]
         \/ budget' = budget
      /\ ag' = [ag EXCEPT ![a] = s] /\ gate' = gate
      /\ UNCHANGED << players, inbox >>
  BY DEF Chats!Start, Chats!listener
<1>2. PlayerTypes /\ gate[u] \in Gate /\ a \in Agent
  BY <1>1 DEF PlayerInv, PlayerTypes, Gate
<1>3. r \in AgentState /\ Ready(r)
  BY <1>2 DEF PlayerTypes
<1>4. /\ s \in AgentState /\ s.used = r.used /\ s.client /\ s.load = r.load /\ s.uid = u
      /\ s.role = r.role /\ s.for = r.for /\ s.closed = r.closed /\ s.close = r.close
  <2> DEFINE c == r.conn + 1
  <2>1. c \in Nat
    BY <1>3 DEF AgentState
  <2> HIDE DEF a, r, c
  <2> QED
    BY <1>3, <2>1 DEF AgentState, c
<1>5. Ready(s)
  BY <1>3, <1>4 DEF Ready
<1>6. budget' \in ChatBudget /\ budget'.world = budget.world
  BY <1>1, <1>2, BudgetUsed
<1> HIDE DEF s
<1>7. /\ ag' \in [Agent -> AgentState] /\ \A b \in Agent : Ready(ag'[b])
      /\ \A b \in Agent : ag'[b] = IF b = a THEN s ELSE ag[b]
  BY <1>1, <1>2, <1>4, <1>5, AgentChanges
<1>8. \A v \in Uuid : gate'[v] = IF v = u THEN gate[u] ELSE gate[v]
  BY <1>1
<1>9. PlayerTypes'
  BY <1>1, <1>2, <1>6, <1>7 DEF PlayerTypes
<1>10. ASSUME budget.world = {}, AgentsServe, Settled
       PROVE  AgentsServe' /\ Settled'
  <2>1. ServedBy(u, a) /\ \A v \in Uuid : ServedBy(v, a) => v = u
    BY <1>1, <1>2, <1>10 DEF ServedBy, AgentsServe
  <2>2. r.used /\ InOK(r, u) /\ ~r.client
    BY <1>1, <1>2, <1>10, <2>1 DEF AgentsServe, AgentOK
  <2>3. InOK(s, u)
    BY <1>4, <2>2 DEF InOK
  <2>4. AgentsServe' /\ \A n \in Node, v \in Uuid : v # u => Here(n, v)' = Here(n, v)
    BY <1>1, <1>2, <1>4, <1>7, <1>8, <1>10, <2>1, <2>2, <2>3, OneServes
  <2>5. ~Told(r, u) /\ ~Told(s, u)
    BY <1>4, <2>2, ServicesAssumption DEF InOK, Told, Chats!Constants
  <2>6. \A n \in Node : Here(n, u) = None
    BY <2>5, HereNot
  <2>7. \A n \in Node : Here(n, u)' = None
    <3>1. gate'[u].agent = a /\ ~Told(ag'[a], u)
      BY <1>1, <1>2, <1>7, <2>5
    <3> QED
      BY <3>1 DEF Here
  <2> QED
    BY <1>1, <1>10, <2>4, <2>6, <2>7, QuietSettled
<1> QED
  BY <1>6, <1>9, <1>10 DEF PlayerInv

\* An agent takes a step of its own, that its listener is not told of.
LEMMA OwnStep ==
  ASSUME PlayerInv, NEW a \in Agent, NEW s \in AgentState, Ready(s),
         ag' = [ag EXCEPT ![a] = s], UNCHANGED << budget, gate, players, inbox >>,
         budget.world = {} =>
           /\ ~FreeOK(ag[a]) /\ (ag[a].used => s.used) /\ s.conn = ag[a].conn
           /\ \A u \in Uuid : /\ InOK(ag[a], u) => InOK(s, u)
                              /\ KickOK(ag[a], u) => KickOK(s, u)
                              /\ Told(s, u) <=> Told(ag[a], u)
  PROVE  PlayerInv'
<1>1. PlayerTypes
  BY DEF PlayerInv
<1>2. /\ ag' \in [Agent -> AgentState] /\ \A b \in Agent : Ready(ag'[b])
      /\ \A b \in Agent : ag'[b] = IF b = a THEN s ELSE ag[b]
  BY <1>1, AgentChanges
<1>3. PlayerTypes'
  BY <1>1, <1>2 DEF PlayerTypes
<1>4. ASSUME budget.world = {}, AgentsServe, Settled
      PROVE  AgentsServe' /\ Settled'
  <2>1. PICK u \in Uuid : /\ ServedBy(u, a) /\ \A v \in Uuid : ServedBy(v, a) => v = u
                          /\ gate[u] \in Gate /\ gate[u].agent = a
                          /\ \/ gate[u].st = "in" /\ InOK(ag[a], u)
                             \/ gate[u].st = "kicking" /\ KickOK(ag[a], u)
                          /\ ag[a].used
    BY <1>1, <1>4, ServesOne
  <2>2. \A v \in Uuid : gate'[v] = IF v = u THEN gate[u] ELSE gate[v]
    OBVIOUS
  <2>3. AgentsServe' /\ \A n \in Node, v \in Uuid : v # u => Here(n, v)' = Here(n, v)
    BY <1>1, <1>2, <1>4, <2>1, <2>2, OneServes
  <2>4. ag'[a] = s /\ gate'[u] = gate[u]
    BY <1>2
  <2>5. \A n \in Node : Here(n, u)' = Here(n, u)
    BY <1>4, <2>1, <2>4 DEF Here
  <2> QED
    BY <1>4, <2>3, <2>5, QuietSettled
<1> QED
  BY <1>3, <1>4 DEF PlayerInv

LEMMA LoadRoleSettles ==
  ASSUME PlayerInv, NEW a \in Agent, Chats!LoadRole(a)
  PROVE  PlayerInv'
<1> DEFINE r == ag[a]
           s == [r EXCEPT !.load = "get", !.for = r.uid]
<1>1. /\ r.load = "none" /\ r.uid # None /\ r.role = None
      /\ r.client \/ "early" \in budget.world
      /\ ag' = [ag EXCEPT ![a] = s] /\ UNCHANGED << budget, gate, players, inbox >>
  BY DEF Chats!LoadRole, Chats!listener
<1>2. r \in AgentState /\ Ready(r)
  BY DEF PlayerInv, PlayerTypes
<1>3. /\ s \in AgentState /\ (r.used => s.used) /\ s.client = r.client /\ s.load = "get"
      /\ s.uid = r.uid /\ s.role = r.role /\ s.for = r.uid /\ s.closed = r.closed
      /\ s.close = r.close /\ s.conn = r.conn
  BY <1>2 DEF AgentState
<1> HIDE DEF s
<1>4. Ready(s)
  BY <1>1, <1>2, <1>3 DEF Ready
<1>5. ASSUME budget.world = {}
      PROVE  /\ ~FreeOK(r)
             /\ \A u \in Uuid : /\ InOK(r, u) => InOK(s, u)
                                /\ KickOK(r, u) => KickOK(s, u)
                                /\ Told(s, u) <=> Told(r, u)
  <2>1. r.client /\ None \notin Uuid
    BY <1>1, <1>5, ServicesAssumption DEF Chats!Constants
  <2> QED
    BY <1>1, <1>3, <2>1 DEF FreeOK, InOK, KickOK, Told
<1> QED
  BY <1>1, <1>3, <1>4, <1>5, OwnStep

LEMMA LoadGotSettles ==
  ASSUME PlayerInv, NEW a \in Agent, Chats!LoadGot(a)
  PROVE  PlayerInv'
<1> DEFINE r == ag[a]
           s == [r EXCEPT !.load = "online", !.role = r.for]
<1>1. /\ r.load = "get"
      /\ ag' = [ag EXCEPT ![a] = s] /\ UNCHANGED << budget, gate, players, inbox >>
  BY DEF Chats!LoadGot, Chats!listener
<1>2. r \in AgentState /\ Ready(r)
  BY DEF PlayerInv, PlayerTypes
<1>3. /\ s \in AgentState /\ (r.used => s.used) /\ s.client = r.client /\ s.load = "online"
      /\ s.uid = r.uid /\ s.role = r.for /\ s.for = r.for /\ s.closed = r.closed
      /\ s.close = r.close /\ s.conn = r.conn
  BY <1>2 DEF AgentState
<1> HIDE DEF s
<1>4. Ready(s)
  BY <1>1, <1>2, <1>3 DEF Ready
<1>5. /\ ~FreeOK(r)
      /\ \A u \in Uuid : /\ InOK(r, u) => InOK(s, u)
                         /\ KickOK(r, u) => KickOK(s, u)
                         /\ Told(s, u) <=> Told(r, u)
  BY <1>1, <1>3 DEF FreeOK, InOK, KickOK, Told
<1> QED
  BY <1>1, <1>3, <1>4, <1>5, OwnStep

LEMMA OfflineSettles ==
  ASSUME PlayerInv, NEW a \in Agent, Chats!Offline(a)
  PROVE  PlayerInv'
<1> DEFINE r == ag[a]
<1>1. PICK c \in {"quit"} \cup (IF "center" \in budget.world THEN {"save"} ELSE {}) :
        ag' = [ag EXCEPT ![a].close = c]
  BY DEF Chats!Offline
<1> DEFINE s == [r EXCEPT !.close = c]
<1>2. /\ r.close = "offline" /\ ag' = [ag EXCEPT ![a] = s]
      /\ UNCHANGED << budget, gate, players, inbox >>
  BY <1>1 DEF Chats!Offline, Chats!listener
<1>3. r \in AgentState /\ Ready(r) /\ c \in {"quit", "save"} /\ (budget.world = {} => c = "quit")
  BY <1>1 DEF PlayerInv, PlayerTypes
<1>4. /\ s \in AgentState /\ (r.used => s.used) /\ s.client = r.client /\ s.load = r.load
      /\ s.uid = r.uid /\ s.role = r.role /\ s.for = r.for /\ s.closed = r.closed
      /\ s.close = c /\ s.conn = r.conn
  BY <1>3 DEF AgentState
<1> HIDE DEF s
<1>5. Ready(s)
  BY <1>2, <1>3, <1>4 DEF Ready
<1>6. budget.world = {} =>
        /\ ~FreeOK(r)
        /\ \A u \in Uuid : /\ InOK(r, u) => InOK(s, u)
                           /\ KickOK(r, u) => KickOK(s, u)
                           /\ Told(s, u) <=> Told(r, u)
  BY <1>2, <1>3, <1>4 DEF FreeOK, InOK, KickOK, Told
<1> QED
  BY <1>2, <1>4, <1>5, <1>6, OwnStep

\* An agent takes a step that its listener is told of, for its role.
LEMMA TellingStep ==
  ASSUME PlayerInv, NEW a \in Agent, NEW s \in AgentState, Ready(s),
         NEW t \in {"subscribe", "unsubscribe"}, ag[a].role # None, Chats!Tell(a, t),
         ag' = [ag EXCEPT ![a] = s], UNCHANGED << budget, gate, players >>,
         budget.world = {} =>
           /\ ~FreeOK(ag[a]) /\ (ag[a].used => s.used) /\ s.conn = ag[a].conn
           /\ \A u \in Uuid : /\ InOK(ag[a], u) => InOK(s, u)
                              /\ KickOK(ag[a], u) => KickOK(s, u)
                              /\ InOK(ag[a], u) \/ KickOK(ag[a], u) => (Told(s, u) <=> t = "subscribe")
  PROVE  PlayerInv'
<1>1. PlayerTypes /\ Home[a] \in Node
  BY ServicesAssumption DEF PlayerInv, Chats!Constants
<1>2. PICK u \in Uuid : u = ag[a].role
  BY <1>1 DEF PlayerTypes, AgentState
<1> DEFINE h == Home[a]
           m == [t |-> t, uuid |-> u, player |-> [agent |-> a, zinc_client |-> ag[a].conn]]
<1>3. /\ m \in Notices /\ m.uuid = u
      /\ Entry(m) = IF t = "subscribe" THEN [agent |-> a, zinc_client |-> ag[a].conn] ELSE None
  BY <1>1 DEF Notices, Player, Entry, PlayerTypes, AgentState
<1>4. inbox' = [inbox EXCEPT ![h] = Append(@, m)] /\ h = Home[a] /\ h \in Node
  BY <1>1, <1>2 DEF Chats!Tell
<1> HIDE DEF m, h
<1>5. /\ ag' \in [Agent -> AgentState] /\ \A b \in Agent : Ready(ag'[b])
      /\ \A b \in Agent : ag'[b] = IF b = a THEN s ELSE ag[b]
  BY <1>1, AgentChanges
<1>6. PlayerTypes'
  <2>1. inbox' \in [Node -> Seq(Notices)]
    BY <1>1, <1>3, <1>4, MessageSent
  <2> QED
    BY <1>1, <1>5, <2>1 DEF PlayerTypes
<1>7. ASSUME budget.world = {}, AgentsServe, Settled
      PROVE  AgentsServe' /\ Settled'
  <2>1. PICK v \in Uuid : /\ ServedBy(v, a) /\ \A w \in Uuid : ServedBy(w, a) => w = v
                          /\ gate[v] \in Gate /\ gate[v].agent = a
                          /\ \/ gate[v].st = "in" /\ InOK(ag[a], v)
                             \/ gate[v].st = "kicking" /\ KickOK(ag[a], v)
                          /\ ag[a].used
    BY <1>1, <1>7, ServesOne
  <2>2. v = u
    BY <1>2, <2>1 DEF InOK, KickOK
  <2>3. \A w \in Uuid : gate'[w] = IF w = u THEN gate[u] ELSE gate[w]
    OBVIOUS
  <2>4. ag'[a] = s /\ gate'[u] = gate[u] /\ gate[u].agent = a /\ gate[u].st # "out"
    BY <1>5, <2>1, <2>2 DEF ServedBy
  <2>5. AgentsServe' /\ \A n \in Node, w \in Uuid : w # u => Here(n, w)' = Here(n, w)
    BY <1>1, <1>2, <1>5, <1>7, <2>1, <2>2, <2>3, OneServes
  <2>6. \A n \in Node : n # h => Here(n, u)' = None /\ Here(n, u) = None
    BY <1>4, <2>4 DEF Here
  <2>7. Here(h, u)' = Entry(m)
    <3>1. Told(s, u) <=> t = "subscribe"
      BY <1>2, <1>7, <2>1, <2>2
    <3>2. s.conn = ag[a].conn
      BY <1>7
    <3> QED
      BY <1>3, <1>4, <2>4, <3>1, <3>2 DEF Here
  <2>8. \A n \in Node : Here(n, u)' = IF n = h THEN Entry(m) ELSE Here(n, u)
    BY <2>6, <2>7
  <2> QED
    BY <1>1, <1>2, <1>3, <1>4, <1>7, <2>5, <2>8, ToldSettled
<1> QED
  BY <1>6, <1>7 DEF PlayerInv

LEMMA OnlineSettles ==
  ASSUME PlayerInv, NEW a \in Agent, Chats!Online(a)
  PROVE  PlayerInv'
<1> DEFINE r == ag[a]
           s == [r EXCEPT !.load = "none"]
<1>1. /\ r.load = "online" /\ ag' = [ag EXCEPT ![a] = s]
      /\ UNCHANGED << budget, gate, players >>
      /\ Chats!Tell(a, "subscribe") \/ ("center" \in budget.world /\ inbox' = inbox)
  BY DEF Chats!Online
<1>2. r \in AgentState /\ Ready(r)
  BY DEF PlayerInv, PlayerTypes
<1>3. /\ s \in AgentState /\ (r.used => s.used) /\ s.client = r.client /\ s.load = "none"
      /\ s.uid = r.uid /\ s.role = r.role /\ s.for = r.for /\ s.closed = r.closed
      /\ s.close = r.close /\ s.conn = r.conn
  BY <1>2 DEF AgentState
<1> HIDE DEF s
<1>4. Ready(s) /\ r.role # None
  BY <1>1, <1>2, <1>3 DEF Ready
<1>5. /\ ~FreeOK(r)
      /\ \A u \in Uuid : /\ InOK(r, u) => InOK(s, u)
                         /\ KickOK(r, u) => KickOK(s, u)
  BY <1>1, <1>3 DEF FreeOK, InOK, KickOK
<1>6. CASE Chats!Tell(a, "subscribe")
  <2> DEFINE t == "subscribe"
  <2>1. t \in {"subscribe", "unsubscribe"} /\ t = "subscribe"
    OBVIOUS
  <2>2. \A u \in Uuid : InOK(r, u) \/ KickOK(r, u) => Told(s, u)
    BY <1>1, <1>3, <1>4 DEF InOK, KickOK, Told
  <2> HIDE DEF t
  <2> QED
    BY <1>1, <1>3, <1>4, <1>5, <1>6, <2>1, <2>2, TellingStep
<1>7. CASE "center" \in budget.world /\ inbox' = inbox
  BY <1>1, <1>3, <1>4, <1>7, OwnStep
<1> QED
  BY <1>1, <1>6, <1>7

LEMMA QuitSettles ==
  ASSUME PlayerInv, NEW a \in Agent, Chats!Quit(a)
  PROVE  PlayerInv'
<1> DEFINE r == ag[a]
           s == [r EXCEPT !.close = "save"]
           t == "unsubscribe"
<1>1. /\ r.close = "quit" /\ ag' = [ag EXCEPT ![a] = s] /\ Chats!Tell(a, t)
      /\ UNCHANGED << budget, gate, players >>
  BY DEF Chats!Quit
<1>2. r \in AgentState /\ Ready(r)
  BY DEF PlayerInv, PlayerTypes
<1>3. /\ s \in AgentState /\ (r.used => s.used) /\ s.client = r.client /\ s.load = r.load
      /\ s.uid = r.uid /\ s.role = r.role /\ s.for = r.for /\ s.closed = r.closed
      /\ s.close = "save" /\ s.conn = r.conn
  BY <1>2 DEF AgentState
<1>4. t \in {"subscribe", "unsubscribe"} /\ t # "subscribe"
  OBVIOUS
<1> HIDE DEF s, t
<1>5. Ready(s) /\ r.role # None
  BY <1>1, <1>2, <1>3 DEF Ready
<1>6. /\ ~FreeOK(r)
      /\ \A u \in Uuid : /\ InOK(r, u) => InOK(s, u)
                         /\ KickOK(r, u) => KickOK(s, u)
                         /\ ~Told(s, u)
  BY <1>1, <1>3 DEF FreeOK, InOK, KickOK, Told
<1> QED
  BY <1>1, <1>3, <1>4, <1>5, <1>6, TellingStep

\* A session ends on its agent, or its end begins, without a word to the listener.
LEMMA EndStep ==
  ASSUME PlayerInv, NEW u \in Uuid, NEW a \in Agent, NEW s \in AgentState, NEW g \in Gate,
         Ready(s), budget' = budget, UNCHANGED << players, inbox >>,
         ag' = [ag EXCEPT ![a] = s], gate' = [gate EXCEPT ![u] = g],
         ServedBy(u, a), g.agent = a, s.conn = ag[a].conn, ag[a].used => s.used,
         budget.world = {} /\ AgentOK(a) =>
           /\ g.st # "in"
           /\ g.st = "kicking" => KickOK(s, u) /\ (Told(s, u) <=> Told(ag[a], u))
           /\ g.st = "out" => FreeOK(s) /\ ~Told(ag[a], u)
  PROVE  PlayerInv'
<1>1. PlayerTypes
  BY DEF PlayerInv
<1>2. /\ ag' \in [Agent -> AgentState] /\ \A b \in Agent : Ready(ag'[b])
      /\ gate' \in [Uuid -> Gate]
      /\ \A b \in Agent : ag'[b] = IF b = a THEN s ELSE ag[b]
      /\ \A v \in Uuid : gate'[v] = IF v = u THEN g ELSE gate[v]
  BY <1>1, AgentChanges, GateChanges
<1>3. PlayerTypes'
  BY <1>1, <1>2 DEF PlayerTypes
<1>4. ASSUME budget.world = {}, AgentsServe, Settled
      PROVE  AgentsServe' /\ Settled'
  <2>1. AgentOK(a) /\ \A v \in Uuid : ServedBy(v, a) => v = u
    BY <1>4 DEF AgentsServe
  <2>2. s.used
    BY <2>1 DEF AgentOK
  <2>3. AgentsServe' /\ \A n \in Node, v \in Uuid : v # u => Here(n, v)' = Here(n, v)
    BY <1>1, <1>2, <1>4, <2>1, <2>2, OneServes
  <2>4. /\ ag'[a] = s /\ gate'[u] = g /\ g.agent = a
        /\ gate[u].agent = a /\ gate[u].st # "out"
    BY <1>2 DEF ServedBy
  <2>5. \A n \in Node : Here(n, u)' = Here(n, u)
    <3>1. CASE g.st = "out"
      BY <1>4, <2>1, <2>4, <3>1 DEF Here
    <3>2. CASE g.st = "kicking"
      BY <1>4, <2>1, <2>4, <3>2 DEF Here
    <3>3. g.st \in {"out", "kicking"}
      BY <1>4, <2>1 DEF Gate
    <3> QED
      BY <3>1, <3>2, <3>3
  <2> QED
    BY <1>4, <2>3, <2>5, QuietSettled
<1> QED
  BY <1>3, <1>4 DEF PlayerInv

LEMMA ClosingTyped ==
  ASSUME NEW r \in AgentState, Ready(r)
  PROVE  /\ Chats!Closing(r) \in AgentState /\ Ready(Chats!Closing(r))
         /\ Chats!Closing(r).conn = r.conn /\ Chats!Closing(r).load = r.load
         /\ Chats!Closing(r).role = r.role /\ Chats!Closing(r).client = FALSE
         /\ r.used => Chats!Closing(r).used
         /\ Chats!Closing(r).close = IF r.closed THEN r.close
                                     ELSE IF r.role = None THEN "done" ELSE "offline"
<1>1. CASE r.closed
  <2> DEFINE s == [r EXCEPT !.client = FALSE]
  <2>1. Chats!Closing(r) = s
    BY <1>1 DEF Chats!Closing
  <2>2. /\ s \in AgentState /\ s.conn = r.conn /\ s.load = r.load /\ s.role = r.role
        /\ s.client = FALSE /\ (r.used => s.used) /\ s.close = r.close /\ s.for = r.for
    BY DEF AgentState
  <2> HIDE DEF s
  <2> QED
    BY <1>1, <2>1, <2>2 DEF Ready
<1>2. CASE ~r.closed
  <2> DEFINE c == IF r.role = None THEN "done" ELSE "offline"
             s == [r EXCEPT !.client = FALSE, !.closed = TRUE, !.close = c]
  <2>1. Chats!Closing(r) = s
    BY <1>2 DEF Chats!Closing
  <2>2. c \in {"done", "offline"} /\ (c = "offline" => r.role # None)
    OBVIOUS
  <2>3. c = IF r.role = None THEN "done" ELSE "offline"
    OBVIOUS
  <2> HIDE DEF c
  <2>4. /\ s \in AgentState /\ s.conn = r.conn /\ s.load = r.load /\ s.role = r.role
        /\ s.client = FALSE /\ (r.used => s.used) /\ s.close = c /\ s.for = r.for
    BY <2>2 DEF AgentState
  <2> HIDE DEF s
  <2> QED
    BY <1>2, <2>1, <2>2, <2>3, <2>4 DEF Ready
<1> QED
  BY <1>1, <1>2

LEMMA KickSettles ==
  ASSUME PlayerInv, NEW u \in Uuid, Chats!Kick(u)
  PROVE  PlayerInv'
<1>1. PlayerTypes /\ gate[u].st = "in" /\ gate[u] \in Gate
  BY DEF PlayerInv, PlayerTypes, Chats!Kick
<1>2. PICK a \in Agent : gate[u].agent = a
  BY <1>1 DEF Gate
<1> DEFINE r == ag[a]
           waits == r.client /\ ~r.closed /\ r.role # None
           g == [gate[u] EXCEPT !.st = IF waits THEN "kicking" ELSE "out"]
           s == IF r.client THEN Chats!Closing(r) ELSE r
<1>3. /\ r.load = "none" \/ "early" \in budget.world
      /\ ag' = [ag EXCEPT ![a] = s] /\ gate' = [gate EXCEPT ![u] = g]
      /\ UNCHANGED << budget, players, inbox >>
  BY <1>2 DEF Chats!Kick, Chats!listener
<1>4. r \in AgentState /\ Ready(r)
  BY <1>1 DEF PlayerTypes
<1>5. /\ s \in AgentState /\ Ready(s) /\ s.conn = r.conn /\ s.load = r.load
      /\ s.role = r.role /\ s.client = FALSE /\ (r.used => s.used)
      /\ ~r.client => s = r
      /\ r.client => s.close = IF r.closed THEN r.close
                               ELSE IF r.role = None THEN "done" ELSE "offline"
  <2>1. CASE r.client
    BY <1>4, <2>1, ClosingTyped
  <2>2. CASE ~r.client
    <3>1. r.client = FALSE
      BY <1>4, <2>2 DEF AgentState
    <3> QED
      BY <1>4, <2>2, <3>1
  <2> QED
    BY <2>1, <2>2
<1>6. g \in Gate /\ g.agent = a /\ g.st = IF waits THEN "kicking" ELSE "out"
  BY <1>1, <1>2 DEF Gate
<1> HIDE DEF s, g
<1>7. ASSUME budget.world = {}, AgentOK(a)
      PROVE  /\ g.st # "in"
             /\ g.st = "kicking" => KickOK(s, u) /\ (Told(s, u) <=> Told(r, u))
             /\ g.st = "out" => FreeOK(s) /\ ~Told(r, u)
  <2>1. InOK(r, u) /\ r.load = "none" /\ None \notin Uuid
    BY <1>1, <1>2, <1>3, <1>7, ServicesAssumption DEF AgentOK, ServedBy, Chats!Constants
  <2>2. CASE waits
    <3>1. g.st = "kicking" /\ r.role = u /\ s.close = "offline" /\ r.close = "none"
      BY <1>5, <1>6, <2>1, <2>2 DEF InOK
    <3> QED
      BY <1>5, <2>1, <3>1 DEF KickOK, Told
  <2>3. CASE ~waits
    <3>1. g.st = "out" /\ r.role = None
      BY <1>6, <2>1, <2>3 DEF InOK
    <3>2. s.close \in {"none", "done"}
      BY <1>5, <2>1, <3>1 DEF InOK
    <3> QED
      BY <1>5, <2>1, <3>1, <3>2 DEF FreeOK, Told
  <2> QED
    BY <2>2, <2>3
<1>8. ServedBy(u, a)
  BY <1>1, <1>2 DEF ServedBy
<1> QED
  BY <1>3, <1>5, <1>6, <1>7, <1>8, EndStep

LEMMA IdleLogoutSettles ==
  ASSUME PlayerInv, NEW u \in Uuid, Chats!IdleLogout(u)
  PROVE  PlayerInv'
<1>1. PlayerTypes /\ gate[u].st = "in" /\ gate[u] \in Gate
  BY DEF PlayerInv, PlayerTypes, Chats!IdleLogout
<1>2. PICK a \in Agent : gate[u].agent = a
  BY <1>1 DEF Gate
<1> DEFINE g == [gate[u] EXCEPT !.st = "out"]
           s == Chats!Closing(ag[a])
<1>3. /\ "idle" \in budget.world
      /\ ag' = [ag EXCEPT ![a] = s] /\ gate' = [gate EXCEPT ![u] = g]
      /\ UNCHANGED << budget, players, inbox >>
  BY <1>2 DEF Chats!IdleLogout, Chats!listener
<1>4. ag[a] \in AgentState /\ Ready(ag[a])
  BY <1>1 DEF PlayerTypes
<1>5. s \in AgentState /\ Ready(s)
  BY <1>4, ClosingTyped
<1>6. g \in Gate
  BY <1>1, <1>2 DEF Gate
<1> HIDE DEF s, g
<1>7. PlayerTypes'
  BY <1>1, <1>3, <1>5, <1>6, AgentChanges, GateChanges DEF PlayerTypes
<1> QED
  BY <1>3, <1>7 DEF PlayerInv

LEMMA SavedSettles ==
  ASSUME PlayerInv, NEW a \in Agent, Chats!Saved(a)
  PROVE  PlayerInv'
<1> DEFINE r == ag[a]
           s == [r EXCEPT !.close = "done"]
           ended == [st |-> "kicking", agent |-> a]
<1>1. /\ r.close = "save" /\ ag' = [ag EXCEPT ![a] = s]
      /\ gate' = [u \in Uuid |-> IF gate[u] = ended THEN [gate[u] EXCEPT !.st = "out"] ELSE gate[u]]
      /\ UNCHANGED << budget, players, inbox >>
  BY DEF Chats!Saved, Chats!listener
<1>2. PlayerTypes /\ r \in AgentState /\ Ready(r)
  BY DEF PlayerInv, PlayerTypes
<1>3. /\ s \in AgentState /\ (r.used => s.used) /\ s.client = r.client /\ s.load = r.load
      /\ s.role = r.role /\ s.for = r.for /\ s.close = "done" /\ s.conn = r.conn
  BY <1>2 DEF AgentState
<1> HIDE DEF s
<1>4. Ready(s)
  BY <1>1, <1>2, <1>3 DEF Ready
<1>5. /\ ag' \in [Agent -> AgentState] /\ \A b \in Agent : Ready(ag'[b])
      /\ \A b \in Agent : ag'[b] = IF b = a THEN s ELSE ag[b]
  BY <1>1, <1>2, <1>3, <1>4, AgentChanges
<1>6. PlayerTypes'
  <2>1. \A u \in Uuid : gate[u] = ended => [gate[u] EXCEPT !.st = "out"] \in Gate
    BY DEF Gate
  <2>2. gate' \in [Uuid -> Gate]
    BY <1>1, <1>2, <2>1 DEF PlayerTypes
  <2> QED
    BY <1>1, <1>2, <1>5, <2>2 DEF PlayerTypes
<1>7. ASSUME budget.world = {}, AgentsServe, Settled
      PROVE  AgentsServe' /\ Settled'
  <2>1. ~FreeOK(r) /\ \A u : ~InOK(r, u)
    BY <1>1 DEF FreeOK, InOK
  <2>2. PICK u \in Uuid : /\ ServedBy(u, a) /\ \A v \in Uuid : ServedBy(v, a) => v = u
                          /\ gate[u] \in Gate /\ gate[u].agent = a
                          /\ gate[u].st = "kicking" /\ KickOK(r, u)
                          /\ r.used
    BY <1>2, <1>7, <2>1, ServesOne
  <2> DEFINE g == [gate[u] EXCEPT !.st = "out"]
  <2>3. gate[u] = ended /\ g \in Gate /\ g.st = "out"
    BY <2>2 DEF Gate
  <2>4. \A v \in Uuid : v # u => gate[v] # ended
    BY <2>2 DEF ServedBy
  <2>5. \A v \in Uuid : gate'[v] = IF v = u THEN g ELSE gate[v]
    BY <1>1, <2>3, <2>4
  <2> HIDE DEF g
  <2>6. FreeOK(s) /\ ~Told(r, u)
    BY <1>1, <1>3, <2>2 DEF KickOK, FreeOK, Told
  <2>7. AgentsServe' /\ \A n \in Node, v \in Uuid : v # u => Here(n, v)' = Here(n, v)
    BY <1>2, <1>3, <1>5, <1>7, <2>2, <2>3, <2>5, <2>6, OneServes
  <2>8. \A n \in Node : Here(n, u)' = Here(n, u)
    <3>1. gate'[u].st = "out"
      BY <2>3, <2>5
    <3> QED
      BY <2>2, <2>6, <3>1 DEF Here
  <2> QED
    BY <1>1, <1>7, <2>7, <2>8, QuietSettled
<1> QED
  BY <1>1, <1>6, <1>7 DEF PlayerInv

-----------------------------------------------------------------------------
(* The steps of a listener and of its node.                                 *)

LEMMA SubscribedSettles ==
  ASSUME PlayerInv, NEW n \in Node, Chats!Subscribed(n)
  PROVE  PlayerInv'
<1> DEFINE q == inbox[n]
           m == Head(q)
           p == [players[n] EXCEPT ![m.uuid] = Entry(m)]
<1>1. /\ q # << >>
      /\ players' = [players EXCEPT ![n] = p]
      /\ inbox' = [inbox EXCEPT ![n] = Tail(q)]
      /\ UNCHANGED << budget, gate, ag >>
  <2>1. players' = [players EXCEPT ![n] = Chats!Subscription(@, Head(inbox[n]))]
    BY DEF Chats!Subscribed
  <2>2. Chats!Subscription(players[n], m) = p
    BY DEF Chats!Subscription, Entry
  <2> HIDE DEF p
  <2> QED
    BY <2>1, <2>2 DEF Chats!Subscribed, Chats!agents
<1>2. /\ players \in [Node -> Served] /\ players[n] \in Served
      /\ inbox \in [Node -> Seq(Notices)] /\ q \in Seq(Notices)
  BY DEF PlayerInv, PlayerTypes
<1>3. m \in Notices /\ Tail(q) \in Seq(Notices)
  BY <1>1, <1>2
<1>4. p \in Served
  <2>1. m.player \in Player
    BY <1>3 DEF Notices
  <2> QED
    BY <1>2, <2>1 DEF Served, Entry
<1> HIDE DEF p, m, q
<1>5. PlayerTypes'
  BY <1>1, <1>2, <1>3, <1>4 DEF PlayerInv, PlayerTypes
<1>6. ASSUME NEW k \in Node, NEW u \in Uuid, Settles(players[k], inbox[k], u, Here(k, u))
      PROVE  Settles(players'[k], inbox'[k], u, Here(k, u)')
  <2>1. Here(k, u)' = Here(k, u)
    BY <1>1 DEF Here
  <2>2. CASE k = n
    <3>1. players'[k] = p /\ inbox'[k] = Tail(q)
      BY <1>1, <1>2, <2>2
    <3>2. Settles(players[n], q, u, Here(k, u))
      BY <1>6, <2>2 DEF q
    <3>3. Settles(p, Tail(q), u, Here(k, u))
      BY <1>1, <1>2, <3>2, SettlesHeard DEF p, m
    <3> QED
      BY <2>1, <3>1, <3>3
  <2>3. CASE k # n
    BY <1>1, <1>2, <1>6, <2>1, <2>3
  <2> QED
    BY <2>2, <2>3
<1>7. Settled => Settled'
  BY <1>6 DEF Settled
<1>8. AgentsServe => AgentsServe'
  BY <1>1 DEF AgentsServe, AgentOK, ServedBy
<1> QED
  BY <1>1, <1>5, <1>7, <1>8 DEF PlayerInv

\* A node crashes with its agents.
LEMMA CrashSettles ==
  ASSUME PlayerInv, NEW n \in Node, Chats!Crash(n)
  PROVE  PlayerInv'
<1>1. /\ budget.crash > 0 /\ budget' = [budget EXCEPT !.crash = @ - 1]
      /\ players' = [players EXCEPT ![n] = Chats!Nobody]
      /\ inbox' = [inbox EXCEPT ![n] = << >>]
      /\ gate' = [u \in Uuid |->
           IF gate[u].st # "out" /\ Home[gate[u].agent] = n THEN [gate[u] EXCEPT !.st = "out"]
                                                            ELSE gate[u]]
      /\ ag' = [a \in Agent |-> IF Home[a] = n THEN Chats!FreshAgent ELSE ag[a]]
  BY DEF Chats!Crash
<1>2. PlayerTypes
  BY DEF PlayerInv
<1>3. budget' \in ChatBudget /\ budget'.world = budget.world
  BY <1>1, <1>2, BudgetUsed
<1>4. /\ players \in [Node -> Served] /\ inbox \in [Node -> Seq(Notices)]
      /\ Chats!Nobody \in Served /\ << >> \in Seq(Notices)
      /\ \A u \in Uuid : Chats!Nobody[u] = None
  BY <1>2 DEF PlayerTypes, Chats!Nobody, Served
<1>5. Chats!FreshAgent \in AgentState /\ Ready(Chats!FreshAgent) /\ FreeOK(Chats!FreshAgent)
  BY DEF Chats!FreshAgent, AgentState, Ready, FreeOK
<1>6. \A u \in Uuid :
        /\ gate[u] \in Gate
        /\ gate[u].st # "out" => gate[u].agent \in Agent
        /\ IF gate[u].st # "out" /\ Home[gate[u].agent] = n
             THEN gate'[u].st = "out" /\ gate'[u] \in Gate
             ELSE gate'[u] = gate[u]
  BY <1>1, <1>2 DEF PlayerTypes, Gate
<1>7. PlayerTypes'
  <2>1. players' \in [Node -> Served] /\ inbox' \in [Node -> Seq(Notices)]
    BY <1>1, <1>4
  <2>2. gate' \in [Uuid -> Gate]
    BY <1>1, <1>6
  <2>3. \A a \in Agent : ag'[a] \in AgentState /\ Ready(ag'[a])
    BY <1>1, <1>2, <1>5 DEF PlayerTypes
  <2>4. ag' \in [Agent -> AgentState]
    BY <1>1, <2>3
  <2> QED
    BY <1>3, <2>1, <2>2, <2>3, <2>4 DEF PlayerTypes
<1>8. \A u \in Uuid, a \in Agent : ServedBy(u, a)' <=> ServedBy(u, a) /\ Home[a] # n
  BY <1>6 DEF ServedBy
<1>9. AgentsServe => AgentsServe'
  <2> SUFFICES ASSUME AgentsServe PROVE AgentsServe'
    OBVIOUS
  <2>1. \A u, v \in Uuid, a \in Agent : ServedBy(u, a)' /\ ServedBy(v, a)' => u = v
    BY <1>8 DEF AgentsServe
  <2>2. ASSUME NEW a \in Agent PROVE AgentOK(a)'
    <3>1. CASE Home[a] = n
      <4>1. ag'[a] = Chats!FreshAgent /\ \A u \in Uuid : ~ServedBy(u, a)'
        BY <1>1, <1>8, <3>1
      <4> QED
        BY <1>5, <4>1 DEF AgentOK
    <3>2. CASE Home[a] # n
      <4>1. ag'[a] = ag[a] /\ \A u \in Uuid : ServedBy(u, a)' <=> ServedBy(u, a)
        BY <1>1, <1>8, <3>2
      <4>2. \A u \in Uuid : ServedBy(u, a) => gate'[u] = gate[u]
        BY <1>6, <3>2 DEF ServedBy
      <4> QED
        BY <4>1, <4>2 DEF AgentsServe, AgentOK
    <3> QED
      BY <3>1, <3>2
  <2> QED
    BY <2>1, <2>2 DEF AgentsServe
<1>10. ASSUME NEW k \in Node, NEW u \in Uuid, Settles(players[k], inbox[k], u, Here(k, u))
       PROVE  Settles(players'[k], inbox'[k], u, Here(k, u)')
  <2>1. CASE k = n
    <3>1. players'[k][u] = None /\ inbox'[k] = << >>
      BY <1>1, <1>4, <2>1
    <3>2. Here(k, u)' = None
      BY <1>6, <2>1 DEF Here
    <3> QED
      BY <3>1, <3>2, SettlesEmpty
  <2>2. CASE k # n
    <3>1. players'[k] = players[k] /\ inbox'[k] = inbox[k]
      BY <1>1, <1>4, <2>2
    <3>2. Here(k, u)' = Here(k, u)
      <4>1. CASE gate[u].st # "out" /\ Home[gate[u].agent] = k
        <5>1. gate'[u] = gate[u] /\ ag'[gate[u].agent] = ag[gate[u].agent]
          BY <1>1, <1>6, <2>2, <4>1
        <5> QED
          BY <5>1 DEF Here
      <4>2. CASE ~(gate[u].st # "out" /\ Home[gate[u].agent] = k)
        BY <1>6, <4>2 DEF Here
      <4> QED
        BY <4>1, <4>2
    <3> QED
      BY <1>10, <3>1, <3>2
  <2> QED
    BY <2>1, <2>2
<1>11. Settled => Settled'
  BY <1>10 DEF Settled
<1> QED
  BY <1>3, <1>7, <1>9, <1>11 DEF PlayerInv

LEMMA PlayerStep == ASSUME PlayerInv, Chats!Next PROVE PlayerInv'
<1> USE DEF Chats!speaker, Chats!listener, Chats!agents, Chats!history
<1>1. CASE \E ch \in Channel : Chats!new_chat(ch) \/ Chats!dispatch(ch)
  BY <1>1, PlayersFramed DEF Chats!new_chat, Chats!dispatch
<1>2. CASE \E n \in Node : Chats!Dispatched(n) \/ Chats!update_world_chat(n)
  BY <1>2, PlayersFramed DEF Chats!Dispatched, Chats!update_world_chat
<1>3. CASE \E n \in Node : Chats!register_listener(n) \/ Chats!Restart(n)
  BY <1>3, PlayersFramed DEF Chats!register_listener, Chats!Restart
<1>4. CASE \E n \in Node : Chats!Subscribed(n) \/ Chats!Crash(n)
  BY <1>4, SubscribedSettles, CrashSettles
<1>5. CASE \E u \in Uuid :
             \/ Chats!Start(u) \/ Chats!Kick(u) \/ Chats!IdleLogout(u)
             \/ \E a \in Agent : Chats!Login(u, a)
  BY <1>5, StartSettles, KickSettles, IdleLogoutSettles, LoginSettles
<1>6. CASE \E a \in Agent : Chats!LoadRole(a) \/ Chats!LoadGot(a) \/ Chats!Online(a)
  BY <1>6, LoadRoleSettles, LoadGotSettles, OnlineSettles
<1>7. CASE \E a \in Agent : Chats!Offline(a) \/ Chats!Quit(a) \/ Chats!Saved(a)
  BY <1>7, OfflineSettles, QuitSettles, SavedSettles
<1>8. CASE Chats!SpeakerCrash
  <2>1. /\ budget.crash > 0 /\ budget' = [budget EXCEPT !.crash = @ - 1]
        /\ UNCHANGED << gate, ag, players, inbox >>
    BY <1>8 DEF Chats!SpeakerCrash
  <2>2. budget' \in ChatBudget /\ budget'.world = budget.world
    BY <2>1, BudgetUsed DEF PlayerInv
  <2>3. PlayerTypes'
    BY <2>1, <2>2 DEF PlayerInv, PlayerTypes
  <2>4. \A n \in Node, u \in Uuid : Here(n, u)' = Here(n, u)
    BY <2>1 DEF Here
  <2>5. Settled => Settled'
    BY <2>1, <2>4 DEF Settled
  <2>6. AgentsServe => AgentsServe'
    BY <2>1 DEF AgentsServe, AgentOK, ServedBy
  <2> QED
    BY <2>2, <2>3, <2>5, <2>6 DEF PlayerInv
<1> QED
  BY <1>1, <1>2, <1>3, <1>4, <1>5, <1>6, <1>7, <1>8 DEF Chats!Next


-----------------------------------------------------------------------------

\* The parts of a line, one after the other.
LineOf(H, W, C, S) == << H, W >> \o C \o << S >>

LEMMA LineParts ==
  ASSUME NEW H \in Numbers, NEW W \in Numbers, NEW C \in Seq(Numbers), NEW S \in Numbers,
         LineOK(H, W, C, S)
  PROVE  /\ \A k \in DOMAIN LineOf(H, W, C, S) : Grows(LineOf(H, W, C, S)[k])
         /\ \A k, l \in DOMAIN LineOf(H, W, C, S) :
              k < l => Precedes(LineOf(H, W, C, S)[k], LineOf(H, W, C, S)[l])
         /\ UNION {Elems(LineOf(H, W, C, S)[k]) : k \in DOMAIN LineOf(H, W, C, S)} = All(H, W, C, S)
<1> DEFINE p == LineOf(H, W, C, S)
<1> DEFINE N == Len(C)
           a == << H, W >>
           b == a \o C
<1>1. /\ N \in Nat /\ DOMAIN C = 1 .. N
      /\ a \in Seq(Numbers) /\ Len(a) = 2 /\ a[1] = H /\ a[2] = W
      /\ << S >> \in Seq(Numbers) /\ Len(<< S >>) = 1 /\ << S >>[1] = S
  OBVIOUS
<1> DEFINE c == << S >>
<1> HIDE DEF a, c, N
<1>2. /\ b \in Seq(Numbers) /\ Len(b) = 2 + N /\ b[1] = H /\ b[2] = W
      /\ \A i \in 1 .. N : b[i + 2] = C[i]
  <2>1. Len(C) = N
    BY DEF N
  <2>2. /\ b \in Seq(Numbers) /\ Len(b) = Len(a) + Len(C)
        /\ \A i \in 1 .. Len(a) : b[i] = a[i]
        /\ \A i \in 1 .. Len(C) : b[i + Len(a)] = C[i]
    <3>1. a \in Seq(Numbers) /\ C \in Seq(Numbers)
      BY <1>1
    <3> QED
      BY <3>1
  <2>3. 1 \in 1 .. Len(a) /\ 2 \in 1 .. Len(a)
    BY <1>1
  <2> HIDE DEF b
  <2> QED
    BY <1>1, <2>1, <2>2, <2>3
<1> HIDE DEF b
<1>3. p = b \o c
  BY DEF a, b, c, LineOf
<1> HIDE DEF p
<1>4. Len(c) = 1 /\ c[1] = S /\ c \in Seq(Numbers)
  BY <1>1 DEF c
<1>5. /\ DOMAIN p = 1 .. N + 3
      /\ \A k \in 1 .. N + 2 : p[k] = b[k]
      /\ p[N + 3] = S
  <2>1. N + 2 \in Nat /\ Len(b) = N + 2 /\ (N + 2) + 1 = N + 3 /\ 1 + (N + 2) = N + 3 /\ 1 \in 1 .. 1
    BY <1>1, <1>2
  <2>2. /\ p \in Seq(Numbers) /\ Len(p) = Len(b) + Len(c)
        /\ \A i \in 1 .. Len(b) : p[i] = b[i]
        /\ \A i \in 1 .. Len(c) : p[i + Len(b)] = c[i]
    <3>1. b \in Seq(Numbers) /\ c \in Seq(Numbers)
      BY <1>2, <1>4
    <3> QED
      BY <1>3, <3>1
  <2>3. p[1 + (N + 2)] = c[1]
    BY <1>4, <2>1, <2>2
  <2>4. p \in Seq(Numbers) /\ Len(p) = N + 3 /\ \A i \in 1 .. N + 2 : p[i] = b[i]
    BY <1>4, <2>1, <2>2
  <2> QED
    BY <1>4, <2>1, <2>3, <2>4
<1>6. p[1] = H /\ p[2] = W /\ 1 \in DOMAIN p /\ 2 \in DOMAIN p /\ N + 3 \in DOMAIN p
  <2>1. 1 \in 1 .. N + 2 /\ 2 \in 1 .. N + 2
    BY <1>1
  <2> QED
    BY <1>1, <1>2, <1>5, <2>1
<1>7. ASSUME NEW i \in DOMAIN C PROVE i + 2 \in DOMAIN p /\ p[i + 2] = C[i]
  <2>1. i \in 1 .. N /\ i + 2 \in 1 .. N + 2
    BY <1>1
  <2> QED
    BY <1>1, <1>2, <1>5, <2>1
<1>8. ASSUME NEW k \in DOMAIN p
      PROVE  /\ k \in Int
             /\ \/ k = 1
                \/ k = 2
                \/ 2 < k /\ k < N + 3 /\ k - 2 \in DOMAIN C /\ p[k] = C[k - 2]
                \/ k = N + 3
  <2>1. k \in Int /\ 1 <= k /\ k <= N + 3
    BY <1>1, <1>5
  <2>2. CASE 2 < k /\ k < N + 3
    <3>1. k - 2 \in DOMAIN C /\ (k - 2) + 2 = k
      BY <1>1, <2>1, <2>2
    <3> QED
      BY <1>7, <2>1, <2>2, <3>1
  <2> QED
    BY <1>1, <2>1, <2>2
<1>9. ASSUME NEW k \in DOMAIN p PROVE Grows(p[k])
  BY <1>5, <1>6, <1>8 DEF LineOK
<1>10. ASSUME NEW k \in DOMAIN p, NEW l \in DOMAIN p, k < l PROVE Precedes(p[k], p[l])
  <2>1. k \in Int /\ l \in Int /\ 1 <= k /\ l <= N + 3 /\ N \in Nat
    BY <1>1, <1>5, <1>8
  <2>2. CASE k = 1
    <3>1. l # 1
      BY <1>10, <2>1, <2>2
    <3> QED
      BY <1>5, <1>6, <1>8, <2>2, <3>1 DEF LineOK
  <2>3. CASE k = 2
    <3>1. l # 1 /\ l # 2
      BY <1>10, <2>1, <2>3
    <3> QED
      BY <1>5, <1>6, <1>8, <2>3, <3>1 DEF LineOK
  <2>4. CASE 2 < k /\ k < N + 3 /\ k - 2 \in DOMAIN C /\ p[k] = C[k - 2]
    <3>1. l # 1 /\ l # 2 /\ k - 2 < l - 2
      BY <1>10, <2>1, <2>4
    <3> QED
      BY <1>5, <1>8, <2>4, <3>1 DEF LineOK
  <2>5. k # N + 3
    BY <1>10, <2>1
  <2> QED
    BY <1>8, <2>2, <2>3, <2>4, <2>5
<1>11. UNION {Elems(p[k]) : k \in DOMAIN p} = All(H, W, C, S)
  <2>1. ASSUME NEW k \in DOMAIN p PROVE Elems(p[k]) \subseteq All(H, W, C, S)
    BY <1>5, <1>6, <1>8 DEF All, InCalls
  <2>2. InCalls(C) \subseteq UNION {Elems(p[k]) : k \in DOMAIN p}
    BY <1>7 DEF InCalls
  <2>3. Elems(H) \cup Elems(W) \cup Elems(S) \subseteq UNION {Elems(p[k]) : k \in DOMAIN p}
    BY <1>5, <1>6
  <2> QED
    BY <2>1, <2>2, <2>3 DEF All
<1> QED
  BY <1>9, <1>10, <1>11 DEF p

LEMMA LineInOrder == ASSUME MessageInv PROVE Chats!InOrder
<1> SUFFICES ASSUME NEW n \in Node, NEW ch \in Channel,
                    NEW p, p = Chats!Parts(n, ch)
             PROVE  /\ \A k \in DOMAIN p : Grows(p[k])
                    /\ \A k, l \in DOMAIN p : k < l => Precedes(p[k], p[l])
                    /\ UNION {Elems(p[k]) : k \in DOMAIN p} = Elems(spoken[ch]) \ unheard[n]
  BY DEF Chats!InOrder, Chats!ToSet, Grows, Precedes, Elems
<1> DEFINE H == handled[n][ch]
           W == Kept(n, ch)
           C == OfChannel(calls[n], ch)
           S == chat_cache[ch]
<1>1. p = LineOf(H, W, C, S)
  BY DEF Chats!Parts, Kept, OfChannel, LineOf
<1>2. H \in Numbers /\ W \in Numbers /\ C \in Seq(Numbers) /\ S \in Numbers
  BY MessageTyped, OfChannelSeq DEF MessageInv
<1>3. LineOK(H, W, C, S) /\ All(H, W, C, S) = Elems(spoken[ch]) \ unheard[n]
  BY DEF MessageInv, Reached, Line, Reaches
<1> HIDE DEF H, W, C, S
<1>4. /\ \A k \in DOMAIN p : Grows(p[k])
      /\ \A k, l \in DOMAIN p : k < l => Precedes(p[k], p[l])
      /\ UNION {Elems(p[k]) : k \in DOMAIN p} = All(H, W, C, S)
  BY <1>1, <1>2, <1>3, LineParts
<1> QED
  BY <1>3, <1>4

LEMMA PlayersSubscribed ==
  ASSUME live \subseteq Node, PlayerInv, budget.world = {}
  PROVE  Chats!Subscriptions
<1> SUFFICES ASSUME NEW n \in Node, inbox[n] = << >>, ~Chats!Settling(n)
             PROVE  players[n] = [u \in Uuid |-> Chats!Present(n, u)]
  BY DEF Chats!Subscriptions
<1>1. PlayerTypes /\ AgentsServe /\ players[n] \in Served
  BY DEF PlayerInv, PlayerTypes
<1>2. ASSUME NEW u \in Uuid PROVE Here(n, u) = Chats!Present(n, u)
  <2>1. CASE gate[u].st # "out" /\ Home[gate[u].agent] = n
    <3>1. PICK a \in Agent : gate[u].agent = a
      BY <1>1, <2>1 DEF PlayerTypes, Gate
    <3>2. AgentOK(a) /\ ServedBy(u, a) /\ None \notin Uuid
      BY <1>1, <2>1, <3>1, ServicesAssumption DEF AgentsServe, ServedBy, Chats!Constants
    <3>3. ag[a].load # "online" /\ ag[a].close \notin {"offline", "quit"}
      BY <2>1, <3>1 DEF Chats!Settling
    <3>4. gate[u].st = "in" => (ag[a].role = u <=> Told(ag[a], u))
      <4>1. ASSUME gate[u].st = "in", ag[a].role = u PROVE ag[a].load = "none"
        BY <1>1, <3>2, <3>3, <4>1 DEF AgentOK, InOK, PlayerTypes, AgentState
      <4> QED
        BY <3>2, <4>1 DEF AgentOK, InOK, Told
    <3>5. gate[u].st # "in" => ~Told(ag[a], u)
      <4>1. gate[u].st \in {"out", "in", "kicking"}
        BY <1>1 DEF PlayerTypes, Gate
      <4> QED
        BY <2>1, <3>2, <3>3, <4>1 DEF AgentOK, KickOK, Told
    <3> QED
      BY <2>1, <3>1, <3>4, <3>5 DEF Here, Chats!Present
  <2>2. CASE ~(gate[u].st # "out" /\ Home[gate[u].agent] = n)
    BY <2>2 DEF Here, Chats!Present
  <2> QED
    BY <2>1, <2>2
<1>3. \A u \in Uuid : players[n][u] = Here(n, u)
  BY SettlesEmpty DEF PlayerInv, Settled
<1> QED
  BY <1>1, <1>2, <1>3 DEF Served

\* Every number is in one place of a node's line, or the node missed it; and
\* what is on its way about a player settles which agent serves that player
\* there, and by which connection.
THEOREM ChatInductive == Chats!Spec => [](live \subseteq Node /\ MessageInv /\ PlayerInv)
<1> USE DEF Chats!speaker, Chats!listener, Chats!agents, Chats!history
<1>1. Chats!Init => live \subseteq Node /\ MessageInv /\ PlayerInv
  BY MessagesInit, PlayersInit DEF Chats!Init
<1>2. live \subseteq Node /\ MessageInv /\ PlayerInv /\ [Chats!Next]_(Chats!vars)
        => (live \subseteq Node /\ MessageInv /\ PlayerInv)'
  <2> SUFFICES ASSUME live \subseteq Node, MessageInv, PlayerInv, [Chats!Next]_(Chats!vars)
               PROVE  (live \subseteq Node)' /\ MessageInv' /\ PlayerInv'
    OBVIOUS
  <2>1. CASE Chats!Next
    <3>1. live' \subseteq Node
      BY <2>1
      DEF Chats!Next, Chats!new_chat, Chats!dispatch, Chats!register_listener, Chats!Dispatched,
          Chats!update_world_chat, Chats!Subscribed, Chats!Crash, Chats!Restart, Chats!Login,
          Chats!Start, Chats!LoadRole, Chats!LoadGot, Chats!Online, Chats!Kick,
          Chats!IdleLogout, Chats!Offline, Chats!Quit, Chats!Saved, Chats!SpeakerCrash
    <3> QED
      BY <2>1, <3>1, MessageStep, PlayerStep
  <2>2. CASE UNCHANGED Chats!vars
    BY <2>2, MessagesFramed, PlayersFramed DEF Chats!vars
  <2> QED
    BY <2>1, <2>2
<1> QED
  BY <1>1, <1>2, PTL DEF Chats!Spec

(* chat_speaker.lua:40-62, chat_listener.lua:51-102, chat_api.lua:121-130: for *)
(* any nodes, agents, channels, roles, chunk size and numbers of messages and *)
(* crashes, a registered node gets each message once and in order, and, where *)
(* nothing complicates the sessions, knows as players those whose roles are   *)
(* loaded there, by the agent and the connection that serves each.          *)
THEOREM ChatDelivered == Chats!Spec => []Delivered
<1>1. live \subseteq Node /\ MessageInv /\ PlayerInv => Delivered
  <2> SUFFICES ASSUME live \subseteq Node, MessageInv, PlayerInv
               PROVE  Chats!InOrder /\ (budget.world = {} => Chats!Subscriptions)
    BY DEF Delivered, Chats!Delivered
  <2> QED
    BY LineInOrder, PlayersSubscribed
<1> QED
  BY <1>1, ChatInductive, PTL

-----------------------------------------------------------------------------

(* In the composition each service runs as its own specification says: what   *)
(* is proved of that holds of the composition that the run checks.           *)
THEOREM Composition == SSpec => Spec /\ Server!Spec /\ Mails!Spec /\ Chats!Spec
<1>1. SInit => Init /\ Server!Init /\ Mails!Init /\ Chats!Init
  BY DEF SInit
<1>2. [SNext]_svars => [Next]_vars
  BY DEF SNext, svars
<1>3. [SNext]_svars => [Server!Next]_(Server!vars)
  BY DEF SNext, svars, clients, Server!vars
<1>4. [SNext]_svars => [Mails!Next]_(Mails!vars)
  BY DEF SNext, svars, mails, Mails!vars, Mails!pulls
<1>5. [SNext]_svars => [Chats!Next]_(Chats!vars)
  BY DEF SNext, svars, chat, Chats!vars, Chats!speaker, Chats!listener, Chats!agents, Chats!history
<1> QED
  BY <1>1, <1>2, <1>3, <1>4, <1>5, PTL DEF SSpec, Spec, Server!Spec, Mails!Spec, Chats!Spec
=============================================================================
