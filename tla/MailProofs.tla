----------------------------- MODULE MailProofs -----------------------------
(***************************************************************************)
(* Proofs about the mailbox service (module Mail), for any mailboxes, mails   *)
(* and worlds: its types, and that the cache loses and repeats no mail as    *)
(* long as the mailboxes fit into it.                                       *)
(***************************************************************************)
EXTENDS Mail, SequenceTheorems, FiniteSetTheorems, WellFoundedInduction, TLAPS

(* Induction over the natural numbers in a set.                             *)
LEMMA SetInduction ==
  ASSUME NEW S, 0 \in S, \A n \in Nat : n \in S => n + 1 \in S
  PROVE  Nat \subseteq S
<1> DEFINE R == {ss \in Nat \X Nat : ss[1] < ss[2]}
           T == Nat \ S
<1>1. IsWellFoundedOn(R, Nat)
  BY NatLessThanWellFounded DEF OpToRel
<1>2. SUFFICES ASSUME T # {} PROVE FALSE
  OBVIOUS
<1>3. PICK x \in T : \A y \in T : ~ (<<y, x>> \in R)
  <2> HIDE DEF R, T
  <2>1. T \subseteq Nat
    BY DEF T
  <2> QED
    BY <1>1, <1>2, <2>1, WFMin
<1>4. x # 0 /\ x - 1 \in Nat
  OBVIOUS
<1>5. <<x - 1, x>> \in R
  BY <1>4
<1>6. x - 1 \in S
  BY <1>3, <1>4, <1>5
<1> QED
  BY <1>4, <1>6

(* The least element of a set of numbers is in it.                          *)
LEMMA MinIn ==
  ASSUME NEW S, S \subseteq Nat, S # {}
  PROVE  Min(S) \in S
<1> DEFINE R == {ss \in Nat \X Nat : ss[1] < ss[2]}
<1>1. IsWellFoundedOn(R, Nat)
  BY NatLessThanWellFounded DEF OpToRel
<1>2. PICK x \in S : \A y \in S : ~ (<<y, x>> \in R)
  <2> HIDE DEF R
  <2> QED
    BY <1>1, WFMin
<1>3. ASSUME NEW y \in S PROVE x <= y
  <2>1. x \in Nat /\ y \in Nat /\ ~ (<<y, x>> \in R)
    BY <1>2
  <2>2. ~ (y < x)
    BY <2>1
  <2> QED
    BY <2>1, <2>2
<1> QED
  BY <1>2, <1>3 DEF Min

-----------------------------------------------------------------------------
(* What pull_mails returns: mails, no more than there are; and the first      *)
(* mails of the list, if none has expired.                                  *)

PullFcn(f, mails, n) ==
  f = [i \in 0 .. n |->
         IF i = 0 THEN << >>
         ELSE IF mails[i] \in expired \/ Len(f[i - 1]) = MAILBOX_LIMIT THEN f[i - 1]
         ELSE Append(f[i - 1], mails[i])]

Heads(s, mails) == \A j \in 1 .. Len(s) : s[j] = mails[j]

LEMMA PullAt ==
  ASSUME NEW mails, NEW n \in Nat, NEW f, PullFcn(f, mails, n)
  PROVE  \A i \in 0 .. n :
           f[i] = IF i = 0 THEN << >>
                  ELSE IF mails[i] \in expired \/ Len(f[i - 1]) = MAILBOX_LIMIT THEN f[i - 1]
                  ELSE Append(f[i - 1], mails[i])
<1>1. PICK h : h = [i \in 0 .. n |->
         IF i = 0 THEN << >>
         ELSE IF mails[i] \in expired \/ Len(f[i - 1]) = MAILBOX_LIMIT THEN f[i - 1]
         ELSE Append(f[i - 1], mails[i])]
  OBVIOUS
<1>2. \A i \in 0 .. n :
        h[i] = IF i = 0 THEN << >>
               ELSE IF mails[i] \in expired \/ Len(f[i - 1]) = MAILBOX_LIMIT THEN f[i - 1]
               ELSE Append(f[i - 1], mails[i])
  BY <1>1
<1>3. f = h
  BY <1>1 DEF PullFcn
<1> QED
  BY <1>2, <1>3

LEMMA PullExists ==
  ASSUME NEW mails, NEW n \in Nat
  PROVE  \E f : PullFcn(f, mails, n)
<1> DEFINE T == {k \in Nat : \E f : PullFcn(f, mails, k)}
<1>1. 0 \in T
  <2>1. PICK f : f = [i \in 0 .. 0 |-> << >>]
    OBVIOUS
  <2>2. PullFcn(f, mails, 0)
    BY <2>1 DEF PullFcn
  <2> QED
    BY <2>2
<1>2. ASSUME NEW k \in Nat, k \in T PROVE k + 1 \in T
  <2>1. PICK f : PullFcn(f, mails, k)
    BY <1>2
  <2>2. PICK e : e = mails[k + 1]
    OBVIOUS
  <2>3. PICK last : last = IF e \in expired \/ Len(f[k]) = MAILBOX_LIMIT THEN f[k]
                           ELSE Append(f[k], e)
    OBVIOUS
  <2>4. PICK g : g = [i \in 0 .. k + 1 |-> IF i = k + 1 THEN last ELSE f[i]]
    OBVIOUS
  <2>5. ASSUME NEW i \in 0 .. k + 1
        PROVE  g[i] = IF i = 0 THEN << >>
                      ELSE IF mails[i] \in expired \/ Len(g[i - 1]) = MAILBOX_LIMIT THEN g[i - 1]
                      ELSE Append(g[i - 1], mails[i])
    <3>1. CASE i = k + 1
      <4>1. g[i] = last /\ i # 0 /\ g[i - 1] = f[k] /\ mails[i] = e
        BY <2>2, <2>4, <3>1
      <4>2. CASE e \in expired \/ Len(f[k]) = MAILBOX_LIMIT
        <5>1. last = f[k]
          BY <2>3, <4>2
        <5> QED
          BY <4>1, <4>2, <5>1
      <4>3. CASE ~ (e \in expired \/ Len(f[k]) = MAILBOX_LIMIT)
        <5>1. last = Append(f[k], e)
          BY <2>3, <4>3
        <5> QED
          BY <4>1, <4>3, <5>1
      <4> QED
        BY <4>2, <4>3
    <3>2. CASE i \in 0 .. k
      <4>1. g[i] = f[i] /\ (i # 0 => g[i - 1] = f[i - 1])
        BY <2>4, <3>2
      <4>2. f[i] = IF i = 0 THEN << >>
                   ELSE IF mails[i] \in expired \/ Len(f[i - 1]) = MAILBOX_LIMIT THEN f[i - 1]
                   ELSE Append(f[i - 1], mails[i])
        BY <2>1, <3>2, PullAt
      <4> QED
        BY ONLY <4>1, <4>2
    <3> QED
      BY <3>1, <3>2
  <2>6. PullFcn(g, mails, k + 1)
    BY <2>4, <2>5 DEF PullFcn
  <2> QED
    BY <2>6
<1>3. Nat \subseteq T
  <2> HIDE DEF T
  <2> QED
    BY <1>1, <1>2, SetInduction
<1> QED
  BY <1>3

LEMMA PullSound ==
  ASSUME NEW mails \in Seq(Mail), NEW f, PullFcn(f, mails, Len(mails))
  PROVE  \A i \in 0 .. Len(mails) :
           f[i] \in Seq(Mail) /\ Len(f[i]) <= i /\ (expired = {} => Heads(f[i], mails))
<1> DEFINE T == {k \in Nat : k \in 0 .. Len(mails) =>
                   f[k] \in Seq(Mail) /\ Len(f[k]) <= k
                   /\ (expired = {} => Heads(f[k], mails)
                        /\ (Len(f[k]) = k \/ Len(f[k]) = MAILBOX_LIMIT))}
<1>1. 0 \in T
  <2>1. f[0] = << >>
    BY PullAt
  <2>2. << >> \in Seq(Mail) /\ Len(<< >>) = 0
    OBVIOUS
  <2>3. Heads(<< >>, mails)
    BY <2>2 DEF Heads
  <2>4. f[0] \in Seq(Mail) /\ Len(f[0]) <= 0 /\ Heads(f[0], mails) /\ Len(f[0]) = 0
    BY <2>1, <2>2, <2>3
  <2> QED
    BY <2>4
<1>2. ASSUME NEW k \in Nat, k \in T PROVE k + 1 \in T
  <2> SUFFICES ASSUME k + 1 \in 0 .. Len(mails)
               PROVE  /\ f[k + 1] \in Seq(Mail) /\ Len(f[k + 1]) <= k + 1
                      /\ expired = {} => Heads(f[k + 1], mails)
                           /\ (Len(f[k + 1]) = k + 1 \/ Len(f[k + 1]) = MAILBOX_LIMIT)
    OBVIOUS
  <2>1. PICK s \in Seq(Mail) : s = f[k] /\ Len(s) <= k
                 /\ (expired = {} => Heads(s, mails) /\ (Len(s) = k \/ Len(s) = MAILBOX_LIMIT))
    BY <1>2
  <2>2. PICK e \in Mail : e = mails[k + 1]
    OBVIOUS
  <2>3. f[k + 1] = IF e \in expired \/ Len(s) = MAILBOX_LIMIT THEN s ELSE Append(s, e)
    <3>1. PICK j \in 0 .. Len(mails) : j = k + 1
      OBVIOUS
    <3>2. f[j] = IF j = 0 THEN << >>
                 ELSE IF mails[j] \in expired \/ Len(f[j - 1]) = MAILBOX_LIMIT THEN f[j - 1]
                 ELSE Append(f[j - 1], mails[j])
      BY PullAt
    <3> QED
      BY <2>1, <2>2, <3>1, <3>2
  <2>4. CASE e \in expired \/ Len(s) = MAILBOX_LIMIT
    BY <2>1, <2>3, <2>4
  <2>5. CASE ~ (e \in expired \/ Len(s) = MAILBOX_LIMIT)
    <3>1. PICK t \in Seq(Mail) : /\ t = Append(s, e) /\ Len(t) = Len(s) + 1 /\ t[Len(s) + 1] = e
                                 /\ \A i \in 1 .. Len(s) : t[i] = s[i]
      <4>1. /\ Append(s, e) \in Seq(Mail) /\ Len(Append(s, e)) = Len(s) + 1
            /\ \A i \in 1 .. Len(s) : Append(s, e)[i] = s[i]
            /\ Append(s, e)[Len(s) + 1] = e
        BY AppendProperties
      <4> QED
        BY ONLY <4>1
    <3>2. f[k + 1] = t
      BY <2>3, <2>5, <3>1
    <3>3. ASSUME expired = {} PROVE Heads(t, mails) /\ Len(t) = k + 1
      BY <2>1, <2>2, <2>5, <3>1, <3>3 DEF Heads
    <3> QED
      BY <2>1, <3>1, <3>2, <3>3
  <2> QED
    BY <2>4, <2>5
<1>3. Nat \subseteq T
  <2> HIDE DEF T
  <2> QED
    BY <1>1, <1>2, SetInduction
<1> QED
  BY <1>3

LEMMA PulledSound ==
  ASSUME NEW mails \in Seq(Mail)
  PROVE  /\ Pulled(mails) \in Seq(Mail) /\ Len(Pulled(mails)) <= Len(mails)
         /\ expired = {} => Heads(Pulled(mails), mails)
<1>1. PICK n \in Nat : n = Len(mails)
  OBVIOUS
<1>2. PICK g : g = CHOOSE f : PullFcn(f, mails, n)
  OBVIOUS
<1>3. PullFcn(g, mails, n)
  BY <1>2, PullExists
<1>4. Pulled(mails) = g[n]
  BY <1>1, <1>2 DEF Pulled, PullFcn
<1> QED
  BY <1>1, <1>3, <1>4, PullSound

(* The head and the rest of a list are the list.                            *)
LEMMA HeadAndRest ==
  ASSUME NEW S, NEW s \in Seq(S), NEW h \in Seq(S), Len(h) <= Len(s), Heads(h, s)
  PROVE  /\ SubSeq(s, Len(h) + 1, Len(s)) \in Seq(S)
         /\ h \o SubSeq(s, Len(h) + 1, Len(s)) = s
<1>1. PICK n \in Nat, k \in Nat : n = Len(s) /\ k = Len(h)
  OBVIOUS
<1>2. PICK t \in Seq(S) : /\ t = SubSeq(s, k + 1, n) /\ Len(t) = n - k
                          /\ \A i \in 1 .. n - k : t[i] = s[k + i]
  <2>1. \A i \in k + 1 .. n : s[i] \in S
    BY <1>1
  <2>2. /\ SubSeq(s, k + 1, n) \in Seq(S)
        /\ Len(SubSeq(s, k + 1, n)) = IF k + 1 <= n THEN n - (k + 1) + 1 ELSE 0
        /\ \A i \in 1 .. n - (k + 1) + 1 : SubSeq(s, k + 1, n)[i] = s[(k + 1) + i - 1]
    BY <2>1, SubSeqProperties
  <2>3. k <= n
    BY <1>1
  <2>4. /\ Len(SubSeq(s, k + 1, n)) = n - k
        /\ \A i \in 1 .. n - k : SubSeq(s, k + 1, n)[i] = s[k + i]
    BY <2>2, <2>3
  <2> QED
    BY ONLY <2>2, <2>4
<1>3. /\ h \o t \in Seq(S) /\ Len(h \o t) = n
      /\ \A i \in 1 .. n : (h \o t)[i] = IF i <= k THEN h[i] ELSE t[i - k]
  BY <1>1, <1>2, ConcatProperties
<1>4. ASSUME NEW i \in 1 .. n PROVE (h \o t)[i] = s[i]
  BY <1>1, <1>2, <1>3 DEF Heads
<1>5. h \o t = s
  BY <1>1, <1>3, <1>4, SeqEqual
<1> QED
  BY <1>1, <1>2, <1>5

-----------------------------------------------------------------------------
(* Types.                                                                   *)

ObjState == [box : Box \cup {None}, mails : Seq(Mail), access : Time, saved : Time]
Req == [kind : {"send"}, box : Box, mail : Mail] \cup [kind : {"pull"}, box : Box, mail : {0}]
Pending == [req : Req, st : {"get", "got"}, row : Seq(Mail)]
Round == [st : {"none", "save", "set", "sleep", "done", "dead"}, dump : Seq(Mail)]
Lists == [Box -> Seq(Mail)]

GcTyped ==
  /\ collector \in {"nobody", "swap", "update", "exit"}
  /\ round \in [Obj -> Round]
  /\ exit \in {"no", "wait", "gc", "done"}

Typed ==
  /\ world \in Worlds
  /\ hot \subseteq Obj /\ cold \subseteq Obj /\ gc \subseteq Obj
  /\ obj \in [Obj -> ObjState]
  /\ GcTyped
  /\ reqs \subseteq Pending
  /\ row \in Lists /\ accepted \in Lists /\ taken \in Lists
  /\ expired \subseteq Mail
  /\ sent \in 0 .. MaxMail[world]
  /\ \A o \in Live \cup InRound : obj[o].box \in Box

LEMMA BlankTyped == Blank \in ObjState /\ NotInRound \in Round
<1>1. << >> \in Seq(Mail)
  OBVIOUS
<1> QED
  BY <1>1 DEF Blank, NotInRound, ObjState, Round, Time

LEMMA RoundsStart ==
  ASSUME NEW g, g \subseteq Obj
  PROVE  /\ Items(g) \in [Obj -> Round]
         /\ \A o \in Obj : Items(g)[o].st = IF o \in g THEN "save" ELSE "none"
<1>1. \A o \in Obj : Items(g)[o] = IF o \in g THEN [NotInRound EXCEPT !.st = "save"] ELSE NotInRound
  BY DEF Items
<1>2. [NotInRound EXCEPT !.st = "save"] \in Round /\ [NotInRound EXCEPT !.st = "save"].st = "save"
      /\ NotInRound.st = "none"
  BY BlankTyped DEF NotInRound, Round
<1>3. Items(g) \in [Obj -> Round]
  BY <1>1, <1>2, BlankTyped DEF Items
<1> QED
  BY <1>1, <1>2, <1>3

(* A collection starts with the items of g, or nothing changes.              *)
LEMMA GcEffect ==
  ASSUME GcTyped, NEW g, g \subseteq Obj, NEW by \in {"swap", "update"}, Gc(g, by)
  PROVE  /\ GcTyped' /\ exit' = exit
         /\ \/ UNCHANGED << collector, round >>
            \/ /\ collector = "nobody" /\ collector' = by
               /\ \A o \in Obj : round'[o].st = IF o \in g THEN "save" ELSE "none"
         /\ InRound' \subseteq InRound \cup g
<1>1. CASE UNCHANGED gcvars
  BY <1>1 DEF gcvars, GcTyped, InRound
<1>2. CASE collector = "nobody" /\ collector' = by /\ round' = Items(g) /\ UNCHANGED exit
  <2>1. round' \in [Obj -> Round] /\ \A o \in Obj : round'[o].st = IF o \in g THEN "save" ELSE "none"
    BY <1>2, RoundsStart
  <2> QED
    BY <1>2, <2>1 DEF GcTyped, InRound
<1> QED
  BY <1>1, <1>2 DEF Gc

(* Where the mailboxes are after add_hot.                                    *)
LEMMA AddHotEffect ==
  ASSUME Typed, NEW o \in Obj, NEW c, c \subseteq cold, NEW g, g \subseteq gc, AddHot(o, c, g)
  PROVE  /\ hot' \subseteq Obj /\ cold' \subseteq Obj /\ gc' = g
         /\ hot' \subseteq hot \cup {o} /\ hot' \cup cold' \subseteq hot \cup {o} \cup c
         /\ o \in hot' \cup cold' /\ hot \subseteq hot' \cup cold'
         /\ Live' \cup InRound' \subseteq Live \cup InRound \cup {o}
         /\ Live' \subseteq hot \cup {o} \cup c \cup g
         /\ GcTyped' /\ exit' = exit
         /\ \/ UNCHANGED << collector, round >>
            \/ /\ collector = "nobody" /\ collector' = "swap"
               /\ \A p \in Obj : round'[p].st = IF p \in g THEN "save" ELSE "none"
         /\ InRound' \subseteq InRound \cup g
<1>1. g \subseteq Obj /\ c \subseteq Obj /\ GcTyped
  BY DEF Typed
<1>2. UNCHANGED gcvars \/ Gc(g, "swap")
  BY DEF AddHot
<1>3. /\ GcTyped' /\ exit' = exit
      /\ \/ UNCHANGED << collector, round >>
         \/ /\ collector = "nobody" /\ collector' = "swap"
            /\ \A p \in Obj : round'[p].st = IF p \in g THEN "save" ELSE "none"
      /\ InRound' \subseteq InRound \cup g
  <2>1. CASE UNCHANGED gcvars
    BY <1>1, <2>1 DEF gcvars, GcTyped, InRound
  <2>2. CASE Gc(g, "swap")
    BY <1>1, <2>2, GcEffect
  <2> QED
    BY <1>2, <2>1, <2>2
<1>4. /\ hot' \subseteq Obj /\ cold' \subseteq Obj /\ gc' = g
      /\ hot' \subseteq hot \cup {o} /\ hot' \cup cold' \subseteq hot \cup {o} \cup c
      /\ o \in hot' \cup cold' /\ hot \subseteq hot' \cup cold'
  BY <1>1 DEF AddHot, Typed
<1> QED
  BY <1>3, <1>4 DEF Live

(* What a request does to the mails, and the histories.                      *)
Served(r, o, x, put, out, rest) ==
  /\ Len(out) <= Len(x.mails)
  /\ expired = {} => out \o SubSeq(x.mails, Len(out) + 1, Len(x.mails)) = x.mails
  /\ rest = SubSeq(x.mails, Len(out) + 1, Len(x.mails)) \o put
  /\ Objects([obj EXCEPT ![o] = [x EXCEPT !.mails = rest]])
  /\ accepted' = [accepted EXCEPT ![r.box] = @ \o put]
  /\ taken' = [taken EXCEPT ![r.box] = @ \o out]

LEMMA ServeEffect ==
  ASSUME NEW r \in Req, NEW o \in Obj, NEW x \in ObjState, Serve(r, o, x)
  PROVE  \E put, out, rest \in Seq(Mail) : Served(r, o, x, put, out, rest)
<1>1. PICK m \in Seq(Mail) : m = x.mails
  BY DEF ObjState
<1>2. PICK put : put = IF r.kind = "send" THEN Sent(r, m) ELSE << >>
  OBVIOUS
<1>3. PICK out : out = IF r.kind = "pull" THEN Pulled(m) ELSE << >>
  OBVIOUS
<1>4. put \in Seq(Mail)
  <2>1. r.kind = "send" => r.mail \in Mail
    BY DEF Req
  <2> QED
    BY <1>2, <2>1 DEF Sent
<1>5. out \in Seq(Mail) /\ Len(out) <= Len(m) /\ (expired = {} => Heads(out, m))
  <2>1. << >> \in Seq(Mail) /\ Len(<< >>) = 0
    OBVIOUS
  <2>2. Heads(<< >>, m)
    BY <2>1 DEF Heads
  <2>3. Len(m) \in Nat
    OBVIOUS
  <2>4. CASE r.kind = "pull"
    BY <1>3, <2>4, PulledSound
  <2>5. CASE r.kind # "pull"
    BY <1>3, <2>1, <2>2, <2>3, <2>5
  <2> QED
    BY <2>4, <2>5
<1>6. PICK tail \in Seq(Mail) : /\ tail = SubSeq(m, Len(out) + 1, Len(m))
                                /\ expired = {} => out \o tail = m
  <2>1. SubSeq(m, Len(out) + 1, Len(m)) \in Seq(Mail)
    <3>1. PICK n \in Nat, k \in Nat : n = Len(m) /\ k = Len(out)
      BY <1>5
    <3>2. \A i \in k + 1 .. n : m[i] \in Mail
      BY <3>1
    <3> QED
      BY <3>1, <3>2, SubSeqProperties
  <2>2. expired = {} => out \o SubSeq(m, Len(out) + 1, Len(m)) = m
    BY <1>5, HeadAndRest
  <2> QED
    BY <2>1, <2>2
<1>7. PICK rest \in Seq(Mail) : rest = tail \o put
  BY <1>4, ConcatProperties
<1>8. Served(r, o, x, put, out, rest)
  BY <1>1, <1>2, <1>3, <1>5, <1>6, <1>7 DEF Serve, Served
<1> QED
  BY <1>4, <1>5, <1>8

LEMMA ObjectsEffect ==
  ASSUME NEW new \in [Obj -> ObjState], Objects(new)
  PROVE  /\ obj' \in [Obj -> ObjState]
         /\ \A o \in Obj : obj'[o] = IF o \in Live' \cup InRound' THEN new[o] ELSE Blank
BY BlankTyped DEF Objects

LEMMA ServedTyped ==
  ASSUME Typed, NEW r \in Req, NEW o \in Obj, NEW x \in ObjState, NEW put \in Seq(Mail),
         NEW out \in Seq(Mail), NEW rest \in Seq(Mail), Served(r, o, x, put, out, rest)
  PROVE  /\ obj' \in [Obj -> ObjState]
         /\ \A p \in Live' \cup InRound' : p \in Obj => obj'[p].box = IF p = o THEN x.box ELSE obj[p].box
         /\ accepted' \in Lists /\ taken' \in Lists
<1>1. PICK y \in ObjState : y = [x EXCEPT !.mails = rest] /\ y.box = x.box
  <2>1. [x EXCEPT !.mails = rest] \in ObjState
    BY DEF ObjState
  <2>2. [x EXCEPT !.mails = rest].box = x.box
    BY DEF ObjState
  <2> QED
    BY <2>1, <2>2
<1>2. PICK new \in [Obj -> ObjState] : new = [obj EXCEPT ![o] = y]
  BY DEF Typed
<1>3. Objects(new)
  BY <1>1, <1>2 DEF Served
<1>4. obj' \in [Obj -> ObjState]
      /\ \A p \in Obj : obj'[p] = IF p \in Live' \cup InRound' THEN new[p] ELSE Blank
  BY <1>3, ObjectsEffect
<1>5. \A p \in Obj : new[p] = IF p = o THEN y ELSE obj[p]
  BY <1>2 DEF Typed
<1>6. accepted' \in Lists /\ taken' \in Lists
  <2>1. accepted[r.box] \o put \in Seq(Mail) /\ taken[r.box] \o out \in Seq(Mail)
    BY ConcatProperties DEF Typed, Lists, Req
  <2> QED
    BY <2>1 DEF Served, Typed, Lists
<1> QED
  BY <1>1, <1>4, <1>5, <1>6

(* What requests change keeps its type.                                      *)
CacheTyped ==
  /\ hot \subseteq Obj /\ cold \subseteq Obj /\ gc \subseteq Obj
  /\ obj \in [Obj -> ObjState]
  /\ GcTyped
  /\ accepted \in Lists /\ taken \in Lists
  /\ \A o \in Live \cup InRound : obj[o].box \in Box

\* The request r is served or fails with the object o, which was x.
Ends(r, o, x) == Serve(r, o, x) \/ Fail(o, x)

LEMMA EndsTyped ==
  ASSUME Typed, NEW r \in Req, NEW o \in Obj, NEW x \in ObjState, x.box \in Box, Ends(r, o, x),
         hot' \subseteq Obj, cold' \subseteq Obj, gc' \subseteq Obj, GcTyped',
         Live' \cup InRound' \subseteq Live \cup InRound \cup {o}
  PROVE  CacheTyped'
<1>1. Live' \cup InRound' \subseteq Obj
  BY DEF Live, InRound
<1>2. \A p \in (Live' \cup InRound') \ {o} : obj[p].box \in Box
  BY DEF Typed
<1>3. CASE Serve(r, o, x)
  <2>1. PICK put \in Seq(Mail) : \E out, rest \in Seq(Mail) : Served(r, o, x, put, out, rest)
    BY <1>3, ServeEffect
  <2>2. PICK out \in Seq(Mail) : \E rest \in Seq(Mail) : Served(r, o, x, put, out, rest)
    BY <2>1
  <2>3. PICK rest \in Seq(Mail) : Served(r, o, x, put, out, rest)
    BY <2>2
  <2>4. /\ obj' \in [Obj -> ObjState]
        /\ \A p \in Live' \cup InRound' : p \in Obj => obj'[p].box = IF p = o THEN x.box ELSE obj[p].box
        /\ accepted' \in Lists /\ taken' \in Lists
    BY <2>3, ServedTyped
  <2> QED
    BY <1>1, <1>2, <2>4 DEF CacheTyped
<1>4. CASE Fail(o, x)
  <2>1. PICK new \in [Obj -> ObjState] : new = [obj EXCEPT ![o] = x]
    BY DEF Typed
  <2>2. Objects(new) /\ accepted' = accepted /\ taken' = taken
    BY <1>4, <2>1 DEF Fail, history
  <2>3. obj' \in [Obj -> ObjState]
        /\ \A p \in Obj : obj'[p] = IF p \in Live' \cup InRound' THEN new[p] ELSE Blank
    BY <2>2, ObjectsEffect
  <2>4. \A p \in Obj : new[p] = IF p = o THEN x ELSE obj[p]
    BY <2>1 DEF Typed
  <2>5. \A p \in Live' \cup InRound' : obj'[p].box \in Box
    BY <1>1, <1>2, <2>3, <2>4
  <2> QED
    BY <2>2, <2>3, <2>5 DEF CacheTyped, Typed
<1> QED
  BY <1>3, <1>4 DEF Ends

LEMMA HitTyped ==
  ASSUME Typed, NEW r \in Req, Hit(r)
  PROVE  CacheTyped'
<1>1. PICK o \in Of(Live, r.box) :
        LET c == cold \ {o}
            g == IF o \in cold THEN gc ELSE gc \ {o}
        IN  /\ IF o \in hot THEN UNCHANGED << maps, gcvars >> ELSE AddHot(o, c, g)
            /\ IF SwapFails(o, c) THEN Fail(o, obj[o])
               ELSE Serve(r, o, [obj[o] EXCEPT !.access = "new"])
  BY DEF Hit
<1>2. o \in Obj /\ o \in Live /\ obj[o] \in ObjState /\ obj[o].box \in Box
  BY DEF Of, Live, Typed
<1>3. PICK x \in ObjState : x.box \in Box /\ Ends(r, o, x)
  <2>1. [obj[o] EXCEPT !.access = "new"] \in ObjState /\ [obj[o] EXCEPT !.access = "new"].box = obj[o].box
    BY <1>2 DEF ObjState, Time
  <2> QED
    BY <1>1, <1>2, <2>1 DEF Ends
<1>4. /\ hot' \subseteq Obj /\ cold' \subseteq Obj /\ gc' \subseteq Obj /\ GcTyped'
      /\ Live' \cup InRound' \subseteq Live \cup InRound \cup {o}
  <2>1. CASE o \in hot
    <3>1. UNCHANGED << maps, gcvars >>
      BY <1>1, <2>1
    <3>2. UNCHANGED << hot, cold, gc, collector, round, exit >>
      BY <3>1 DEF maps, gcvars
    <3>3. Live' = Live /\ InRound' = InRound
      BY <3>2 DEF Live, InRound
    <3>4. GcTyped'
      BY <3>2 DEF GcTyped, Typed
    <3>5. hot \subseteq Obj /\ cold \subseteq Obj /\ gc \subseteq Obj
      BY DEF Typed
    <3> QED
      BY <3>2, <3>3, <3>4, <3>5
  <2>2. CASE o \notin hot
    <3>1. PICK c, g : c \subseteq cold /\ g \subseteq gc /\ AddHot(o, c, g)
      BY <1>1, <2>2
    <3>2. gc \subseteq Obj
      BY DEF Typed
    <3>3. /\ hot' \subseteq Obj /\ cold' \subseteq Obj /\ gc' = g /\ GcTyped'
          /\ Live' \cup InRound' \subseteq Live \cup InRound \cup {o}
      BY <1>2, <3>1, AddHotEffect
    <3> QED
      BY <3>1, <3>2, <3>3
  <2> QED
    BY <2>1, <2>2
<1> QED
  BY <1>2, <1>3, <1>4, EndsTyped

LEMMA RequestTyped ==
  ASSUME Typed, NEW r \in Req, Request(r), sent' \in 0 .. MaxMail[world]
  PROVE  Typed'
<1>1. world' = world /\ row' = row /\ expired' = expired
  BY DEF Request
<1>2. CASE Of(Live, r.box) # {}
  <2>1. CacheTyped' /\ reqs' = reqs
    BY <1>2, HitTyped DEF Request
  <2> QED
    BY <1>1, <2>1 DEF Typed, CacheTyped
<1>3. CASE Of(Live, r.box) = {}
  <2>1. reqs' = reqs \cup {[req |-> r, st |-> "get", row |-> << >>]}
        /\ UNCHANGED << maps, obj, gcvars, history >>
    BY <1>3 DEF Request
  <2>2. << >> \in Seq(Mail)
    OBVIOUS
  <2>3. reqs' \subseteq Pending
    <3>1. [req |-> r, st |-> "get", row |-> << >>] \in Pending
      BY <2>2 DEF Pending
    <3> QED
      BY <2>1, <3>1 DEF Typed
  <2>4. UNCHANGED << hot, cold, gc, obj, collector, round, exit, accepted, taken >>
    BY <2>1 DEF maps, gcvars, history
  <2>5. Live' = Live /\ InRound' = InRound
    BY <2>4 DEF Live, InRound
  <2> QED
    BY <1>1, <2>3, <2>4, <2>5 DEF Typed, GcTyped
<1> QED
  BY <1>2, <1>3

LEMMA ArrivedTyped ==
  ASSUME Typed, NEW q \in reqs, Arrived(q)
  PROVE  Typed'
<1>1. /\ reqs' \subseteq Pending /\ q.req \in Req /\ q.row \in Seq(Mail) /\ q.req.box \in Box
      /\ UNCHANGED << world, row, expired, sent >>
  BY DEF Arrived, Typed, Pending, Req
<1>2. CacheTyped'
  <2>1. CASE Hit(q.req)
    BY <1>1, <2>1, HitTyped
  <2>2. CASE ~ Hit(q.req)
    <3>1. PICK o : /\ o = Min(Obj \ (Live \cup InRound)) /\ Obj # Live \cup InRound
                   /\ AddHot(o, cold, gc)
                   /\ Ends(q.req, o, NewMailbox(q))
      BY <2>2 DEF Arrived, Ends
    <3>2. Live \cup InRound \subseteq Obj
      BY DEF Live, InRound, Typed
    <3>3. o \in Obj
      <4>1. Obj \ (Live \cup InRound) \subseteq Nat /\ Obj \ (Live \cup InRound) # {}
        BY <3>1, <3>2, BoundAssumption DEF Obj
      <4> QED
        BY <3>1, <4>1, MinIn
    <3>4. NewMailbox(q) \in ObjState /\ NewMailbox(q).box \in Box
      BY <1>1, BlankTyped DEF NewMailbox, ObjState, Blank
    <3>5. /\ hot' \subseteq Obj /\ cold' \subseteq Obj /\ gc' = gc /\ GcTyped'
          /\ Live' \cup InRound' \subseteq Live \cup InRound \cup {o}
      BY <3>1, <3>3, AddHotEffect
    <3>6. gc \subseteq Obj
      BY DEF Typed
    <3> QED
      BY <1>1, <3>1, <3>3, <3>4, <3>5, <3>6, EndsTyped
  <2> QED
    BY <2>1, <2>2
<1> QED
  BY <1>1, <1>2 DEF Typed, CacheTyped

(* Typed with the variables but not the maps and rounds unchanged.            *)
LEMMA MapsTyped ==
  ASSUME Typed, UNCHANGED << world, obj, reqs, row, expired, sent, history >>,
         hot' \subseteq Obj, cold' \subseteq Obj, gc' \subseteq Obj, GcTyped',
         Live' \cup InRound' \subseteq Live \cup InRound
  PROVE  Typed'
BY DEF Typed, history

LEMMA UpdateTyped ==
  ASSUME Typed, Update
  PROVE  Typed'
<1>1. UNCHANGED << world, obj, reqs, row, expired, sent, history >>
  BY DEF Update
<1>2. hot' \subseteq hot /\ cold' \subseteq cold /\ gc' \subseteq hot \cup cold \cup gc
  BY DEF Update, AddGc, Due
<1>3. hot' \subseteq Obj /\ cold' \subseteq Obj /\ gc' \subseteq Obj /\ Live' \subseteq Live
  BY <1>2 DEF Typed, Live
<1>4. GcTyped' /\ InRound' \subseteq InRound \cup gc'
  <2>1. UNCHANGED gcvars \/ Gc(gc', "update")
    BY DEF Update
  <2>2. CASE UNCHANGED gcvars
    BY <2>2 DEF gcvars, Typed, GcTyped, InRound
  <2>3. CASE Gc(gc', "update")
    BY <1>3, <2>3, GcEffect DEF Typed
  <2> QED
    BY <2>1, <2>2, <2>3
<1>5. Live' \cup InRound' \subseteq Live \cup InRound
  BY <1>3, <1>4 DEF Live
<1> QED
  BY <1>1, <1>3, <1>4, <1>5, MapsTyped

LEMMA ExitTyped ==
  ASSUME Typed, Exit
  PROVE  Typed'
<1>1. UNCHANGED << world, obj, reqs, row, expired, sent, history >>
  BY DEF Exit
<1>2. hot' = {} /\ cold' = {} /\ gc' \subseteq hot \cup cold \cup gc
  BY DEF Exit, AddGc
<1>3. gc' \subseteq Obj
  BY <1>2 DEF Typed
<1>4. GcTyped' /\ InRound' \subseteq InRound \cup gc'
  <2>1. \/ exit' = "gc" /\ collector' = "exit" /\ round' = Items(gc')
        \/ exit' \in {"done", "wait"} /\ UNCHANGED << collector, round >>
    BY DEF Exit
  <2>2. CASE exit' \in {"done", "wait"} /\ UNCHANGED << collector, round >>
    BY <2>2 DEF Typed, GcTyped, InRound
  <2>3. CASE exit' = "gc" /\ collector' = "exit" /\ round' = Items(gc')
    <3>1. round' \in [Obj -> Round] /\ \A o \in Obj : round'[o].st = IF o \in gc' THEN "save" ELSE "none"
      BY <1>3, <2>3, RoundsStart
    <3> QED
      BY <2>3, <3>1 DEF GcTyped, InRound
  <2> QED
    BY <2>1, <2>2, <2>3
<1>5. Live' \cup InRound' \subseteq Live \cup InRound
  BY <1>2, <1>4 DEF Live
<1> QED
  BY <1>1, <1>2, <1>3, <1>4, <1>5, MapsTyped

LEMMA RoundOverTyped ==
  ASSUME Typed, RoundOver
  PROVE  Typed'
<1>1. UNCHANGED << world, hot, cold, gc, obj, reqs, row, expired, sent, history >>
  BY DEF RoundOver, maps
<1>2. PICK g : /\ g \subseteq gc /\ round' = Items(g)
               /\ collector' \in {collector, "nobody"} /\ exit' \in {exit, "no", "done"}
  BY DEF RoundOver
<1>3. g \subseteq Obj
  BY <1>2 DEF Typed
<1>4. round' \in [Obj -> Round] /\ \A o \in Obj : round'[o].st = IF o \in g THEN "save" ELSE "none"
  BY <1>2, <1>3, RoundsStart
<1>5. GcTyped' /\ InRound' \subseteq gc
  BY <1>2, <1>4 DEF GcTyped, InRound, Typed
<1>6. Live' \cup InRound' \subseteq Live \cup InRound
  BY <1>1, <1>5 DEF Live
<1> QED
  BY <1>1, <1>5, <1>6, MapsTyped DEF Typed

(* An item of the round takes its next step.                                 *)
LEMMA ItemEffect ==
  ASSUME Typed, NEW o \in Obj, NEW from, NEW to \in Round, Item(o, from, to)
  PROVE  /\ GcTyped' /\ round[o].st = from
         /\ \A p \in Obj : round'[p] = IF p = o THEN to ELSE round[p]
         /\ UNCHANGED << world, collector, exit, reqs, expired, sent, accepted, taken >>
BY DEF Item, Typed, GcTyped, history

LEMMA ItemTyped ==
  ASSUME Typed, NEW o \in Obj, GcItem(o)
  PROVE  Typed'
<1>1. obj[o] \in ObjState
  BY DEF Typed
<1>2. CASE Save(o)
  <2>1. PICK to \in Round : to = [st |-> "set", dump |-> obj[o].mails]
    BY <1>1 DEF ObjState, Round
  <2>2. Item(o, "save", to) /\ UNCHANGED << maps, obj, row >>
    BY <1>2, <2>1 DEF Save
  <2>3. /\ GcTyped' /\ round[o].st = "save"
        /\ \A p \in Obj : round'[p] = IF p = o THEN to ELSE round[p]
        /\ UNCHANGED << world, collector, exit, reqs, expired, sent, accepted, taken >>
    BY <2>2, ItemEffect
  <2>4. Live' \cup InRound' \subseteq Live \cup InRound
    BY <2>2, <2>3 DEF maps, Live, InRound
  <2> QED
    BY <2>2, <2>3, <2>4 DEF maps, Typed
<1>3. CASE DbSet(o)
  <2>1. PICK to \in Round : /\ Item(o, "set", to) /\ UNCHANGED << hot, cold, gc >>
                            /\ \/ UNCHANGED << row, obj >>
                               \/ /\ row' = [row EXCEPT ![obj[o].box] = round[o].dump]
                                  /\ obj' = [obj EXCEPT ![o].saved = "new"]
    <3>1. \A st \in {"sleep", "dead"} : [NotInRound EXCEPT !.st = st] \in Round
      BY BlankTyped DEF Round
    <3> QED
      BY <1>3, <3>1 DEF DbSet, maps
  <2>2. /\ GcTyped' /\ round[o].st = "set"
        /\ \A p \in Obj : round'[p] = IF p = o THEN to ELSE round[p]
        /\ UNCHANGED << world, collector, exit, reqs, expired, sent, accepted, taken >>
    BY <2>1, ItemEffect
  <2>3. Live' \cup InRound' \subseteq Live \cup InRound /\ Live' \cup InRound' \subseteq Obj
    BY <2>1, <2>2 DEF Live, InRound, Typed
  <2>4. /\ row' \in Lists /\ obj' \in [Obj -> ObjState]
        /\ \A p \in Obj : obj'[p].box = obj[p].box
    <3>1. round[o].dump \in Seq(Mail)
      BY DEF Typed, GcTyped, Round
    <3>2. [obj[o] EXCEPT !.saved = "new"] \in ObjState /\ [obj[o] EXCEPT !.saved = "new"].box = obj[o].box
      BY <1>1 DEF ObjState, Time
    <3>3. CASE UNCHANGED << row, obj >>
      BY <3>3 DEF Typed
    <3>4. CASE row' = [row EXCEPT ![obj[o].box] = round[o].dump] /\ obj' = [obj EXCEPT ![o].saved = "new"]
      <4>1. row' \in Lists
        BY <3>1, <3>4 DEF Typed, Lists
      <4>2. PICK y \in ObjState : y = [obj[o] EXCEPT !.saved = "new"] /\ y.box = obj[o].box
        BY <3>2
      <4>3. obj' = [obj EXCEPT ![o] = y]
        BY <3>4, <4>2
      <4> QED
        BY <4>1, <4>2, <4>3 DEF Typed
    <3> QED
      BY <2>1, <3>3, <3>4
  <2>5. \A p \in Live' \cup InRound' : obj'[p].box \in Box
    BY <2>3, <2>4 DEF Typed
  <2> QED
    BY <2>1, <2>2, <2>4, <2>5 DEF Typed
<1>4. CASE DelGc(o)
  <2>1. PICK to \in Round : /\ Item(o, "sleep", to) /\ gc' \subseteq gc /\ UNCHANGED << hot, cold, row >>
                            /\ to.st = "done" /\ Objects(obj)
    <3>1. [NotInRound EXCEPT !.st = "done"] \in Round /\ [NotInRound EXCEPT !.st = "done"].st = "done"
      BY BlankTyped DEF Round, NotInRound
    <3> QED
      BY <1>4, <3>1 DEF DelGc
  <2>2. /\ GcTyped' /\ round[o].st = "sleep"
        /\ \A p \in Obj : round'[p] = IF p = o THEN to ELSE round[p]
        /\ UNCHANGED << world, collector, exit, reqs, expired, sent, accepted, taken >>
    BY <2>1, ItemEffect
  <2>3. Live' \cup InRound' \subseteq Live \cup InRound /\ Live' \cup InRound' \subseteq Obj
    BY <2>1, <2>2 DEF Live, InRound, Typed
  <2>4. /\ obj' \in [Obj -> ObjState]
        /\ \A p \in Obj : obj'[p] = IF p \in Live' \cup InRound' THEN obj[p] ELSE Blank
    BY <2>1, ObjectsEffect DEF Typed
  <2>5. \A p \in Live' \cup InRound' : obj'[p].box \in Box
    BY <2>3, <2>4 DEF Typed
  <2> QED
    BY <2>1, <2>2, <2>4, <2>5 DEF Typed
<1> QED
  BY <1>2, <1>3, <1>4 DEF GcItem

LEMMA AgeTyped ==
  ASSUME Typed, NEW o \in Obj, Age(o)
  PROVE  Typed'
<1>1. obj' \in [Obj -> ObjState] /\ \A p \in Obj : obj'[p].box = obj[p].box
  <2>1. PICK y \in ObjState : obj' = [obj EXCEPT ![o] = y] /\ y.box = obj[o].box
    <3>1. obj[o] \in ObjState
      BY DEF Typed
    <3>2. /\ [obj[o] EXCEPT !.access = "old"] \in ObjState /\ [obj[o] EXCEPT !.access = "old"].box = obj[o].box
          /\ [obj[o] EXCEPT !.saved = "old"] \in ObjState /\ [obj[o] EXCEPT !.saved = "old"].box = obj[o].box
      BY <3>1 DEF ObjState, Time
    <3> QED
      BY <3>2 DEF Age
  <2> QED
    BY <2>1 DEF Typed
<1>2. UNCHANGED << world, hot, cold, gc, collector, round, exit, reqs, row, expired, sent, accepted, taken >>
  BY DEF Age, maps, gcvars, history
<1>3. Live' = Live /\ InRound' = InRound /\ Live \cup InRound \subseteq Obj
  BY <1>2 DEF Live, InRound, Typed
<1>4. GcTyped'
  BY <1>2 DEF GcTyped, Typed
<1>5. \A p \in Live' \cup InRound' : obj'[p].box \in Box
  BY <1>1, <1>3 DEF Typed
<1> QED
  BY <1>1, <1>2, <1>4, <1>5 DEF Typed

LEMMA DbGetTyped ==
  ASSUME Typed, NEW q \in reqs, DbGet(q)
  PROVE  Typed'
<1>1. q \in Pending /\ row[q.req.box] \in Seq(Mail)
  BY DEF Typed, Pending, Req, Lists
<1>2. [q EXCEPT !.st = "got", !.row = row[q.req.box]] \in Pending
  BY <1>1 DEF Pending
<1>3. reqs' \subseteq Pending
  BY <1>2 DEF DbGet, Typed
<1>4. UNCHANGED << world, hot, cold, gc, obj, collector, round, exit, row, expired, sent, accepted, taken >>
  BY DEF DbGet, maps, gcvars, history
<1>5. Live' = Live /\ InRound' = InRound
  BY <1>4 DEF Live, InRound
<1>6. GcTyped'
  BY <1>4 DEF GcTyped, Typed
<1> QED
  BY <1>3, <1>4, <1>5, <1>6 DEF Typed

LEMMA SendTyped ==
  ASSUME Typed, NEW b \in Box, Send(b)
  PROVE  Typed'
<1>1. sent' \in 0 .. MaxMail[world] /\ sent' \in Mail
  BY BoundAssumption DEF Send, Typed, Mail
<1>2. PICK r \in Req : r = [kind |-> "send", box |-> b, mail |-> sent']
  BY <1>1 DEF Req
<1> QED
  BY <1>1, <1>2, RequestTyped DEF Send

LEMMA PullTyped ==
  ASSUME Typed, NEW b \in Box, Pull(b)
  PROVE  Typed'
<1>1. PICK r \in Req : r = [kind |-> "pull", box |-> b, mail |-> 0]
  BY DEF Req
<1>2. Request(r) /\ sent' \in 0 .. MaxMail[world]
  BY <1>1 DEF Pull, Typed
<1> QED
  BY <1>2, RequestTyped

LEMMA ExpireTyped ==
  ASSUME Typed, NEW m \in Mail, Expire(m)
  PROVE  Typed'
<1>1. UNCHANGED << world, hot, cold, gc, obj, collector, round, exit, reqs, row, sent, accepted, taken >>
      /\ expired' = expired \cup {m}
  BY DEF Expire, maps, gcvars, history
<1>2. Live' = Live /\ InRound' = InRound
  BY <1>1 DEF Live, InRound
<1>3. GcTyped'
  BY <1>1 DEF GcTyped, Typed
<1> QED
  BY <1>1, <1>2, <1>3 DEF Typed

LEMMA StutterTyped ==
  ASSUME Typed, UNCHANGED vars
  PROVE  Typed'
<1>1. UNCHANGED << world, hot, cold, gc, obj, collector, round, exit, reqs, row, expired, sent, accepted, taken >>
  BY DEF vars, maps, gcvars, history
<1>2. Live' = Live /\ InRound' = InRound
  BY <1>1 DEF Live, InRound
<1>3. GcTyped'
  BY <1>1 DEF GcTyped, Typed
<1> QED
  BY <1>1, <1>2, <1>3 DEF Typed

LEMMA InitTyped == Init => Typed
<1> SUFFICES ASSUME Init PROVE Typed
  OBVIOUS
<1>1. << >> \in Seq(Mail)
  OBVIOUS
<1>2. obj \in [Obj -> ObjState] /\ round \in [Obj -> Round]
  BY BlankTyped DEF Init
<1>3. Live = {} /\ InRound = {}
  BY DEF Init, Live, InRound, NotInRound
<1>4. row \in Lists /\ accepted \in Lists /\ taken \in Lists
  BY <1>1 DEF Init, Lists
<1>5. world \in Worlds /\ sent \in 0 .. MaxMail[world]
  BY BoundAssumption DEF Init
<1> QED
  BY <1>2, <1>3, <1>4, <1>5 DEF Init, Typed, GcTyped

LEMMA StepTyped == Typed /\ [Next]_vars => Typed'
<1> SUFFICES ASSUME Typed, [Next]_vars PROVE Typed'
  OBVIOUS
<1>1. ASSUME NEW b \in Box, Send(b) PROVE Typed'
  BY <1>1, SendTyped
<1>2. ASSUME NEW b \in Box, Pull(b) PROVE Typed'
  BY <1>2, PullTyped
<1>3. ASSUME NEW q \in reqs, DbGet(q) PROVE Typed'
  BY <1>3, DbGetTyped
<1>4. ASSUME NEW q \in reqs, Arrived(q) PROVE Typed'
  BY <1>4, ArrivedTyped
<1>5. ASSUME NEW o \in Obj, Age(o) PROVE Typed'
  BY <1>5, AgeTyped
<1>6. ASSUME NEW o \in Obj, GcItem(o) PROVE Typed'
  BY <1>6, ItemTyped
<1>7. ASSUME NEW m \in Mail, Expire(m) PROVE Typed'
  BY <1>7, ExpireTyped
<1>8. CASE Update
  BY <1>8, UpdateTyped
<1>9. CASE RoundOver
  BY <1>9, RoundOverTyped
<1>10. CASE Exit
  BY <1>10, ExitTyped
<1>11. CASE UNCHANGED vars
  BY <1>11, StutterTyped
<1> QED
  BY <1>1, <1>2, <1>3, <1>4, <1>5, <1>6, <1>7, <1>8, <1>9, <1>10, <1>11 DEF Next

LEMMA TypedTypeOK == Typed => TypeOK
<1> SUFFICES ASSUME Typed PROVE TypeOK
  OBVIOUS
<1>1. \A o \in Live : o \in Obj /\ obj[o].box \in Box
  BY DEF Typed, Live
<1>2. \A o \in Obj : round[o].st \in {"none", "save", "set", "sleep", "done", "dead"}
  BY DEF Typed, GcTyped, Round
<1> QED
  BY <1>1, <1>2 DEF Typed, GcTyped, TypeOK, ObjState, Lists

(* cache_mgr.lua, cache.lua, mailbox.lua, mailbox/cmd.lua: in every world the  *)
(* mailboxes in memory are mailboxes with lists of mails, the rounds and the  *)
(* exit are in a state of the code, and the histories and rows are lists.     *)
THEOREM TypeCorrect == Spec => []TypeOK
<1>1. Spec => []Typed
  BY InitTyped, StepTyped, PTL DEF Spec
<1> QED
  BY <1>1, TypedTypeOK, PTL

-----------------------------------------------------------------------------
(* No mail is lost or repeated.                                             *)

\* A request used the mailbox since it last was idle: it is in the maps.
Used(o) == o \in hot \cup cold /\ obj[o].access # "old"

OneEach == hot \cap cold = {} /\ \A o, p \in Live : obj[o].box = obj[p].box => o = p

\* What a round sends or has sent is what the mailbox has, unless a request
\* used it meanwhile.
Rounds ==
  /\ InRound \subseteq Live
  /\ collector = "nobody" => \A o \in Obj : round[o].st = "none"
  /\ \A o \in InRound :
       /\ round[o].st = "set" => Used(o) \/ obj[o].mails = round[o].dump
       /\ round[o].st = "sleep" => Used(o) \/ obj[o].mails = row[obj[o].box]

\* A row that was read is what maildb has, or the mailbox is in use again.
Requests ==
  \A q \in reqs :
    /\ \A o \in Live : obj[o].box = q.req.box => Used(o)
    /\ q.st = "got" /\ Of(Live, q.req.box) = {} => q.row = row[q.req.box]

Exits ==
  /\ exit \in {"no", "gc", "done"}
  /\ exit # "no" => reqs = {} /\ hot = {} /\ cold = {}
  /\ exit = "done" => gc = {} /\ collector = "nobody"

Histories ==
  /\ \A b \in Box : Of(Live, b) = {} => taken[b] \o row[b] = accepted[b]
  /\ \A o \in Live : taken[obj[o].box] \o obj[o].mails = accepted[obj[o].box]

Safe == expired = {} /\ OneEach /\ Rounds /\ Requests /\ Exits /\ Histories

\* The mailboxes fit into the cache: no swap finds a cold_map that is not empty.
Fits == IsFiniteSet(Box) /\ Cardinality(Box) <= max_cnt

IInv == Typed /\ (world = {} => Safe)

(* With mailboxes that fit, a mailbox that comes into hot_map never finds     *)
(* hot_map full while cold_map has others.                                   *)
LEMMA SwapNeverFails ==
  ASSUME Fits, Typed, OneEach, NEW o \in Obj, o \notin hot, NEW c, c \subseteq cold, o \notin c,
         NEW b \in Box, \A p \in Live : p # o => obj[p].box # b
  PROVE  ~ SwapFails(o, c)
<1> SUFFICES ASSUME SwapFails(o, c) PROVE FALSE
  OBVIOUS
<1>1. PICK d \in c : TRUE
  BY DEF SwapFails
<1>2. d \in Live /\ d \notin hot /\ d # o
  BY DEF OneEach, Live
<1>3. IsFiniteSet(hot) /\ Cardinality(hot) \in Nat
  <2>1. IsFiniteSet(Obj)
    BY BoundAssumption, FS_Interval DEF Obj
  <2> QED
    BY <2>1, FS_Subset, FS_CardinalityType DEF Typed
<1>4. PICK H : H = hot \cup {d} /\ IsFiniteSet(H) /\ Cardinality(H) = Cardinality(hot) + 1
  BY <1>2, <1>3, FS_AddElement
<1>5. PICK R : R = Box \ {b} /\ IsFiniteSet(R) /\ Cardinality(R) = Cardinality(Box) - 1
  BY FS_RemoveElement DEF Fits
<1>6. PICK f : f = [p \in H |-> obj[p].box]
  OBVIOUS
<1>7. f \in Injection(H, R)
  <2>1. H \subseteq Live /\ o \notin H
    BY <1>2, <1>4 DEF Live
  <2>2. \A p \in H : obj[p].box \in Box /\ obj[p].box # b
    BY <2>1 DEF Typed
  <2>3. \A p, q \in H : f[p] = f[q] => p = q
    BY <1>6, <2>1 DEF OneEach
  <2>4. f \in [H -> R]
    BY <1>5, <1>6, <2>2
  <2> QED
    BY <2>3, <2>4 DEF Injection, IsInjective
<1>8. Cardinality(H) <= Cardinality(R)
  BY <1>5, <1>7, FS_Injection
<1>9. Cardinality(Box) \in Nat
  BY FS_CardinalityType DEF Fits
<1> QED
  BY <1>3, <1>4, <1>5, <1>8, <1>9, CountAssumption DEF SwapFails, Fits

\* The object o is in hot_map or cold_map, with all that was in memory before.
Placed(o) ==
  /\ hot' \cap cold' = {} /\ o \in hot' \cup cold' /\ hot \cup cold \subseteq hot' \cup cold'
  /\ Live' = Live \cup {o}
  /\ exit' = exit
  /\ \/ UNCHANGED << collector, round >>
     \/ /\ collector = "nobody" /\ collector' = "swap"
        /\ \A p \in Obj : round'[p].st = IF p \in gc' THEN "save" ELSE "none"

LEMMA AddHotPlaces ==
  ASSUME Typed, OneEach, NEW o \in Obj, o \notin hot, NEW c, c \subseteq cold, cold \subseteq c \cup {o},
         o \notin c, NEW g, g \subseteq gc, gc \subseteq g \cup {o}, AddHot(o, c, g), ~ SwapFails(o, c)
  PROVE  Placed(o)
<1>1. /\ gc' = g /\ exit' = exit
      /\ \/ UNCHANGED << collector, round >>
         \/ /\ collector = "nobody" /\ collector' = "swap"
            /\ \A p \in Obj : round'[p].st = IF p \in g THEN "save" ELSE "none"
  BY AddHotEffect
<1>2. hot' \cup cold' = hot \cup {o} \cup c /\ hot' \cap cold' = {}
  <2>1. CASE Cardinality(hot) + 1 < max_cnt
    BY <2>1 DEF AddHot, OneEach
  <2>2. CASE ~ (Cardinality(hot) + 1 < max_cnt)
    <3>1. Cardinality(hot) \in Nat
      <4>1. IsFiniteSet(Obj)
        BY BoundAssumption, FS_Interval DEF Obj
      <4> QED
        BY <4>1, FS_Subset, FS_CardinalityType DEF Typed
    <3>2. c = {}
      BY <2>2, <3>1, CountAssumption DEF SwapFails
    <3> QED
      BY <2>2, <3>2 DEF AddHot
  <2> QED
    BY <2>1, <2>2
<1>3. Live' = Live \cup {o}
  BY <1>1, <1>2 DEF Live
<1> QED
  BY <1>1, <1>2, <1>3 DEF Placed

\* The object o in Obj is to serve r as x, and it is the mailbox of r.
Serves(r, o, x) ==
  /\ exit = "no"
  /\ x.box = r.box /\ x.access # "old"
  /\ taken[r.box] \o x.mails = accepted[r.box]
  /\ o \in Live => obj[o].box = r.box
  /\ \A p \in Live : p # o => obj[p].box # r.box

LEMMA Assoc ==
  ASSUME NEW u \in Seq(Mail), NEW v \in Seq(Mail), NEW w \in Seq(Mail)
  PROVE  (u \o v) \o w = u \o (v \o w)
BY ConcatAssociative

Regroups(t, out, tail, put) == (t \o out) \o (tail \o put) = (t \o (out \o tail)) \o put

LEMMA Regroup ==
  ASSUME NEW t \in Seq(Mail), NEW out \in Seq(Mail), NEW tail \in Seq(Mail), NEW put \in Seq(Mail)
  PROVE  Regroups(t, out, tail, put)
<1>1. PICK h \in Seq(Mail) : h = t \o out
  BY ConcatProperties
<1>2. h \o (tail \o put) = (h \o tail) \o put
  BY Assoc
<1>3. (t \o out) \o tail = t \o (out \o tail)
  BY Assoc
<1> QED
  BY <1>1, <1>2, <1>3 DEF Regroups

(* What is left of a mailbox and of its history, after a request.            *)
LEMMA ServedHistory ==
  ASSUME Typed, expired = {}, NEW r \in Req, r.box \in Box, NEW o \in Obj, NEW x \in ObjState,
         taken[r.box] \o x.mails = accepted[r.box],
         NEW put \in Seq(Mail), NEW out \in Seq(Mail), NEW rest \in Seq(Mail),
         Served(r, o, x, put, out, rest)
  PROVE  taken'[r.box] \o rest = accepted'[r.box]
<1>1. PICK t \in Seq(Mail), a \in Seq(Mail), m \in Seq(Mail) :
        t = taken[r.box] /\ a = accepted[r.box] /\ m = x.mails
  BY DEF Typed, Lists, ObjState
<1>2. taken'[r.box] = t \o out /\ accepted'[r.box] = a \o put
  BY <1>1 DEF Served, Typed, Lists
<1>3. PICK tail \in Seq(Mail) : out \o tail = m /\ rest = tail \o put
  <2>1. SubSeq(m, Len(out) + 1, Len(m)) \in Seq(Mail)
    <3>1. PICK n \in Nat, k \in Nat : n = Len(m) /\ k = Len(out)
      OBVIOUS
    <3>2. \A i \in k + 1 .. n : m[i] \in Mail
      BY <3>1
    <3> QED
      BY <3>1, <3>2, SubSeqProperties
  <2> QED
    BY <1>1, <2>1 DEF Served
<1>4. Regroups(t, out, tail, put)
  BY Regroup
<1> QED
  BY <1>1, <1>2, <1>3, <1>4 DEF Regroups

(* A request that is served keeps everything.                                *)
LEMMA ServedSafe ==
  ASSUME Typed, Typed', Safe, NEW r \in Req, r.box \in Box, NEW o \in Obj, NEW x \in ObjState,
         Serves(r, o, x), Serve(r, o, x), Placed(o),
         reqs' \subseteq reqs, row' = row, expired' = expired
  PROVE  Safe'
<1>1. PICK put \in Seq(Mail) : \E out, rest \in Seq(Mail) : Served(r, o, x, put, out, rest)
  BY ServeEffect DEF Serves
<1>2. PICK out \in Seq(Mail) : \E rest \in Seq(Mail) : Served(r, o, x, put, out, rest)
  BY <1>1
<1>3. PICK rest \in Seq(Mail) : Served(r, o, x, put, out, rest)
  BY <1>2
<1>4. PICK y \in ObjState : /\ y = [x EXCEPT !.mails = rest] /\ y.box = r.box
                            /\ y.mails = rest /\ y.access # "old"
  <2>1. [x EXCEPT !.mails = rest] \in ObjState
    BY DEF ObjState
  <2>2. /\ [x EXCEPT !.mails = rest].box = x.box /\ [x EXCEPT !.mails = rest].mails = rest
        /\ [x EXCEPT !.mails = rest].access = x.access
    BY DEF ObjState
  <2> QED
    BY <2>1, <2>2 DEF Serves
<1>5. PICK new \in [Obj -> ObjState] : new = [obj EXCEPT ![o] = y]
  BY DEF Typed
<1>6. Objects(new)
  BY <1>3, <1>4, <1>5 DEF Served
<1>7. /\ Live \subseteq Obj /\ Live' = Live \cup {o} /\ InRound' \subseteq Obj
      /\ hot' \cap cold' = {} /\ o \in hot' \cup cold' /\ hot \cup cold \subseteq hot' \cup cold'
  BY DEF Placed, Live, Typed, InRound
<1>8. obj'[o] = y /\ \A p \in Live : p # o => obj'[p] = obj[p]
  <2>1. \A p \in Obj : obj'[p] = IF p \in Live' \cup InRound' THEN new[p] ELSE Blank
    BY <1>6, ObjectsEffect
  <2>2. \A p \in Obj : new[p] = IF p = o THEN y ELSE obj[p]
    BY <1>5 DEF Typed
  <2> QED
    BY <1>7, <2>1, <2>2
<1>9. Used(o)' /\ \A p \in Live : Used(p) => Used(p)'
  BY <1>4, <1>7, <1>8 DEF Used
<1>10. OneEach'
  <2>1. \A p, q \in Live : obj[p].box = obj[q].box => p = q
    BY DEF Safe, OneEach
  <2>2. \A p \in Live : p # o => obj[p].box # r.box
    BY DEF Serves
  <2>3. ASSUME NEW p \in Live', NEW q \in Live', obj'[p].box = obj'[q].box PROVE p = q
    <3>1. \A u \in Live' : u = o \/ (u \in Live /\ obj'[u].box = obj[u].box /\ obj[u].box # r.box)
      BY <1>7, <1>8, <2>2
    <3>2. obj'[o].box = r.box
      BY <1>4, <1>8
    <3> QED
      BY <2>1, <2>3, <3>1, <3>2
  <2> QED
    BY <1>7, <2>3 DEF OneEach
<1>11. Rounds'
  <2>1. CASE UNCHANGED << collector, round >>
    <3>1. InRound' = InRound
      BY <2>1 DEF InRound
    <3> QED
      BY <1>7, <1>8, <1>9, <2>1, <3>1 DEF Rounds, Safe
  <2>2. CASE /\ collector = "nobody" /\ collector' = "swap"
             /\ \A p \in Obj : round'[p].st = IF p \in gc' THEN "save" ELSE "none"
    <3>1. InRound' \subseteq gc' /\ \A p \in InRound' : round'[p].st = "save"
      BY <2>2 DEF InRound
    <3>2. gc' \subseteq Live'
      BY DEF Live
    <3> QED
      BY <2>2, <3>1, <3>2 DEF Rounds
  <2> QED
    BY <2>1, <2>2 DEF Placed
<1>12. \A b \in Box : Of(Live, b)' = {} => b # r.box /\ Of(Live, b) = {}
  BY <1>4, <1>7, <1>8 DEF Of, Serves
<1>13. Requests'
  <2> SUFFICES ASSUME NEW q \in reqs'
               PROVE  /\ \A p \in Live' : obj'[p].box = q.req.box => Used(p)'
                      /\ q.st = "got" /\ Of(Live, q.req.box)' = {} => q.row = row'[q.req.box]
    BY DEF Requests
  <2>1. q \in reqs /\ q.req.box \in Box
    BY DEF Typed, Pending, Req
  <2>2. ASSUME NEW p \in Live', obj'[p].box = q.req.box PROVE Used(p)'
    <3>1. CASE p = o
      BY <1>9, <3>1
    <3>2. CASE p # o
      <4>1. p \in Live /\ obj[p].box = q.req.box
        BY <1>7, <1>8, <2>2, <3>2
      <4> QED
        BY <1>9, <2>1, <4>1 DEF Safe, Requests
    <3> QED
      BY <3>1, <3>2
  <2>3. ASSUME q.st = "got", Of(Live, q.req.box)' = {} PROVE q.row = row'[q.req.box]
    BY <1>12, <2>1, <2>3 DEF Safe, Requests
  <2> QED
    BY <2>2, <2>3
<1>14. Exits'
  <2>1. exit' = "no"
    BY DEF Placed, Serves
  <2> QED
    BY <2>1 DEF Exits
<1>15. Histories'
  <2>1. taken'[r.box] \o rest = accepted'[r.box]
    <3>1. taken[r.box] \o x.mails = accepted[r.box] /\ expired = {}
      BY DEF Serves, Safe
    <3> QED
      BY <1>3, <3>1, ServedHistory
  <2>2. \A b \in Box : b # r.box => taken'[b] = taken[b] /\ accepted'[b] = accepted[b]
    BY <1>3 DEF Served, Typed, Lists
  <2>3. ASSUME NEW b \in Box, Of(Live, b)' = {} PROVE taken'[b] \o row'[b] = accepted'[b]
    BY <1>12, <2>2, <2>3 DEF Safe, Histories
  <2>4. ASSUME NEW p \in Live' PROVE taken'[obj'[p].box] \o obj'[p].mails = accepted'[obj'[p].box]
    <3>1. CASE p = o
      BY <1>4, <1>8, <2>1, <3>1
    <3>2. CASE p # o
      <4>1. p \in Live /\ obj'[p] = obj[p] /\ obj[p].box # r.box /\ obj[p].box \in Box
        BY <1>7, <1>8, <3>2 DEF Serves, Typed
      <4> QED
        BY <2>2, <4>1 DEF Safe, Histories
    <3> QED
      BY <3>1, <3>2
  <2> QED
    BY <2>3, <2>4 DEF Histories
<1> QED
  BY <1>10, <1>11, <1>13, <1>14, <1>15 DEF Safe

\* A step in the world in which only requests, update passes and collections
\* happen, of a cache with room for every mailbox.
Step == Fits /\ Typed /\ Typed' /\ world = {} /\ Safe

LEMMA HitSafe ==
  ASSUME Step, NEW r \in Req, r.box \in Box, exit = "no", Hit(r), reqs' \subseteq reqs,
         row' = row, expired' = expired
  PROVE  Safe'
<1>1. PICK o \in Of(Live, r.box) :
        LET c == cold \ {o}
            g == IF o \in cold THEN gc ELSE gc \ {o}
        IN  /\ IF o \in hot THEN UNCHANGED << maps, gcvars >> ELSE AddHot(o, c, g)
            /\ IF SwapFails(o, c) THEN Fail(o, obj[o])
               ELSE Serve(r, o, [obj[o] EXCEPT !.access = "new"])
  BY DEF Hit
<1>2. o \in Obj /\ o \in Live /\ obj[o] \in ObjState /\ obj[o].box = r.box
  BY DEF Of, Live, Typed, Step
<1>3. \A p \in Live : p # o => obj[p].box # r.box
  BY <1>2 DEF Step, Safe, OneEach
<1>4. PICK c : c = cold \ {o} /\ c \subseteq cold /\ cold \subseteq c \cup {o} /\ o \notin c
  <2>1. PICK c : c = cold \ {o}
    OBVIOUS
  <2> QED
    BY <2>1
<1>5. PICK g : g = IF o \in cold THEN gc ELSE gc \ {o}
  OBVIOUS
<1>6. ~ SwapFails(o, c)
  <2>1. CASE o \in hot
    BY <2>1 DEF SwapFails
  <2>2. CASE o \notin hot
    BY <1>2, <1>3, <1>4, <2>2, SwapNeverFails DEF Step, Safe
  <2> QED
    BY <2>1, <2>2
<1>7. PICK x \in ObjState : /\ x = [obj[o] EXCEPT !.access = "new"] /\ x.box = r.box
                            /\ x.mails = obj[o].mails /\ x.access = "new"
  <2>1. [obj[o] EXCEPT !.access = "new"] \in ObjState
    BY <1>2 DEF ObjState, Time
  <2>2. /\ [obj[o] EXCEPT !.access = "new"].box = obj[o].box
        /\ [obj[o] EXCEPT !.access = "new"].mails = obj[o].mails
        /\ [obj[o] EXCEPT !.access = "new"].access = "new"
    BY <1>2 DEF ObjState
  <2> QED
    BY <1>2, <2>1, <2>2
<1>8. Serve(r, o, x)
  BY <1>1, <1>4, <1>6, <1>7
<1>9. Serves(r, o, x)
  <2>1. taken[r.box] \o obj[o].mails = accepted[r.box]
    BY <1>2 DEF Step, Safe, Histories
  <2> QED
    BY <1>2, <1>3, <1>7, <2>1 DEF Serves
<1>10. Placed(o)
  <2>1. CASE o \in hot
    <3>1. UNCHANGED << hot, cold, gc, collector, round, exit >>
      BY <1>1, <2>1 DEF maps, gcvars
    <3>2. Live' = Live
      BY <3>1 DEF Live
    <3> QED
      BY <1>2, <2>1, <3>1, <3>2 DEF Placed, Step, Safe, OneEach
  <2>2. CASE o \notin hot
    <3>1. AddHot(o, c, g) /\ g \subseteq gc /\ gc \subseteq g \cup {o}
      BY <1>1, <1>4, <1>5, <2>2
    <3> QED
      BY <1>2, <1>4, <1>6, <2>2, <3>1, AddHotPlaces DEF Step, Safe
  <2> QED
    BY <2>1, <2>2
<1> QED
  BY <1>2, <1>8, <1>9, <1>10, ServedSafe DEF Step

LEMMA RequestSafe ==
  ASSUME Step, NEW r \in Req, r.box \in Box, Request(r)
  PROVE  Safe'
<1>1. exit = "no" /\ row' = row /\ expired' = expired
  BY DEF Request, Step
<1>2. CASE Of(Live, r.box) # {}
  BY <1>1, <1>2, HitSafe DEF Request
<1>3. CASE Of(Live, r.box) = {}
  <2>1. PICK n : n = [req |-> r, st |-> "get", row |-> << >>] /\ n.req = r /\ n.st = "get"
    <3>1. PICK n : n = [req |-> r, st |-> "get", row |-> << >>]
      OBVIOUS
    <3> QED
      BY <3>1
  <2>2. reqs' = reqs \cup {n}
    BY <1>3, <2>1 DEF Request
  <2>3. UNCHANGED << hot, cold, gc, obj, collector, round, exit, accepted, taken >>
    BY <1>3 DEF Request, maps, gcvars, history
  <2>4. Live' = Live /\ InRound' = InRound /\ \A b : Of(Live, b)' = Of(Live, b)
    BY <2>3 DEF Live, InRound, Of
  <2>5. \A o \in Live : obj[o].box # r.box
    BY <1>3 DEF Of
  <2>6. \A o : Used(o)' <=> Used(o)
    BY <2>3 DEF Used
  <2>7. Requests'
    BY <1>1, <2>1, <2>2, <2>3, <2>4, <2>5, <2>6 DEF Requests, Step, Safe
  <2>8. OneEach' /\ Rounds' /\ Histories'
    BY <1>1, <2>3, <2>4, <2>6 DEF OneEach, Rounds, Histories, Step, Safe
  <2>9. Exits'
    BY <1>1, <2>3 DEF Exits
  <2> QED
    BY <1>1, <2>7, <2>8, <2>9 DEF Safe, Step
<1> QED
  BY <1>2, <1>3

LEMMA ArrivedSafe ==
  ASSUME Step, NEW q \in reqs, Arrived(q)
  PROVE  Safe'
<1>1. /\ q.req \in Req /\ q.row \in Seq(Mail) /\ q.req.box \in Box /\ q.st = "got"
      /\ reqs' \subseteq reqs /\ row' = row /\ expired' = expired
  BY DEF Arrived, Step, Typed, Pending, Req
<1>2. exit = "no"
  BY DEF Step, Safe, Exits
<1>3. CASE Of(Live, q.req.box) # {}
  <2>1. Hit(q.req)
    BY <1>3 DEF Arrived
  <2> QED
    BY <1>1, <1>2, <2>1, HitSafe
<1>4. CASE Of(Live, q.req.box) = {}
  <2>1. PICK o : o = Min(Obj \ (Live \cup InRound))
    OBVIOUS
  <2>2. /\ AddHot(o, cold, gc) /\ Obj # Live \cup InRound
        /\ IF SwapFails(o, cold) THEN Fail(o, NewMailbox(q)) ELSE Serve(q.req, o, NewMailbox(q))
    BY <1>4, <2>1 DEF Arrived
  <2>3. Live \cup InRound \subseteq Obj
    BY DEF Live, InRound, Typed, Step
  <2>4. o \in Obj /\ o \notin Live
    <3>1. Obj \ (Live \cup InRound) \subseteq Nat /\ Obj \ (Live \cup InRound) # {}
      BY <2>2, <2>3, BoundAssumption DEF Obj
    <3>2. o \in Obj \ (Live \cup InRound)
      BY <2>1, <3>1, MinIn
    <3> QED
      BY <3>2
  <2>5. \A p \in Live : obj[p].box # q.req.box
    BY <1>4 DEF Of
  <2>6. o \notin hot /\ o \notin cold
    BY <2>4 DEF Live
  <2>7. ~ SwapFails(o, cold)
    BY <1>1, <2>4, <2>5, <2>6, SwapNeverFails DEF Step, Safe
  <2>8. PICK x \in ObjState : x = NewMailbox(q) /\ x.box = q.req.box /\ x.mails = q.row /\ x.access = "nil"
    <3>1. NewMailbox(q).box = q.req.box /\ NewMailbox(q).mails = q.row /\ NewMailbox(q).access = "nil"
      BY DEF NewMailbox, Blank
    <3>2. NewMailbox(q) \in ObjState
      BY <1>1, BlankTyped DEF NewMailbox, ObjState, Blank
    <3> QED
      BY <3>1, <3>2
  <2>9. Serves(q.req, o, x)
    <3>1. q.row = row[q.req.box]
      BY <1>1, <1>4 DEF Step, Safe, Requests
    <3>2. taken[q.req.box] \o row[q.req.box] = accepted[q.req.box]
      BY <1>1, <1>4 DEF Step, Safe, Histories
    <3> QED
      BY <1>2, <2>4, <2>5, <2>8, <3>1, <3>2 DEF Serves
  <2>10. Placed(o)
    BY <2>2, <2>4, <2>6, <2>7, AddHotPlaces DEF Step, Safe
  <2>11. Serve(q.req, o, x)
    BY <2>2, <2>7, <2>8
  <2> QED
    BY <1>1, <2>4, <2>9, <2>10, <2>11, ServedSafe DEF Step
<1> QED
  BY <1>3, <1>4

LEMMA DbGetSafe ==
  ASSUME Step, NEW q \in reqs, DbGet(q)
  PROVE  Safe'
<1>1. PICK n : n = [q EXCEPT !.st = "got", !.row = row[q.req.box]]
  OBVIOUS
<1>2. n.req = q.req /\ n.row = row[q.req.box]
  BY <1>1 DEF Step, Typed, Pending
<1>3. reqs' \subseteq reqs \cup {n}
  BY <1>1 DEF DbGet
<1>4. UNCHANGED << hot, cold, gc, obj, collector, round, exit, row, expired, accepted, taken >>
  BY DEF DbGet, maps, gcvars, history
<1>5. Live' = Live /\ InRound' = InRound /\ \A b : Of(Live, b)' = Of(Live, b)
  BY <1>4 DEF Live, InRound, Of
<1>6. \A o : Used(o)' <=> Used(o)
  BY <1>4 DEF Used
<1>7. Requests'
  BY <1>2, <1>3, <1>4, <1>5, <1>6 DEF Requests, Step, Safe
<1>8. OneEach' /\ Rounds' /\ Histories'
  BY <1>4, <1>5, <1>6 DEF OneEach, Rounds, Histories, Step, Safe
<1>9. Exits'
  BY <1>4 DEF Exits, Step, Safe
<1> QED
  BY <1>4, <1>7, <1>8, <1>9 DEF Safe, Step

LEMMA AgeSafe ==
  ASSUME Step, NEW o \in Obj, Age(o)
  PROVE  Safe'
<1>1. UNCHANGED << hot, cold, gc, collector, round, exit, reqs, row, expired, accepted, taken >>
      /\ reqs = {} /\ collector = "nobody"
  BY DEF Age, AtRest, maps, gcvars, history
<1>2. \A p \in Obj : obj'[p].box = obj[p].box /\ obj'[p].mails = obj[p].mails
  <2>1. PICK y \in ObjState : /\ obj' = [obj EXCEPT ![o] = y]
                              /\ y.box = obj[o].box /\ y.mails = obj[o].mails
    <3>1. obj[o] \in ObjState
      BY DEF Step, Typed
    <3>2. /\ [obj[o] EXCEPT !.access = "old"] \in ObjState
          /\ [obj[o] EXCEPT !.access = "old"].box = obj[o].box
          /\ [obj[o] EXCEPT !.access = "old"].mails = obj[o].mails
      BY <3>1 DEF ObjState, Time
    <3>3. /\ [obj[o] EXCEPT !.saved = "old"] \in ObjState
          /\ [obj[o] EXCEPT !.saved = "old"].box = obj[o].box
          /\ [obj[o] EXCEPT !.saved = "old"].mails = obj[o].mails
      BY <3>1 DEF ObjState, Time
    <3> QED
      BY <3>2, <3>3 DEF Age
  <2> QED
    BY <2>1 DEF Step, Typed
<1>3. Live' = Live /\ InRound' = InRound /\ Live \subseteq Obj
  BY <1>1 DEF Live, InRound, Step, Typed
<1>4. \A b : Of(Live, b)' = Of(Live, b)
  BY <1>2, <1>3 DEF Of
<1>5. InRound' = {}
  BY <1>1, <1>3 DEF InRound, Step, Safe, Rounds
<1>6. Rounds'
  BY <1>1, <1>5 DEF Rounds, Step, Safe
<1>7. OneEach' /\ Histories'
  <2>1. \A p \in Live : obj'[p].box = obj[p].box /\ obj'[p].mails = obj[p].mails
    BY <1>2, <1>3
  <2>2. OneEach'
    BY <1>1, <1>3, <2>1 DEF OneEach, Step, Safe
  <2>3. \A b \in Box : Of(Live, b) = {} => taken[b] \o row[b] = accepted[b]
    BY DEF Histories, Step, Safe
  <2>4. \A p \in Live : taken[obj[p].box] \o obj[p].mails = accepted[obj[p].box]
    BY DEF Histories, Step, Safe
  <2> QED
    BY <1>1, <1>3, <1>4, <2>1, <2>2, <2>3, <2>4 DEF Histories
<1>8. Requests' /\ Exits'
  BY <1>1 DEF Requests, Exits, Step, Safe
<1> QED
  BY <1>1, <1>6, <1>7, <1>8 DEF Safe, Step

(* In steps of a round, only one object and one row change.                 *)
LEMMA SaveSafe ==
  ASSUME Step, NEW o \in Obj, Save(o)
  PROVE  Safe'
<1>1. PICK to \in Round : to.st = "set" /\ to.dump = obj[o].mails /\ Item(o, "save", to)
  <2>1. PICK to : to = [st |-> "set", dump |-> obj[o].mails]
    OBVIOUS
  <2>2. obj[o].mails \in Seq(Mail)
    BY DEF Step, Typed, ObjState
  <2> QED
    BY <2>1, <2>2 DEF Save, Round
<1>2. /\ round[o].st = "save"
      /\ \A p \in Obj : round'[p] = IF p = o THEN to ELSE round[p]
      /\ UNCHANGED << hot, cold, gc, obj, collector, exit, reqs, row, expired, accepted, taken >>
  <2>1. /\ round[o].st = "save"
        /\ \A p \in Obj : round'[p] = IF p = o THEN to ELSE round[p]
        /\ UNCHANGED << collector, exit, reqs, expired, accepted, taken >>
    BY <1>1, ItemEffect DEF Step
  <2> QED
    BY <2>1 DEF Save, maps
<1>3. Live' = Live /\ InRound' = InRound /\ \A b : Of(Live, b)' = Of(Live, b)
  BY <1>1, <1>2 DEF Live, InRound, Of
<1>4. \A p : Used(p)' <=> Used(p)
  BY <1>2 DEF Used
<1>5. Rounds'
  <2>1. InRound' \subseteq Live' /\ collector' # "nobody"
    BY <1>2, <1>3 DEF Rounds, Step, Safe
  <2>2. ASSUME NEW p \in InRound'
        PROVE  /\ round'[p].st = "set" => Used(p)' \/ obj'[p].mails = round'[p].dump
               /\ round'[p].st = "sleep" => Used(p)' \/ obj'[p].mails = row'[obj'[p].box]
    <3>1. p \in Obj /\ p \in InRound
      BY <1>3 DEF InRound
    <3>2. CASE p = o
      BY <1>1, <1>2, <3>1, <3>2
    <3>3. CASE p # o
      BY <1>2, <1>4, <3>1, <3>3 DEF Rounds, Step, Safe
    <3> QED
      BY <3>2, <3>3
  <2> QED
    BY <2>1, <2>2 DEF Rounds
<1>6. OneEach' /\ Histories'
  BY <1>2, <1>3 DEF OneEach, Histories, Step, Safe
<1>7. Requests'
  BY <1>2, <1>3, <1>4 DEF Requests, Step, Safe
<1>8. Exits'
  BY <1>2 DEF Exits, Step, Safe
<1> QED
  BY <1>2, <1>5, <1>6, <1>7, <1>8 DEF Safe, Step

LEMMA DbSetSafe ==
  ASSUME Step, NEW o \in Obj, DbSet(o)
  PROVE  Safe'
<1>1. PICK to \in Round : to.st = "sleep" /\ Item(o, "set", to)
  <2>1. PICK to : to = [NotInRound EXCEPT !.st = "sleep"]
    OBVIOUS
  <2>2. to \in Round /\ to.st = "sleep"
    BY <2>1, BlankTyped DEF Round, NotInRound
  <2> QED
    BY <2>1, <2>2 DEF DbSet, Step
<1>2. /\ round[o].st = "set"
      /\ \A p \in Obj : round'[p] = IF p = o THEN to ELSE round[p]
      /\ UNCHANGED << hot, cold, gc, collector, exit, reqs, expired, accepted, taken >>
  <2>1. /\ round[o].st = "set"
        /\ \A p \in Obj : round'[p] = IF p = o THEN to ELSE round[p]
        /\ UNCHANGED << collector, exit, reqs, expired, accepted, taken >>
    BY <1>1, ItemEffect DEF Step
  <2> QED
    BY <2>1 DEF DbSet, maps
<1>3. /\ row' = [row EXCEPT ![obj[o].box] = round[o].dump]
      /\ obj' = [obj EXCEPT ![o].saved = "new"]
  BY DEF DbSet, Step
<1>4. /\ o \in InRound /\ o \in Live /\ obj[o].box \in Box /\ Live \subseteq Obj
      /\ \A p \in Live : p # o => obj[p].box # obj[o].box
  <2>1. o \in InRound
    BY <1>2 DEF InRound
  <2> QED
    BY <2>1 DEF Step, Typed, Safe, Rounds, OneEach, Live
<1>5. \A p \in Obj : /\ obj'[p].box = obj[p].box /\ obj'[p].mails = obj[p].mails
                     /\ obj'[p].access = obj[p].access
  <2>1. PICK y : /\ obj' = [obj EXCEPT ![o] = y] /\ y.box = obj[o].box /\ y.mails = obj[o].mails
                 /\ y.access = obj[o].access
    <3>1. PICK y : y = [obj[o] EXCEPT !.saved = "new"]
      OBVIOUS
    <3>2. obj[o] \in ObjState
      BY DEF Step, Typed
    <3>3. y.box = obj[o].box /\ y.mails = obj[o].mails /\ y.access = obj[o].access
      BY <3>1, <3>2 DEF ObjState
    <3> QED
      BY <1>3, <3>1, <3>3
  <2> QED
    BY <2>1 DEF Step, Typed
<1>6. \A b \in Box : row'[b] = IF b = obj[o].box THEN round[o].dump ELSE row[b]
  BY <1>3 DEF Step, Typed, Lists
<1>7. Live' = Live /\ InRound' = InRound
  BY <1>1, <1>2 DEF Live, InRound
<1>8. \A b : Of(Live, b)' = Of(Live, b)
  BY <1>4, <1>5, <1>7 DEF Of
<1>9. \A p \in Obj : Used(p)' <=> Used(p)
  BY <1>2, <1>5 DEF Used
<1>10. Rounds'
  <2>1. InRound' \subseteq Live' /\ collector' # "nobody"
    BY <1>2, <1>4, <1>7 DEF Rounds, Step, Safe, InRound
  <2>2. ASSUME NEW p \in InRound'
        PROVE  /\ round'[p].st = "set" => Used(p)' \/ obj'[p].mails = round'[p].dump
               /\ round'[p].st = "sleep" => Used(p)' \/ obj'[p].mails = row'[obj'[p].box]
    <3>1. p \in Obj /\ p \in InRound /\ p \in Live /\ obj[p].box \in Box
      BY <1>7 DEF InRound, Step, Typed, Safe, Rounds
    <3>2. CASE p = o
      <4>1. Used(o) \/ obj[o].mails = round[o].dump
        BY <1>2, <1>4 DEF Rounds, Step, Safe
      <4> QED
        BY <1>1, <1>2, <1>5, <1>6, <1>9, <3>1, <3>2, <4>1
    <3>3. CASE p # o
      <4>1. row'[obj[p].box] = row[obj[p].box] /\ round'[p] = round[p]
        BY <1>2, <1>4, <1>6, <3>1, <3>3
      <4>2. /\ round[p].st = "set" => Used(p) \/ obj[p].mails = round[p].dump
            /\ round[p].st = "sleep" => Used(p) \/ obj[p].mails = row[obj[p].box]
        BY <3>1 DEF Rounds, Step, Safe
      <4> QED
        BY <1>5, <1>9, <3>1, <4>1, <4>2
    <3> QED
      BY <3>2, <3>3
  <2> QED
    BY <2>1, <2>2 DEF Rounds
<1>11. OneEach'
  BY <1>2, <1>4, <1>5, <1>7 DEF OneEach, Step, Safe
<1>12. \A b \in Box : Of(Live, b) = {} => row'[b] = row[b]
  BY <1>4, <1>6 DEF Of
<1>13. Histories'
  <2>1. \A b \in Box : Of(Live, b) = {} => taken[b] \o row[b] = accepted[b]
    BY DEF Histories, Step, Safe
  <2>2. \A p \in Live : taken[obj[p].box] \o obj[p].mails = accepted[obj[p].box]
    BY DEF Histories, Step, Safe
  <2> QED
    BY <1>2, <1>4, <1>5, <1>7, <1>8, <1>12, <2>1, <2>2 DEF Histories
<1>14. Requests'
  <2> SUFFICES ASSUME NEW q \in reqs
               PROVE  /\ \A p \in Live' : obj'[p].box = q.req.box => Used(p)'
                      /\ q.st = "got" /\ Of(Live, q.req.box)' = {} => q.row = row'[q.req.box]
    BY <1>2 DEF Requests
  <2>1. q.req.box \in Box
    BY DEF Step, Typed, Pending, Req
  <2>2. /\ \A p \in Live : obj[p].box = q.req.box => Used(p)
        /\ q.st = "got" /\ Of(Live, q.req.box) = {} => q.row = row[q.req.box]
    BY DEF Requests, Step, Safe
  <2> QED
    BY <1>4, <1>5, <1>7, <1>8, <1>9, <1>12, <2>1, <2>2
<1>15. Exits'
  BY <1>2 DEF Exits, Step, Safe
<1> QED
  BY <1>2, <1>10, <1>11, <1>13, <1>14, <1>15 DEF Safe, Step

LEMMA DelGcSafe ==
  ASSUME Step, NEW o \in Obj, DelGc(o)
  PROVE  Safe'
<1>1. PICK to \in Round : to.st = "done" /\ Item(o, "sleep", to)
  <2>1. PICK to : to = [NotInRound EXCEPT !.st = "done"]
    OBVIOUS
  <2>2. to \in Round /\ to.st = "done"
    BY <2>1, BlankTyped DEF Round, NotInRound
  <2> QED
    BY <2>1, <2>2 DEF DelGc
<1>2. /\ round[o].st = "sleep"
      /\ \A p \in Obj : round'[p] = IF p = o THEN to ELSE round[p]
      /\ UNCHANGED << hot, cold, row, collector, exit, reqs, expired, accepted, taken >>
  <2>1. /\ round[o].st = "sleep"
        /\ \A p \in Obj : round'[p] = IF p = o THEN to ELSE round[p]
        /\ UNCHANGED << collector, exit, reqs, expired, accepted, taken >>
    BY <1>1, ItemEffect DEF Step
  <2> QED
    BY <2>1 DEF DelGc
<1>3. /\ o \in InRound /\ o \in Live /\ obj[o].box \in Box /\ Live \subseteq Obj
      /\ \A p \in Live : p # o => obj[p].box # obj[o].box
  <2>1. o \in InRound
    BY <1>2 DEF InRound
  <2> QED
    BY <2>1 DEF Step, Typed, Safe, Rounds, OneEach, Live
<1>4. gc' = gc \ {o}
  <2>1. Of(gc, obj[o].box) = gc \cap {o}
    BY <1>3 DEF Of, Live
  <2> QED
    BY <2>1 DEF DelGc
<1>5. /\ Live' \subseteq Live /\ Live \subseteq Live' \cup {o}
      /\ o \in hot \cup cold => Live' = Live
      /\ o \notin hot \cup cold => Live' = Live \ {o}
  BY <1>2, <1>3, <1>4 DEF Live
<1>6. InRound' = InRound \ {o}
  BY <1>1, <1>2 DEF InRound
<1>7. \A p \in Live' : obj'[p] = obj[p]
  <2>1. \A p \in Obj : obj'[p] = IF p \in Live' \cup InRound' THEN obj[p] ELSE Blank
    BY ObjectsEffect DEF DelGc, Step, Typed
  <2> QED
    BY <1>3, <1>5, <2>1
<1>8. \A p \in Live' : Used(p) => Used(p)'
  BY <1>2, <1>7 DEF Used
<1>9. o \notin hot \cup cold => obj[o].mails = row[obj[o].box]
  BY <1>2, <1>3 DEF Used, Step, Safe, Rounds
<1>10. OneEach'
  BY <1>2, <1>5, <1>7 DEF OneEach, Step, Safe
<1>11. Rounds'
  <2>1. InRound' \subseteq Live' /\ collector' # "nobody"
    BY <1>2, <1>3, <1>5, <1>6 DEF Rounds, Step, Safe
  <2>2. ASSUME NEW p \in InRound'
        PROVE  /\ round'[p].st = "set" => Used(p)' \/ obj'[p].mails = round'[p].dump
               /\ round'[p].st = "sleep" => Used(p)' \/ obj'[p].mails = row'[obj'[p].box]
    <3>1. p \in Obj /\ p \in InRound /\ p # o /\ p \in Live'
      BY <1>6, <2>1 DEF InRound
    <3>2. /\ round[p].st = "set" => Used(p) \/ obj[p].mails = round[p].dump
          /\ round[p].st = "sleep" => Used(p) \/ obj[p].mails = row[obj[p].box]
      BY <3>1 DEF Rounds, Step, Safe
    <3> QED
      BY <1>2, <1>7, <1>8, <3>1, <3>2
  <2> QED
    BY <2>1, <2>2 DEF Rounds
<1>12. Histories'
  <2>1. \A b \in Box : Of(Live, b) = {} => taken[b] \o row[b] = accepted[b]
    BY DEF Histories, Step, Safe
  <2>2. \A p \in Live : taken[obj[p].box] \o obj[p].mails = accepted[obj[p].box]
    BY DEF Histories, Step, Safe
  <2>3. ASSUME NEW b \in Box, Of(Live, b)' = {} PROVE taken[b] \o row[b] = accepted[b]
    <3>1. CASE Of(Live, b) = {}
      BY <2>1, <3>1
    <3>2. CASE Of(Live, b) # {}
      <4>1. PICK p \in Live : obj[p].box = b /\ p \notin Live'
        BY <1>7, <2>3, <3>2 DEF Of
      <4>2. p = o /\ o \notin hot \cup cold
        BY <1>5, <4>1
      <4> QED
        BY <1>9, <2>2, <4>1, <4>2
    <3> QED
      BY <3>1, <3>2
  <2> QED
    BY <1>2, <1>5, <1>7, <2>2, <2>3 DEF Histories
<1>13. Requests'
  <2> SUFFICES ASSUME NEW q \in reqs
               PROVE  /\ \A p \in Live' : obj'[p].box = q.req.box => Used(p)'
                      /\ q.st = "got" /\ Of(Live, q.req.box)' = {} => q.row = row'[q.req.box]
    BY <1>2 DEF Requests
  <2>1. /\ \A p \in Live : obj[p].box = q.req.box => Used(p)
        /\ q.st = "got" /\ Of(Live, q.req.box) = {} => q.row = row[q.req.box]
    BY DEF Requests, Step, Safe
  <2>2. Of(Live, q.req.box)' = {} => Of(Live, q.req.box) = {}
    <3>1. o \notin Live' => ~ Used(o)
      BY <1>3, <1>5 DEF Used
    <3> QED
      BY <1>3, <1>5, <1>7, <2>1, <3>1 DEF Of
  <2> QED
    BY <1>2, <1>5, <1>7, <1>8, <2>1, <2>2
<1>14. Exits'
  BY <1>2, <1>4 DEF Exits, Step, Safe
<1> QED
  BY <1>2, <1>10, <1>11, <1>12, <1>13, <1>14 DEF Safe, Step

(* A mailbox that is in memory once only enters gc_map, or stays there.       *)
LEMMA AddGcKeeps ==
  ASSUME OneEach, NEW S, S \subseteq Live
  PROVE  AddGc(gc, S) = gc \cup S
<1>1. \A o \in gc, p \in S : obj[p].box = obj[o].box => p = o
  BY DEF OneEach, Live
<1> QED
  BY <1>1 DEF AddGc

\* A collection of what is in gc_map begins, or nothing is said of the rounds.
Collects ==
  /\ collector' # "nobody"
  /\ \A p \in Obj : round'[p].st = IF p \in gc' THEN "save" ELSE "none"

(* The mailboxes in memory stay, in other maps, and a collection may begin.    *)
LEMMA MovedSafe ==
  ASSUME Step, Live' = Live, hot' \cap cold' = {}, \A o \in Live : Used(o) => Used(o)',
         UNCHANGED << obj, reqs, row, expired, accepted, taken >>, Exits',
         UNCHANGED << collector, round >> \/ Collects
  PROVE  Safe'
<1>1. OneEach'
  BY DEF OneEach, Step, Safe
<1>2. Rounds'
  <2>1. CASE UNCHANGED << collector, round >>
    <3>1. InRound' = InRound
      BY <2>1 DEF InRound
    <3> QED
      BY <2>1, <3>1 DEF Rounds, Step, Safe
  <2>2. CASE Collects
    <3>1. InRound' \subseteq gc' /\ \A p \in InRound' : round'[p].st = "save"
      BY <2>2 DEF InRound, Collects
    <3>2. gc' \subseteq Live'
      BY DEF Live
    <3> QED
      BY <2>2, <3>1, <3>2 DEF Rounds, Collects
  <2> QED
    BY <2>1, <2>2
<1>3. \A b : Of(Live, b)' = Of(Live, b)
  BY DEF Of
<1>4. Requests'
  BY <1>3 DEF Requests, Step, Safe
<1>5. Histories'
  BY <1>3 DEF Histories, Step, Safe
<1> QED
  BY <1>1, <1>2, <1>4, <1>5 DEF Safe, Step

LEMMA UpdateSafe ==
  ASSUME Step, Update
  PROVE  Safe'
<1>1. UNCHANGED << obj, reqs, row, expired, accepted, taken >> /\ exit = "no"
  BY DEF Update, history
<1>2. Due(hot) \subseteq hot /\ Due(cold) \subseteq cold
      /\ Idle(hot) \subseteq Due(hot) /\ Idle(cold) \subseteq Due(cold)
  BY DEF Due, Idle
<1>3. PICK S : /\ S \subseteq hot \cup cold /\ gc' = AddGc(gc, S)
               /\ hot' \subseteq hot /\ hot \ hot' \subseteq Idle(hot) \cap S
               /\ cold' \subseteq cold /\ cold \ cold' \subseteq Idle(cold) \cap S
  <2>1. CASE UNCHANGED << hot, cold, gcvars >> /\ \E S \in SUBSET Due(hot) : gc' = AddGc(gc, S)
    <3>1. PICK S \in SUBSET Due(hot) : gc' = AddGc(gc, S)
      BY <2>1
    <3> QED
      BY <1>2, <2>1, <3>1
  <2>2. CASE /\ hot' = hot \ Idle(hot) /\ UNCHANGED << cold, gcvars >>
             /\ \E S \in SUBSET Due(cold) : gc' = AddGc(gc, Due(hot) \cup S)
    <3>1. PICK S \in SUBSET Due(cold) : gc' = AddGc(gc, Due(hot) \cup S)
      BY <2>2
    <3>2. PICK T : T = Due(hot) \cup S
      OBVIOUS
    <3> QED
      BY <1>2, <2>2, <3>1, <3>2
  <2>3. CASE /\ hot' = hot \ Idle(hot) /\ cold' = cold \ Idle(cold)
             /\ gc' = AddGc(gc, Due(hot) \cup Due(cold))
    <3>1. PICK T : T = Due(hot) \cup Due(cold)
      OBVIOUS
    <3> QED
      BY <1>2, <2>3, <3>1
  <2> QED
    BY <2>1, <2>2, <2>3 DEF Update
<1>4. gc' = gc \cup S
  <2>1. S \subseteq Live
    BY <1>3 DEF Live
  <2> QED
    BY <1>3, <2>1, AddGcKeeps DEF Step, Safe
<1>5. Live' = Live
  BY <1>3, <1>4 DEF Live
<1>6. hot' \cap cold' = {}
  BY <1>3 DEF Step, Safe, OneEach
<1>7. \A o \in Live : Used(o) => Used(o)'
  BY <1>1, <1>3 DEF Used, Idle
<1>8. exit' = exit /\ (UNCHANGED << collector, round >> \/ Collects)
  <2>1. UNCHANGED gcvars \/ Gc(gc', "update")
    BY DEF Update
  <2>2. CASE UNCHANGED gcvars
    BY <2>2 DEF gcvars
  <2>3. CASE Gc(gc', "update")
    <3>1. gc' \subseteq Obj /\ GcTyped
      BY DEF Step, Typed
    <3>2. /\ exit' = exit
          /\ \/ UNCHANGED << collector, round >>
             \/ /\ collector = "nobody" /\ collector' = "update"
                /\ \A p \in Obj : round'[p].st = IF p \in gc' THEN "save" ELSE "none"
      BY <2>3, <3>1, GcEffect
    <3> QED
      BY <3>2 DEF Collects
  <2> QED
    BY <2>1, <2>2, <2>3
<1>9. Exits'
  BY <1>1, <1>8 DEF Exits
<1> QED
  BY <1>1, <1>5, <1>6, <1>7, <1>8, <1>9, MovedSafe

LEMMA ExitSafe ==
  ASSUME Step, Exit
  PROVE  Safe'
<1>1. UNCHANGED << obj, reqs, row, expired, accepted, taken >> /\ hot' = {} /\ cold' = {}
      /\ reqs = {} /\ collector = "nobody"
  BY DEF Exit, history, AtRest, Step
<1>2. gc' = gc \cup (hot \cup cold)
  <2>1. PICK S : S = hot \cup cold
    OBVIOUS
  <2>2. S \subseteq Live
    BY <2>1 DEF Live
  <2>3. AddGc(gc, S) = gc \cup S
    BY <2>2, AddGcKeeps DEF Step, Safe
  <2> QED
    BY <2>1, <2>3 DEF Exit
<1>3. Live' = Live
  BY <1>1, <1>2 DEF Live
<1>4. /\ OneEach' /\ Histories'
  <2>1. \A b : Of(Live, b)' = Of(Live, b)
    BY <1>1, <1>3 DEF Of
  <2> QED
    BY <1>1, <1>3, <2>1 DEF OneEach, Histories, Step, Safe
<1>5. Requests'
  BY <1>1 DEF Requests
<1>6. InRound = {}
  BY <1>1 DEF InRound, Step, Safe, Rounds
<1>7. CASE gc' = {}
  <2>1. exit' = "done" /\ UNCHANGED << collector, round >>
    BY <1>7 DEF Exit
  <2>2. InRound' = {}
    BY <1>6, <2>1 DEF InRound
  <2>3. Rounds' /\ Exits'
    BY <1>1, <1>7, <2>1, <2>2 DEF Rounds, Exits, Step, Safe
  <2> QED
    BY <1>1, <1>4, <1>5, <2>3 DEF Safe, Step
<1>8. CASE gc' # {}
  <2>1. exit' = "gc" /\ collector' = "exit" /\ round' = Items(gc')
    BY <1>1, <1>8 DEF Exit
  <2>2. gc' \subseteq Obj /\ gc' \subseteq Live'
    BY DEF Step, Typed, Live
  <2>3. \A p \in Obj : round'[p].st = IF p \in gc' THEN "save" ELSE "none"
    BY <2>1, <2>2, RoundsStart
  <2>4. InRound' \subseteq gc' /\ \A p \in InRound' : round'[p].st = "save"
    BY <2>3 DEF InRound
  <2>5. Rounds' /\ Exits'
    BY <1>1, <2>1, <2>2, <2>4 DEF Rounds, Exits
  <2> QED
    BY <1>1, <1>4, <1>5, <2>5 DEF Safe, Step
<1> QED
  BY <1>7, <1>8

LEMMA RoundOverSafe ==
  ASSUME Step, RoundOver
  PROVE  Safe'
<1>1. UNCHANGED << hot, cold, gc, obj, reqs, row, expired, accepted, taken >> /\ collector # "nobody"
  BY DEF RoundOver, maps, history
<1>2. Live' = Live /\ \A b : Of(Live, b)' = Of(Live, b)
  BY <1>1 DEF Live, Of
<1>3. \A o : Used(o)' <=> Used(o)
  BY <1>1 DEF Used
<1>4. OneEach' /\ Histories' /\ Requests'
  BY <1>1, <1>2, <1>3 DEF OneEach, Histories, Requests, Step, Safe
<1>5. CASE gc # {} /\ round' = Items(gc) /\ UNCHANGED << collector, exit >>
  <2>1. gc \subseteq Obj /\ gc \subseteq Live
    BY DEF Step, Typed, Live
  <2>2. \A p \in Obj : round'[p].st = IF p \in gc THEN "save" ELSE "none"
    BY <1>5, <2>1, RoundsStart
  <2>3. InRound' \subseteq gc /\ \A p \in InRound' : round'[p].st = "save"
    BY <2>2 DEF InRound
  <2>4. Rounds'
    BY <1>1, <1>2, <1>5, <2>1, <2>3 DEF Rounds
  <2>5. Exits'
    BY <1>1, <1>5 DEF Exits, Step, Safe
  <2> QED
    BY <1>1, <1>4, <2>4, <2>5 DEF Safe, Step
<1>6. CASE /\ gc = {} /\ collector' = "nobody" /\ round' = Items({})
           /\ exit' = IF exit = "no" THEN "no" ELSE "done"
  <2>1. \A p \in Obj : round'[p].st = "none"
    BY <1>6, RoundsStart
  <2>2. InRound' = {}
    BY <2>1 DEF InRound
  <2>3. Rounds'
    BY <2>1, <2>2 DEF Rounds
  <2>4. Exits'
    BY <1>1, <1>6 DEF Exits, Step, Safe
  <2> QED
    BY <1>1, <1>4, <2>3, <2>4 DEF Safe, Step
<1> QED
  BY <1>5, <1>6 DEF RoundOver

LEMMA InitSafe == Init => Safe
<1> SUFFICES ASSUME Init PROVE Safe
  OBVIOUS
<1>1. Live = {} /\ InRound = {}
  BY DEF Init, Live, InRound, NotInRound
<1>2. << >> \o << >> = << >>
  BY ConcatEmptySeq
<1>3. \A b \in Box : taken[b] = << >> /\ row[b] = << >> /\ accepted[b] = << >>
  BY DEF Init
<1>4. Histories
  BY <1>1, <1>2, <1>3 DEF Histories
<1>5. \A o \in Obj : round[o].st = "none"
  BY DEF Init, NotInRound
<1> QED
  BY <1>1, <1>4, <1>5 DEF Init, Safe, OneEach, Rounds, Requests, Exits

LEMMA StepSafe == Fits /\ IInv /\ [Next]_vars => IInv'
<1> SUFFICES ASSUME Fits, IInv, [Next]_vars PROVE IInv'
  OBVIOUS
<1>1. Typed'
  BY StepTyped DEF IInv
<1>2. world' = world
  BY DEF Next, vars, Send, Pull, Request, DbGet, Arrived, Age, GcItem, Save, DbSet, DelGc, Item,
         Expire, Update, RoundOver, Exit
<1> SUFFICES ASSUME world = {} PROVE Safe'
  BY <1>1, <1>2 DEF IInv
<1>3. Step
  BY <1>1 DEF Step, IInv
<1>4. ASSUME NEW b \in Box, Send(b) PROVE Safe'
  <2>1. sent' \in Mail
    BY <1>4, BoundAssumption DEF Send, IInv, Typed, Mail
  <2>2. PICK r \in Req : r = [kind |-> "send", box |-> b, mail |-> sent'] /\ r.box = b
    <3>1. PICK r : r = [kind |-> "send", box |-> b, mail |-> sent']
      OBVIOUS
    <3> QED
      BY <2>1, <3>1 DEF Req
  <2> QED
    BY <1>3, <1>4, <2>2, RequestSafe DEF Send
<1>5. ASSUME NEW b \in Box, Pull(b) PROVE Safe'
  <2>1. PICK r \in Req : r = [kind |-> "pull", box |-> b, mail |-> 0] /\ r.box = b
    <3>1. PICK r : r = [kind |-> "pull", box |-> b, mail |-> 0]
      OBVIOUS
    <3> QED
      BY <3>1 DEF Req
  <2>2. Request(r)
    BY <1>5, <2>1 DEF Pull
  <2> QED
    BY <1>3, <2>1, <2>2, RequestSafe
<1>6. ASSUME NEW q \in reqs, DbGet(q) PROVE Safe'
  BY <1>3, <1>6, DbGetSafe
<1>7. ASSUME NEW q \in reqs, Arrived(q) PROVE Safe'
  BY <1>3, <1>7, ArrivedSafe
<1>8. ASSUME NEW o \in Obj, Age(o) PROVE Safe'
  BY <1>3, <1>8, AgeSafe
<1>9. ASSUME NEW o \in Obj, GcItem(o) PROVE Safe'
  BY <1>3, <1>9, SaveSafe, DbSetSafe, DelGcSafe DEF GcItem
<1>10. ASSUME NEW m \in Mail, Expire(m) PROVE Safe'
  BY <1>10 DEF Expire
<1>11. CASE Update
  BY <1>3, <1>11, UpdateSafe
<1>12. CASE RoundOver
  BY <1>3, <1>12, RoundOverSafe
<1>13. CASE Exit
  BY <1>3, <1>13, ExitSafe
<1>14. CASE UNCHANGED vars
  <2>1. UNCHANGED << hot, cold, gc, obj, collector, round, exit, reqs, row, expired, accepted, taken >>
    BY <1>14 DEF vars, maps, gcvars, history
  <2>2. /\ Live' = Live /\ InRound' = InRound
        /\ \A b : Of(Live, b)' = Of(Live, b) /\ \A o : Used(o)' <=> Used(o)
    BY <2>1 DEF Live, InRound, Of, Used
  <2>3. OneEach' /\ Rounds' /\ Requests' /\ Exits' /\ Histories'
    BY <1>3, <2>1, <2>2 DEF OneEach, Rounds, Requests, Exits, Histories, Step, Safe
  <2> QED
    BY <1>3, <2>1, <2>3 DEF Safe, Step
<1> QED
  BY <1>4, <1>5, <1>6, <1>7, <1>8, <1>9, <1>10, <1>11, <1>12, <1>13, <1>14 DEF Next

LEMMA SafeExact == IInv => MailExact
<1> SUFFICES ASSUME Typed, Safe
             PROVE  /\ RowsAtExit
                    /\ \A b \in Box : /\ Cardinality(Of(Live, b)) <= 1
                                      /\ taken[b] \o Waiting(b) = accepted[b]
  BY DEF IInv, MailExact
<1>1. RowsAtExit
  <2>1. exit = "done" => Live = {}
    BY DEF Safe, Exits, Live
  <2>2. exit = "done" => \A b \in Box : Of(Live, b) = {}
    BY <2>1 DEF Of
  <2> QED
    BY <2>2 DEF RowsAtExit, Safe, Histories
<1>2. ASSUME NEW b \in Box PROVE Cardinality(Of(Live, b)) <= 1 /\ taken[b] \o Waiting(b) = accepted[b]
  <2>1. CASE Of(Live, b) = {}
    <3>1. Waiting(b) = row[b]
      BY <2>1 DEF Waiting
    <3>2. Cardinality(Of(Live, b)) = 0
      BY <2>1, FS_EmptySet
    <3>3. taken[b] \o row[b] = accepted[b]
      BY <2>1 DEF Safe, Histories
    <3> QED
      BY <3>1, <3>2, <3>3
  <2>2. CASE Of(Live, b) # {}
    <3>1. PICK o : Of(Live, b) = {o} /\ o \in Live /\ obj[o].box = b
      BY <2>2 DEF Of, Safe, OneEach
    <3>2. Cardinality({o}) = 1
      BY FS_Singleton
    <3>3. Waiting(b) = obj[o].mails
      BY <3>1 DEF Waiting
    <3>4. taken[b] \o obj[o].mails = accepted[b]
      BY <3>1 DEF Safe, Histories
    <3> QED
      BY <3>1, <3>2, <3>3, <3>4
  <2> QED
    BY <2>1, <2>2
<1> QED
  BY <1>1, <1>2

(* mailbox_mgr.lua:14-30, cache_mgr.lua:25-55, 96-127, 181-219, 243-273: as     *)
(* long as the mailboxes fit into the cache, a mailbox is in memory at most   *)
(* once, and it, or else its row, has every mail accepted and not yet pulled, *)
(* in order, and the rows have them all after exit; for any number of mails   *)
(* and requests, lengths of the lists, and interleaving of the loads, swaps,  *)
(* update passes and collections.                                           *)
THEOREM MailCorrect ==
  ASSUME Fits
  PROVE  Spec => []MailExact
<1>1. Init => IInv
  BY InitTyped, InitSafe DEF IInv
<1>2. IInv /\ [Next]_vars => IInv'
  BY StepSafe
<1> QED
  BY <1>1, <1>2, SafeExact, PTL DEF Spec
=============================================================================
