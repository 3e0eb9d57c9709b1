------------------------------ MODULE LogProofs ------------------------------
(***************************************************************************)
(* Proofs about the logger (module Log), for buffers and files of any size,  *)
(* any number of messages and any heap: the lists of buffers, and that no    *)
(* message is lost, written twice or out of order.                          *)
(***************************************************************************)
EXTENDS Log, SequenceTheorems, FiniteSetTheorems, WellFoundedInduction, TLAPS

(* Induction over the natural numbers in a set.                             *)
LEMMA SetInduction ==
  ASSUME NEW S, 0 \in S, \A n \in Nat : n \in S => n + 1 \in S
  PROVE  Nat \subseteq S
<1> DEFINE R == {ss \in Nat \X Nat : ss[1] < ss[2]}
           T == Nat \ S
<1>1. IsWellFoundedOn(R, Nat)
  BY NatLessThanWellFounded DEF OpToRel
<1>2. SUFFICES ASSUME T # {} PROVE FALSE
  OBVIOUS
<1>3. PICK x \in T : \A y \in T : ~ (<<y, x>> \in R)
  <2> HIDE DEF R, T
  <2>1. T \subseteq Nat
    BY DEF T
  <2> QED
    BY <1>1, <1>2, <2>1, WFMin
<1>4. x # 0 /\ x - 1 \in Nat
  OBVIOUS
<1>5. <<x - 1, x>> \in R
  BY <1>4
<1>6. x - 1 \in S
  BY <1>3, <1>4, <1>5
<1> QED
  BY <1>4, <1>6

-----------------------------------------------------------------------------
(* FlattenSeq.                                                              *)

FlatFcn(f, s, n) == f = [i \in 1 .. n |-> IF i = 1 THEN s[i] ELSE f[i - 1] \o s[i]]

LEMMA FlatAt ==
  ASSUME NEW f, NEW s, NEW n \in Nat, FlatFcn(f, s, n)
  PROVE  \A j \in 1 .. n : f[j] = IF j = 1 THEN s[j] ELSE f[j - 1] \o s[j]
<1>1. PICK h : h = [i \in 1 .. n |-> IF i = 1 THEN s[i] ELSE f[i - 1] \o s[i]]
  OBVIOUS
<1>2. \A j \in 1 .. n : h[j] = IF j = 1 THEN s[j] ELSE f[j - 1] \o s[j]
  BY <1>1
<1>3. f = h
  BY <1>1 DEF FlatFcn
<1> QED
  BY <1>2, <1>3

LEMMA FlatUnique ==
  ASSUME NEW s, NEW t, NEW f, NEW g, NEW m \in Nat, NEW n \in Nat,
         FlatFcn(f, s, m), FlatFcn(g, t, n), m <= n, \A i \in 1 .. m : s[i] = t[i]
  PROVE  \A i \in 1 .. m : f[i] = g[i]
<1> DEFINE S == {k \in Nat : k \in 1 .. m => f[k] = g[k]}
<1>1. 0 \in S
  OBVIOUS
<1>2. ASSUME NEW k \in Nat, k \in S PROVE k + 1 \in S
  <2> SUFFICES ASSUME k + 1 \in 1 .. m PROVE f[k + 1] = g[k + 1]
    OBVIOUS
  <2>1. PICK j \in 1 .. m : j = k + 1 /\ j \in 1 .. n
    OBVIOUS
  <2>2. f[j] = IF j = 1 THEN s[j] ELSE f[j - 1] \o s[j]
    BY FlatAt
  <2>3. g[j] = IF j = 1 THEN t[j] ELSE g[j - 1] \o t[j]
    BY <2>1, FlatAt
  <2>4. s[j] = t[j] /\ (j # 1 => f[j - 1] = g[j - 1])
    BY <1>2, <2>1
  <2>5. f[j] = g[j]
    BY <2>2, <2>3, <2>4
  <2> QED
    BY <2>1, <2>5
<1>3. Nat \subseteq S
  <2> HIDE DEF S
  <2> QED
    BY <1>1, <1>2, SetInduction
<1> QED
  BY <1>3

Lists(s, S) == s \in Seq(Seq(S))

LEMMA FlatExists ==
  ASSUME NEW S, NEW s, Lists(s, S), NEW n \in Nat, n <= Len(s)
  PROVE  \E f : FlatFcn(f, s, n) /\ \A i \in 1 .. n : f[i] \in Seq(S)
<1> DEFINE P(f, k) == FlatFcn(f, s, k) /\ \A i \in 1 .. k : f[i] \in Seq(S)
           T == {k \in Nat : k <= Len(s) => \E f : P(f, k)}
<1>1. 0 \in T
  <2>1. FlatFcn([i \in 1 .. 0 |-> << >>], s, 0)
    BY DEF FlatFcn
  <2> QED
    BY <2>1
<1>2. ASSUME NEW k \in Nat, k \in T PROVE k + 1 \in T
  <2> SUFFICES ASSUME k + 1 <= Len(s) PROVE \E f : P(f, k + 1)
    OBVIOUS
  <2>1. PICK f : P(f, k)
    <3>1. Len(s) \in Nat
      BY DEF Lists
    <3> QED
      BY <1>2, <3>1
  <2>2. PICK e \in Seq(S) : e = s[k + 1]
    BY DEF Lists
  <2>3. PICK last \in Seq(S) : last = IF k = 0 THEN e ELSE f[k] \o e
    <3>1. k # 0 => f[k] \in Seq(S)
      BY <2>1
    <3>2. k # 0 => f[k] \o e \in Seq(S)
      BY <3>1, ConcatProperties
    <3> QED
      BY <3>2
  <2>4. PICK g : g = [i \in 1 .. k + 1 |-> IF i = k + 1 THEN last ELSE f[i]]
    OBVIOUS
  <2>5. ASSUME NEW i \in 1 .. k + 1 PROVE g[i] \in Seq(S)
    BY <2>1, <2>4
  <2>6. ASSUME NEW i \in 1 .. k + 1 PROVE g[i] = IF i = 1 THEN s[i] ELSE g[i - 1] \o s[i]
    <3>1. CASE i = k + 1
      <4>1. g[i] = last /\ s[i] = e
        BY <2>2, <2>4, <3>1
      <4>2. CASE k = 0
        BY <2>3, <3>1, <4>1, <4>2
      <4>3. CASE k # 0
        <5>1. g[i - 1] = f[k] /\ i # 1
          BY <2>4, <3>1, <4>3
        <5> QED
          BY <2>3, <4>1, <4>3, <5>1
      <4> QED
        BY <4>2, <4>3
    <3>2. CASE i \in 1 .. k
      <4>1. f[i] = IF i = 1 THEN s[i] ELSE f[i - 1] \o s[i]
        BY <2>1, <3>2, FlatAt
      <4>2. g[i] = f[i] /\ (i # 1 => g[i - 1] = f[i - 1])
        BY <2>4, <3>2
      <4> QED
        BY <4>1, <4>2
    <3> QED
      BY <3>1, <3>2
  <2>7. FlatFcn(g, s, k + 1)
    BY <2>4, <2>6 DEF FlatFcn
  <2> QED
    BY <2>5, <2>7
<1>3. Nat \subseteq T
  <2> HIDE DEF T
  <2> QED
    BY <1>1, <1>2, SetInduction
<1>4. \E f : P(f, n)
  BY <1>3
<1> QED
  BY <1>4

LEMMA FlatValue ==
  ASSUME NEW s, s # << >>, NEW n \in Nat, n = Len(s), NEW f, FlatFcn(f, s, n)
  PROVE  n # 0 => FlattenSeq(s) = f[n]
<1>2. PICK g : g = CHOOSE x : FlatFcn(x, s, n)
  OBVIOUS
<1>3. FlattenSeq(s) = g[n]
  BY <1>2 DEF FlattenSeq, FlatFcn
<1>4. FlatFcn(g, s, n)
  BY <1>2
<1>5. n # 0 => f[n] = g[n]
  BY <1>4, FlatUnique
<1> QED
  BY <1>3, <1>5

LEMMA FlatEmpty == FlattenSeq(<< >>) = << >>
BY DEF FlattenSeq

LEMMA FlatAppend ==
  ASSUME NEW S, NEW s, Lists(s, S), NEW e \in Seq(S)
  PROVE  FlattenSeq(s) \in Seq(S) /\ FlattenSeq(Append(s, e)) = FlattenSeq(s) \o e
<1>1. PICK n \in Nat : n = Len(s) /\ (n = 0 <=> s = << >>)
  BY EmptySeq DEF Lists
<1>2. PICK m \in Nat : m = n + 1 /\ n <= m
  OBVIOUS
<1>3. PICK t : /\ t = Append(s, e) /\ Len(t) = m /\ t # << >> /\ t[m] = e /\ Lists(t, S)
               /\ \A i \in 1 .. n : s[i] = t[i]
  <2>1. PICK T : T = Seq(S) /\ s \in Seq(T) /\ e \in T
    BY DEF Lists
  <2>2. /\ Append(s, e) \in Seq(T) /\ Append(s, e) # << >> /\ Len(Append(s, e)) = n + 1
        /\ \A i \in 1 .. n : Append(s, e)[i] = s[i]
        /\ Append(s, e)[n + 1] = e
    BY ONLY <1>1, <2>1, AppendProperties
  <2>3. Append(s, e) \in Seq(Seq(S))
    BY <2>1, <2>2
  <2> QED
    BY ONLY <1>2, <2>2, <2>3, n \in Nat DEF Lists
<1>4. PICK f : FlatFcn(f, s, n) /\ \A i \in 1 .. n : f[i] \in Seq(S)
  BY <1>1, FlatExists
<1>5. PICK g : FlatFcn(g, t, m) /\ \A i \in 1 .. m : g[i] \in Seq(S)
  <2>1. m <= Len(t)
    BY <1>2, <1>3
  <2> QED
    BY <1>3, <2>1, FlatExists
<1>6. FlattenSeq(t) = g[m]
  <2>1. m = Len(t) /\ m # 0
    BY <1>2, <1>3
  <2> QED
    BY <1>3, <1>5, <2>1, FlatValue
<1>7. g[m] = IF n = 0 THEN e ELSE g[n] \o e
  <2>1. g[m] = IF m = 1 THEN t[m] ELSE g[m - 1] \o t[m]
    BY <1>2, <1>5, FlatAt
  <2> QED
    BY <1>2, <1>3, <2>1
<1>8. \A i \in 1 .. n : f[i] = g[i]
  <2>1. FlatFcn(f, s, n) /\ FlatFcn(g, t, m) /\ n <= m /\ \A i \in 1 .. n : s[i] = t[i]
    BY <1>2, <1>3, <1>4, <1>5
  <2> QED
    BY ONLY <2>1, n \in Nat, m \in Nat, FlatUnique
<1>9. CASE n = 0
  <2>1. FlattenSeq(s) = << >>
    BY <1>1, <1>9, FlatEmpty
  <2> QED
    BY <1>3, <1>6, <1>7, <1>9, <2>1
<1>10. CASE n # 0
  <2>1. FlattenSeq(s) = f[n]
    BY <1>1, <1>4, <1>10, FlatValue
  <2>2. g[n] = f[n] /\ f[n] \in Seq(S)
    BY <1>4, <1>8, <1>10
  <2> QED
    BY <1>3, <1>6, <1>7, <1>10, <2>1, <2>2
<1> QED
  BY <1>9, <1>10

-----------------------------------------------------------------------------
(* Increasing sequences.                                                    *)

Sorted(s) == \A i, j \in 1 .. Len(s) : i < j => s[i] < s[j]

LEMMA ToSetAppend ==
  ASSUME NEW S, NEW s \in Seq(S), NEW e \in S
  PROVE  ToSet(Append(s, e)) = ToSet(s) \cup {e}
<1> DEFINE t == Append(s, e)
<1>1. /\ t \in Seq(S) /\ Len(t) = Len(s) + 1 /\ t[Len(s) + 1] = e
      /\ \A i \in 1 .. Len(s) : t[i] = s[i]
  BY AppendProperties
<1> HIDE DEF t
<1>2. DOMAIN s = 1 .. Len(s) /\ DOMAIN t = 1 .. Len(s) + 1 /\ Len(s) \in Nat
  BY <1>1
<1>3. ToSet(t) \subseteq ToSet(s) \cup {e}
  BY <1>1, <1>2 DEF ToSet
<1>4. ToSet(s) \subseteq ToSet(t)
  BY <1>1, <1>2 DEF ToSet
<1>5. e \in ToSet(t)
  BY <1>1, <1>2 DEF ToSet
<1> QED
  BY <1>3, <1>4, <1>5 DEF t

LEMMA ToSetConcat ==
  ASSUME NEW S, NEW s \in Seq(S), NEW t \in Seq(S)
  PROVE  ToSet(s \o t) = ToSet(s) \cup ToSet(t)
<1>1. PICK u \in Seq(S) : u = s \o t
  BY ConcatProperties
<1>2. Range(u) = Range(s) \cup Range(t)
  BY <1>1, RangeConcatenation
<1> QED
  BY <1>1, <1>2 DEF ToSet, Range

LEMMA SortedAppend ==
  ASSUME NEW s \in Seq(Nat), NEW c \in Nat, Sorted(s), ToSet(s) \subseteq 1 .. c
  PROVE  Sorted(Append(s, c + 1))
<1>1. \A i \in 1 .. Len(s) : s[i] <= c
  BY DEF ToSet
<1> DEFINE t == Append(s, c + 1)
<1>2. /\ t \in Seq(Nat) /\ Len(t) = Len(s) + 1 /\ t[Len(s) + 1] = c + 1
      /\ \A i \in 1 .. Len(s) : t[i] = s[i]
  BY AppendProperties
<1> HIDE DEF t
<1>3. ASSUME NEW i \in 1 .. Len(t), NEW j \in 1 .. Len(t), i < j PROVE t[i] < t[j]
  <2>1. i \in 1 .. Len(s) /\ t[i] = s[i] /\ s[i] \in Nat
    BY <1>2, <1>3
  <2>2. CASE j = Len(s) + 1
    BY <1>1, <1>2, <2>1, <2>2
  <2>3. CASE j \in 1 .. Len(s)
    BY <1>2, <1>3, <2>1, <2>3 DEF Sorted
  <2> QED
    BY <1>2, <2>2, <2>3
<1> QED
  BY <1>3 DEF Sorted, t

(* A middle part is left out.                                               *)
LEMMA SortedDrop ==
  ASSUME NEW a \in Seq(Nat), NEW b \in Seq(Nat), NEW c \in Seq(Nat), Sorted((a \o b) \o c)
  PROVE  Sorted(a \o c) /\ ToSet(a \o c) = ToSet((a \o b) \o c) \ ToSet(b)
<1>1. PICK l \in Nat, m \in Nat, n \in Nat : l = Len(a) /\ m = Len(b) /\ n = Len(c)
  OBVIOUS
<1> DEFINE s == a \o b
           u == s \o c
           t == a \o c
<1>2. /\ s \in Seq(Nat) /\ Len(s) = l + m
      /\ \A i \in 1 .. l + m : s[i] = IF i <= l THEN a[i] ELSE b[i - l]
  BY <1>1, ConcatProperties
<1>3. /\ u \in Seq(Nat) /\ Len(u) = l + m + n
      /\ \A i \in 1 .. l + m + n : u[i] = IF i <= l + m THEN s[i] ELSE c[i - (l + m)]
  <2>1. s \in Seq(Nat)
    BY <1>2
  <2> HIDE DEF s
  <2>2. /\ s \o c \in Seq(Nat) /\ Len(s \o c) = Len(s) + Len(c)
        /\ \A i \in 1 .. Len(s) + Len(c) : (s \o c)[i] = IF i <= Len(s) THEN s[i] ELSE c[i - Len(s)]
    BY <2>1, ConcatProperties
  <2> QED
    BY <1>1, <1>2, <2>2
<1>4. /\ t \in Seq(Nat) /\ Len(t) = l + n
      /\ \A i \in 1 .. l + n : t[i] = IF i <= l THEN a[i] ELSE c[i - l]
  BY <1>1, ConcatProperties
<1>0. Sorted(u)
  OBVIOUS
<1> HIDE DEF s, t, u
<1>14. \A i \in 1 .. l + n : t[i] = IF i <= l THEN a[i] ELSE c[i - l]
  BY <1>4
<1>15. \A i \in 1 .. l + m + n : u[i] = IF i <= l + m THEN s[i] ELSE c[i - (l + m)]
  BY <1>3
<1>16. \A i \in 1 .. l + m : s[i] = IF i <= l THEN a[i] ELSE b[i - l]
  BY <1>2
<1>5. ASSUME NEW i \in 1 .. l + n PROVE (i <= l => t[i] = u[i]) /\ (i > l => t[i] = u[i + m])
  <2>1. CASE i <= l
    <3>1. i \in 1 .. l + m /\ i \in 1 .. l + m + n
      BY <2>1
    <3>2. t[i] = a[i]
      BY ONLY <1>14, <2>1, i \in 1 .. l + n
    <3>3. i <= l + m
      BY <2>1
    <3>4. u[i] = s[i]
      BY ONLY <1>15, <3>1, <3>3
    <3>5. s[i] = a[i]
      BY ONLY <1>16, <2>1, <3>1
    <3> QED
      BY <2>1, <3>2, <3>4, <3>5
  <2>2. CASE i > l
    <3>1. PICK k \in 1 .. l + m + n : k = i + m /\ k > l + m /\ k - (l + m) = i - l
      BY <2>2
    <3>2. ~(i <= l) /\ ~(k <= l + m)
      BY <2>2, <3>1
    <3>3. t[i] = c[i - l]
      BY ONLY <1>14, <3>2, i \in 1 .. l + n
    <3>4. u[k] = c[k - (l + m)]
      BY ONLY <1>15, <3>2, k \in 1 .. l + m + n
    <3> QED
      BY <2>2, <3>1, <3>3, <3>4
  <2> QED
    BY <2>1, <2>2
<1>6. ASSUME NEW i \in 1 .. m PROVE b[i] = u[i + l]
  <2>1. PICK k \in 1 .. l + m : k = i + l /\ k > l /\ k - l = i /\ k \in 1 .. l + m + n
    OBVIOUS
  <2> QED
    BY <1>2, <1>3, <2>1
<1>7. \A i, j \in 1 .. l + m + n : i < j => u[i] < u[j]
  BY <1>0, <1>3 DEF Sorted
<1>8. Sorted(t)
  <2> SUFFICES ASSUME NEW i \in 1 .. l + n, NEW j \in 1 .. l + n, i < j PROVE t[i] < t[j]
    BY <1>4 DEF Sorted
  <2>1. PICK x \in 1 .. l + m + n : x = IF i <= l THEN i ELSE i + m
    OBVIOUS
  <2>2. PICK y \in 1 .. l + m + n : y = IF j <= l THEN j ELSE j + m
    OBVIOUS
  <2>3. t[i] = u[x] /\ t[j] = u[y]
    <3>1. \A k \in 1 .. l + n : (k <= l => t[k] = u[k]) /\ (k > l => t[k] = u[k + m])
      BY ONLY <1>5
    <3>2. t[i] = u[x]
      BY ONLY <3>1, <2>1, i \in 1 .. l + n, l \in Nat, n \in Nat, m \in Nat
    <3>3. t[j] = u[y]
      BY ONLY <3>1, <2>2, j \in 1 .. l + n, l \in Nat, n \in Nat, m \in Nat
    <3> QED
      BY <3>2, <3>3
  <2>4. x < y
    BY <2>1, <2>2
  <2> QED
    BY <1>7, <2>3, <2>4
<1>9. \A i, j \in 1 .. l + m + n : u[i] = u[j] => i = j
  <2> SUFFICES ASSUME NEW i \in 1 .. l + m + n, NEW j \in 1 .. l + m + n, u[i] = u[j], i # j
               PROVE  FALSE
    OBVIOUS
  <2>1. i < j \/ j < i
    OBVIOUS
  <2>2. u[i] < u[j] \/ u[j] < u[i]
    BY <1>7, <2>1
  <2>3. u[i] \in Nat /\ u[j] \in Nat
    BY <1>3
  <2> QED
    BY <2>2, <2>3
<1>13. DOMAIN t = 1 .. l + n /\ DOMAIN u = 1 .. l + m + n /\ DOMAIN b = 1 .. m
  BY <1>1, <1>3, <1>4
<1>10. ToSet(t) = {t[i] : i \in 1 .. l + n} /\ ToSet(u) = {u[i] : i \in 1 .. l + m + n}
       /\ ToSet(b) = {b[i] : i \in 1 .. m}
  BY <1>13 DEF ToSet
<1>11. ASSUME NEW x \in ToSet(t) PROVE x \in ToSet(u) \ ToSet(b)
  <2>1. PICK i \in 1 .. l + n : x = t[i]
    BY <1>10
  <2>2. PICK k \in 1 .. l + m + n : k = (IF i <= l THEN i ELSE i + m) /\ (k <= l \/ k > l + m)
    OBVIOUS
  <2>3. x = u[k]
    BY <1>5, <2>1, <2>2
  <2>4. ASSUME NEW j \in 1 .. m, x = b[j] PROVE FALSE
    <3>1. PICK y \in 1 .. l + m + n : y = j + l /\ y > l /\ y <= l + m
      OBVIOUS
    <3>2. u[y] = u[k]
      BY <1>6, <2>3, <2>4, <3>1
    <3> QED
      BY <1>9, <2>2, <3>1, <3>2
  <2> QED
    BY <1>10, <2>3, <2>4
<1>12. ASSUME NEW x \in ToSet(u), x \notin ToSet(b) PROVE x \in ToSet(t)
  <2>1. PICK k \in 1 .. l + m + n : x = u[k]
    BY <1>10
  <2>2. CASE k <= l
    <3>1. k \in 1 .. l + n /\ t[k] = u[k]
      BY <1>5, <2>2
    <3> QED
      BY <1>10, <2>1, <3>1
  <2>3. CASE k > l /\ k <= l + m
    <3>1. PICK i \in 1 .. m : k = i + l
      <4>1. k - l \in 1 .. m /\ k = (k - l) + l
        BY <2>3
      <4> QED
        BY <4>1
    <3> QED
      BY <1>6, <1>10, <1>12, <2>1, <3>1
  <2>4. CASE k > l + m
    <3>1. PICK i \in 1 .. l + n : i = k - m /\ i > l /\ i + m = k
      <4>1. k - m \in 1 .. l + n /\ k - m > l /\ (k - m) + m = k
        BY <2>4
      <4> QED
        BY <4>1
    <3>2. t[i] = u[k]
      BY <1>5, <3>1
    <3> QED
      BY <1>10, <2>1, <3>2
  <2> QED
    BY <2>2, <2>3, <2>4
<1> QED
  BY <1>8, <1>11, <1>12 DEF s, t, u

-----------------------------------------------------------------------------
(* The contents of lists of buffers.                                        *)

Cont(d, bs) == FlattenSeq([i \in DOMAIN bs |-> d[bs[i]]])

LEMMA ContEmpty ==
  ASSUME NEW d PROVE Cont(d, << >>) = << >>
<1>1. [i \in DOMAIN << >> |-> d[<< >>[i]]] = << >>
  OBVIOUS
<1> QED
  BY <1>1, FlatEmpty DEF Cont

LEMMA ContSame ==
  ASSUME NEW d, NEW e, NEW bs \in Seq(Buf), \A i \in 1 .. Len(bs) : d[bs[i]] = e[bs[i]]
  PROVE  Cont(d, bs) = Cont(e, bs)
<1>1. [i \in DOMAIN bs |-> d[bs[i]]] = [i \in DOMAIN bs |-> e[bs[i]]]
  OBVIOUS
<1> QED
  BY <1>1 DEF Cont

LEMMA ContAppend ==
  ASSUME NEW d \in [Buf -> Seq(Nat)], NEW bs \in Seq(Buf), NEW b \in Buf
  PROVE  /\ Cont(d, bs) \in Seq(Nat)
         /\ Cont(d, Append(bs, b)) = Cont(d, bs) \o d[b]
<1> DEFINE s == [i \in DOMAIN bs |-> d[bs[i]]]
           cs == Append(bs, b)
           t == [i \in DOMAIN cs |-> d[cs[i]]]
<1>1. PICK n \in Nat : n = Len(bs) /\ DOMAIN bs = 1 .. n
  OBVIOUS
<1>2. /\ cs \in Seq(Buf) /\ Len(cs) = n + 1 /\ cs[n + 1] = b
      /\ \A i \in 1 .. n : cs[i] = bs[i]
  BY <1>1, AppendProperties
<1>3. DOMAIN cs = 1 .. n + 1
  <2> HIDE DEF cs
  <2> QED
    BY <1>2
<1>4. PICK V : V = Seq(Nat)
  OBVIOUS
<1>5. PICK e \in V : e = d[b]
  BY <1>4
<1>6. s \in Seq(V) /\ Len(s) = n /\ \A i \in 1 .. n : s[i] = d[bs[i]]
  BY <1>1, <1>4
<1>7. t \in Seq(V) /\ Len(t) = n + 1 /\ \A i \in 1 .. n + 1 : t[i] = d[cs[i]]
  <2> HIDE DEF cs
  <2> QED
    BY <1>2, <1>3, <1>4
<1>8. t = Append(s, e)
  <2> HIDE DEF s, t, cs
  <2>1. /\ Append(s, e) \in Seq(V) /\ Len(Append(s, e)) = n + 1 /\ Append(s, e)[n + 1] = e
        /\ \A i \in 1 .. n : Append(s, e)[i] = s[i]
    BY <1>6, AppendProperties
  <2>2. \A i \in 1 .. n + 1 : Append(s, e)[i] = t[i]
    <3>1. t[n + 1] = e
      BY <1>2, <1>5, <1>7
    <3>2. \A i \in 1 .. n : t[i] = s[i]
      BY <1>2, <1>6, <1>7
    <3> QED
      BY <2>1, <3>1, <3>2
  <2> QED
    BY <1>7, <2>1, <2>2, SeqEqual
<1>9. Lists(s, Nat)
  BY <1>4, <1>6 DEF Lists
<1>10. FlattenSeq(s) \in Seq(Nat) /\ FlattenSeq(Append(s, e)) = FlattenSeq(s) \o e
  <2> HIDE DEF s
  <2>1. e \in Seq(Nat)
    BY <1>4
  <2> QED
    BY <1>9, <2>1, FlatAppend
<1>11. Cont(d, bs) = FlattenSeq(s) /\ Cont(d, cs) = FlattenSeq(t)
  BY DEF Cont
<1> HIDE DEF s, t
<1> QED
  BY <1>5, <1>8, <1>10, <1>11

LEMMA SubSeqNext ==
  ASSUME NEW q \in Seq(Buf), NEW m \in Nat, m > 0, NEW n \in Nat, m <= n + 1, n + 1 <= Len(q)
  PROVE  /\ SubSeq(q, m, n) \in Seq(Buf)
         /\ SubSeq(q, m, n + 1) = Append(SubSeq(q, m, n), q[n + 1])
<1>1. m \in 1 .. Len(q) /\ n + 1 \in m .. Len(q) /\ (n + 1) - 1 = n
  OBVIOUS
<1>2. SubSeq(q, m, n + 1) = SubSeq(q, m, n) \o << q[n + 1] >>
  BY <1>1, SubSeqRecursiveSecond
<1>3. SubSeq(q, m, n) \in Seq(Buf)
  BY SubSeqProperties
<1>4. q[n + 1] \in Buf
  BY <1>1
<1> QED
  BY <1>2, <1>3, <1>4, AppendIsConcat

LEMMA Assoc ==
  ASSUME NEW s \in Seq(Nat), NEW t \in Seq(Nat), NEW u \in Seq(Nat)
  PROVE  (s \o t) \o u = s \o (t \o u)
BY ConcatAssociative

Part(d, q, m, n) == Cont(d, SubSeq(q, m, n))

LEMMA PartNext ==
  ASSUME NEW d \in [Buf -> Seq(Nat)], NEW q \in Seq(Buf),
         NEW m \in Nat, m > 0, NEW n \in Nat, n <= Len(q)
  PROVE  /\ Part(d, q, m, n) \in Seq(Nat)
         /\ m <= n + 1 /\ n + 1 <= Len(q) => Part(d, q, m, n + 1) = Part(d, q, m, n) \o d[q[n + 1]]
<1>1. SubSeq(q, m, n) \in Seq(Buf)
  BY SubSeqProperties
<1>2. PICK b \in Buf : b = 1
  BY BoundAssumption DEF Buf
<1>3. Part(d, q, m, n) \in Seq(Nat)
  BY <1>1, <1>2, ContAppend DEF Part
<1>4. ASSUME m <= n + 1, n + 1 <= Len(q)
      PROVE  Part(d, q, m, n + 1) = Part(d, q, m, n) \o d[q[n + 1]]
  <2>1. SubSeq(q, m, n + 1) = Append(SubSeq(q, m, n), q[n + 1])
    BY <1>4, SubSeqNext
  <2>2. q[n + 1] \in Buf
    BY <1>4
  <2>3. Cont(d, Append(SubSeq(q, m, n), q[n + 1])) = Cont(d, SubSeq(q, m, n)) \o d[q[n + 1]]
    BY <1>1, <2>2, ContAppend
  <2> QED
    BY <2>1, <2>3 DEF Part
<1> QED
  BY <1>3, <1>4

LEMMA ContSplit ==
  ASSUME NEW d \in [Buf -> Seq(Nat)], NEW q \in Seq(Buf), NEW k \in Nat, k <= Len(q)
  PROVE  /\ Part(d, q, 1, k) \in Seq(Nat)
         /\ Part(d, q, k + 1, Len(q)) \in Seq(Nat)
         /\ Cont(d, q) = Part(d, q, 1, k) \o Part(d, q, k + 1, Len(q))
<1> DEFINE S == {n \in Nat : k + n <= Len(q) =>
                   Part(d, q, 1, k + n) = Part(d, q, 1, k) \o Part(d, q, k + 1, k + n)}
<1>0. PICK l \in Nat : l = Len(q)
  OBVIOUS
<1>1. PICK k1 \in Nat : k1 = k + 1
  OBVIOUS
<1>2. \A j \in Nat : j <= l => Part(d, q, 1, j) \in Seq(Nat) /\ Part(d, q, k1, j) \in Seq(Nat)
  BY <1>0, <1>1, PartNext
<1>3. Part(d, q, 1, k) = Part(d, q, 1, k) \o Part(d, q, k + 1, k)
  <2>1. SubSeq(q, k + 1, k) = << >>
    BY SubSeqEmpty
  <2>2. Part(d, q, k + 1, k) = << >>
    BY <2>1, ContEmpty DEF Part
  <2>3. Part(d, q, 1, k) \o << >> = Part(d, q, 1, k)
    BY <1>0, <1>2, ConcatEmptySeq
  <2> QED
    BY <2>2, <2>3
<1>4. 0 \in S
  BY <1>3
<1>5. ASSUME NEW n \in Nat, n \in S PROVE n + 1 \in S
  <2> SUFFICES ASSUME k + (n + 1) <= Len(q)
               PROVE  Part(d, q, 1, k + (n + 1)) = Part(d, q, 1, k) \o Part(d, q, k + 1, k + (n + 1))
    OBVIOUS
  <2>1. PICK j \in Nat : j = k + n /\ k + (n + 1) = j + 1 /\ j + 1 <= Len(q) /\ j <= l
    BY <1>0
  <2>2. PICK x \in Seq(Nat) : x = d[q[j + 1]]
    <3>1. q[j + 1] \in Buf
      BY <2>1
    <3> QED
      BY <3>1
  <2>3. Part(d, q, 1, j + 1) = Part(d, q, 1, j) \o x
    <3>1. PICK m \in Nat : m = 1 /\ m > 0 /\ m <= j + 1
      BY <2>1
    <3>2. Part(d, q, m, j + 1) = Part(d, q, m, j) \o x
      BY <1>0, <2>1, <2>2, <3>1, PartNext
    <3> QED
      BY <3>1, <3>2
  <2>4. Part(d, q, k1, j + 1) = Part(d, q, k1, j) \o x
    <3>1. k1 <= j + 1 /\ k1 > 0
      BY <1>1, <2>1
    <3> QED
      BY <1>0, <2>1, <2>2, <3>1, PartNext
  <2>5. Part(d, q, 1, j) = Part(d, q, 1, k) \o Part(d, q, k1, j)
    BY <1>0, <1>1, <1>5, <2>1
  <2>6. PICK u \in Seq(Nat), v \in Seq(Nat) : u = Part(d, q, 1, k) /\ v = Part(d, q, k1, j)
    BY <1>0, <1>2, <2>1
  <2>7. (u \o v) \o x = u \o (v \o x)
    BY Assoc
  <2> QED
    BY <1>1, <2>1, <2>3, <2>4, <2>5, <2>6, <2>7
<1>6. Nat \subseteq S
  <2> HIDE DEF S
  <2> QED
    BY <1>4, <1>5, SetInduction
<1>7. PICK n \in Nat : k + n = l
  <2>1. l - k \in Nat /\ k + (l - k) = l
    BY <1>0
  <2> QED
    BY <2>1
<1>8. Part(d, q, 1, l) = Part(d, q, 1, k) \o Part(d, q, k + 1, l)
  <2>1. n \in S
    BY <1>6
  <2>2. k + n <= Len(q)
    BY <1>0, <1>7
  <2>3. Part(d, q, 1, k + n) = Part(d, q, 1, k) \o Part(d, q, k + 1, k + n)
    BY <2>1, <2>2
  <2> QED
    BY <1>7, <2>3
<1>9. Part(d, q, 1, l) = Cont(d, q)
  BY <1>0, SubSeqFull DEF Part
<1> QED
  BY <1>0, <1>1, <1>2, <1>8, <1>9

-----------------------------------------------------------------------------
(* A list of buffers, and what Chain finds of it.                           *)

(* The buffers of p are linked in this order from b on, none of them twice. *)
Path(p, b, nx) ==
  /\ p \in Seq(Buf)
  /\ p = << >> <=> b = NULL
  /\ p # << >> => p[1] = b /\ nx[p[Len(p)]] = NULL
  /\ \A i \in 1 .. Len(p) : i < Len(p) => nx[p[i]] = p[i + 1]
  /\ \A i, j \in 1 .. Len(p) : p[i] = p[j] => i = j

LEMMA PathLen ==
  ASSUME NEW p, NEW b, NEW nx, Path(p, b, nx)
  PROVE  Len(p) \in Nat /\ Len(p) <= MaxBuf
<1>1. PICK n \in Nat : n = Len(p) /\ p \in [1 .. n -> Buf]
  BY DEF Path
<1>2. p \in Injection(1 .. n, Buf)
  BY <1>1 DEF Path, Injection, IsInjective
<1>3. IsFiniteSet(Buf) /\ Cardinality(Buf) = MaxBuf
  BY BoundAssumption, FS_Interval DEF Buf
<1>4. Cardinality(1 .. n) = n
  BY FS_Interval
<1>5. Cardinality(1 .. n) <= Cardinality(Buf)
  BY <1>2, <1>3, FS_Injection
<1> QED
  BY <1>1, <1>3, <1>4, <1>5

AtFcn(at, b) == at = [i \in 1 .. MaxBuf + 1 |-> IF i = 1 THEN b ELSE After(at[i - 1])]

LEMMA AtAt ==
  ASSUME NEW at, NEW b, AtFcn(at, b)
  PROVE  \A i \in 1 .. MaxBuf + 1 : at[i] = IF i = 1 THEN b ELSE After(at[i - 1])
<1>1. PICK h : h = [i \in 1 .. MaxBuf + 1 |-> IF i = 1 THEN b ELSE After(at[i - 1])]
  OBVIOUS
<1>2. \A i \in 1 .. MaxBuf + 1 : h[i] = IF i = 1 THEN b ELSE After(at[i - 1])
  BY <1>1
<1>3. at = h
  BY <1>1 DEF AtFcn
<1> QED
  BY <1>2, <1>3

LEMMA ChainIs ==
  ASSUME NEW p, NEW b, Path(p, b, next)
  PROVE  Chain(b) = p
<1>1. PICK n \in Nat : n = Len(p) /\ n <= MaxBuf /\ (n = 0 <=> p = << >>)
  <2>1. Len(p) \in Nat /\ Len(p) <= MaxBuf
    BY PathLen
  <2>2. Len(p) = 0 <=> p = << >>
    BY EmptySeq DEF Path
  <2> QED
    BY <2>1, <2>2
<1>2. PICK m \in Nat : m = MaxBuf + 1 /\ n < m
  BY <1>1, BoundAssumption
<1>3. PICK h : h = [i \in 1 .. m |-> IF i <= n THEN p[i] ELSE NULL]
  OBVIOUS
<1>4. \A i \in 1 .. m : h[i] = IF i = 1 THEN b ELSE After(h[i - 1])
  <2> SUFFICES ASSUME NEW i \in 1 .. m PROVE h[i] = IF i = 1 THEN b ELSE After(h[i - 1])
    OBVIOUS
  <2>0. h[i] = IF i <= n THEN p[i] ELSE NULL
    BY <1>3
  <2>1. CASE i = 1
    <3>1. n = 0 => b = NULL
      BY <1>1 DEF Path
    <3>2. n # 0 => p[1] = b
      BY <1>1 DEF Path
    <3> QED
      BY <2>0, <2>1, <3>1, <3>2
  <2>2. CASE i # 1
    <3>1. PICK j \in 1 .. m : i = j + 1 /\ i - 1 = j
      <4>1. i - 1 \in 1 .. m /\ i = (i - 1) + 1
        BY <2>2
      <4> QED
        BY <4>1
    <3>2. h[j] = IF j <= n THEN p[j] ELSE NULL
      BY <1>3
    <3>3. j \in 1 .. n => p[j] # NULL
      BY <1>1, BoundAssumption DEF Path, Buf, NULL
    <3>4. CASE j < n
      <4>1. next[p[j]] = p[j + 1] /\ j \in 1 .. n
        BY <1>1, <3>4 DEF Path
      <4> QED
        BY <2>0, <2>2, <3>1, <3>2, <3>3, <3>4, <4>1 DEF After
    <3>5. CASE j = n
      <4>1. next[p[j]] = NULL /\ j \in 1 .. n
        BY <1>1, <3>5 DEF Path
      <4> QED
        BY <2>0, <2>2, <3>1, <3>2, <3>3, <3>5, <4>1 DEF After
    <3>6. CASE j > n
      BY <2>0, <2>2, <3>1, <3>2, <3>6 DEF After
    <3> QED
      BY <3>4, <3>5, <3>6
  <2> QED
    BY <2>1, <2>2
<1>5. AtFcn(h, b)
  <2>1. h = [i \in 1 .. m |-> h[i]]
    BY <1>3
  <2> QED
    BY <1>2, <1>4, <2>1 DEF AtFcn
<1>6. PICK at : at = CHOOSE x : AtFcn(x, b)
  OBVIOUS
<1>7. AtFcn(at, b)
  BY <1>5, <1>6
<1>8. \A i \in 1 .. m : at[i] = IF i = 1 THEN b ELSE After(at[i - 1])
  BY <1>2, <1>7, AtAt
<1>9. \A i \in 1 .. m : at[i] = h[i]
  <2> DEFINE S == {k \in Nat : k \in 1 .. m => at[k] = h[k]}
  <2>1. 0 \in S
    OBVIOUS
  <2>2. ASSUME NEW k \in Nat, k \in S PROVE k + 1 \in S
    <3> SUFFICES ASSUME k + 1 \in 1 .. m PROVE at[k + 1] = h[k + 1]
      OBVIOUS
    <3>1. PICK i \in 1 .. m : i = k + 1 /\ i - 1 = k
      OBVIOUS
    <3>2. k # 0 => at[k] = h[k]
      BY <2>2, <3>1
    <3>3. at[i] = h[i]
      BY <1>4, <1>8, <3>1, <3>2
    <3> QED
      BY <3>1, <3>3
  <2>3. Nat \subseteq S
    <3> HIDE DEF S
    <3> QED
      BY <2>1, <2>2, SetInduction
  <2> QED
    BY <2>3
<1>10. Chain(b) = [i \in {j \in 1 .. m : at[j] # NULL} |-> at[i]]
  BY <1>2, <1>6 DEF Chain, AtFcn
<1>11. {j \in 1 .. m : at[j] # NULL} = 1 .. n
  <2>1. \A j \in 1 .. n : p[j] # NULL
    BY <1>1, BoundAssumption DEF Path, Buf, NULL
  <2>2. \A j \in 1 .. m : at[j] # NULL <=> j <= n
    <3>1. \A j \in 1 .. m : h[j] # NULL <=> j <= n
      BY <1>3, <2>1
    <3> QED
      BY <1>9, <3>1
  <2> QED
    BY <1>1, <1>2, <2>2
<1>12. \A i \in 1 .. n : at[i] = p[i]
  <2>1. \A i \in 1 .. n : i \in 1 .. m /\ i <= n
    BY <1>2
  <2>2. \A i \in 1 .. n : h[i] = p[i]
    BY <1>3, <2>1
  <2> QED
    BY <1>9, <2>1, <2>2
<1>13. p = [i \in 1 .. n |-> p[i]]
  BY <1>1 DEF Path
<1> QED
  BY <1>10, <1>11, <1>12, <1>13

LEMMA PathSame ==
  ASSUME NEW p, NEW b, NEW nx, NEW ny, Path(p, b, nx), \A i \in 1 .. Len(p) : ny[p[i]] = nx[p[i]]
  PROVE  Path(p, b, ny)
<1>1. p # << >> => Len(p) \in 1 .. Len(p)
  BY EmptySeq DEF Path
<1> QED
  BY <1>1 DEF Path

LEMMA PathExtend ==
  ASSUME NEW p, NEW b, NEW nx, NEW ny, NEW new \in Buf, Path(p, b, nx), p # << >>,
         \A i \in 1 .. Len(p) : p[i] # new /\ (i # Len(p) => ny[p[i]] = nx[p[i]]),
         ny[p[Len(p)]] = new, ny[new] = NULL
  PROVE  Path(Append(p, new), b, ny)
<1> DEFINE r == Append(p, new)
<1>1. PICK n \in Nat : n = Len(p) /\ n # 0 /\ p \in Seq(Buf)
  BY EmptySeq DEF Path
<1>2. /\ r \in Seq(Buf) /\ r # << >> /\ Len(r) = n + 1 /\ r[n + 1] = new
      /\ \A i \in 1 .. n : r[i] = p[i]
  BY <1>1, AppendProperties
<1> HIDE DEF r
<1>3. b # NULL /\ p[1] = b
  BY DEF Path
<1>4. r[1] = b /\ ny[r[Len(r)]] = NULL
  BY <1>1, <1>2, <1>3
<1>5. ASSUME NEW i \in 1 .. n + 1, i < n + 1 PROVE ny[r[i]] = r[i + 1]
  <2>1. i \in 1 .. n /\ r[i] = p[i]
    BY <1>2, <1>5
  <2>2. CASE i = n
    BY <1>1, <1>2, <2>1, <2>2
  <2>3. CASE i # n
    <3>1. nx[p[i]] = p[i + 1] /\ i + 1 \in 1 .. n /\ ny[p[i]] = nx[p[i]]
      BY <1>1, <2>1, <2>3 DEF Path
    <3> QED
      BY <1>2, <2>1, <3>1
  <2> QED
    BY <2>2, <2>3
<1>6. ASSUME NEW i \in 1 .. n + 1, NEW j \in 1 .. n + 1, r[i] = r[j] PROVE i = j
  <2>1. \A x, y \in 1 .. n : p[x] = p[y] => x = y
    BY <1>1 DEF Path
  <2>2. \A x \in 1 .. n : p[x] # new
    BY <1>1
  <2>3. (i = n + 1 \/ i \in 1 .. n) /\ (j = n + 1 \/ j \in 1 .. n)
    OBVIOUS
  <2> QED
    BY <1>2, <1>6, <2>1, <2>2, <2>3
<1>7. Path(r, b, ny)
  BY <1>2, <1>3, <1>4, <1>5, <1>6 DEF Path
<1> QED
  BY <1>7 DEF r

-----------------------------------------------------------------------------
(* The inductive invariant.  p is the list from head, or the current buffer  *)
(* alone, to the current buffer; q the list buffers_to_write.               *)

Stages == {"loop", "swap", "ended", "drop", "free", "write", "recycle"}
Ref == Buf \cup {NULL}

Typed ==
  /\ next \in [Buf -> Ref] /\ data \in [Buf -> Seq(Nat)] /\ allocated \subseteq Buf
  /\ curr_buffer \in Buf /\ next_buffer \in Ref /\ head \in Ref /\ tail \in Ref /\ size \in Nat
  /\ running \in BOOLEAN
  /\ w \in [pc : Stages, head : Ref, tail : Ref, size : Nat, new1 : Ref, new2 : Ref]
  /\ file \in 0 .. 1 /\ written_bytes \in Nat /\ filesize \in [0 .. 1 -> Nat]
  /\ count \in Nat /\ dropped \subseteq 1 .. count /\ written \in Seq(Nat)

ListOK(p) ==
  /\ Path(p, IF head = NULL THEN curr_buffer ELSE head, next)
  /\ p # << >> /\ p[Len(p)] = curr_buffer
  /\ head = NULL <=> Len(p) = 1
  /\ tail = IF head = NULL THEN NULL ELSE p[Len(p) - 1]
  /\ size = Len(p) - 1
  /\ next_buffer = NULL => head # NULL

(* The list that is written out, at each point of the worker's loop; it has  *)
(* the buffers that recycling takes from it.                                *)
WorkOK(q) ==
  /\ Path(q, w.head, next)
  /\ w.size = Len(q) /\ w.tail = IF q = << >> THEN NULL ELSE q[Len(q)]
  /\ w.pc \in {"loop", "swap", "ended"} => q = << >> /\ w.new1 # NULL /\ w.new2 # NULL
  /\ w.pc \in {"drop", "free"} => Len(q) > MaxBuffers
  /\ w.pc \in {"drop", "free", "write", "recycle"} =>
       w.new1 = NULL /\ Len(q) >= 1 /\ (w.new2 = NULL => Len(q) >= 2)

Spares == {next_buffer, w.new1, w.new2} \ {NULL}

(* A buffer is on one list or a spare one, or freed.                        *)
Apart(p, q) ==
  /\ ToSet(p) \cap ToSet(q) = {}
  /\ Spares \cap (ToSet(p) \cup ToSet(q)) = {}
  /\ next_buffer # NULL => next_buffer # w.new1 /\ next_buffer # w.new2
  /\ w.new1 # NULL => w.new1 # w.new2
  /\ allocated = ToSet(p) \cup ToSet(q) \cup Spares

(* What is on no list is zeroed.                                            *)
Blank(p, q) ==
  \A b \in Buf \ (ToSet(p) \cup ToSet(q)) : data[b] = << >> /\ next[b] = NULL

Unwritten(q) == IF w.pc = "recycle" THEN << >> ELSE Cont(data, q)

Messages(p, q) == (written \o Unwritten(q)) \o Cont(data, p)

Ordered(p, q) ==
  Sorted(Messages(p, q)) /\ ToSet(Messages(p, q)) = (1 .. count) \ dropped

Shape(p, q) == ListOK(p) /\ WorkOK(q) /\ Apart(p, q) /\ Blank(p, q) /\ Ordered(p, q)

IInv == Typed /\ \E p, q : Shape(p, q)

-----------------------------------------------------------------------------
(* Lemmas about the lists of the invariant.                                 *)

LEMMA ConcatAppend ==
  ASSUME NEW s \in Seq(Nat), NEW t \in Seq(Nat), NEW e \in Nat
  PROVE  s \o Append(t, e) = Append(s \o t, e)
<1>0. << e >> \in Seq(Nat)
  OBVIOUS
<1>1. PICK u \in Seq(Nat) : u = << e >>
  BY <1>0
<1>2. Append(t, e) = t \o u
  BY <1>1, AppendIsConcat
<1>3. PICK v \in Seq(Nat) : v = s \o t
  BY ConcatProperties
<1>4. Append(v, e) = v \o u
  BY <1>1, AppendIsConcat
<1>5. (s \o t) \o u = s \o (t \o u)
  BY Assoc
<1> QED
  BY ONLY <1>2, <1>3, <1>4, <1>5

LEMMA ContIn ==
  ASSUME NEW d \in [Buf -> Seq(Nat)], NEW bs \in Seq(Buf)
  PROVE  Cont(d, bs) \in Seq(Nat)
<1>1. PICK b \in Buf : b = 1
  BY BoundAssumption DEF Buf
<1> QED
  BY ContAppend

LEMMA ContOne ==
  ASSUME NEW d \in [Buf -> Seq(Nat)], NEW b \in Buf
  PROVE  << b >> \in Seq(Buf) /\ Cont(d, << b >>) = d[b]
<1>1. << >> \in Seq(Buf) /\ Append(<< >>, b) = << b >>
  OBVIOUS
<1>2. Cont(d, Append(<< >>, b)) = Cont(d, << >>) \o d[b]
  BY <1>1, ContAppend
<1>3. << >> \o d[b] = d[b]
  BY ConcatEmptySeq
<1>4. Cont(d, << b >>) = d[b]
  BY <1>1, <1>2, <1>3, ContEmpty
<1>5. << b >> \in Seq(Buf)
  OBVIOUS
<1> QED
  BY <1>4, <1>5

(* The last buffer of a list.                                               *)
LEMMA LastOf ==
  ASSUME NEW p, NEW b, NEW nx, Path(p, b, nx), p # << >>
  PROVE  \E o \in Seq(Buf), e \in Buf :
           /\ p = Append(o, e) /\ e = p[Len(p)] /\ Len(p) = Len(o) + 1
           /\ \A i \in 1 .. Len(o) : o[i] = p[i] /\ o[i] # e
<1>1. p \in Seq(Buf)
  BY DEF Path
<1>2. PICK o \in Seq(Buf), e \in Buf : p = Append(o, e)
  BY <1>1, SequenceEmptyOrAppend
<1>3. /\ Len(p) = Len(o) + 1 /\ p[Len(o) + 1] = e /\ Len(o) \in Nat
      /\ \A i \in 1 .. Len(o) : p[i] = o[i]
  BY <1>2, AppendProperties
<1>4. ASSUME NEW i \in 1 .. Len(o) PROVE o[i] # e
  <2>1. \A x, y \in 1 .. Len(p) : p[x] = p[y] => x = y
    BY DEF Path
  <2>2. i \in 1 .. Len(p) /\ Len(o) + 1 \in 1 .. Len(p) /\ i # Len(o) + 1
    BY <1>3
  <2>3. p[i] # p[Len(o) + 1]
    BY <2>1, <2>2
  <2> QED
    BY <1>3, <2>3
<1> QED
  BY <1>2, <1>3, <1>4

LEMMA AppendBuf ==
  ASSUME NEW s \in Seq(Buf), NEW e \in Buf
  PROVE  /\ Append(s, e) \in Seq(Buf) /\ Append(s, e) # << >>
         /\ Len(Append(s, e)) = Len(s) + 1 /\ Append(s, e)[Len(s) + 1] = e
         /\ \A i \in 1 .. Len(s) : Append(s, e)[i] = s[i]
BY AppendProperties

LEMMA InSet ==
  ASSUME NEW s \in Seq(Buf)
  PROVE  ToSet(s) = {s[i] : i \in 1 .. Len(s)} /\ ToSet(s) \subseteq Buf
BY DEF ToSet

LEMMA OrderedAppend ==
  ASSUME NEW p, NEW q, NEW r, Typed, Ordered(p, q), Cont(data, p) \in Seq(Nat), Unwritten(q) \in Seq(Nat),
         count' = count + 1, dropped' = dropped, written' = written, Unwritten(q)' = Unwritten(q),
         Cont(data', r) = Append(Cont(data, p), count + 1)
  PROVE  Ordered(r, q)'
<1>1. PICK c \in Seq(Nat), u \in Seq(Nat), x \in Seq(Nat), m \in Nat :
        c = Cont(data, p) /\ u = Unwritten(q) /\ x = written /\ m = count
  BY DEF Typed
<1>2. PICK y \in Seq(Nat) : y = x \o u
  BY ConcatProperties
<1>3. PICK z \in Seq(Nat) : z = y \o c
  BY ConcatProperties
<1>4. PICK n \in Nat : n = m + 1
  OBVIOUS
<1>5. Messages(p, q) = z
  BY <1>1, <1>2, <1>3 DEF Messages
<1>6. Messages(r, q)' = Append(z, n)
  <2>1. y \o Append(c, n) = Append(y \o c, n)
    BY ConcatAppend
  <2> QED
    BY <1>1, <1>2, <1>3, <1>4, <2>1 DEF Messages
<1>7. Sorted(z) /\ ToSet(z) = (1 .. m) \ dropped
  BY <1>1, <1>5 DEF Ordered
<1>8. Sorted(Append(z, m + 1))
  BY <1>7, SortedAppend
<1>9. ToSet(Append(z, n)) = ToSet(z) \cup {n}
  <2>1. PICK S : S = Nat
    OBVIOUS
  <2>2. z \in Seq(S) /\ n \in S
    BY <2>1
  <2> QED
    BY ONLY <2>2, ToSetAppend
<1>10. ((1 .. m) \ dropped) \cup {n} = (1 .. n) \ dropped
  <2>1. \A k \in dropped : k \in 1 .. m
    BY <1>1 DEF Typed
  <2>2. n \notin dropped
    BY <1>4, <2>1
  <2>3. (1 .. m) \cup {n} = 1 .. n
    BY <1>4
  <2> QED
    BY ONLY <2>2, <2>3
<1> QED
  BY <1>1, <1>4, <1>6, <1>7, <1>8, <1>9, <1>10 DEF Ordered

-----------------------------------------------------------------------------
(* append(logline).                                                         *)

SameWork ==
  /\ w'.head = w.head /\ w'.tail = w.tail /\ w'.size = w.size
  /\ w'.new1 = w.new1 /\ w'.new2 = w.new2

HeapTyped ==
  /\ next \in [Buf -> Ref] /\ data \in [Buf -> Seq(Nat)] /\ allocated \subseteq Buf
  /\ curr_buffer \in Buf /\ next_buffer \in Ref /\ head \in Ref /\ tail \in Ref /\ size \in Nat

(* r is inst's list after m was appended.                                   *)
Appended(p, q, r, m) ==
  /\ HeapTyped' /\ ListOK(r)' /\ Path(q, w.head, next') /\ Apart(r, q)' /\ Blank(r, q)'
  /\ Cont(data', r) = Append(Cont(data, p), m) /\ Cont(data', q) = Cont(data, q)

LEMMA FitsAppended ==
  ASSUME NEW p, NEW q, NEW m \in Nat, Typed, Shape(p, q), SameWork, AppendToCurrent(m)
  PROVE  Appended(p, q, p, m)
<1>1. p \in Seq(Buf) /\ q \in Seq(Buf)
  BY DEF Shape, ListOK, WorkOK, Path
<1>2. PICK o \in Seq(Buf), e \in Buf :
        /\ p = Append(o, e) /\ e = p[Len(p)] /\ Len(p) = Len(o) + 1
        /\ \A i \in 1 .. Len(o) : o[i] = p[i] /\ o[i] # e
  BY LastOf DEF Shape, ListOK
<1>3a. PICK dd : dd = data'
  OBVIOUS
<1>3. PICK d \in [Buf -> Seq(Nat)] : d = data /\ dd = data'
  BY <1>3a DEF Typed
<1>4. e = curr_buffer /\ dd = [d EXCEPT ![e] = Append(d[e], m)]
  BY <1>2, <1>3 DEF AppendToCurrent, Shape, ListOK
<1>5. dd \in [Buf -> Seq(Nat)] /\ dd[e] = Append(d[e], m) /\ \A b \in Buf : b # e => dd[b] = d[b]
  BY <1>4
<1>6. e \in ToSet(p)
  <2>1. Len(p) \in 1 .. Len(p)
    BY <1>1, <1>2
  <2> QED
    BY <1>1, <1>2, <2>1, InSet
<1>7. Cont(dd, o) = Cont(d, o) /\ Cont(d, o) \in Seq(Nat)
  <2>1. \A i \in 1 .. Len(o) : d[o[i]] = dd[o[i]]
    BY <1>2, <1>5
  <2> QED
    BY <2>1, ContSame, ContIn
<1>8. Cont(d, p) = Cont(d, o) \o d[e] /\ Cont(dd, p) = Cont(dd, o) \o dd[e]
  BY <1>2, <1>5, ContAppend
<1>9. Cont(dd, p) = Append(Cont(d, p), m)
  <2>1. PICK x \in Seq(Nat) : x = d[e]
    OBVIOUS
  <2>2. Cont(d, o) \o Append(x, m) = Append(Cont(d, o) \o x, m)
    BY <1>7, ConcatAppend
  <2> QED
    BY <1>5, <1>7, <1>8, <2>1, <2>2
<1>10. Cont(dd, q) = Cont(d, q)
  <2>1. \A i \in 1 .. Len(q) : q[i] \in ToSet(q)
    BY <1>1, InSet
  <2>2. e \notin ToSet(q)
    BY <1>6 DEF Shape, Apart
  <2>3. \A i \in 1 .. Len(q) : d[q[i]] = dd[q[i]]
    BY <1>1, <1>5, <2>1, <2>2
  <2> QED
    BY <1>1, <2>3, ContSame
<1>11. HeapTyped'
  BY <1>3, <1>5 DEF HeapTyped, Typed, AppendToCurrent, inst
<1>12. ListOK(p)' /\ Path(q, w.head, next')
  BY DEF Shape, ListOK, WorkOK, AppendToCurrent, inst
<1>13. Apart(p, q)'
  BY DEF Shape, Apart, Spares, AppendToCurrent, SameWork, inst
<1>14. Blank(p, q)'
  BY <1>3, <1>5, <1>6 DEF Shape, Blank, AppendToCurrent
<1> QED
  BY <1>3, <1>9, <1>10, <1>11, <1>12, <1>13, <1>14 DEF Appended

LEMMA RotateAppended ==
  ASSUME NEW p, NEW q, NEW m \in Nat, Typed, Shape(p, q), SameWork, AppendRotate(m)
  PROVE  \E r : Appended(p, q, r, m)
<1>1. PICK n \in Nat : p \in Seq(Buf) /\ q \in Seq(Buf) /\ n = Len(p) /\ n # 0 /\ p[n] = curr_buffer
  BY EmptySeq DEF Shape, ListOK, WorkOK, Path
<1>2. PICK new : new = IF next_buffer # NULL THEN next_buffer ELSE Fresh
  OBVIOUS
<1>3. /\ new \in Buf /\ new \notin ToSet(p) /\ new \notin ToSet(q)
      /\ new # w.new1 /\ new # w.new2
      /\ ToSet(p) \subseteq Buf
  <2>1. CASE next_buffer # NULL
    <3>1. new \in Spares /\ new \in Buf
      BY <1>2, <2>1 DEF Typed, Ref, Spares
    <3> QED
      BY <1>1, <1>2, <2>1, <3>1, InSet DEF Shape, Apart
  <2>2. CASE next_buffer = NULL
    <3>1. \E b \in Buf : b \notin allocated
      BY <2>2 DEF AppendRotate, Typed
    <3>2. new \in Buf /\ new \notin allocated
      BY <1>2, <2>2, <3>1 DEF Fresh
    <3>3. w.new1 \in allocated \/ w.new1 = NULL
      BY DEF Shape, Apart, Spares
    <3>4. w.new2 \in allocated \/ w.new2 = NULL
      BY DEF Shape, Apart, Spares
    <3>5. new # NULL
      BY <3>2 DEF Buf, NULL
    <3> QED
      BY <1>1, <3>2, <3>3, <3>4, <3>5, InSet DEF Shape, Apart
  <2> QED
    BY <2>1, <2>2
<1>4. PICK b : b = (IF head = NULL THEN curr_buffer ELSE head) /\ b # NULL /\ Path(p, b, next)
  <2>1. Path(p, IF head = NULL THEN curr_buffer ELSE head, next) /\ p # << >>
    BY DEF Shape, ListOK
  <2> QED
    BY <2>1 DEF Path
<1>5a. PICK ny : ny = next'
  OBVIOUS
<1>5. PICK nx \in [Buf -> Ref] : nx = next /\ ny = next'
  BY <1>5a DEF Typed
<1>6. PICK e \in Buf : e = curr_buffer
  BY DEF Typed
<1>7. Linked = nx
  <2>1. CASE head = NULL
    BY <1>5, <2>1 DEF Linked
  <2>2. CASE head # NULL
    <3>1. PICK k \in 1 .. n : k = n - 1 /\ k + 1 = n /\ tail = p[k] /\ k < n
      <4>1. n # 1 /\ tail = p[n - 1]
        BY <1>1, <2>2 DEF Shape, ListOK
      <4>2. n - 1 \in 1 .. n /\ (n - 1) + 1 = n
        BY <1>1, <4>1
      <4> QED
        BY <4>1, <4>2
    <3>2. nx[tail] = curr_buffer
      BY <1>1, <1>4, <1>5, <3>1 DEF Path
    <3>3. Linked = [nx EXCEPT ![tail] = curr_buffer]
      BY <1>5, <2>2 DEF Linked
    <3>4. tail \in Buf
      BY <1>1, <3>1
    <3> QED
      BY <3>2, <3>3, <3>4
  <2> QED
    BY <2>1, <2>2
<1>8. ny = [nx EXCEPT ![e] = new]
  BY <1>2, <1>5, <1>6, <1>7 DEF AppendRotate
<1>9. /\ ny \in [Buf -> Ref] /\ ny[e] = new /\ \A x \in Buf : x # e => ny[x] = nx[x]
  BY <1>3, <1>8 DEF Ref
<1>10a. PICK dd : dd = data'
  OBVIOUS
<1>10. PICK d \in [Buf -> Seq(Nat)] : d = data /\ dd = data'
  BY <1>10a DEF Typed
<1>11. d[new] = << >> /\ nx[new] = NULL
  BY <1>3, <1>5, <1>10 DEF Shape, Blank
<1>12. /\ dd \in [Buf -> Seq(Nat)] /\ dd[new] = Append(<< >>, m)
       /\ \A x \in Buf : x # new => dd[x] = d[x]
  <2>1. dd = [d EXCEPT ![new] = Append(d[new], m)]
    BY <1>2, <1>10 DEF AppendRotate
  <2> QED
    BY <1>3, <1>11, <2>1
<1>13. \A i \in 1 .. n : p[i] \in ToSet(p) /\ p[i] # new
  BY <1>1, <1>3, InSet
<1>14. e \in ToSet(p) /\ e # new
  BY <1>1, <1>6, <1>13
<1>15. \A i \in 1 .. Len(q) : q[i] \in Buf /\ q[i] # new /\ q[i] # e
  <2>1. \A i \in 1 .. Len(q) : q[i] \in ToSet(q)
    BY <1>1, InSet
  <2>2. e \notin ToSet(q)
    BY <1>14 DEF Shape, Apart
  <2> QED
    BY <1>1, <1>3, <2>1, <2>2
<1>16. PICK r : r = Append(p, new)
  OBVIOUS
<1>17. /\ r \in Seq(Buf) /\ r # << >> /\ Len(r) = n + 1 /\ r[n + 1] = new
       /\ \A i \in 1 .. n : r[i] = p[i]
  <2>1. p \in Seq(Buf) /\ new \in Buf
    BY <1>1, <1>3
  <2>2. /\ Append(p, new) \in Seq(Buf) /\ Append(p, new) # << >>
        /\ Len(Append(p, new)) = Len(p) + 1 /\ Append(p, new)[Len(p) + 1] = new
        /\ \A i \in 1 .. Len(p) : Append(p, new)[i] = p[i]
    BY ONLY <2>1, AppendBuf
  <2> QED
    BY <1>1, <1>16, <2>2
<1>18. Path(r, b, ny)
  <2>1. ASSUME NEW i \in 1 .. n PROVE p[i] # new /\ (i # n => ny[p[i]] = nx[p[i]])
    <3>1. i # n => p[i] # e
      BY <1>1, <1>4, <1>6 DEF Path
    <3>2. p[i] \in Buf
      BY <1>1
    <3> QED
      BY <1>9, <1>13, <3>1, <3>2
  <2>2. ny[p[n]] = new /\ ny[new] = NULL
    BY <1>1, <1>3, <1>6, <1>9, <1>11, <1>14
  <2>3. p # << >>
    BY <1>1
  <2> QED
    BY <1>1, <1>3, <1>4, <1>5, <1>16, <2>1, <2>2, <2>3, PathExtend
<1>19. ToSet(r) = ToSet(p) \cup {new}
  BY <1>1, <1>3, <1>16, ToSetAppend
<1>20. HeapTyped'
  <2>1. allocated' \subseteq Buf /\ curr_buffer' \in Buf
    BY <1>2, <1>3 DEF AppendRotate, Typed
  <2>2. next_buffer' \in Ref /\ head' \in Ref /\ tail' \in Ref /\ size' \in Nat
    BY DEF AppendRotate, Typed, Ref
  <2> QED
    BY <1>5, <1>9, <1>10, <1>12, <2>1, <2>2 DEF HeapTyped
<1>21. ListOK(r)'
  <2>1. head' = b /\ curr_buffer' = new /\ tail' = curr_buffer /\ size' = size + 1 /\ next_buffer' = NULL
    BY <1>2, <1>4 DEF AppendRotate
  <2>2. Len(r) # 1 /\ r[Len(r) - 1] = curr_buffer /\ size' = Len(r) - 1
    <3>1. n \in 1 .. n /\ (n + 1) - 1 = n
      BY <1>1
    <3>2. r[n] = p[n] /\ size = n - 1 /\ size \in Nat
      BY <1>1, <1>17, <3>1 DEF Shape, ListOK, Typed
    <3> QED
      BY <1>1, <1>17, <2>1, <3>1, <3>2
  <2> QED
    BY <1>4, <1>5, <1>17, <1>18, <2>1, <2>2 DEF ListOK
<1>22. Path(q, w.head, next')
  <2>1. Path(q, w.head, nx)
    BY <1>5 DEF Shape, WorkOK
  <2>2. \A i \in 1 .. Len(q) : ny[q[i]] = nx[q[i]]
    BY <1>9, <1>15
  <2> QED
    BY <1>5, <2>1, <2>2, PathSame
<1>23. Apart(r, q)'
  <2>1. next_buffer' = NULL /\ allocated' = allocated \cup {new}
    BY <1>2 DEF AppendRotate
  <2>2. Spares' = {w.new1, w.new2} \ {NULL}
    BY <2>1 DEF Spares, SameWork
  <2>3. Spares' \cup {new} = Spares \cup {new}
    BY <1>2, <2>2 DEF Spares
  <2>4. new \notin Spares'
    BY <1>3, <2>2
  <2>5. ToSet(r) \cap ToSet(q) = {}
    BY <1>3, <1>19 DEF Shape, Apart
  <2>6. Spares' \cap (ToSet(r) \cup ToSet(q)) = {}
    BY <1>19, <2>2, <2>4 DEF Shape, Apart, Spares
  <2>7. allocated' = ToSet(r) \cup ToSet(q) \cup Spares'
    <3>1. allocated = ToSet(p) \cup ToSet(q) \cup Spares
      BY DEF Shape, Apart
    <3> QED
      BY ONLY <1>19, <2>1, <2>3, <3>1
  <2>8. (w.new1 # NULL => w.new1 # w.new2)'
    BY DEF Shape, Apart, SameWork
  <2> QED
    BY <2>1, <2>5, <2>6, <2>7, <2>8 DEF Apart
<1>24. Blank(r, q)'
  <2>1. \A x \in Buf \ (ToSet(r) \cup ToSet(q)) : x # new /\ x # e /\ x \in Buf \ (ToSet(p) \cup ToSet(q))
    BY <1>14, <1>19
  <2>2. \A x \in Buf \ (ToSet(r) \cup ToSet(q)) : dd[x] = << >> /\ ny[x] = NULL
    BY <1>5, <1>9, <1>10, <1>12, <2>1 DEF Shape, Blank
  <2> QED
    BY <1>5, <1>10, <2>2 DEF Blank
<1>25. Cont(dd, r) = Append(Cont(d, p), m)
  <2>1. Cont(dd, r) = Cont(dd, p) \o dd[new]
    BY <1>1, <1>3, <1>12, <1>16, ContAppend
  <2>2. Cont(dd, p) = Cont(d, p)
    <3>1. \A i \in 1 .. Len(p) : d[p[i]] = dd[p[i]]
      BY <1>1, <1>12, <1>13
    <3> QED
      BY <1>1, <3>1, ContSame
  <2>3. PICK c \in Seq(Nat) : c = Cont(d, p)
    BY <1>1, ContIn
  <2>4. c \o Append(<< >>, m) = Append(c \o << >>, m)
    <3>1. << >> \in Seq(Nat)
      OBVIOUS
    <3> QED
      BY <3>1, ConcatAppend
  <2>5. c \o << >> = c
    BY ConcatEmptySeq
  <2> QED
    BY <1>12, <2>1, <2>2, <2>3, <2>4, <2>5
<1>26. Cont(dd, q) = Cont(d, q)
  <2>1. \A i \in 1 .. Len(q) : d[q[i]] = dd[q[i]]
    BY <1>12, <1>15
  <2> QED
    BY <1>1, <2>1, ContSame
<1>27. Appended(p, q, r, m)
  BY <1>10, <1>20, <1>21, <1>22, <1>23, <1>24, <1>25, <1>26 DEF Appended
<1> QED
  BY <1>27

LEMMA AppendStep ==
  ASSUME NEW m, IInv, m = count + 1, append(m), count' = m,
         SameWork, w' \in [pc : Stages, head : Ref, tail : Ref, size : Nat, new1 : Ref, new2 : Ref],
         w'.pc = w.pc \/ (w.pc = "drop" /\ w'.pc = "free"),
         UNCHANGED << running, files, dropped, written >>
  PROVE  IInv'
<1>1. Typed /\ m \in Nat
  BY DEF IInv, Typed
<1>2. PICK p, q : Shape(p, q)
  BY DEF IInv
<1>3. PICK r : Appended(p, q, r, m)
  BY <1>1, <1>2, FitsAppended, RotateAppended DEF append
<1>4. Typed'
  <2>1. dropped' \subseteq 1 .. count'
    BY <1>1 DEF Typed
  <2>2. file' \in 0 .. 1 /\ written_bytes' \in Nat /\ filesize' \in [0 .. 1 -> Nat]
    BY <1>1 DEF Typed, files
  <2> QED
    BY <1>1, <1>3, <2>1, <2>2 DEF Typed, Appended, HeapTyped
<1>5. WorkOK(q)'
  <2>1. Path(q, w.head, next)'
    BY <1>3 DEF Appended, SameWork
  <2>2. (w.size = Len(q) /\ w.tail = IF q = << >> THEN NULL ELSE q[Len(q)])'
    BY <1>2 DEF Shape, WorkOK, SameWork
  <2> QED
    BY <1>2, <2>1, <2>2 DEF Shape, WorkOK, SameWork
<1>6. Unwritten(q)' = Unwritten(q)
  BY <1>3 DEF Unwritten, Appended
<1>7. Cont(data, p) \in Seq(Nat) /\ Unwritten(q) \in Seq(Nat)
  <2>1. p \in Seq(Buf) /\ q \in Seq(Buf)
    BY <1>2 DEF Shape, ListOK, WorkOK, Path
  <2>2. Cont(data, p) \in Seq(Nat) /\ Cont(data, q) \in Seq(Nat)
    BY <1>1, <2>1, ContIn DEF Typed
  <2> QED
    BY <2>2 DEF Unwritten
<1>8. Ordered(r, q)'
  <2>1. Cont(data', r) = Append(Cont(data, p), count + 1)
    BY <1>3 DEF Appended
  <2>2. Ordered(p, q)
    BY <1>2 DEF Shape
  <2> QED
    BY <1>1, <1>6, <1>7, <2>1, <2>2, OrderedAppend
<1>9. Shape(r, q)'
  BY <1>3, <1>5, <1>8 DEF Shape, Appended
<1> QED
  BY <1>4, <1>9 DEF IInv

LEMMA LogMessageStep ==
  ASSUME IInv, LogMessage PROVE IInv'
<1>1. PICK m : m = count + 1
  OBVIOUS
<1>2. append(m)
  BY <1>1 DEF LogMessage
<1>3. SameWork /\ w' = w
  BY DEF LogMessage, SameWork
<1>4. w' \in [pc : Stages, head : Ref, tail : Ref, size : Nat, new1 : Ref, new2 : Ref]
  BY <1>3 DEF IInv, Typed
<1>5. running' = running
  BY DEF LogMessage
<1> QED
  BY <1>1, <1>2, <1>3, <1>4, AppendStep DEF LogMessage

LEMMA LogDropStep ==
  ASSUME IInv, LogDrop PROVE IInv'
<1>1. PICK m : m = count + 1
  OBVIOUS
<1>2. append(m)
  BY <1>1 DEF LogDrop
<1>3. w \in [pc : Stages, head : Ref, tail : Ref, size : Nat, new1 : Ref, new2 : Ref]
  BY DEF IInv, Typed
<1>4. w' = [w EXCEPT !.pc = "free"] /\ w.pc = "drop"
  BY DEF LogDrop
<1>5. /\ w' \in [pc : Stages, head : Ref, tail : Ref, size : Nat, new1 : Ref, new2 : Ref]
      /\ SameWork /\ w'.pc = "free"
  BY <1>3, <1>4 DEF SameWork, Stages
<1> QED
  BY <1>1, <1>2, <1>4, <1>5, AppendStep DEF LogDrop

-----------------------------------------------------------------------------
(* The other steps.                                                         *)

LEMMA InitOK ==
  ASSUME Init PROVE IInv
<1>1. Buf = 1 .. MaxBuf /\ MaxBuf \in Nat /\ MaxBuf >= 4 /\ NULL = 0
  BY BoundAssumption DEF Buf, NULL
<1>2. {1, 2, 3, 4} \subseteq Buf /\ allocated = {1, 2, 3, 4}
  BY <1>1 DEF Init
<1>3. Typed
  BY <1>1, <1>2 DEF Init, Typed, Ref, Stages
<1>4. PICK p : p = << 1 >>
  OBVIOUS
<1>5. p \in Seq(Buf) /\ Len(p) = 1 /\ p[1] = 1 /\ p # << >> /\ ToSet(p) = {1}
  BY <1>1, <1>4 DEF ToSet
<1>6. PICK q : q = << >>
  OBVIOUS
<1>7. q \in Seq(Buf) /\ Len(q) = 0 /\ ToSet(q) = {}
  BY <1>6 DEF ToSet
<1>8. ListOK(p)
  BY <1>1, <1>5 DEF Init, ListOK, Path
<1>9. WorkOK(q)
  BY <1>1, <1>6, <1>7 DEF Init, WorkOK, Path
<1>10. Apart(p, q)
  <2>1. Spares = {2, 3, 4}
    BY <1>1 DEF Init, Spares
  <2>2. allocated = ToSet(p) \cup ToSet(q) \cup Spares
    BY <1>2, <1>5, <1>7, <2>1
  <2> QED
    BY <1>5, <1>7, <2>1, <2>2 DEF Init, Apart
<1>11. Blank(p, q)
  BY DEF Init, Blank
<1>12. Ordered(p, q)
  <2>1. Cont(data, p) = << >>
    <3>1. 1 \in Buf /\ data[1] = << >>
      BY <1>1 DEF Init
    <3>2. Cont(data, << 1 >>) = data[1]
      BY <1>3, <3>1, ContOne DEF Typed
    <3> QED
      BY <1>4, <3>1, <3>2
  <2>2. Unwritten(q) = << >>
    BY <1>6, ContEmpty DEF Init, Unwritten
  <2>3. Messages(p, q) = << >>
    BY <2>1, <2>2 DEF Init, Messages
  <2>4. ToSet(<< >>) = {}
    BY DEF ToSet
  <2>5. Sorted(<< >>)
    BY DEF Sorted
  <2>6. (1 .. count) \ dropped = {}
    BY DEF Init
  <2> QED
    BY <2>3, <2>4, <2>5, <2>6 DEF Ordered
<1> QED
  BY <1>3, <1>8, <1>9, <1>10, <1>11, <1>12 DEF IInv, Shape

(* A step that leaves the buffers, inst and the history alone.              *)
LEMMA SameBuffers ==
  ASSUME IInv, Typed', UNCHANGED << heap, inst, history >>, SameWork,
         w'.pc = w.pc \/ (w.pc = "loop" /\ w'.pc \in {"swap", "ended"})
  PROVE  IInv'
<1>1. PICK p, q : Shape(p, q)
  BY DEF IInv
<1>2. ListOK(p)'
  BY <1>1 DEF Shape, ListOK, heap, inst
<1>3. WorkOK(q)'
  BY <1>1 DEF Shape, WorkOK, SameWork, heap
<1>4. Apart(p, q)'
  BY <1>1 DEF Shape, Apart, Spares, SameWork, heap, inst
<1>5. Blank(p, q)'
  BY <1>1 DEF Shape, Blank, heap
<1>6. Ordered(p, q)'
  <2>1. Unwritten(q)' = Unwritten(q)
    BY DEF Unwritten, heap
  <2>2. Messages(p, q)' = Messages(p, q)
    BY <2>1 DEF Messages, heap, history
  <2> QED
    BY <1>1, <2>2 DEF Shape, Ordered, history
<1>7. Shape(p, q)'
  BY <1>2, <1>3, <1>4, <1>5, <1>6 DEF Shape
<1> QED
  BY <1>7 DEF IInv

LEMMA LogExitStep ==
  ASSUME IInv, LogExit PROVE IInv'
<1>1. Typed'
  BY DEF IInv, Typed, LogExit, heap, inst, files, history
<1> QED
  BY <1>1, SameBuffers DEF LogExit, SameWork

LEMMA WorkerTestStep ==
  ASSUME IInv, WorkerTest PROVE IInv'
<1>1. w \in [pc : Stages, head : Ref, tail : Ref, size : Nat, new1 : Ref, new2 : Ref]
  BY DEF IInv, Typed
<1>2. w' = [w EXCEPT !.pc = IF running THEN "swap" ELSE "ended"] /\ w.pc = "loop"
  BY DEF WorkerTest
<1>3. /\ w' \in [pc : Stages, head : Ref, tail : Ref, size : Nat, new1 : Ref, new2 : Ref]
      /\ SameWork /\ w'.pc \in {"swap", "ended"}
  BY <1>1, <1>2 DEF SameWork, Stages
<1>4. Typed'
  BY <1>3 DEF IInv, Typed, WorkerTest, heap, inst, files, history
<1> QED
  BY <1>2, <1>3, <1>4, SameBuffers DEF WorkerTest

LEMMA SwapStep ==
  ASSUME IInv, Swap PROVE IInv'
<1>1. Typed /\ \E p, q : Shape(p, q)
  BY DEF IInv
<1>2. PICK p, q : Shape(p, q)
  BY <1>1
<1>3. w.pc = "swap" /\ q = << >> /\ w.new1 # NULL /\ w.new2 # NULL
  BY <1>2 DEF Swap, Shape, WorkOK
<1>4. PICK n \in Nat : p \in Seq(Buf) /\ n = Len(p) /\ n # 0 /\ p # << >> /\ p[n] = curr_buffer
  BY <1>2, EmptySeq DEF Shape, ListOK, Path
<1>5. PICK a, b : a = w.new1 /\ b = w.new2
  OBVIOUS
<1>6. a \in Buf /\ b \in Buf /\ a # b /\ a \in Spares /\ b \in Spares
  BY <1>1, <1>2, <1>3, <1>5 DEF Typed, Ref, Spares, Shape, Apart
<1>7. a \notin ToSet(p) /\ b \notin ToSet(p)
  BY <1>2, <1>6 DEF Shape, Apart
<1>8. ToSet(q) = {}
  BY <1>3 DEF ToSet
<1>9. data[a] = << >> /\ next[a] = NULL
  BY <1>2, <1>6, <1>7, <1>8 DEF Shape, Blank
<1>10. PICK r : r = << a >>
  OBVIOUS
<1>11. r \in Seq(Buf) /\ Len(r) = 1 /\ r[1] = a /\ r # << >> /\ ToSet(r) = {a}
  BY <1>6, <1>10 DEF ToSet
<1>12. PICK h : h = IF head = NULL THEN curr_buffer ELSE head
  OBVIOUS
<1>13. /\ curr_buffer' = a /\ next_buffer' = (IF next_buffer = NULL THEN b ELSE next_buffer)
       /\ head' = NULL /\ tail' = NULL /\ size' = 0
       /\ next' = next /\ data' = data /\ allocated' = allocated
       /\ running' = running /\ count' = count /\ dropped' = dropped /\ written' = written
  BY <1>5 DEF Swap, Take, heap, history
<1>14. /\ w' \in [pc : Stages, head : Ref, tail : Ref, size : Nat, new1 : Ref, new2 : Ref]
       /\ w'.pc = (IF size + 1 > MaxBuffers THEN "drop" ELSE "write")
       /\ w'.head = h /\ w'.tail = curr_buffer /\ w'.size = size + 1
       /\ w'.new1 = NULL /\ w'.new2 = (IF next_buffer = NULL THEN NULL ELSE b)
  <2>1. w' = [w EXCEPT !.pc = IF size + 1 > MaxBuffers THEN "drop" ELSE "write",
                       !.head = h, !.tail = curr_buffer, !.size = size + 1, !.new1 = NULL,
                       !.new2 = IF next_buffer = NULL THEN NULL ELSE b]
    BY <1>5, <1>12 DEF Swap, Take
  <2>2. h \in Ref /\ curr_buffer \in Ref /\ size + 1 \in Nat /\ NULL \in Ref /\ b \in Ref
    BY <1>1, <1>6, <1>12 DEF Typed, Ref
  <2>3. w \in [pc : Stages, head : Ref, tail : Ref, size : Nat, new1 : Ref, new2 : Ref]
    BY <1>1 DEF Typed
  <2> QED
    BY <2>1, <2>2, <2>3 DEF Stages
<1>15. Typed'
  <2>1. file' \in 0 .. 1 /\ written_bytes' \in Nat /\ filesize' \in [0 .. 1 -> Nat]
    <3>1. CASE UNCHANGED files
      BY <1>1, <3>1 DEF Typed, files
    <3>2. CASE RollFile(written_bytes) /\ filesize' = [i \in 0 .. 1 |-> 0]
      BY <1>1, <3>2 DEF Typed, RollFile
    <3> QED
      BY <3>1, <3>2 DEF Swap
  <2>2. curr_buffer' \in Buf /\ next_buffer' \in Ref /\ head' \in Ref /\ tail' \in Ref /\ size' \in Nat
    BY <1>1, <1>6, <1>13 DEF Typed, Ref
  <2> QED
    BY <1>1, <1>13, <1>14, <2>1, <2>2 DEF Typed
<1>16. ListOK(r)'
  <2>1. a # NULL /\ next_buffer' # NULL
    BY <1>3, <1>5, <1>13
  <2>2. Path(r, a, next)
    BY <1>9, <1>11, <2>1 DEF Path
  <2> QED
    BY <1>11, <1>13, <2>1, <2>2 DEF ListOK
<1>17. WorkOK(p)'
  <2>1. Path(p, h, next)
    BY <1>2, <1>12 DEF Shape, ListOK
  <2>2. size + 1 = n /\ (next_buffer = NULL => n >= 2)
    BY <1>2, <1>4 DEF Shape, ListOK
  <2>3. w'.size = Len(p) /\ w'.tail = IF p = << >> THEN NULL ELSE p[Len(p)]
    BY <1>4, <1>14, <2>2
  <2>4. w'.pc \in {"drop", "write"} /\ (w'.pc = "drop" => Len(p) > MaxBuffers)
    BY <1>4, <1>14, <2>2
  <2>5. w'.new2 = NULL => Len(p) >= 2
    BY <1>3, <1>4, <1>5, <1>14, <2>2
  <2> QED
    BY <1>4, <1>13, <1>14, <2>1, <2>3, <2>4, <2>5 DEF WorkOK
<1>18. Apart(r, p)'
  <2>1. Spares = {next_buffer, a, b} \ {NULL}
    BY <1>5 DEF Spares
  <2>2. Spares' = IF next_buffer = NULL THEN {b} ELSE {next_buffer, b}
    <3>1. Spares' = {next_buffer', w'.new1, w'.new2} \ {NULL}
      BY DEF Spares
    <3> QED
      BY <1>3, <1>5, <1>13, <1>14, <3>1
  <2>3. next_buffer # NULL => next_buffer # a /\ next_buffer # b
    BY <1>2, <1>5 DEF Shape, Apart
  <2>4. Spares = {a} \cup Spares'
    BY <1>3, <1>5, <2>1, <2>2
  <2>5. a \notin Spares'
    BY <1>6, <2>2, <2>3
  <2>6. Spares \cap ToSet(p) = {} /\ allocated = ToSet(p) \cup Spares
    BY <1>2, <1>8 DEF Shape, Apart
  <2>7. allocated' = ToSet(r) \cup ToSet(p) \cup Spares'
    BY <1>11, <1>13, <2>4, <2>6
  <2>8. ToSet(r) \cap ToSet(p) = {} /\ Spares' \cap (ToSet(r) \cup ToSet(p)) = {}
    BY <1>7, <1>11, <2>4, <2>5, <2>6
  <2>9. next_buffer' # NULL => next_buffer' # w'.new1 /\ next_buffer' # w'.new2
    BY <1>3, <1>5, <1>13, <1>14, <2>3
  <2> QED
    BY <1>14, <2>7, <2>8, <2>9 DEF Apart
<1>19. Blank(r, p)'
  BY <1>2, <1>8, <1>13 DEF Shape, Blank
<1>20. Ordered(r, p)'
  <2>1. PICK x \in Seq(Nat), c \in Seq(Nat) : x = written /\ c = Cont(data, p)
    BY <1>1, <1>4, ContIn DEF Typed
  <2>2. Messages(p, q) = (x \o << >>) \o c
    BY <1>3, <2>1, ContEmpty DEF Messages, Unwritten
  <2>3. Cont(data, r) = << >>
    BY <1>1, <1>6, <1>9, <1>10, ContOne DEF Typed
  <2>4. w'.pc # "recycle"
    BY <1>14
  <2>5. Messages(r, p)' = (x \o c) \o << >>
    BY <1>13, <2>1, <2>3, <2>4 DEF Messages, Unwritten
  <2>6. x \o << >> = x
    BY ConcatEmptySeq
  <2>7. PICK y \in Seq(Nat) : y = x \o c
    BY ConcatProperties
  <2>8. y \o << >> = y
    BY ConcatEmptySeq
  <2>9. Messages(r, p)' = Messages(p, q)
    BY <2>2, <2>5, <2>6, <2>7, <2>8
  <2> QED
    BY <1>2, <1>13, <2>9 DEF Shape, Ordered
<1>21. Shape(r, p)'
  BY <1>16, <1>17, <1>18, <1>19, <1>20 DEF Shape
<1> QED
  BY <1>15, <1>21 DEF IInv

LEMMA WriteStep ==
  ASSUME IInv, Write PROVE IInv'
<1>1. Typed
  BY DEF IInv
<1>2. PICK p, q : Shape(p, q)
  BY DEF IInv
<1>3. PICK d \in [Buf -> Seq(Nat)], x \in Seq(Nat) : d = data /\ x = written
  BY <1>1 DEF Typed
<1>4. PICK u \in Seq(Nat), c \in Seq(Nat) : u = Cont(d, q) /\ c = Cont(d, p)
  BY <1>2, ContIn DEF Shape, ListOK, WorkOK, Path
<1>5. Contents(Chain(w.head)) = u
  <2>1. Chain(w.head) = q
    BY <1>2, ChainIs DEF Shape, WorkOK
  <2> QED
    BY <1>3, <1>4, <2>1 DEF Contents, Cont
<1>6. PICK l \in Nat : l = Len(u)
  OBVIOUS
<1>7. /\ w' \in [pc : Stages, head : Ref, tail : Ref, size : Nat, new1 : Ref, new2 : Ref]
      /\ SameWork /\ w.pc = "write" /\ w'.pc = "recycle"
  <2>1. w' = [w EXCEPT !.pc = "recycle"] /\ w.pc = "write"
    BY DEF Write
  <2>2. w \in [pc : Stages, head : Ref, tail : Ref, size : Nat, new1 : Ref, new2 : Ref]
    BY <1>1 DEF Typed
  <2> QED
    BY <2>1, <2>2 DEF SameWork, Stages
<1>8. PICK y \in Seq(Nat) : y = x \o u
  BY ConcatProperties
<1>9. written' = y /\ UNCHANGED << heap, inst, running, count, dropped >>
  BY <1>3, <1>5, <1>8 DEF Write
<1>10. file' \in 0 .. 1 /\ written_bytes' \in Nat /\ filesize' \in [0 .. 1 -> Nat]
  <2>1. PICK s \in Nat : s = written_bytes + l
    BY <1>1 DEF Typed
  <2>2. IF s > rollsize THEN RollFile(s) ELSE written_bytes' = s /\ UNCHANGED file
    BY <1>5, <1>6, <2>1 DEF Write
  <2>3. file' \in 0 .. 1 /\ written_bytes' \in Nat
    BY <1>1, <2>2 DEF Typed, RollFile
  <2>4. filesize' = [filesize EXCEPT ![file] = filesize[file] + l]
    BY <1>5, <1>6 DEF Write
  <2>5. filesize' \in [0 .. 1 -> Nat]
    BY <1>1, <2>4 DEF Typed
  <2> QED
    BY <2>3, <2>5
<1>11. Typed'
  BY <1>1, <1>7, <1>9, <1>10 DEF Typed, heap, inst
<1>12. ListOK(p)'
  BY <1>2, <1>9 DEF Shape, ListOK, heap, inst
<1>13. WorkOK(q)'
  BY <1>2, <1>7, <1>9 DEF Shape, WorkOK, SameWork, heap
<1>14. Apart(p, q)'
  BY <1>2, <1>7, <1>9 DEF Shape, Apart, Spares, SameWork, heap, inst
<1>15. Blank(p, q)'
  BY <1>2, <1>9 DEF Shape, Blank, heap
<1>16. Ordered(p, q)'
  <2>1. Messages(p, q) = y \o c
    BY <1>3, <1>4, <1>7, <1>8 DEF Messages, Unwritten
  <2>2. data' = data
    BY <1>9 DEF heap
  <2>3. Messages(p, q)' = (y \o << >>) \o c
    BY <1>3, <1>4, <1>7, <1>9, <2>2 DEF Messages, Unwritten
  <2>4. y \o << >> = y
    BY ConcatEmptySeq
  <2> QED
    BY <1>2, <1>9, <2>1, <2>3, <2>4 DEF Shape, Ordered
<1>17. Shape(p, q)'
  BY <1>12, <1>13, <1>14, <1>15, <1>16 DEF Shape
<1> QED
  BY <1>11, <1>17 DEF IInv

(* The rest of a list.                                                      *)
LEMMA RestOf ==
  ASSUME NEW q \in Seq(Buf), NEW k \in Nat, k <= Len(q)
  PROVE  /\ SubSeq(q, k + 1, Len(q)) \in Seq(Buf)
         /\ ToSet(SubSeq(q, k + 1, Len(q))) = {q[i] : i \in k + 1 .. Len(q)}
<1>1. PICK n \in Nat : n = Len(q)
  OBVIOUS
<1> DEFINE s == SubSeq(q, k + 1, n)
<1>2. /\ s \in Seq(Buf) /\ Len(s) = n - k
      /\ \A i \in 1 .. n - k : s[i] = q[k + i]
  <2>1. /\ s \in Seq(Buf) /\ Len(s) = IF k + 1 <= n THEN n - (k + 1) + 1 ELSE 0
        /\ \A i \in 1 .. n - (k + 1) + 1 : s[i] = q[(k + 1) + i - 1]
    BY <1>1, SubSeqProperties
  <2>2. n - (k + 1) + 1 = n - k /\ \A i \in 1 .. n - k : (k + 1) + i - 1 = k + i
    OBVIOUS
  <2>3. Len(s) = n - k
    BY <1>1, <2>1
  <2>4. ASSUME NEW i \in 1 .. n - k PROVE s[i] = q[k + i]
    BY <2>1, <2>2
  <2> QED
    BY <2>1, <2>3, <2>4
<1> HIDE DEF s
<1>3. ToSet(s) = {s[i] : i \in 1 .. n - k}
  BY <1>2, InSet
<1>4. ASSUME NEW x \in ToSet(s) PROVE x \in {q[i] : i \in k + 1 .. n}
  <2>1. PICK i \in 1 .. n - k : x = s[i]
    BY <1>3
  <2>2. k + i \in k + 1 .. n
    BY <1>1
  <2> QED
    BY <1>2, <2>1, <2>2
<1>5. ASSUME NEW i \in k + 1 .. n PROVE q[i] \in ToSet(s)
  <2>1. i - k \in 1 .. n - k /\ k + (i - k) = i
    BY <1>1
  <2> QED
    BY <1>2, <1>3, <2>1
<1>6. ToSet(s) = {q[i] : i \in k + 1 .. n}
  BY <1>4, <1>5
<1> QED
  BY <1>1, <1>2, <1>6 DEF s

LEMMA RecycleStep ==
  ASSUME IInv, Recycle PROVE IInv'
<1>1. Typed
  BY DEF IInv
<1>2. PICK p, q : Shape(p, q)
  BY DEF IInv
<1>3. /\ w.pc = "recycle" /\ w.new1 = NULL
      /\ p \in Seq(Buf) /\ q \in Seq(Buf) /\ Path(q, w.head, next)
  BY <1>2 DEF Recycle, Shape, ListOK, WorkOK, Path
<1>4. PICK n \in Nat : n = (IF w.new2 = NULL THEN 2 ELSE 1) /\ n <= Len(q)
  BY <1>2, <1>3 DEF Shape, WorkOK
<1>5. PICK l \in Nat : l = Len(q) /\ n <= l
  BY <1>3, <1>4
<1>6. Chain(w.head) = q
  BY <1>3, ChainIs
<1>7. PICK gone : gone = {q[i] : i \in n + 1 .. l}
  OBVIOUS
<1>8. ToSet(SubSeq(q, n + 1, Len(q))) = gone
  BY <1>3, <1>4, <1>5, <1>7, RestOf
<1>9. PICK a, b : a = q[1] /\ b = IF n = 2 THEN q[2] ELSE w.new2
  OBVIOUS
<1>10. ToSet(q) = {q[i] : i \in 1 .. l} /\ ToSet(q) \subseteq Buf
  BY <1>3, <1>5, InSet
<1>11. {q[i] : i \in 1 .. n} \cup gone = ToSet(q)
  <2>1. (1 .. n) \cup (n + 1 .. l) = 1 .. l
    BY <1>5
  <2> QED
    BY <1>7, <1>10, <2>1
<1>12. /\ w' = [pc |-> "loop", head |-> NULL, tail |-> NULL, size |-> 0, new1 |-> a, new2 |-> b]
       /\ allocated' = allocated \ gone /\ Cleared(ToSet(q))
       /\ UNCHANGED << inst, running, files, history >>
  <2>1. /\ w' = [pc |-> "loop", head |-> NULL, tail |-> NULL, size |-> 0,
                  new1 |-> q[1], new2 |-> IF n = 2 THEN q[2] ELSE w.new2]
        /\ allocated' = allocated \ gone
        /\ Cleared({q[i] : i \in 1 .. n} \cup gone)
    BY <1>4, <1>6, <1>8 DEF Recycle
  <2> QED
    BY <1>9, <1>11, <2>1 DEF Recycle
<1>13. a \in ToSet(q) /\ a \in Buf /\ a # NULL /\ a \notin gone
  <2>1. 1 \in 1 .. l
    BY <1>4, <1>5
  <2>2. a \in ToSet(q) /\ a \in Buf
    BY <1>9, <1>10, <2>1
  <2>3. \A i \in n + 1 .. l : i \in 1 .. l /\ i # 1
    BY <1>4, <1>5
  <2>4. \A i, j \in 1 .. l : q[i] = q[j] => i = j
    BY <1>3, <1>5 DEF Path
  <2> QED
    BY <1>7, <1>9, <2>1, <2>2, <2>3, <2>4 DEF Buf, NULL
<1>14. /\ b \in Buf /\ b # NULL /\ a # b /\ b \notin gone
       /\ b \notin ToSet(p) /\ (b \in ToSet(q) \/ b = w.new2)
  <2>1. CASE w.new2 = NULL
    <3>1. n = 2 /\ 1 \in 1 .. l /\ 2 \in 1 .. l
      BY <1>4, <1>5, <2>1
    <3>2. b = q[2] /\ b \in ToSet(q) /\ b \in Buf
      BY <1>9, <1>10, <3>1
    <3>3. \A i, j \in 1 .. l : q[i] = q[j] => i = j
      BY <1>3, <1>5 DEF Path
    <3>4. a # b
      BY <1>9, <3>1, <3>2, <3>3
    <3>5. \A i \in n + 1 .. l : i \in 1 .. l /\ i # 2
      BY <3>1
    <3>6. b \notin gone
      BY <1>7, <3>1, <3>2, <3>3, <3>5
    <3>7. b \notin ToSet(p)
      BY <1>2, <3>2 DEF Shape, Apart
    <3> QED
      BY <3>2, <3>4, <3>6, <3>7 DEF Buf, NULL
  <2>2. CASE w.new2 # NULL
    <3>1. b = w.new2 /\ b \in Spares /\ b \in Buf
      BY <1>1, <1>4, <1>9, <2>2 DEF Spares, Typed, Ref
    <3>2. b \notin ToSet(p) /\ b \notin ToSet(q)
      BY <1>2, <3>1 DEF Shape, Apart
    <3>3. gone \subseteq ToSet(q)
      BY <1>11
    <3> QED
      BY <1>13, <2>2, <3>1, <3>2, <3>3
  <2> QED
    BY <2>1, <2>2
<1>15. PICK d \in [Buf -> Seq(Nat)], nx \in [Buf -> Ref] : d = data /\ nx = next
  BY <1>1 DEF Typed
<1>16. PICK dd, ny : dd = data' /\ ny = next'
  OBVIOUS
<1>17. /\ dd \in [Buf -> Seq(Nat)] /\ ny \in [Buf -> Ref]
       /\ \A x \in Buf : dd[x] = IF x \in ToSet(q) THEN << >> ELSE d[x]
       /\ \A x \in Buf : ny[x] = IF x \in ToSet(q) THEN NULL ELSE nx[x]
  <2>1. /\ dd = [x \in Buf |-> IF x \in ToSet(q) THEN << >> ELSE d[x]]
        /\ ny = [x \in Buf |-> IF x \in ToSet(q) THEN NULL ELSE nx[x]]
    BY <1>12, <1>15, <1>16 DEF Cleared
  <2>2. << >> \in Seq(Nat) /\ NULL \in Ref
    BY DEF Ref
  <2> QED
    BY <2>1, <2>2
<1>18. \A i \in 1 .. Len(p) : p[i] \in Buf /\ p[i] \notin ToSet(q)
  <2>1. \A i \in 1 .. Len(p) : p[i] \in ToSet(p) /\ p[i] \in Buf
    BY <1>3, InSet
  <2> QED
    BY <1>2, <2>1 DEF Shape, Apart
<1>19. Typed'
  <2>1. w' \in [pc : Stages, head : Ref, tail : Ref, size : Nat, new1 : Ref, new2 : Ref]
    BY <1>12, <1>13, <1>14 DEF Stages, Ref
  <2>2. allocated' \subseteq Buf
    BY <1>1, <1>12 DEF Typed
  <2> QED
    BY <1>1, <1>12, <1>16, <1>17, <2>1, <2>2 DEF Typed, inst, files, history
<1>20. ListOK(p)'
  <2>1. PICK h : h = (IF head = NULL THEN curr_buffer ELSE head) /\ Path(p, h, nx)
    BY <1>2, <1>15 DEF Shape, ListOK
  <2>2. Path(p, h, ny)
    BY <1>17, <1>18, <2>1, PathSame
  <2> QED
    BY <1>2, <1>12, <1>16, <2>1, <2>2 DEF Shape, ListOK, inst
<1>27. PICK r : r = << >>
  OBVIOUS
<1>21. r = << >> /\ r \in Seq(Buf) /\ Len(r) = 0 /\ ToSet(r) = {}
  BY <1>27 DEF ToSet
<1>22. WorkOK(r)'
  BY <1>12, <1>13, <1>14, <1>21 DEF WorkOK, Path
<1>23. Apart(p, r)'
  <2>1. Spares' = ({next_buffer} \ {NULL}) \cup {a, b}
    <3>1. next_buffer' = next_buffer /\ w'.new1 = a /\ w'.new2 = b
      BY <1>12 DEF inst
    <3> QED
      BY <1>13, <1>14, <3>1 DEF Spares
  <2>2. /\ next_buffer # NULL => /\ next_buffer \notin ToSet(p) /\ next_buffer \notin ToSet(q)
                                 /\ next_buffer # w.new2
    BY <1>2 DEF Shape, Apart, Spares
  <2>3. next_buffer # NULL => next_buffer # a /\ next_buffer # b
    BY <1>13, <1>14, <2>2
  <2>4. a \notin ToSet(p)
    BY <1>2, <1>13 DEF Shape, Apart
  <2>5. ToSet(q) \ gone = IF n = 2 THEN {a, b} ELSE {a}
    <3>1. ToSet(q) \subseteq {q[i] : i \in 1 .. n} \cup gone
      BY <1>11
    <3>2. n = 1 \/ n = 2
      BY <1>4
    <3>3. {q[i] : i \in 1 .. n} = IF n = 2 THEN {a, b} ELSE {a}
      BY <1>9, <3>2
    <3>4. n = 2 => b \in ToSet(q)
      <4>1. n = 2 => 2 \in 1 .. l
        BY <1>5
      <4> QED
        BY <1>9, <1>10, <4>1
    <3> QED
      BY <1>13, <1>14, <3>1, <3>3, <3>4
  <2>6. allocated = ToSet(p) \cup ToSet(q) \cup (({next_buffer, w.new2}) \ {NULL})
    BY <1>2, <1>3 DEF Shape, Apart, Spares
  <2>7. gone \subseteq ToSet(q)
    BY <1>11
  <2>8. allocated' = ToSet(p) \cup Spares'
    <3>1. allocated \ gone = ToSet(p) \cup (ToSet(q) \ gone) \cup (({next_buffer, w.new2}) \ {NULL})
      <4>1. ToSet(p) \cap gone = {}
        BY <1>2, <2>7 DEF Shape, Apart
      <4>2. (({next_buffer, w.new2}) \ {NULL}) \cap gone = {}
        BY <1>2, <2>7 DEF Shape, Apart, Spares
      <4> QED
        BY ONLY <2>6, <4>1, <4>2
    <3>2. CASE w.new2 = NULL
      <4>1. n = 2
        BY <1>4, <3>2
      <4> QED
        BY <1>12, <2>1, <2>5, <3>1, <3>2, <4>1
    <3>3. CASE w.new2 # NULL
      <4>1. n = 1 /\ b = w.new2
        BY <1>4, <1>9, <3>3
      <4> QED
        BY <1>12, <2>1, <2>5, <3>1, <3>3, <4>1
    <3> QED
      BY <3>2, <3>3
  <2>9. Spares' \cap ToSet(p) = {}
    BY <1>14, <2>1, <2>2, <2>4
  <2> QED
    BY <1>12, <1>13, <1>14, <1>21, <2>3, <2>8, <2>9 DEF Apart, inst
<1>24. Blank(p, r)'
  <2>1. \A x \in Buf \ ToSet(p) : dd[x] = << >> /\ ny[x] = NULL
    BY <1>2, <1>15, <1>17 DEF Shape, Blank
  <2> QED
    BY <1>16, <1>21, <2>1 DEF Blank
<1>25. Ordered(p, r)'
  <2>1. Cont(dd, p) = Cont(d, p)
    <3>1. \A i \in 1 .. Len(p) : d[p[i]] = dd[p[i]]
      BY <1>17, <1>18
    <3> QED
      BY <1>3, <3>1, ContSame
  <2>2. Unwritten(q) = << >>
    BY <1>3 DEF Unwritten
  <2>3. Unwritten(r)' = << >>
    BY <1>21, ContEmpty DEF Unwritten
  <2>4. Messages(p, r)' = Messages(p, q)
    BY <1>12, <1>15, <1>16, <2>1, <2>2, <2>3 DEF Messages, history
  <2> QED
    BY <1>2, <1>12, <2>4 DEF Shape, Ordered, history
<1>26. Shape(p, r)'
  BY <1>20, <1>22, <1>23, <1>24, <1>25 DEF Shape
<1> QED
  BY <1>19, <1>26 DEF IInv

LEMMA DropStep ==
  ASSUME IInv, DropBuffers PROVE IInv'
<1>1. Typed
  BY DEF IInv
<1>2. PICK p, q : Shape(p, q)
  BY DEF IInv
<1>3. /\ w.pc = "free" /\ w.new1 = NULL
      /\ p \in Seq(Buf) /\ q \in Seq(Buf) /\ Path(q, w.head, next)
  BY <1>2 DEF DropBuffers, Shape, ListOK, WorkOK, Path
<1>4. PICK l \in Nat : l = Len(q) /\ l > 2
  BY <1>2, <1>3, DropAssumption DEF Shape, WorkOK
<1>5. Chain(w.head) = q
  BY <1>3, ChainIs
<1>6. PICK gone : gone = {q[i] : i \in 3 .. l}
  OBVIOUS
<1>7. PICK s \in Seq(Buf) : s = SubSeq(q, 3, Len(q)) /\ ToSet(s) = gone
  <2>1. PICK k \in Nat : k = 2 /\ k + 1 = 3 /\ k <= Len(q)
    BY <1>4
  <2>2. /\ SubSeq(q, k + 1, Len(q)) \in Seq(Buf)
        /\ ToSet(SubSeq(q, k + 1, Len(q))) = {q[i] : i \in k + 1 .. Len(q)}
    BY <1>3, <2>1, RestOf
  <2> QED
    BY <1>4, <1>6, <2>1, <2>2
<1>8. PICK a, b : a = q[1] /\ b = q[2]
  OBVIOUS
<1>9. ToSet(q) = {q[i] : i \in 1 .. l} /\ ToSet(q) \subseteq Buf
  BY <1>3, <1>4, InSet
<1>10. \A i, j \in 1 .. l : q[i] = q[j] => i = j
  BY <1>3, <1>4 DEF Path
<1>11. /\ a \in Buf /\ b \in Buf /\ a # b /\ a \notin gone /\ b \notin gone
       /\ a # NULL /\ a = w.head /\ next[a] = b
       /\ ToSet(q) = {a, b} \cup gone
  <2>1. 1 \in 1 .. l /\ 2 \in 1 .. l /\ 1 + 1 = 2 /\ 1 < l
    BY <1>4
  <2>2. a \in Buf /\ b \in Buf /\ a # b
    BY <1>8, <1>9, <1>10, <2>1
  <2>3. \A i \in 3 .. l : i \in 1 .. l /\ i # 1 /\ i # 2
    BY <1>4
  <2>4. a \notin gone /\ b \notin gone
    BY <1>6, <1>8, <1>10, <2>1, <2>3
  <2>5. 1 .. l = {1, 2} \cup (3 .. l)
    BY <1>4
  <2>6. ToSet(q) = {a, b} \cup gone
    BY <1>6, <1>8, <1>9, <2>5
  <2>7. a = w.head
    BY <1>3, <1>4, <1>8 DEF Path
  <2>8. next[a] = b
    BY <1>3, <1>4, <1>8, <2>1 DEF Path
  <2> QED
    BY <2>2, <2>4, <2>6, <2>7, <2>8 DEF Buf, NULL
<1>12. PICK d \in [Buf -> Seq(Nat)], nx \in [Buf -> Ref], x \in Seq(Nat) :
         d = data /\ nx = next /\ x = written
  BY <1>1 DEF Typed
<1>13. PICK g \in Seq(Nat) : g = Cont(d, s)
  BY <1>7, ContIn
<1>14. /\ allocated' = allocated \ gone /\ dropped' = dropped \cup ToSet(g)
       /\ next' = [y \in Buf |-> IF y \in gone \cup {b} THEN NULL ELSE nx[y]]
       /\ data' = [y \in Buf |-> IF y \in gone THEN << >> ELSE d[y]]
       /\ w' = [w EXCEPT !.pc = "write", !.tail = b, !.size = 2]
       /\ UNCHANGED << inst, running, files, count, written >>
  <2>1. Contents(s) = g
    BY <1>12, <1>13 DEF Contents, Cont
  <2> QED
    BY <1>5, <1>7, <1>8, <1>12, <2>1 DEF DropBuffers
<1>15. PICK dd, ny : dd = data' /\ ny = next'
  OBVIOUS
<1>16. /\ dd \in [Buf -> Seq(Nat)] /\ ny \in [Buf -> Ref]
       /\ \A y \in Buf : dd[y] = IF y \in gone THEN << >> ELSE d[y]
       /\ \A y \in Buf : ny[y] = IF y \in gone \cup {b} THEN NULL ELSE nx[y]
  <2>1. << >> \in Seq(Nat) /\ NULL \in Ref
    BY DEF Ref
  <2> QED
    BY <1>14, <1>15, <2>1
<1>17. /\ w' \in [pc : Stages, head : Ref, tail : Ref, size : Nat, new1 : Ref, new2 : Ref]
       /\ w'.pc = "write" /\ w'.tail = b /\ w'.size = 2
       /\ w'.head = w.head /\ w'.new1 = w.new1 /\ w'.new2 = w.new2
  <2>1. w \in [pc : Stages, head : Ref, tail : Ref, size : Nat, new1 : Ref, new2 : Ref]
    BY <1>1 DEF Typed
  <2> QED
    BY <1>11, <1>14, <2>1 DEF Stages, Ref
<1>18. PICK r : r = << a, b >>
  OBVIOUS
<1>19. r \in Seq(Buf) /\ Len(r) = 2 /\ r[1] = a /\ r[2] = b /\ r # << >> /\ ToSet(r) = {a, b}
  <2>1. r \in Seq(Buf) /\ Len(r) = 2 /\ r[1] = a /\ r[2] = b /\ r # << >>
    BY <1>11, <1>18
  <2>2. ToSet(r) = {r[i] : i \in 1 .. 2}
    BY <2>1, InSet
  <2>3. 1 .. 2 = {1, 2}
    OBVIOUS
  <2> QED
    BY <2>1, <2>2, <2>3
<1>20. \A i \in 1 .. Len(p) : p[i] \in Buf /\ p[i] \notin gone /\ p[i] # b
  <2>1. \A i \in 1 .. Len(p) : p[i] \in ToSet(p) /\ p[i] \in Buf
    BY <1>3, InSet
  <2> QED
    BY <1>2, <1>11, <2>1 DEF Shape, Apart
<1>21. ListOK(p)'
  <2>1. PICK h : h = (IF head = NULL THEN curr_buffer ELSE head) /\ Path(p, h, nx)
    BY <1>2, <1>12 DEF Shape, ListOK
  <2>2. Path(p, h, ny)
    BY <1>16, <1>20, <2>1, PathSame
  <2> QED
    BY <1>2, <1>14, <1>15, <2>1, <2>2 DEF Shape, ListOK, inst
<1>22. WorkOK(r)'
  <2>1. ny[a] = b /\ ny[b] = NULL
    BY <1>11, <1>12, <1>16
  <2>2. \A i, j \in 1 .. 2 : r[i] = r[j] => i = j
    BY <1>11, <1>19
  <2>3. \A i \in 1 .. 2 : i < 2 => ny[r[i]] = r[i + 1]
    BY <1>19, <2>1
  <2>4. Path(r, a, ny)
    BY <1>11, <1>19, <2>1, <2>2, <2>3 DEF Path
  <2> QED
    BY <1>3, <1>11, <1>15, <1>17, <1>19, <2>4 DEF WorkOK
<1>23. Apart(p, r)'
  <2>1. Spares' = Spares /\ next_buffer' = next_buffer
    BY <1>14, <1>17 DEF Spares, inst
  <2>2. gone \cap Spares = {} /\ gone \cap ToSet(p) = {} /\ ToSet(r) \subseteq ToSet(q)
    BY <1>2, <1>11, <1>19 DEF Shape, Apart
  <2>3. allocated = ToSet(p) \cup ({a, b} \cup gone) \cup Spares
    BY <1>2, <1>11 DEF Shape, Apart
  <2>4. allocated' = ToSet(p) \cup ToSet(r) \cup Spares'
    BY <1>11, <1>14, <1>19, <2>1, <2>2, <2>3
  <2> QED
    BY <1>2, <1>17, <2>1, <2>2, <2>4 DEF Shape, Apart
<1>24. Blank(p, r)'
  <2>1. \A y \in Buf \ (ToSet(p) \cup {a, b}) : dd[y] = << >> /\ ny[y] = NULL
    BY <1>2, <1>11, <1>12, <1>16 DEF Shape, Blank
  <2> QED
    BY <1>15, <1>19, <2>1 DEF Blank
<1>25. PICK c \in Seq(Nat), k \in Seq(Nat) : c = Cont(d, p) /\ k = Cont(d, r)
  BY <1>3, <1>19, ContIn
<1>26. Cont(d, q) = k \o g
  <2>1. PICK i \in Nat : i = 2 /\ i <= Len(q) /\ i + 1 = 3
    BY <1>4
  <2>2. Cont(d, q) = Part(d, q, 1, i) \o Part(d, q, i + 1, Len(q))
    BY <1>3, <2>1, ContSplit
  <2>3. SubSeq(q, 1, 2) = r
    <3>1. /\ SubSeq(q, 1, 2) \in Seq(Buf) /\ Len(SubSeq(q, 1, 2)) = 2
          /\ \A j \in 1 .. 2 : SubSeq(q, 1, 2)[j] = q[1 + j - 1]
      <4>1. \A j \in 1 .. 2 : q[j] \in Buf
        BY <1>3, <1>4
      <4> QED
        BY <4>1, SubSeqProperties
    <3>2. \A j \in 1 .. 2 : SubSeq(q, 1, 2)[j] = r[j]
      <4>1. \A j \in 1 .. 2 : j = 1 \/ j = 2
        OBVIOUS
      <4>2. r[1] = q[1] /\ r[2] = q[2]
        BY <1>8, <1>19
      <4> QED
        BY <3>1, <4>1, <4>2
    <3> QED
      BY <1>19, <3>1, <3>2, SeqEqual
  <2> QED
    BY <1>7, <1>13, <1>25, <2>1, <2>2, <2>3 DEF Part
<1>27. PICK y \in Seq(Nat) : y = x \o k
  BY ConcatProperties
<1>28. Messages(p, q) = (y \o g) \o c
  <2>1. Messages(p, q) = (x \o (k \o g)) \o c
    BY <1>3, <1>12, <1>25, <1>26 DEF Messages, Unwritten
  <2>2. (x \o k) \o g = x \o (k \o g)
    BY Assoc
  <2> QED
    BY <1>27, <2>1, <2>2
<1>29. Messages(p, r)' = y \o c
  <2>1. Cont(dd, p) = c
    <3>1. \A i \in 1 .. Len(p) : d[p[i]] = dd[p[i]]
      BY <1>16, <1>20
    <3> QED
      BY <1>3, <1>25, <3>1, ContSame
  <2>2. Cont(dd, r) = k
    <3>1. \A i \in 1 .. Len(r) : i = 1 \/ i = 2
      BY <1>19
    <3>2. \A i \in 1 .. Len(r) : d[r[i]] = dd[r[i]]
      BY <1>11, <1>16, <1>19, <3>1
    <3> QED
      BY <1>19, <1>25, <3>2, ContSame
  <2>3. written' = x
    BY <1>12, <1>14
  <2> QED
    BY <1>15, <1>17, <1>27, <2>1, <2>2, <2>3 DEF Messages, Unwritten
<1>30. Sorted((y \o g) \o c) /\ ToSet((y \o g) \o c) = (1 .. count) \ dropped
  BY <1>2, <1>28 DEF Shape, Ordered
<1>31. Sorted(y \o c) /\ ToSet(y \o c) = ToSet((y \o g) \o c) \ ToSet(g)
  BY <1>30, SortedDrop
<1>32. ToSet(g) \subseteq ToSet((y \o g) \o c)
  <2>1. PICK S : S = Nat
    OBVIOUS
  <2>2. PICK z \in Seq(S) : z = y \o g
    BY <2>1, ConcatProperties
  <2>3. y \in Seq(S) /\ g \in Seq(S) /\ c \in Seq(S)
    BY <2>1
  <2>4. ToSet(y \o g) = ToSet(y) \cup ToSet(g) /\ ToSet(z \o c) = ToSet(z) \cup ToSet(c)
    BY <2>3, ToSetConcat
  <2> QED
    BY <2>2, <2>4
<1>33. Ordered(p, r)'
  <2>1. ((1 .. count) \ dropped) \ ToSet(g) = (1 .. count) \ (dropped \cup ToSet(g))
    OBVIOUS
  <2>2. count' = count
    BY <1>14
  <2> QED
    BY <1>14, <1>29, <1>30, <1>31, <2>1, <2>2 DEF Ordered
<1>34. Typed'
  <2>1. dropped' \subseteq 1 .. count'
    BY <1>1, <1>14, <1>30, <1>32 DEF Typed
  <2>2. allocated' \subseteq Buf
    BY <1>1, <1>14 DEF Typed
  <2>3. file' \in 0 .. 1 /\ written_bytes' \in Nat /\ filesize' \in [0 .. 1 -> Nat]
    BY <1>1, <1>14 DEF Typed, files
  <2> QED
    BY <1>1, <1>14, <1>15, <1>16, <1>17, <2>1, <2>2, <2>3 DEF Typed, inst
<1>35. Shape(p, r)'
  BY <1>21, <1>22, <1>23, <1>24, <1>33 DEF Shape
<1> QED
  BY <1>34, <1>35 DEF IInv

LEMMA StutterStep ==
  ASSUME IInv, UNCHANGED vars PROVE IInv'
<1>1. Typed'
  BY DEF IInv, Typed, vars, heap, inst, files, history
<1> QED
  BY <1>1, SameBuffers DEF vars, SameWork

(* The lists, the ownership of the buffers and the order of the messages:    *)
(* the conjuncts of IInv hold together in every state.                      *)
THEOREM Inductive == Spec => []IInv
<1>1. IInv /\ [Next]_vars => IInv'
  BY LogMessageStep, LogExitStep, WorkerTestStep, SwapStep, LogDropStep, DropStep, WriteStep,
     RecycleStep, StutterStep DEF Next, Worker
<1> QED
  BY <1>1, InitOK, PTL DEF Spec

-----------------------------------------------------------------------------
(* What follows from the invariant.                                         *)

(* No buffer is twice in s.                                                 *)
Once(s) == \A i, j \in 1 .. Len(s) : s[i] = s[j] /\ s[i] # NULL => i = j

LEMMA OnceConcat ==
  ASSUME NEW s \in Seq(Ref), NEW t \in Seq(Ref), Once(s), Once(t),
         ToSet(s) \cap ToSet(t) \subseteq {NULL}
  PROVE  Once(s \o t)
<1>1. PICK l \in Nat, m \in Nat : l = Len(s) /\ m = Len(t)
  OBVIOUS
<1>2. PICK u : u = s \o t
  OBVIOUS
<1>3. /\ Len(u) = l + m
      /\ \A i \in 1 .. l + m : u[i] = IF i <= l THEN s[i] ELSE t[i - l]
  <2>1. /\ Len(s \o t) = Len(s) + Len(t)
        /\ \A i \in 1 .. Len(s) + Len(t) : (s \o t)[i] = IF i <= Len(s) THEN s[i] ELSE t[i - Len(s)]
    BY ConcatProperties
  <2> QED
    BY <1>1, <1>2, <2>1
<1>4. \A i \in 1 .. l : s[i] \in ToSet(s)
  BY <1>1 DEF ToSet
<1>5. \A i \in 1 .. m : t[i] \in ToSet(t)
  BY <1>1 DEF ToSet
<1>6. ASSUME NEW i \in 1 .. l + m, NEW j \in 1 .. l + m, u[i] = u[j], u[i] # NULL, i < j PROVE FALSE
  <2>1. CASE j <= l
    <3>1. i \in 1 .. l /\ j \in 1 .. l /\ i <= l
      BY <1>6, <2>1
    <3>2. u[i] = s[i] /\ u[j] = s[j]
      BY <1>3, <2>1, <3>1
    <3>3. u[i] = u[j] /\ u[i] # NULL
      BY <1>6
    <3>5. i # j
      BY <1>6
    <3>6. s[i] = s[j] /\ s[i] # NULL
      BY ONLY <3>2, <3>3
    <3>4. \A x, y \in 1 .. l : s[x] = s[y] /\ s[x] # NULL => x = y
      BY <1>1 DEF Once
    <3> QED
      BY ONLY <3>1, <3>4, <3>5, <3>6
  <2>2. CASE i > l
    <3>1. PICK x \in 1 .. m, y \in 1 .. m : x = i - l /\ y = j - l /\ x # y
      <4>1. i - l \in 1 .. m /\ j - l \in 1 .. m /\ i - l # j - l
        BY <1>6, <2>2
      <4> QED
        BY <4>1
    <3>2. ~(i <= l) /\ ~(j <= l)
      BY <1>6, <2>2
    <3>3. u[i] = t[x] /\ u[j] = t[y]
      BY <1>3, <3>1, <3>2
    <3> QED
      BY <1>1, <1>6, <3>1, <3>3 DEF Once
  <2>3. CASE i <= l /\ j > l
    <3>1. PICK y \in 1 .. m : y = j - l
      <4>1. j - l \in 1 .. m
        BY <2>3
      <4> QED
        BY <4>1
    <3>2. i \in 1 .. l /\ ~(j <= l)
      BY <2>3
    <3>3. u[i] = s[i] /\ u[j] = t[y]
      BY <1>3, <2>3, <3>1, <3>2
    <3>4. s[i] \in ToSet(s) /\ t[y] \in ToSet(t)
      BY <1>4, <1>5, <3>1, <3>2
    <3>5. s[i] \in ToSet(s) \cap ToSet(t) /\ s[i] # NULL
      BY <1>6, <3>3, <3>4
    <3> QED
      BY <3>5
  <2> QED
    BY <2>1, <2>2, <2>3
<1>7. ASSUME NEW i \in 1 .. l + m, NEW j \in 1 .. l + m, u[i] = u[j], u[i] # NULL PROVE i = j
  <2>1. i < j \/ j < i \/ i = j
    OBVIOUS
  <2>2. ~(i < j) /\ ~(j < i)
    BY <1>6, <1>7
  <2> QED
    BY <2>1, <2>2
<1>8. Once(u)
  BY <1>3, <1>7 DEF Once
<1> QED
  BY <1>2, <1>8

LEMMA FrontAppend ==
  ASSUME NEW s \in Seq(Buf), NEW e \in Buf
  PROVE  Front(Append(s, e)) = s
<1>1. PICK u \in Seq(Buf), n \in Nat :
        /\ u = Append(s, e) /\ n = Len(s) /\ Len(u) = n + 1
        /\ \A i \in 1 .. n : u[i] = s[i]
  <2>1. PICK u : u = Append(s, e)
    OBVIOUS
  <2>2. u \in Seq(Buf) /\ Len(u) = Len(s) + 1 /\ \A i \in 1 .. Len(s) : u[i] = s[i]
    BY <2>1, AppendBuf
  <2> QED
    BY <2>1, <2>2
<1>2. Front(u) = SubSeq(u, 1, n)
  BY <1>1 DEF Front
<1>3. /\ SubSeq(u, 1, n) \in Seq(Buf) /\ Len(SubSeq(u, 1, n)) = n
      /\ \A i \in 1 .. n : SubSeq(u, 1, n)[i] = u[i]
  <2>1. \A i \in 1 .. n : u[i] \in Buf
    BY <1>1
  <2> QED
    BY <2>1, SubSeqProperties
<1>4. SubSeq(u, 1, n) = s
  BY <1>1, <1>3, SeqEqual
<1> QED
  BY <1>1, <1>2, <1>4

(* The full buffers are p without the current one.                          *)
LEMMA FullIs ==
  ASSUME Typed, NEW p, NEW q, Shape(p, q)
  PROVE  /\ Full \in Seq(Buf) /\ p = Append(Full, curr_buffer) /\ Len(p) = Len(Full) + 1
         /\ \A i \in 1 .. Len(Full) : Full[i] = p[i] /\ Full[i] # curr_buffer
         /\ head # NULL => Chain(head) = p
<1>1. /\ p # << >> /\ p[Len(p)] = curr_buffer
      /\ Path(p, IF head = NULL THEN curr_buffer ELSE head, next)
      /\ head = NULL <=> Len(p) = 1
  BY DEF Shape, ListOK
<1>2. PICK o \in Seq(Buf), e \in Buf :
        /\ p = Append(o, e) /\ e = p[Len(p)] /\ Len(p) = Len(o) + 1
        /\ \A i \in 1 .. Len(o) : o[i] = p[i] /\ o[i] # e
  BY <1>1, LastOf
<1>3. CASE head = NULL
  <2>1. Len(o) = 0
    BY <1>1, <1>2, <1>3
  <2>2. o = << >>
    BY <2>1
  <2>3. Full = o
    BY <1>3, <2>2 DEF Full
  <2> QED
    BY <1>1, <1>2, <1>3, <2>3
<1>4. CASE head # NULL
  <2>1. Chain(head) = p
    BY <1>1, <1>4, ChainIs
  <2>2. Full = Front(p)
    BY <1>4, <2>1 DEF Full
  <2>3. Full = o
    BY <1>2, <2>2, FrontAppend
  <2> QED
    BY <1>1, <1>2, <2>1, <2>3
<1> QED
  BY <1>3, <1>4

LEMMA OwnerOK ==
  ASSUME IInv PROVE OneOwner
<1>1. Typed
  BY DEF IInv
<1>2. PICK p, q : Shape(p, q)
  BY DEF IInv
<1>3. PICK o \in Seq(Buf), c \in Buf :
        /\ o = Full /\ c = curr_buffer /\ p = Append(o, c)
        /\ Len(p) = Len(o) + 1
        /\ \A i \in 1 .. Len(o) : o[i] = p[i] /\ o[i] # c
  BY <1>1, <1>2, FullIs DEF Typed
<1>4. q \in Seq(Buf) /\ Chain(w.head) = q
  BY <1>2, ChainIs DEF Shape, WorkOK, Path
<1>5. PICK f : f = << curr_buffer, next_buffer, w.new1, w.new2 >>
  OBVIOUS
<1>6. /\ f \in Seq(Ref) /\ Len(f) = 4
      /\ f[1] = c /\ f[2] = next_buffer /\ f[3] = w.new1 /\ f[4] = w.new2
  BY <1>1, <1>3, <1>5 DEF Typed, Ref
<1>7. ToSet(p) = ToSet(o) \cup {c}
  BY <1>3, ToSetAppend
<1>8. ToSet(o) = {o[i] : i \in 1 .. Len(o)} /\ ToSet(o) \subseteq Buf /\ ToSet(q) \subseteq Buf
  BY <1>3, <1>4, InSet
<1>9. 1 .. 4 = {1, 2, 3, 4}
  OBVIOUS
<1>10. ToSet(f) = {c, next_buffer, w.new1, w.new2}
  <2>1. DOMAIN f = {1, 2, 3, 4}
    BY <1>6, <1>9
  <2> QED
    BY <1>6, <2>1 DEF ToSet
<1>11. /\ c # NULL /\ c \notin ToSet(o) /\ c \notin Spares /\ c \notin ToSet(q)
       /\ Spares \cap (ToSet(o) \cup ToSet(q)) = {} /\ ToSet(o) \cap ToSet(q) = {}
       /\ NULL \notin Buf
  <2>1. c \notin ToSet(o)
    BY <1>3, <1>8
  <2> QED
    BY <1>2, <1>3, <1>7, <2>1 DEF Shape, Apart, Buf, NULL
<1>12. Once(f)
  <2>1. /\ next_buffer # NULL => next_buffer # w.new1 /\ next_buffer # w.new2
        /\ w.new1 # NULL => w.new1 # w.new2
    BY <1>2 DEF Shape, Apart
  <2>2. c # next_buffer /\ c # w.new1 /\ c # w.new2
    BY <1>11 DEF Spares
  <2>3. \A i, j \in {1, 2, 3, 4} : f[i] = f[j] /\ f[i] # NULL => i = j
    BY <1>6, <2>1, <2>2
  <2> QED
    BY <1>6, <1>9, <2>3 DEF Once
<1>13. Once(o) /\ Once(q)
  <2>1. \A i, j \in 1 .. Len(p) : p[i] = p[j] => i = j
    BY <1>2 DEF Shape, ListOK, Path
  <2>2. \A i, j \in 1 .. Len(q) : q[i] = q[j] => i = j
    BY <1>2 DEF Shape, WorkOK, Path
  <2>3. \A i \in 1 .. Len(o) : i \in 1 .. Len(p) /\ o[i] = p[i]
    BY <1>3
  <2> QED
    BY <2>1, <2>2, <2>3 DEF Once
<1>14. o \in Seq(Ref) /\ q \in Seq(Ref)
  <2>1. Buf \subseteq Ref
    BY DEF Ref
  <2> QED
    BY <1>4, <2>1, SeqMonotonic
<1>15. PICK g \in Seq(Ref) : g = f \o o /\ ToSet(g) = ToSet(f) \cup ToSet(o) /\ Once(g)
  <2>1. f \o o \in Seq(Ref)
    BY <1>6, <1>14, ConcatProperties
  <2>2. ToSet(f \o o) = ToSet(f) \cup ToSet(o)
    BY <1>6, <1>14, ToSetConcat
  <2>3. ToSet(f) \cap ToSet(o) \subseteq {NULL}
    BY <1>10, <1>11 DEF Spares
  <2>4. Once(f \o o)
    BY <1>6, <1>12, <1>13, <1>14, <2>3, OnceConcat
  <2> QED
    BY <2>1, <2>2, <2>4
<1>16. PICK h \in Seq(Ref) : h = g \o q /\ ToSet(h) = ToSet(f) \cup ToSet(o) \cup ToSet(q) /\ Once(h)
  <2>1. g \o q \in Seq(Ref)
    BY <1>14, ConcatProperties
  <2>2. ToSet(g \o q) = ToSet(g) \cup ToSet(q)
    BY <1>14, ToSetConcat
  <2>3. ToSet(g) \cap ToSet(q) \subseteq {NULL}
    BY <1>10, <1>11, <1>15 DEF Spares
  <2>4. Once(g \o q)
    BY <1>13, <1>14, <1>15, <2>3, OnceConcat
  <2> QED
    BY <1>15, <2>1, <2>2, <2>4
<1>17. ToSet(h) \ {NULL} = allocated
  <2>1. allocated = (ToSet(o) \cup {c}) \cup ToSet(q) \cup Spares
    BY <1>2, <1>7 DEF Shape, Apart
  <2> QED
    BY <1>8, <1>10, <1>11, <1>16, <2>1 DEF Spares
<1>18. \A i, j \in DOMAIN h : h[i] = h[j] /\ h[i] # NULL => i = j
  BY <1>16 DEF Once
<1>19. h = << curr_buffer, next_buffer, w.new1, w.new2 >> \o Full \o Chain(w.head)
  BY <1>3, <1>4, <1>5, <1>15, <1>16
<1> QED
  BY <1>17, <1>18, <1>19 DEF OneOwner

LEMMA MatchOK ==
  ASSUME IInv PROVE ListsMatch
<1>1. Typed
  BY DEF IInv
<1>2. PICK p, q : Shape(p, q)
  BY DEF IInv
<1>3. PICK o \in Seq(Buf) :
        /\ o = Full /\ Len(p) = Len(o) + 1 /\ (head # NULL => Chain(head) = p)
        /\ \A i \in 1 .. Len(o) : o[i] = p[i]
  BY <1>1, <1>2, FullIs
<1>4. q \in Seq(Buf) /\ Chain(w.head) = q /\ Path(q, w.head, next)
  BY <1>2, ChainIs DEF Shape, WorkOK, Path
<1>5. head = NULL => tail = NULL
  BY <1>2 DEF Shape, ListOK
<1>6. head # NULL => tail = Last(Full) /\ Last(Chain(head)) = curr_buffer
  <2> SUFFICES ASSUME head # NULL PROVE tail = Last(Full) /\ Last(Chain(head)) = curr_buffer
    OBVIOUS
  <2>1. PICK n \in Nat : n = Len(o) /\ Len(p) = n + 1 /\ (n + 1) - 1 = n
    BY <1>3
  <2>2. n # 0 /\ tail = p[n] /\ p[n + 1] = curr_buffer
    BY <1>2, <2>1 DEF Shape, ListOK
  <2>3. n \in 1 .. Len(o)
    BY <2>1, <2>2
  <2>4. o[n] = p[n]
    BY <1>3, <2>3
  <2> QED
    BY <1>3, <2>1, <2>2, <2>4 DEF Last
<1>7. size = Len(Full)
  BY <1>2, <1>3 DEF Shape, ListOK
<1>8. next[curr_buffer] = NULL
  BY <1>2 DEF Shape, ListOK, Path
<1>9. w.pc = "loop" => w.head = NULL /\ data[w.new1] = << >> /\ data[w.new2] = << >>
  <2> SUFFICES ASSUME w.pc = "loop"
               PROVE  w.head = NULL /\ data[w.new1] = << >> /\ data[w.new2] = << >>
    OBVIOUS
  <2>1. q = << >> /\ w.new1 # NULL /\ w.new2 # NULL
    BY <1>2 DEF Shape, WorkOK
  <2>2. w.head = NULL
    BY <1>4, <2>1 DEF Path
  <2>3. w.new1 \in Spares /\ w.new2 \in Spares /\ w.new1 \in Buf /\ w.new2 \in Buf
    BY <1>1, <2>1 DEF Spares, Typed, Ref
  <2>4. /\ w.new1 \notin ToSet(p) \cup ToSet(q) /\ w.new2 \notin ToSet(p) \cup ToSet(q)
    BY <1>2, <2>3 DEF Shape, Apart
  <2> QED
    BY <1>2, <2>2, <2>3, <2>4 DEF Shape, Blank
<1>10. w.pc # "recycle" /\ w.head # NULL =>
         w.size = Len(Chain(w.head)) /\ w.tail = Last(Chain(w.head))
  BY <1>2, <1>4 DEF Shape, WorkOK, Path, Last
<1>11. w.pc = "recycle" => w.size >= IF w.new2 = NULL THEN 2 ELSE 1
  BY <1>2 DEF Shape, WorkOK
<1> QED
  BY <1>5, <1>6, <1>7, <1>8, <1>9, <1>10, <1>11 DEF ListsMatch

LEMMA OrderOK ==
  ASSUME IInv PROVE InOrder
<1>1. Typed
  BY DEF IInv
<1>2. PICK p, q : Shape(p, q)
  BY DEF IInv
<1>3. PICK o \in Seq(Buf), b \in Buf : o = Full /\ b = curr_buffer /\ p = Append(o, b)
  BY <1>1, <1>2, FullIs DEF Typed
<1>4. q \in Seq(Buf) /\ Chain(w.head) = q
  BY <1>2, ChainIs DEF Shape, WorkOK, Path
<1>5. PICK d \in [Buf -> Seq(Nat)], x \in Seq(Nat) : d = data /\ x = written
  BY <1>1 DEF Typed
<1>6. PICK u \in Seq(Nat) : u = Unwritten(q)
  <2>1. Cont(d, q) \in Seq(Nat)
    BY <1>4, ContIn
  <2>2. Unwritten(q) \in Seq(Nat)
    BY <1>5, <2>1 DEF Unwritten
  <2> QED
    BY <2>2
<1>7. PICK c \in Seq(Nat), e \in Seq(Nat) : c = Cont(d, o) /\ e = d[b] /\ Cont(d, p) = c \o e
  BY <1>3, ContAppend
<1>8. PICK y \in Seq(Nat) : y = x \o u
  BY ConcatProperties
<1>9. PICK all : all = (y \o c) \o e
  OBVIOUS
<1>10. all = Messages(p, q)
  <2>1. (y \o c) \o e = y \o (c \o e)
    BY Assoc
  <2> QED
    BY <1>5, <1>6, <1>7, <1>8, <1>9, <2>1 DEF Messages
<1>11. all \in Seq(Nat)
  <2>1. PICK z \in Seq(Nat) : z = y \o c
    BY ConcatProperties
  <2>2. z \o e \in Seq(Nat)
    BY ConcatProperties
  <2> QED
    BY <1>9, <2>1, <2>2
<1>12. ToSet(all) = (1 .. count) \ dropped /\ \A i, j \in DOMAIN all : i < j => all[i] < all[j]
  <2>1. Sorted(all) /\ ToSet(all) = (1 .. count) \ dropped
    BY <1>2, <1>10 DEF Shape, Ordered
  <2>2. DOMAIN all = 1 .. Len(all)
    BY <1>11
  <2> QED
    BY <2>1, <2>2 DEF Sorted
<1>13. all = written \o (IF w.pc = "recycle" THEN << >> ELSE Contents(Chain(w.head)))
                    \o Contents(Full) \o data[curr_buffer]
  <2>1. u = IF w.pc = "recycle" THEN << >> ELSE Contents(Chain(w.head))
    BY <1>4, <1>6 DEF Unwritten, Contents, Cont
  <2>2. c = Contents(Full) /\ e = data[curr_buffer]
    BY <1>3, <1>5, <1>7 DEF Contents, Cont
  <2> QED
    BY <1>5, <1>8, <1>9, <2>1, <2>2
<1> QED
  BY <1>12, <1>13 DEF InOrder

(* lua-log.c:176-205, 246-274, 294-305, 323-351: no buffer is freed and       *)
(* still linked, leaked, or shared between append() and the worker, and the   *)
(* asserts of the two hold.                                                 *)
THEOREM ListsExact == Spec => []BuffersExact
<1>1. IInv => BuffersExact
  BY OwnerOK, MatchOK DEF BuffersExact
<1> QED
  BY <1>1, Inductive, PTL

(* lua-log.c:165-213, 246-266, 307-315: the file, the worker's list and the   *)
(* buffers of inst hold, in this order, all messages but for those dropped,   *)
(* each once and in the order in which they were logged.                    *)
THEOREM WrittenInOrder == Spec => []InOrder
BY OrderOK, Inductive, PTL
=============================================================================
