----------------------------- MODULE SparseArray -----------------------------
(***************************************************************************)
(* lualib-src/lua-array.c: a Lua array that may have holes.  The indices of   *)
(* elements beyond the border # of the table are recorded at its negative    *)
(* indices: in the order of their assignment until a traversal or a length   *)
(* sorts them, which t[0] tells by its sign.                               *)
(***************************************************************************)
EXTENDS Integers, FiniteSets, FiniteSetsExt, Sequences, SequencesExt

CONSTANTS
  MaxIndex,    \* bound: indices
  MaxSparse    \* bound: recorded indices

Constants == MaxIndex \in Nat /\ MaxSparse \in Nat

VARIABLES
  elems,       \* indices with a value
  sparse,      \* the recorded indices, t[-1], t[-2] and so on
  unsorted,    \* t[0] > 0
  border,      \* rawlen of the table
  iter,        \* the traversal under way: the last index, Nil before and after one
  seen,        \* what it returned
  there,       \* history: elements that were there all the time it has run
  counted,     \* history: elements that were within the border
  fallen       \* history: elements that were, and then were not

vars == << elems, sparse, unsorted, border, iter, seen, there, counted, fallen >>

Nil == -1
Index == 1 .. MaxIndex

\* lua_rawlen: Lua answers with any border of a table, and with the same one
\* until a key is added or removed.
Borders(e) == {i \in e : i + 1 \notin e} \cup (IF 1 \in e THEN {} ELSE {0})

\* The table has the elements e and then the borders of bs, one after another.
NowHas(e, bs) ==
  /\ elems' = e
  /\ border' = Last(bs)
  /\ there' = there \cap e
  /\ counted' = {i \in e : i \in counted \/ \E j \in DOMAIN bs : i <= bs[j]}
  /\ fallen' = {i \in e : i \in fallen \/ \E j \in DOMAIN bs :
                            i > bs[j] /\ (i \in counted \/ \E k \in 1 .. j : i <= bs[k])}

(* lnewarray, of arguments some of which are nil.                            *)
Init ==
  /\ elems \in SUBSET (1 .. 3)
  /\ border \in Borders(elems)
  /\ sparse = << >> /\ unsorted = FALSE
  /\ iter = Nil /\ seen = << >> /\ there = {}
  /\ counted = {i \in elems : i <= border}
  /\ fallen = {i \in elems : i > border}   \* a nil before them is not recorded

-----------------------------------------------------------------------------
(* Assignments.                                                            *)

(* lnewindex: the index is new.  Recording it adds another key.              *)
lnewindex(idx) ==
  /\ idx \notin elems
  /\ LET e == elems \cup {idx} IN
     \E rawlen \in Borders(e) :
       \/ /\ rawlen >= idx
          /\ NowHas(e, << rawlen >>)
          /\ UNCHANGED << sparse, unsorted >>
       \/ /\ rawlen < idx /\ Len(sparse) < MaxSparse
          /\ sparse' = Append(sparse, idx)
          /\ unsorted' = TRUE
          /\ \E b \in Borders(e) : NowHas(e, << rawlen, b >>)
  /\ UNCHANGED << iter, seen >>

(* nil is assigned to an element, which calls nothing of this file.          *)
Removed(idx) ==
  /\ idx \in elems
  /\ \E b \in Borders(elems \ {idx}) : NowHas(elems \ {idx}, << b >>)
  /\ UNCHANGED << sparse, unsorted, iter, seen >>

-----------------------------------------------------------------------------
(* Sorting.                                                                *)

Found == -1

\* mutated: the comparison is turned round
MutSearch(s, key) ==
  LET go[w \in [begin : 0 .. Len(s), end : 0 .. Len(s)]] ==
        LET mid == (w.begin + w.end) \div 2
        IN  IF w.begin >= w.end THEN w.end
            ELSE IF s[mid + 1] = key THEN Found
            ELSE IF s[mid + 1] > key THEN go[[w EXCEPT !.begin = mid + 1]]
            ELSE go[[w EXCEPT !.end = mid]]
  IN  go[[begin |-> 0, end |-> Len(s)]]

\* Where key goes in the sorted s: the number of places before it.
Search(s, key) ==
  LET go[w \in [begin : 0 .. Len(s), end : 0 .. Len(s)]] ==
        LET mid == (w.begin + w.end) \div 2
        IN  IF w.begin >= w.end THEN w.end
            ELSE IF s[mid + 1] = key THEN Found
            ELSE IF s[mid + 1] < key THEN go[[w EXCEPT !.begin = mid + 1]]
            ELSE go[[w EXCEPT !.end = mid]]
  IN  go[[begin |-> 0, end |-> Len(s)]]

insert(s, key) ==
  LET end == Search(s, key) IN IF end = Found THEN s ELSE InsertAt(s, end + 1, key)

(* sort_sparse: what is within the border or removed is forgotten.           *)
sort_sparse ==
  LET sorted[k \in 0 .. Len(sparse)] ==
        IF k = 0 THEN << >>
        ELSE IF sparse[k] <= border \/ sparse[k] \notin elems THEN sorted[k - 1]
        ELSE insert(sorted[k - 1], sparse[k])
  IN  sorted[Len(sparse)]

\* The recorded indices, sorted.
Sorted == IF unsorted THEN sort_sparse ELSE sparse

Sort == sparse' = Sorted /\ unsorted' = FALSE

-----------------------------------------------------------------------------
(* Traversal.                                                              *)

(* lpairs                                                                   *)
lpairs ==
  /\ iter = Nil
  /\ Sort
  /\ iter' = 0 /\ seen' = << >> /\ there' = elems
  /\ UNCHANGED << elems, border, counted, fallen >>

\* The first place whose index is not below idx: Search finds either.
Place(s, idx) ==
  IF idx \in ToSet(s) THEN CHOOSE i \in DOMAIN s : s[i] = idx ELSE Search(s, idx) + 1

Return(i) == iter' = i /\ seen' = Append(seen, i)

(* lnext: the next index is an element, or there is one within the border,    *)
(* or it is among the recorded ones, which assignments of the loop's body    *)
(* may have left unsorted again.                                           *)
lnext ==
  /\ iter # Nil
  /\ LET idx == iter + 1 IN
       IF idx \in elems THEN Return(idx) /\ UNCHANGED << sparse, unsorted >>
       ELSE IF border >= idx
            THEN /\ Return(Min({i \in elems : i > idx /\ i <= border}))
                 /\ UNCHANGED << sparse, unsorted >>
       ELSE /\ Sort
            /\ IF Place(Sorted, idx) > Len(Sorted)
               THEN iter' = Nil /\ UNCHANGED seen
               ELSE Return(Sorted[Place(Sorted, idx)])
  /\ UNCHANGED << elems, border, there, counted, fallen >>

(* llen sorts too.                                                          *)
llen ==
  /\ unsorted
  /\ Sort
  /\ UNCHANGED << elems, border, iter, seen, there, counted, fallen >>

Length == IF Sorted = << >> THEN border ELSE Last(Sorted)

Next ==
  \/ \E idx \in Index : lnewindex(idx) \/ Removed(idx)
  \/ lpairs \/ lnext \/ llen

Spec == Init /\ [][Next]_vars

-----------------------------------------------------------------------------

\* The indices a traversal has passed, all of them when it is over.
Passed == IF iter = Nil THEN Index ELSE 1 .. iter

(* lua-array.c:5-30, 32-86, 96-184: a traversal goes up, and whatever is        *)
(* assigned and removed before it and during it, it returns every element     *)
(* that was there all the time, and a # that has to sort is not below it,     *)
(* unless the border has left it behind.                                    *)
Traversed ==
  /\ \A i, j \in DOMAIN seen : i < j => seen[i] < seen[j]
  /\ (there \cap Passed) \ fallen \subseteq ToSet(seen)
  /\ unsorted => \A i \in elems \ fallen : i <= Length

(* lua-array.c:68-69: once counted as within the border an element is not      *)
(* recorded, so that it is lost when the border falls below a hole again.    *)
NothingFalls == iter = Nil => there \subseteq ToSet(seen)

(* lua-array.c:186-201: # is not below an element, though the border has grown *)
(* over the recorded indices since they were sorted.                        *)
LengthCovers == \A i \in elems \ fallen : i <= Length

(* lua-array.c:164-168: the traversal returns elements only.                       *)
ReturnsElements == [][seen' # seen /\ seen' # << >> => Last(seen') \in elems]_vars
=============================================================================
