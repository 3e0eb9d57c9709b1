-------------------------------- MODULE ZSet --------------------------------
(***************************************************************************)
(* lualib/zset.lua: members with scores, kept in a table and in a skip list   *)
(* for their ranks.                                                        *)
(***************************************************************************)
EXTENDS SkipList

CONSTANT None        \* Lua nil

Constants == ListConstants /\ None \notin Score

VARIABLES sl, tbl

vars == << sl, tbl >>

Init ==
  /\ sl = slCreate
  /\ tbl = [m \in Member |-> None]

count == sl.length
reverse_rank(r) == count - r + 1

-----------------------------------------------------------------------------

(* add: nothing changes if the score is the same; else the member moves.     *)
add(s, m) ==
  /\ tbl[m] # s
  /\ \E level \in Level :
       sl' = slInsert(IF tbl[m] = None THEN sl ELSE slDelete(sl, tbl[m], m), s, m, level)
  /\ tbl' = [tbl EXCEPT ![m] = s]

rem(m) ==
  /\ tbl[m] # None
  /\ sl' = slDelete(sl, tbl[m], m)
  /\ tbl' = [tbl EXCEPT ![m] = None]

\* delete_by_rank, whose callback clears the members in tbl.
deleteRanks(from, to) ==
  LET d == slDeleteByRank(sl, Min({from, to}), Max({from, to})) IN
    /\ sl' = d.list
    /\ tbl' = [m \in Member |-> IF m \in d.gone THEN None ELSE tbl[m]]

(* limit: the first n stay.                                                 *)
limit(n) ==
  /\ count > n
  /\ deleteRanks(n + 1, count)

(* rev_limit: the last n stay.                                              *)
rev_limit(n) ==
  /\ count > n
  /\ deleteRanks(reverse_rank(n + 1), reverse_rank(count))

Next ==
  \/ \E m \in Member : rem(m) \/ \E s \in Score : add(s, m)
  \/ \E n \in 0 .. Cardinality(Member) - 1 : limit(n) \/ rev_limit(n)

Spec == Init /\ [][Next]_vars

-----------------------------------------------------------------------------
(* Queries.                                                                *)

rank(m) == IF tbl[m] = None THEN 0 ELSE slGetRank(sl, tbl[m], m)
rev_rank(m) == IF tbl[m] = None THEN 0 ELSE reverse_rank(rank(m))
range(r1, r2) == get_rank_range(sl, Max({r1, 1}), Max({r2, 1}))
rev_range(r1, r2) == range(reverse_rank(r1), reverse_rank(r2))
range_by_score(s1, s2) == get_score_range(sl, s1, s2)

-----------------------------------------------------------------------------

\* What a sorted set is: its members in the order of scores, then of names.
Sorted ==
  SetToSortSeq({m \in Member : tbl[m] # None},
               LAMBDA x, y : tbl[x] < tbl[y] \/ (tbl[x] = tbl[y] /\ x < y))

\* The members from position i to j, backwards if i > j.
Part(s, i, j) == IF i <= j THEN SubSeq(s, i, Min({j, Len(s)})) ELSE Reverse(SubSeq(s, j, i))

(* zset.lua, skiplist.c: whatever was added, moved, removed and cut off, on    *)
(* whatever levels, ranks and ranges are those of the sorted members, from    *)
(* both ends, by rank and by score, empty and one-element ranges included.    *)
QueriesExact ==
  LET s == Sorted
      n == Len(s)
      I == 1 .. n
  IN  /\ count = n
      /\ \A m \in Member \ ToSet(s) : rank(m) = 0
      /\ \A i \in I :
           /\ rank(s[i]) = i /\ rev_rank(s[i]) = n - i + 1
           /\ \A j \in I : range(i, j) = Part(s, i, j)
                           /\ rev_range(i, j) = Part(Reverse(s), i, j)
           /\ range(i, n + 1) = Part(s, i, n)
      /\ range(n + 1, n + 1) = << >>
      /\ \A a, b \in Score :
           LET in == SelectSeq(s, LAMBDA m : tbl[m] >= Min({a, b}) /\ tbl[m] <= Max({a, b})) IN
             range_by_score(a, b) = IF a <= b THEN in ELSE Reverse(in)

(* A page of rev_range beyond the end is empty, like one of range.           *)
PagesEnd == rev_range(count + 1, count + 2) = << >>
=============================================================================
