------------------------------ MODULE SkipList ------------------------------
(***************************************************************************)
(* lualib-src/lua-skiplist/skiplist.c: a list sorted by score and member     *)
(* whose nodes are linked on several levels.  Each link has a span, the      *)
(* number of nodes it advances by, from which ranks are computed.           *)
(*                                                                         *)
(* The operators work on a list l, a record of the fields of the C structure *)
(* and of its nodes.  A node is the member it holds: a member is never in a   *)
(* list twice.  A node that was freed, or a level that a node does not have,  *)
(* is Unlinked.                                                            *)
(***************************************************************************)
EXTENDS Integers, FiniteSets, FiniteSetsExt, Sequences, SequencesExt

CONSTANTS
  Member,            \* strings, as numbers in the order of memcmp
  Score,
  SKIPLIST_MAXLEVEL  \* 32 in the code

NULL == 0
header == -1

\* What is assumed of the constants.
ListConstants ==
  /\ Member \subseteq Nat \ {NULL}
  /\ Score \subseteq Int
  /\ SKIPLIST_MAXLEVEL \in Nat \ {0}

Place == Member \cup {header}
Level == 1 .. SKIPLIST_MAXLEVEL
Unlinked == [forward |-> NULL, span |-> 0]

slCreate ==
  [level    |-> 1,
   length   |-> 0,
   tail     |-> NULL,
   score    |-> [x \in Member |-> 0],
   backward |-> [x \in Member |-> NULL],
   link     |-> [x \in Place |-> [i \in Level |-> Unlinked]]]

\* Node y stands before (or is) the one with this score and member.
Before(l, y, s, m) == l.score[y] < s \/ (l.score[y] = s /\ y < m)
UpTo(l, y, s, m) == l.score[y] < s \/ (l.score[y] = s /\ y <= m)

(* The walk that every operation begins with: on each level, from the top    *)
(* one down, links are followed while Passes holds of the next node and its   *)
(* rank.  The result is where each level was left, and with what rank.       *)
Walk(l, Passes(_, _)) ==
  LET on[i \in Level, p \in [x : Place, rank : Int]] ==
        LET next == l.link[p.x][i] IN
          IF next.forward # NULL /\ Passes(next.forward, p.rank + next.span)
            THEN on[i, [x |-> next.forward, rank |-> p.rank + next.span]]
            ELSE p
      left[i \in 1 .. l.level + 1] ==
        IF i > l.level THEN [x |-> header, rank |-> 0] ELSE on[i, left[i + 1]]
  IN  left

-----------------------------------------------------------------------------
(* slInsert, for a level that slRandomLevel may return.                     *)

\* mutated: links that pass over the new node are not lengthened
MutPassedOver(k) == k
PassedOver(k) == [k EXCEPT !.span = @ + 1]

slInsert(l, s, m, level) ==
  LET at == Walk(l, LAMBDA y, r : Before(l, y, s, m))
      update(i) == IF i <= l.level THEN at[i].x ELSE header
      rank(i) == IF i <= l.level THEN at[i].rank ELSE 0
      \* a level that was not in use before spans the whole list
      old(i) == IF i <= l.level THEN l.link[update(i)][i]
                                ELSE [l.link[header][i] EXCEPT !.span = l.length]
      top == Max({level, l.level})
      behind == old(1).forward
  IN  [level    |-> top,
       length   |-> l.length + 1,
       tail     |-> IF behind = NULL THEN m ELSE l.tail,
       score    |-> [l.score EXCEPT ![m] = s],
       backward |-> [x \in Member |->
          CASE x = m -> IF update(1) = header THEN NULL ELSE update(1)
            [] x = behind -> m
            [] OTHER -> l.backward[x]],
       link     |-> [x \in Place |-> [i \in Level |->
          CASE x = m /\ i <= level ->
                 [forward |-> old(i).forward, span |-> old(i).span - (rank(1) - rank(i))]
            [] x = update(i) /\ i <= level ->
                 [forward |-> m, span |-> (rank(1) - rank(i)) + 1]
            [] x = update(i) /\ i > level /\ i <= top -> PassedOver(l.link[x][i])
            [] OTHER -> l.link[x][i]]]]

-----------------------------------------------------------------------------

(* slDeleteNode, and slFreeNode of the node.                                *)
slDeleteNode(l, x, update) ==
  LET kept(i) == LET k == l.link[update[i]][i] IN
        IF k.forward = x
          THEN [forward |-> l.link[x][i].forward, span |-> k.span + l.link[x][i].span - 1]
          ELSE [k EXCEPT !.span = @ - 1]
      link == [y \in Place |-> [i \in Level |->
        CASE y = x -> Unlinked
          [] y # x /\ i <= l.level /\ y = update[i] -> kept(i)
          [] OTHER -> l.link[y][i]]]
      behind == l.link[x][1].forward
  IN  [level    |-> Max({1} \cup {i \in 1 .. l.level : link[header][i].forward # NULL}),
       length   |-> l.length - 1,
       tail     |-> IF behind = NULL THEN l.backward[x] ELSE l.tail,
       score    |-> [l.score EXCEPT ![x] = 0],
       backward |-> [y \in Member |->
          CASE y = x -> NULL [] y = behind -> l.backward[x] [] OTHER -> l.backward[y]],
       link     |-> link]

slDelete(l, s, m) ==
  LET at == Walk(l, LAMBDA y, r : Before(l, y, s, m))
      x == l.link[at[1].x][1].forward
  IN  IF x = m /\ l.score[x] = s
        THEN slDeleteNode(l, x, [i \in 1 .. l.level |-> at[i].x])
        ELSE l

(* slDeleteByRank: the list without the members of these ranks, and the       *)
(* members that the callback was called with.                               *)
slDeleteByRank(l, start, end) ==
  LET at == Walk(l, LAMBDA y, r : r < start)
      update == [i \in 1 .. l.level |-> at[i].x]
      deleteNext(d, traversed) ==
        LET x == d.list.link[update[1]][1].forward IN
          IF x = NULL THEN d
          ELSE [list |-> slDeleteNode(d.list, x, update), gone |-> d.gone \cup {x}]
  IN  FoldLeft(deleteNext, [list |-> l, gone |-> {}],
               [j \in 1 .. end - at[1].rank |-> at[1].rank + j])

-----------------------------------------------------------------------------
(* Queries.                                                                *)

slGetRank(l, s, m) ==
  LET at == Walk(l, LAMBDA y, r : UpTo(l, y, s, m))
      found == {i \in 1 .. l.level : at[i].x = m}
  IN  IF found = {} THEN 0 ELSE at[Max(found)].rank

slGetNodeByRank(l, rank) ==
  LET at == Walk(l, LAMBDA y, r : r <= rank)
      found == {i \in 1 .. l.level : at[i].rank = rank}
  IN  IF rank = 0 \/ rank > l.length \/ found = {} THEN NULL ELSE at[Max(found)].x

slIsInRange(l, min, max) ==
  /\ min <= max
  /\ l.tail # NULL /\ l.score[l.tail] >= min
  /\ LET first == l.link[header][1].forward IN first # NULL /\ l.score[first] <= max

slFirstInRange(l, min, max) ==
  IF ~slIsInRange(l, min, max) THEN NULL
  ELSE l.link[Walk(l, LAMBDA y, r : l.score[y] < min)[1].x][1].forward

slLastInRange(l, min, max) ==
  IF ~slIsInRange(l, min, max) THEN NULL
  ELSE Walk(l, LAMBDA y, r : l.score[y] <= max)[1].x

\* The members from x on, forward or backward, at most n and while In holds.
From(l, x, reverse, n, In(_)) ==
  LET rest[y \in Member \cup {NULL}, k \in Nat] ==
        IF y = NULL \/ k = 0 THEN << >>
        ELSE IF ~In(y) THEN << >>
        ELSE << y >> \o rest[IF reverse THEN l.backward[y] ELSE l.link[y][1].forward, k - 1]
  IN  rest[x, n]

(* lua-skiplist.c: get_rank_range, in descending order if r1 > r2.           *)
get_rank_range(l, r1, r2) ==
  From(l, slGetNodeByRank(l, r1), r1 > r2,
       IF r1 <= r2 THEN r2 - r1 + 1 ELSE r1 - r2 + 1, LAMBDA y : TRUE)

get_score_range(l, s1, s2) ==
  IF s1 <= s2
    THEN From(l, slFirstInRange(l, s1, s2), FALSE, l.length, LAMBDA y : l.score[y] <= s2)
    ELSE From(l, slLastInRange(l, s2, s1), TRUE, l.length, LAMBDA y : l.score[y] >= s2)
=============================================================================
