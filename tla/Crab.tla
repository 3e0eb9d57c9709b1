-------------------------------- MODULE Crab --------------------------------
(***************************************************************************)
(* 3rd/crab/crab.c and lualib-src/lua-crab.c: the words of a dictionary in a  *)
(* trie, each node of which is a hash table of runes with chained scatter,   *)
(* and the filter that finds them in a text.                               *)
(*                                                                         *)
(* A table is a record; a node of it refers to another table by its address. *)
(***************************************************************************)
EXTENDS Integers, FiniteSets, FiniteSetsExt, Sequences, SequencesExt

CONSTANT Trials  \* records of the words a dictionary may have, of how many it
                 \* has (a bound), and of texts to filter

Constants == \A t \in Trials : t.max \in Nat

VARIABLES
  trial,
  tables,      \* address -> table; the dictionary is at 1
  words        \* history: the words inserted, in order

vars == << trial, tables, words >>

-----------------------------------------------------------------------------
(* Hash tables.  Nodes are numbered from 0; Nil is next = -1, no value and, *)
(* for lastfree, the place before node 0.                                   *)

Nil == -1

initnode == [key |-> Nil, next |-> Nil, flag |-> "0", value |-> Nil]
tisnil(n) == n.flag = "0"

Empty(capacity) ==
  [capacity |-> capacity,
   node     |-> [i \in 0 .. capacity - 1 |-> initnode],
   lastfree |-> capacity - 1]

table_new == Empty(1)

\* key & (capacity - 1), as the capacity is a power of 2
mainposition(t, key) == key % t.capacity

\* Where getfreenode leaves lastfree.
getfreenode(t) ==
  LET free == {i \in 0 .. t.lastfree : tisnil(t.node[i])}
  IN  IF free = {} THEN Nil ELSE Max(free)

(* The nodes met from the main position of key on.                           *)
Probe(t, key) ==
  LET at[i \in 0 .. t.capacity] ==
        IF i = 0 THEN mainposition(t, key)
        ELSE IF at[i - 1] = Nil THEN Nil ELSE t.node[at[i - 1]].next
  IN  SelectSeq([i \in 1 .. t.capacity |-> at[i - 1]], LAMBDA x : x # Nil)

table_get(t, key) ==
  LET found == {i \in ToSet(Probe(t, key)) : ~tisnil(t.node[i]) /\ t.node[i].key = key}
  IN  IF found = {} THEN Nil ELSE CHOOSE i \in found : TRUE

-----------------------------------------------------------------------------
(* table_newkey, where there is a free node; it returns the node of the key. *)

Fresh(node, i, key) == [node EXCEPT ![i].key = key, ![i].flag = "n"]

\* mutated: the moved node leaves the chain it was in as it is
MutMoveColliding(t, mp, n, key) ==
  [t EXCEPT !.node = Fresh([@ EXCEPT ![n] = t.node[mp], ![mp] = initnode], mp, key),
            !.lastfree = n]

\* The colliding node is out of its main position: it moves to the free node
\* n, and the one before it in its chain is linked to n.
MoveColliding(t, mp, n, key) ==
  LET before == CHOOSE i \in ToSet(Probe(t, t.node[mp].key)) : t.node[i].next = mp
  IN  [t EXCEPT !.node = Fresh([@ EXCEPT ![before].next = n, ![n] = t.node[mp],
                                         ![mp] = initnode], mp, key),
                !.lastfree = n]

\* The colliding node is in its main position: the new key goes to n, behind it.
ChainBehind(t, mp, n, key) ==
  [t EXCEPT !.node = Fresh([@ EXCEPT ![n].next = t.node[mp].next, ![mp].next = n], n, key),
            !.lastfree = n]

Collides(t, key) == ~tisnil(t.node[mainposition(t, key)])

NewKey(t, key) ==
  LET mp == mainposition(t, key)
      n == getfreenode(t)
  IN  IF ~Collides(t, key) THEN [table |-> [t EXCEPT !.node = Fresh(@, mp, key)], at |-> mp]
      ELSE IF mainposition(t, t.node[mp].key) # mp
           THEN [table |-> MoveColliding(t, mp, n, key), at |-> mp]
           ELSE [table |-> ChainBehind(t, mp, n, key), at |-> n]

(* Twice as many nodes; the keys are entered anew with their values.         *)
table_expand(t) ==
  LET enter(new, i) ==
        LET k == NewKey(new, t.node[i].key)
        IN  [k.table EXCEPT !.node[k.at].flag = t.node[i].flag,
                            !.node[k.at].value = t.node[i].value]
      old == SelectSeq([i \in 1 .. t.capacity |-> i - 1], LAMBDA i : ~tisnil(t.node[i]))
  IN  FoldLeft(enter, Empty(2 * t.capacity), old)

table_newkey(t, key) ==
  IF Collides(t, key) /\ getfreenode(t) = Nil THEN NewKey(table_expand(t), key) ELSE NewKey(t, key)

table_insert(t, key) ==
  LET i == table_get(t, key)
  IN  IF i # Nil THEN [table |-> t, at |-> i] ELSE table_newkey(t, key)

-----------------------------------------------------------------------------
(* _dict_insert: a word, rune by rune down the trie.                         *)

\* One rune in the table at address a; the last sets the flag, the others need
\* a table below.
InsertRune(ts, a, rune, last) ==
  LET k == table_insert(ts[a], rune)
      t == k.table
      below == t.node[k.at].value
      new == Len(ts) + 1
  IN  IF last THEN [tables |-> [ts EXCEPT ![a] = [t EXCEPT !.node[k.at].flag = "o"]], below |-> below]
      ELSE IF below # Nil THEN [tables |-> [ts EXCEPT ![a] = t], below |-> below]
      ELSE [tables |-> Append([ts EXCEPT ![a] = [t EXCEPT !.node[k.at].value = new]], table_new),
            below |-> new]

_dict_insert(ts, word) ==
  FoldLeftDomain(LAMBDA s, j : InsertRune(s.tables, s.below, word[j], j = Len(word)),
                 [tables |-> ts, below |-> 1], word).tables

Init ==
  /\ trial \in Trials
  /\ tables = << table_new >>
  /\ words = << >>

(* dict_open: the words of the list, in order.  The dictionary that is there *)
(* serves until the new one is complete.                                    *)
dict_open ==
  \E w \in trial.words :
    /\ Len(words) < trial.max
    /\ tables' = _dict_insert(tables, w)
    /\ words' = Append(words, w)
    /\ UNCHANGED trial

Next == dict_open

Spec == Init /\ [][Next]_vars

-----------------------------------------------------------------------------
(* dict_filter.                                                            *)

Star == 42

\* The length of the longest word that the text has from i on, 0 for none: the
\* loop over j, which ends at a rune that is not there or has no table below.
Step(ts, text, i) ==
  LET walk(s, j) ==
        IF j < i \/ s.at = Nil THEN s
        ELSE LET x == table_get(ts[s.at], text[j])
             IN  IF x = Nil THEN [s EXCEPT !.at = Nil]
                 ELSE [at   |-> ts[s.at].node[x].value,
                       step |-> IF ts[s.at].node[x].flag = "o" THEN j - i + 1 ELSE s.step]
  IN  FoldLeftDomain(walk, [at |-> 1, step |-> 0], text).step

\* The text with its words starred, from left to right, and whether it had any.
dict_filter(ts, text) ==
  LET star(s, i) ==
        LET n == Step(ts, text, i)
        IN  IF i < s.i THEN s
            ELSE IF n = 0 THEN [s EXCEPT !.i = i + 1]
            ELSE [i    |-> i + n, flag |-> TRUE,
                  text |-> [j \in DOMAIN text |-> IF j \in i .. i + n - 1 THEN Star ELSE s.text[j]]]
      done == FoldLeftDomain(star, [i |-> 1, text |-> text, flag |-> FALSE], text)
  IN  << done.text, done.flag >>

-----------------------------------------------------------------------------
(* What a filter is, by the words alone.                                   *)

MatchesAt(text, i) ==
  {w \in ToSet(words) \ {<< >>} : i + Len(w) - 1 <= Len(text) /\ SubSeq(text, i, i + Len(w) - 1) = w}

\* Stretches of the text: the leftmost match, of the longest word, then the same
\* behind it.
Filtered(text) ==
  LET after[i \in 1 .. Len(text) + 1] ==
        IF i > Len(text) THEN << >>
        ELSE IF MatchesAt(text, i) = {} THEN << text[i] >> \o after[i + 1]
        ELSE LET n == Max({Len(w) : w \in MatchesAt(text, i)})
             IN  [j \in 1 .. n |-> Star] \o after[i + n]
  IN  after[1]

(* crab.c:31-131, 165-200, lua-crab.c:10-72: whatever words a                  *)
(* dictionary was opened with, in whatever order, and however its tables       *)
(* grew, collided and moved nodes on the way, a text loses its words, the     *)
(* leftmost and longest first, and nothing else.                            *)
FilterExact ==
  \A text \in trial.texts :
    dict_filter(tables, text)
      = << Filtered(text), \E i \in DOMAIN text : MatchesAt(text, i) # {} >>
=============================================================================
