------------------------------ MODULE MCParts ------------------------------
(***************************************************************************)
(* Small instances of the parts: the dictionaries and the pages.             *)
(***************************************************************************)
EXTENDS Parts, TLC

\* Dictionaries of words of one rune, whose tables grow and move nodes; of words
\* that begin and contain each other; and of both.
Runes == {0, 1, 2, 4, 6, 8}
Dictionaries ==
  {[words |-> {<< r >> : r \in Runes}, max |-> 5, texts |-> {<< r >> : r \in Runes \cup {3}}],
   [words |-> {<< 1 >>, << 1, 2 >>, << 1, 2, 1 >>, << 2, 2 >>, << 2, 1, 2, 2 >>, << >>},
    max |-> 3, texts |-> [1 .. 5 -> 1 .. 2] \cup {<< >>}],
   [words |-> {<< 1, 3 >>, << 1, 1 >>, << 1, 2, 3 >>, << 1 >>, << 3 >>},
    max |-> 4, texts |-> [1 .. 3 -> 1 .. 3]]}

\* A variable in a block, at its end and outside; blocks that follow each other,
\* one name twice; a block within a block, and another comment.
T(data) == << "text", data >>
V(name) == << "var", name >>
B(name) == << "begin", name >>
E(name) == << "end", name >>
Pages ==
  {<< T("a"), B("B"), T("b"), V("x"), T("c"), E("B"), T("d"), V("x") >>,
   << B("B"), V("x"), T("b"), E("B"), V("y"), T("c"), B("B"), V("y"), T("d"), E("B"),
      B("C"), V("x"), T("e"), E("C") >>,
   << B("B"), T("b"), B("C"), V("x"), T("c"), E("C"), T("d"), E("B"), << "note", "n" >>, T("e") >>}

\* A comment directly behind a variable.
Adjacent == {<< T("a"), B("B"), V("x"), E("B"), T("d") >>}
=============================================================================
