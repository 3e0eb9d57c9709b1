------------------------------ MODULE WebPage ------------------------------
(***************************************************************************)
(* lualib-src/lua-webpage.c: a page with variables and blocks is parsed into  *)
(* a list; the program sets variables, makes instances of blocks and renders *)
(* the list.                                                               *)
(*                                                                         *)
(* A page is a sequence of tokens << kind, name >>: text, variables ##name##, *)
(* comments that begin or end a block, and other comments ("note").  What is *)
(* printed is a sequence of tokens, of kind "value" for a variable's value.   *)
(***************************************************************************)
EXTENDS Naturals, FiniteSets, FiniteSetsExt, Sequences, SequencesExt

CONSTANTS
  Page,      \* the pages that are loaded
  Value,     \* values of variables
  MaxCalls   \* bound: calls between load and render

VARIABLES
  page,      \* history: the tokens of the page loaded
  blocks,    \* the list from m_head on
  result,
  rendered,  \* result was returned, and is freed
  freed,     \* history: set_block read a block after it freed it
  vals,      \* history: the value of each variable that was set
  inst,      \* history: for each place of page that begins a block, its instances
  calls

vars == << page, blocks, result, rendered, freed, vals, inst, calls >>

Kind(t) == t[1]
Name(t) == t[2]
Comment == {"begin", "end", "note"}

\* Two variables side by side are no page: the second is parsed as something
\* else altogether.
Constants ==
  /\ MaxCalls \in Nat
  /\ \A p \in Page : \A i \in 1 .. Len(p) - 1 : ~(Kind(p[i]) = "var" /\ Kind(p[i + 1]) = "var")

-----------------------------------------------------------------------------
(* parse                                                                   *)

html(data) == [type |-> "html", name |-> "", data |-> data, alloc |-> FALSE]
tag(t) == [type |-> Kind(t), name |-> Name(t), data |-> << >>, alloc |-> FALSE]

\* The character behind a variable is not looked at, so that a comment there
\* is text.
IsTag(p, i) ==
  \/ Kind(p[i]) = "var"
  \/ Kind(p[i]) \in Comment /\ ~(i > 1 /\ Kind(p[i - 1]) = "var")

(* The text since the last tag, empty or not, becomes a block before a tag    *)
(* and at the end; an unknown comment is printed as it is.                   *)
parse(p) ==
  LET step(s, i) ==
        IF ~IsTag(p, i) THEN [s EXCEPT !.text = Append(@, p[i])]
        ELSE [text |-> << >>,
              list |-> s.list \o << html(s.text),
                                    IF Kind(p[i]) = "note" THEN html(<< p[i] >>) ELSE tag(p[i]) >>]
      done == FoldLeftDomain(step, [list |-> << >>, text |-> << >>], p)
  IN  Append(done.list, html(done.text))

\* mutated: find does not count the equal names
MutFind(type, name) ==
  LET f == {i \in DOMAIN blocks : blocks[i].type = type /\ blocks[i].name = name}
  IN  IF f = {} THEN f ELSE {Min(f)}

\* The places of m_vartable or m_blocktable that have the name.
find(type, name) == {i \in DOMAIN blocks : blocks[i].type = type /\ blocks[i].name = name}

\* The place that ends the block that begins at i, or else behind the list.
EndOf(i) ==
  Min({j \in i + 1 .. Len(blocks) : blocks[j].type = "end" /\ blocks[j].name = blocks[i].name}
        \cup {Len(blocks) + 1})

\* Places that are within a block that begins behind i.
Nested(i) ==
  LET inner[j \in i + 1 .. Len(blocks) + 1] ==
        IF j > Len(blocks) THEN {}
        ELSE IF blocks[j].type = "begin" THEN (j .. EndOf(j)) \cup inner[Min({EndOf(j), Len(blocks)}) + 1]
        ELSE inner[j + 1]
  IN  inner[i + 1]

\* What set_block walks over from the block that begins at i on.
Body(i) == (i + 1 .. EndOf(i) - 1) \ Nested(i)

-----------------------------------------------------------------------------

Init ==
  /\ page = << >> /\ blocks = << >>
  /\ result = << >> /\ rendered = FALSE /\ freed = FALSE
  /\ vals = << >> /\ inst = << >> /\ calls = 0

\* init(): what an earlier page has is forgotten, not freed.
Reset(p) ==
  /\ page' = p
  /\ result' = << >> /\ rendered' = FALSE /\ freed' = FALSE
  /\ vals' = << >> /\ inst' = [i \in DOMAIN p |-> << >>] /\ calls' = 0

load ==
  \/ \E p \in Page : Reset(p) /\ blocks' = parse(p)
  \/ Reset(<< >>) /\ blocks' = << >>   \* there is no such file

Called == ~rendered /\ calls < MaxCalls /\ calls' = calls + 1

Shown(val) == IF val = "" THEN << >> ELSE << << "value", val >> >>

(* set: every variable of the name.                                         *)
set(token, val) ==
  /\ Called
  /\ blocks' = [i \in DOMAIN blocks |->
                  IF i \in find("var", token) THEN [blocks[i] EXCEPT !.data = Shown(val)]
                  ELSE blocks[i]]
  /\ vals' = [x \in DOMAIN vals \cup {token} |-> IF x = token THEN Shown(val) ELSE vals[x]]
  /\ UNCHANGED << page, result, rendered, freed, inst >>

\* gen_block, for each block of the walk that has data.
Copies(visited) ==
  LET full == SelectSeq([i \in DOMAIN blocks |-> i],
                        LAMBDA i : i \in visited /\ blocks[i].data # << >>)
  IN  [k \in DOMAIN full |-> [html(blocks[full[k]].data) EXCEPT !.alloc = TRUE]]

\* What the program asked for, token by token: for a block its instances, which
\* have what the block had at their time.
Stop(i) ==
  Min({j \in i + 1 .. Len(page) : Kind(page[j]) = "end" /\ Name(page[j]) = Name(page[i])})

Printed(from, to) ==
  LET out[i \in from .. to + 1] ==
        IF i > to THEN << >>
        ELSE CASE Kind(page[i]) = "begin" -> inst[i] \o out[Stop(i) + 1]
               [] Kind(page[i]) = "var" ->
                    (IF Name(page[i]) \in DOMAIN vals THEN vals[Name(page[i])] ELSE << >>) \o out[i + 1]
               [] OTHER -> << page[i] >> \o out[i + 1]
  IN  out[from]

Begins(block) == {i \in DOMAIN page : Kind(page[i]) = "begin" /\ Name(page[i]) = block}

(* set_block: a copy of the block's body is put before the block.  Blocks      *)
(* in the body that were made so are freed when they are copied, and the way *)
(* to the next one is read from the freed block: it may be there still, or   *)
(* end the walk.                                                            *)
set_block(block) ==
  LET begins == find("begin", block)
      bodies == UNION {Body(i) : i \in begins}
      made == {j \in bodies : blocks[j].alloc}
  IN  /\ Called
      /\ \E last \in made \cup {Len(blocks)} :
           LET Visited(i) == {j \in Body(i) : last \in Body(i) => j <= last}
               visited == UNION {Visited(i) : i \in begins}
           IN  blocks' = FlattenSeq([i \in DOMAIN blocks |->
                           (IF i \in begins THEN Copies(Visited(i)) ELSE << >>)
                             \o (IF i \in made \cap visited THEN << >> ELSE << blocks[i] >>)])
      /\ freed' = (freed \/ made # {})
      /\ inst' = [i \in DOMAIN page |->
                    IF i \in Begins(block) THEN inst[i] \o Printed(i + 1, Stop(i) - 1)
                    ELSE inst[i]]
      /\ UNCHANGED << page, result, rendered, vals >>

(* render: the blocks as they were written are left out.  main.lua loads a     *)
(* page before it renders again.                                            *)
render ==
  /\ ~rendered
  /\ LET shown == SelectSeq([i \in DOMAIN blocks |-> i],
                            LAMBDA i : i \notin Nested(0) /\ blocks[i].type \in {"html", "var"})
     IN  result' = result \o FlattenSeq([k \in DOMAIN shown |-> blocks[shown[k]].data])
  /\ rendered' = TRUE
  /\ UNCHANGED << page, blocks, freed, vals, inst, calls >>

Names(type) == UNION {{Name(t) : t \in {u \in ToSet(p) : Kind(u) = type}} : p \in Page}

Next ==
  \/ load \/ render
  \/ \E token \in Names("var"), val \in Value : set(token, val)
  \/ \E block \in Names("begin") : set_block(block)

Spec == Init /\ [][Next]_vars

-----------------------------------------------------------------------------

(* lua-webpage.c:121-339, 341-389, 391-473: whatever variables and instances   *)
(* are set in whatever order, on a page whose variables have text behind     *)
(* them, what is rendered is the page with its variables replaced and, for   *)
(* each block, its instances, each with the values of its time.              *)
RenderExact == rendered /\ ~freed => result = Printed(1, Len(page))

(* lua-webpage.c:460-469: no block is read after it was freed.                 *)
NoFreedRead == ~freed
=============================================================================
