------------------------------- MODULE Parts -------------------------------
(***************************************************************************)
(* Parts of the program that have nothing to do with each other.  In a        *)
(* behaviour one of them runs and the others stay as they began.             *)
(***************************************************************************)
EXTENDS Integers, Sequences

CONSTANTS
  NoScore,
  Member, Score, SKIPLIST_MAXLEVEL,
  Interval, Times, MaxHandle, MaxTime,
  Trials,
  MaxIndex, MaxSparse,
  Page, Value, MaxCalls,
  Bytes, Sextets, MaxBytes, MaxText, MaxBehind

VARIABLES
  part,
  sl, tbl,
  now, running, handle, timer, alarms, timers, to_deleted, pass, fired, dead,
  trial, tables, words,
  elems, sparse, unsorted, border, iter, seen, there, counted, fallen,
  page, blocks, result, rendered, freed, vals, inst, asked,
  bytes, text

zset == << sl, tbl >>
times == << now, running, handle, timer, alarms, timers, to_deleted, pass, fired, dead >>
dict == << trial, tables, words >>
array == << elems, sparse, unsorted, border, iter, seen, there, counted, fallen >>
web == << page, blocks, result, rendered, freed, vals, inst, asked >>
base64 == << bytes, text >>
mvars == << part, zset, times, dict, array, web, base64 >>

Set == INSTANCE ZSet WITH None <- NoScore
Timers == INSTANCE Timer WITH pending <- alarms
Dict == INSTANCE Crab
Array == INSTANCE SparseArray
Web == INSTANCE WebPage WITH calls <- asked
Text == INSTANCE Base64

ASSUME PartsAssumption ==
  /\ Set!Constants /\ Timers!Constants /\ Dict!Constants
  /\ Array!Constants /\ Web!Constants /\ Text!Constants

MInit ==
  /\ part \in {"set", "timer", "dict", "array", "web", "base64"}
  /\ Set!Init /\ Timers!Init /\ Dict!Init /\ Array!Init /\ Web!Init /\ Text!Init
  /\ part # "dict" => trial = CHOOSE t \in Trials : TRUE
  /\ part # "array" => elems = {}

MNext ==
  /\ \/ /\ part = "set" /\ Set!Next
        /\ UNCHANGED << times, dict, array, web, base64 >>
     \/ /\ part = "timer" /\ Timers!Next
        /\ UNCHANGED << zset, dict, array, web, base64 >>
     \/ /\ part = "dict" /\ Dict!Next
        /\ UNCHANGED << zset, times, array, web, base64 >>
     \/ /\ part = "array" /\ Array!Next
        /\ UNCHANGED << zset, times, dict, web, base64 >>
     \/ /\ part = "web" /\ Web!Next
        /\ UNCHANGED << zset, times, dict, array, base64 >>
     \/ /\ part = "base64" /\ Text!Next
        /\ UNCHANGED << zset, times, dict, array, web >>
  /\ UNCHANGED part

\* The fairness of Timer.
MSpec ==
  /\ MInit /\ [][MNext]_mvars
  /\ WF_mvars(part = "timer" /\ Timers!Loop
              /\ UNCHANGED << part, zset, dict, array, web, base64 >>)

-----------------------------------------------------------------------------
(* ZSet: ranks and ranges are those of the sorted members.                   *)
QueriesExact == part = "set" => Set!QueriesExact

(* Timer: callbacks are called as often as their intervals say.              *)
FiresExact == part = "timer" => Timers!FiresExact

(* Crab: a text loses the words of the dictionary and nothing else.          *)
FilterExact == part = "dict" => Dict!FilterExact

(* SparseArray: a traversal returns every element that stays, in order.       *)
Traversed == part = "array" => Array!Traversed

(* WebPage: the page is rendered with its variables and block instances.      *)
RenderExact == part = "web" => Web!RenderExact

(* Base64: decoding and encoding undo each other.                           *)
TextExact == part = "base64" => Text!TextExact

\* Not true of the code: see the variations in README.md.
PagesEnd == Set!PagesEnd
RemovedAtOnce == Timers!RemovedAtOnce
NothingFalls == Array!NothingFalls
LengthCovers == Array!LengthCovers
ReturnsElements == Array!ReturnsElements
NoFreedRead == Web!NoFreedRead
EmptyEncodes == part = "base64" => Text!EmptyEncodes
WholeTextRead == part = "base64" => Text!WholeTextRead
=============================================================================
