--------------------------------- MODULE Log ---------------------------------
(***************************************************************************)
(* lualib-src/lua-log.c: the log service appends messages to a buffer under *)
(* a mutex, a worker thread takes full buffers, or whatever there is every   *)
(* flush_interval, and writes them to files outside of it.                  *)
(*                                                                         *)
(* Buffers are linked by their next pointers, and the list that append()     *)
(* builds is already linked to the current buffer.  Every message has the    *)
(* length 1, so that a size is a number of messages.                        *)
(***************************************************************************)
EXTENDS Naturals, FiniteSets, FiniteSetsExt, Sequences, SequencesExt

CONSTANTS
  LOG_BUFFER_SIZE, \* a buffer holds less than that
  rollsize,        \* inst.rollsize
  MaxBuffers,      \* 25 in the code: more buffers to write than that are dropped
  MaxMsg,          \* bound: messages
  MaxBuf           \* bound: buffers that calloc can return

ASSUME SizeAssumption == LOG_BUFFER_SIZE \in Nat /\ LOG_BUFFER_SIZE > 1
ASSUME RollAssumption == rollsize \in Nat \ {0}
ASSUME DropAssumption == MaxBuffers \in Nat /\ MaxBuffers >= 2
ASSUME BoundAssumption == MaxMsg \in Nat /\ MaxBuf \in Nat /\ MaxBuf >= 4

VARIABLES
  \* buffers on the heap
  next, data, allocated,
  \* inst, under its mutex
  curr_buffer, next_buffer, head, tail, size,
  \* inst, without it
  running,
  \* the worker's locals: pc, the list buffers_to_write, new_buffer1 and 2
  w,
  \* the file being written: its index, written_bytes; the size of each file
  file, written_bytes, filesize,
  \* history
  count,       \* messages appended: 1 .. count
  dropped,     \* messages dropped
  written      \* messages written, in order

heap == << next, data, allocated >>
inst == << curr_buffer, next_buffer, head, tail, size >>
files == << file, written_bytes, filesize >>
history == << count, dropped, written >>
vars == << heap, inst, running, w, files, history >>

NULL == 0
Buf == 1 .. MaxBuf

Init ==
  /\ next = [b \in Buf |-> NULL]
  /\ data = [b \in Buf |-> << >>]
  /\ allocated = 1 .. 4
  /\ curr_buffer = 1 /\ next_buffer = 2
  /\ head = NULL /\ tail = NULL /\ size = 0
  /\ running = TRUE
  /\ w = [pc |-> "loop", head |-> NULL, tail |-> NULL, size |-> 0, new1 |-> 3, new2 |-> 4]
  /\ file = 0 /\ written_bytes = 0 /\ filesize = [i \in 0 .. 1 |-> 0]
  /\ count = 0 /\ dropped = {} /\ written = << >>

-----------------------------------------------------------------------------
(* Lists.                                                                   *)

After(b) == IF b = NULL THEN NULL ELSE next[b]

(* The buffers met from b on, along the next pointers up to NULL; a cycle   *)
(* would show as more than MaxBuf of them.                                  *)
Chain(b) ==
  LET at[i \in 1 .. MaxBuf + 1] == IF i = 1 THEN b ELSE After(at[i - 1])
  IN  [i \in {j \in 1 .. MaxBuf + 1 : at[j] # NULL} |-> at[i]]

Contents(bs) == FlattenSeq([i \in DOMAIN bs |-> data[bs[i]]])

\* calloc
Fresh == CHOOSE b \in Buf : b \notin allocated

-----------------------------------------------------------------------------
(* append(logline), as a whole under the mutex.                             *)

\* The list with the full current buffer at its end.
Linked == IF head = NULL THEN next ELSE [next EXCEPT ![tail] = curr_buffer]

AppendFits == Len(data[curr_buffer]) + 1 < LOG_BUFFER_SIZE

AppendToCurrent(m) ==
  /\ AppendFits
  /\ data' = [data EXCEPT ![curr_buffer] = Append(@, m)]
  /\ UNCHANGED << next, allocated, inst >>

\* mutated: the new current buffer is not linked to the full one
MutAppendRotate(m) ==
  /\ ~AppendFits
  /\ head' = IF head = NULL THEN curr_buffer ELSE head
  /\ tail' = curr_buffer
  /\ size' = size + 1
  /\ LET new == IF next_buffer # NULL THEN next_buffer ELSE Fresh IN
       /\ curr_buffer' = new
       /\ allocated' = allocated \cup {new}
       /\ next' = Linked
       /\ data' = [data EXCEPT ![new] = Append(@, m)]
  /\ next_buffer' = NULL

(* The current buffer is full: it joins the list, the spare one or a new    *)
(* one takes its place and is linked to it at once.                         *)
AppendRotate(m) ==
  /\ ~AppendFits
  /\ next_buffer = NULL => allocated # Buf
  /\ head' = IF head = NULL THEN curr_buffer ELSE head
  /\ tail' = curr_buffer
  /\ size' = size + 1
  /\ LET new == IF next_buffer # NULL THEN next_buffer ELSE Fresh IN
       /\ curr_buffer' = new
       /\ allocated' = allocated \cup {new}
       /\ next' = [Linked EXCEPT ![curr_buffer] = new]
       /\ data' = [data EXCEPT ![new] = Append(@, m)]
  /\ next_buffer' = NULL

append(m) == AppendToCurrent(m) \/ AppendRotate(m)

(* debug, info, warning, error and fatal, whose message is admitted.        *)
LogMessage ==
  /\ running /\ count < MaxMsg
  /\ count' = count + 1
  /\ append(count')
  /\ UNCHANGED << running, w, files, dropped, written >>

(* log_exit: the service then joins the worker and logs no more.            *)
LogExit ==
  /\ running
  /\ running' = FALSE
  /\ UNCHANGED << heap, inst, w, files, history >>

-----------------------------------------------------------------------------
(* rollfile: the files of a day are opened one after the other from index 0, *)
(* and left again while written_bytes says so, which leaving the first resets.*)
RollFile(bytes) ==
  IF bytes >= rollsize THEN file' = 1 /\ written_bytes' = 0
                       ELSE file' = 0 /\ written_bytes' = bytes

-----------------------------------------------------------------------------
(* worker_func, one round of its loop.                                      *)

(* The loop's test, which reads running without the mutex.                  *)
WorkerTest ==
  /\ w.pc = "loop"
  /\ w' = [w EXCEPT !.pc = IF running THEN "swap" ELSE "ended"]
  /\ UNCHANGED << heap, inst, running, files, history >>

\* mutated: new_buffer2 is given away and kept
MutTake ==
  /\ w' = [w EXCEPT !.pc = IF size + 1 > MaxBuffers THEN "drop" ELSE "write",
                    !.head = IF head = NULL THEN curr_buffer ELSE head,
                    !.tail = curr_buffer, !.size = size + 1, !.new1 = NULL]
  /\ curr_buffer' = w.new1
  /\ next_buffer' = IF next_buffer = NULL THEN w.new2 ELSE next_buffer
  /\ head' = NULL /\ tail' = NULL /\ size' = 0

\* What the worker takes along: the list that append() built, or the current
\* buffer alone; new_buffer1 and, where needed, new_buffer2 take their places.
Take ==
  /\ w' = [w EXCEPT !.pc = IF size + 1 > MaxBuffers THEN "drop" ELSE "write",
                    !.head = IF head = NULL THEN curr_buffer ELSE head,
                    !.tail = curr_buffer, !.size = size + 1, !.new1 = NULL,
                    !.new2 = IF next_buffer = NULL THEN NULL ELSE @]
  /\ curr_buffer' = w.new1
  /\ next_buffer' = IF next_buffer = NULL THEN w.new2 ELSE next_buffer
  /\ head' = NULL /\ tail' = NULL /\ size' = 0

\* mutated: buffers are taken only when one is full
MutSwap ==
  /\ w.pc = "swap" /\ head # NULL
  /\ Take
  /\ UNCHANGED << heap, running, files, history >>

(* The critical section.  When there is no full buffer it waits first, and   *)
(* then goes on after a signal or after flush_interval, that is, at any      *)
(* time.  On a new day it rolls the file; nothing of the day is written yet. *)
Swap ==
  /\ w.pc = "swap"
  /\ Take
  /\ \/ UNCHANGED files
     \/ RollFile(written_bytes) /\ filesize' = [i \in 0 .. 1 |-> 0]
  /\ UNCHANGED << heap, running, history >>

\* The buffers of bs are zeroed, by memset or by the calloc that returns them
\* after free.
Cleared(bs) ==
  /\ next' = [b \in Buf |-> IF b \in bs THEN NULL ELSE next[b]]
  /\ data' = [b \in Buf |-> IF b \in bs THEN << >> ELSE data[b]]

(* Too many buffers: that some are dropped is logged first.                 *)
LogDrop ==
  /\ w.pc = "drop"
  /\ count' = count + 1
  /\ append(count')
  /\ w' = [w EXCEPT !.pc = "free"]
  /\ UNCHANGED << running, files, dropped, written >>

(* The first two are kept, the rest is freed.                               *)
DropBuffers ==
  /\ w.pc = "free"
  /\ LET list == Chain(w.head)
         gone == SubSeq(list, 3, Len(list))
     IN  /\ allocated' = allocated \ ToSet(gone)
         /\ dropped' = dropped \cup ToSet(Contents(gone))
         /\ next' = [b \in Buf |-> IF b \in ToSet(gone) \cup {list[2]} THEN NULL ELSE next[b]]
         /\ data' = [b \in Buf |-> IF b \in ToSet(gone) THEN << >> ELSE data[b]]
         /\ w' = [w EXCEPT !.pc = "write", !.tail = list[2], !.size = 2]
  /\ UNCHANGED << inst, running, files, count, written >>

(* The buffers are written; a file that has grown too long is rolled.       *)
Write ==
  /\ w.pc = "write"
  /\ LET out == Contents(Chain(w.head))
         bytes == written_bytes + Len(out)
     IN  /\ written' = written \o out
         /\ filesize' = [filesize EXCEPT ![file] = @ + Len(out)]
         /\ IF bytes > rollsize THEN RollFile(bytes)
            ELSE written_bytes' = bytes /\ UNCHANGED file
  /\ w' = [w EXCEPT !.pc = "recycle"]
  /\ UNCHANGED << heap, inst, running, count, dropped >>

(* The first buffers replace new_buffer1 and, if it was given away,          *)
(* new_buffer2; the rest is freed.                                          *)
Recycle ==
  /\ w.pc = "recycle"
  /\ LET list == Chain(w.head)
         n == IF w.new2 = NULL THEN 2 ELSE 1
         gone == ToSet(SubSeq(list, n + 1, Len(list)))
     IN  /\ w' = [pc |-> "loop", head |-> NULL, tail |-> NULL, size |-> 0,
                  new1 |-> list[1], new2 |-> IF n = 2 THEN list[2] ELSE w.new2]
         /\ allocated' = allocated \ gone
         /\ Cleared({list[i] : i \in 1 .. n} \cup gone)
  /\ UNCHANGED << inst, running, files, history >>

Worker ==
  WorkerTest \/ Swap \/ LogDrop \/ DropBuffers \/ Write \/ Recycle

Next == LogMessage \/ LogExit \/ Worker

Spec == Init /\ [][Next]_vars

(* The thread runs, and flush_interval passes.                              *)
FairSpec == Spec /\ WF_vars(Worker)

-----------------------------------------------------------------------------

\* The full buffers of inst: the chain from head ends with the current one.
Full == IF head = NULL THEN << >> ELSE Front(Chain(head))

\* Every buffer on the heap is in exactly one place.
OneOwner ==
  LET places == << curr_buffer, next_buffer, w.new1, w.new2 >> \o Full \o Chain(w.head)
  IN  /\ ToSet(places) \ {NULL} = allocated
      /\ \A i, j \in DOMAIN places : places[i] = places[j] /\ places[i] # NULL => i = j

\* The asserts of lines 179, 189, 227-229, 278, 325 and 334 hold, and the sizes
\* and tails that they and the drop rely on are those of the lists.
ListsMatch ==
  /\ head = NULL => tail = NULL
  /\ head # NULL => tail = Last(Full) /\ Last(Chain(head)) = curr_buffer
  /\ size = Len(Full)
  /\ next[curr_buffer] = NULL
  /\ w.pc = "loop" => w.head = NULL /\ data[w.new1] = << >> /\ data[w.new2] = << >>
  /\ w.pc # "recycle" /\ w.head # NULL =>
       w.size = Len(Chain(w.head)) /\ w.tail = Last(Chain(w.head))
  /\ w.pc = "recycle" => w.size >= IF w.new2 = NULL THEN 2 ELSE 1

(* lua-log.c:176-205, 246-274, 294-305, 323-351: no buffer is freed and       *)
(* still linked, leaked, or shared between the worker, which uses its        *)
(* buffers outside the mutex, and append(); the asserts hold.                *)
BuffersExact == OneOwner /\ ListsMatch

(* lua-log.c:165-213, 246-266, 307-315: of what was appended nothing is lost *)
(* or written twice or out of order, but for the buffers that are dropped.   *)
InOrder ==
  LET unwritten == IF w.pc = "recycle" THEN << >> ELSE Contents(Chain(w.head))
      all == written \o unwritten \o Contents(Full) \o data[curr_buffer]
  IN  /\ ToSet(all) = (1 .. count) \ dropped
      /\ \A i, j \in DOMAIN all : i < j => all[i] < all[j]

(* lua-log.c:232-237: while the logger runs a message does not stay in a     *)
(* buffer, however few follow it.                                           *)
EventuallyWritten ==
  \A m \in 1 .. MaxMsg :
    m <= count ~> m \in ToSet(written) \/ m \in dropped \/ ~running

(* lua-log.c:18 "a log file that reaches 1G: roll a new file": a file never  *)
(* holds more than rollsize and what one round of the worker writes.        *)
FileLimit ==
  \A i \in DOMAIN filesize :
    filesize[i] <= rollsize + (MaxBuffers + 1) * LOG_BUFFER_SIZE

(* lua-log.c:360-368: what was logged before log_exit is in the file when it *)
(* returns.                                                                 *)
ExitFlushes == w.pc = "ended" => data[curr_buffer] = << >> /\ head = NULL
==============================================================================
