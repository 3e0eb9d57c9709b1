------------------------------ MODULE FifoLine ------------------------------
(***************************************************************************)
(* What a user of lualib/lock.lua may rely on, stated without the lock's    *)
(* own fields: the coroutines that want the lock stand in one line, the     *)
(* head of the line owns the lock, newcomers join at the end, nobody        *)
(* overtakes and only the head leaves.                                      *)
(***************************************************************************)
EXTENDS Naturals, Sequences, SequencesExt

CONSTANT Co            \* the coroutines of one service

VARIABLE line          \* those that own or want the lock, the owner first

Init == line = << >>

Join(co) ==
  /\ co \notin ToSet(line)
  /\ line' = Append(line, co)

Leave ==
  /\ line # << >>
  /\ line' = Tail(line)

Next == (\E co \in Co : Join(co)) \/ Leave

Spec == Init /\ [][Next]_line
=============================================================================
