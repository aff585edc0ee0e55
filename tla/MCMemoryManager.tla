--------------------------- MODULE MCMemoryManager ---------------------------
(* Instances of MemoryManager for TLC. *)
EXTENDS MemoryManager

\* A pre-zeroed array of blocks as jdcoefct.c requests it, and a sample array
\* as jdpostct.c does.
MCShape ==
  [blocks |-> [rows_in_array |-> 4, width |-> 4, maxaccess |-> 1, pre_zero |-> TRUE, kind |-> "b"],
   strip |-> [rows_in_array |-> 3, width |-> 3, maxaccess |-> 2, pre_zero |-> FALSE, kind |-> "s"]]
MCArrays == DOMAIN MCShape

Sys(heap, backing, max, touched, many) ==
  [heap |-> heap, backing_store |-> backing, max_memory_to_use |-> max, touched |-> touched,
   objects |-> many]

\* Short of memory, with allocations that fail at every place; and with enough
\* of it for arrays in whole or in part.
MCSystems ==
  {Sys(60, FALSE, 0, {}, 3), Sys(72, TRUE, 60, {}, 3), Sys(90, TRUE, 70, {}, 3)}
  \cup {Sys(400, FALSE, 0, {"strip"}, 0), Sys(400, TRUE, 45, {"blocks"}, 0),
        Sys(400, TRUE, 0, {"strip"}, 0), Sys(400, TRUE, 60, {"strip"}, 1)}
MCFirstSlop == [p \in Pools |-> IF p = PERMANENT THEN 4 ELSE 10]
MCExtraSlop == [p \in Pools |-> IF p = PERMANENT THEN 0 ELSE 4]
=============================================================================
