---------------------------- MODULE MCFrameAlloc ----------------------------
(* Frame 0 stands for the reserved first MiB.  Free runs of length 2 and   *)
(* 1 (and 3 when N allows it) separated by frames in use: runs get split,  *)
(* exhausted, detached from both ends of the list, and merged again.       *)
EXTENDS FrameAlloc

MCBoot == [p \in 0 .. N-1 |-> IF p \in {1, 2, 4, 6, 7, 8} THEN "UNUSED" ELSE "OTHER"]
=============================================================================
