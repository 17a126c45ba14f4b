---------------------------- MODULE MCVirtRegion ----------------------------
(* Instances of VirtRegion for TLC.                                        *)
EXTENDS VirtRegion

MCBoot == <<[from |-> 2, count |-> 1], [from |-> 8, count |-> 1], [from |-> 9, count |-> 2]>>

=============================================================================
