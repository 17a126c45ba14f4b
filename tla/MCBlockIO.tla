----------------------------- MODULE MCBlockIO ------------------------------
(* Instances of BlockIO for TLC.                                           *)
EXTENDS BlockIO

(* Every way to populate the four drive positions of the two channels.     *)
MCLayouts == SUBSET (0 .. 3) \ {{}}

(* The machine the kernel is run on, and that machine with a second drive. *)
MCOneDrive  == {{0}}
MCTwoDrives == {{0}, {0, 1}}

MCPartCounts == {0, 2}
MCBlocks     == {0, 1}

=============================================================================
