--------------------------- MODULE MCFlatHashmap ----------------------------
(* An instance of FlatHashmap for TLC.                                     *)
EXTENDS FlatHashmap

(* Keys with the same ideal slot or the next one, so that probe sequences  *)
(* cross, and some that start in the last slot and wrap round.  Four keys  *)
(* are the fewest with which a table keeps a tombstone.  "a" has a value   *)
(* of its own: a lookup that returned the data of another key, or that a   *)
(* removed entry left behind, would show.                                  *)
MCKeys   == {"a", "b", "c", "d", "e"}
MCHash   == [k \in MCKeys |-> CASE k = "a" -> 0 [] k = "b" -> 8 [] k = "c" -> 1
                                [] k = "d" -> 7 [] k = "e" -> 15]
MCData   == [k \in MCKeys |-> IF k = "a" THEN {"v", "w"} ELSE {"v"}]
MCCopied == {"a", "d"}

=============================================================================
