---------------------------- MODULE MCBootMemory ----------------------------
(* BootMemory with memory maps like those of a PC: low memory, RAM from    *)
(* 1 MiB up to its end, a reserved hole that need not be page aligned, a   *)
(* reserved page after the RAM, and a reserved entry up to 4 GiB.          *)
EXTENDS BootMemory

Entry(addr, len, available) == [addr |-> addr, len |-> len, available |-> available]

(* size: the end of the RAM; at, len: the hole, in units.                  *)
MapOf(size, at, len, after) ==
    <<Entry(0, 3, TRUE), Entry(3, 1, FALSE), Entry(4, at - 4, TRUE), Entry(at, len, FALSE),
      Entry(at + len, size - at - len, TRUE), Entry(size, after, FALSE), Entry(Top - 3, 3, FALSE)>>

MCFrames == 0 .. 23
MCMaps ==
    {MapOf(size, at, len, after) : size \in {40, 49, 60, 72, 82}, at \in {29, 38}, len \in {2, 4}, after \in {2, 12}}
    \cup {<<Entry(0, size, TRUE)>> : size \in {32, 36, 44, 48, 66, 96}}
    \cup {<<Entry(4, size - 4, TRUE), Entry(24, 3, FALSE)>> : size \in {38, 58, 90}}

=============================================================================
