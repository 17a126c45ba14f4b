SPECIFICATION Spec
CONSTANTS
    Top = 13
    HIGH_VADDR = 2
    Boot <- MCBoot
    Heap = {9}
    Identity = {1, 11}
    Counts = {1, 2}
    MaxHeld = 5
INVARIANT EqualHeights
CHECK_DEADLOCK FALSE
