SPECIFICATION Spec
CONSTANTS
    Layouts <- MCOneDrive
    PartCounts <- MCPartCounts
    Blocks <- MCBlocks
    MaxReads = 1
INVARIANT
    RootDeviceFound
