SPECIFICATION Spec
CONSTANTS
    Layouts <- MCTwoDrives
    PartCounts <- MCPartCounts
    Blocks <- MCBlocks
    MaxReads = 1
INVARIANT
    OneRequestAtATime
