SPECIFICATION LiveSpec
CONSTANTS
    Layouts <- MCLayouts
    PartCounts <- MCPartCounts
    Blocks <- MCBlocks
    MaxReads = 3
INVARIANTS
    InterruptsFollowLocks
    ControllerServesHead
    
    
    CopiesRequestedBlock
PROPERTY
    ReadCompletes
