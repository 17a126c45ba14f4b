\* The kernel stops at a failed assertion or an undefined read.
CHECK_DEADLOCK FALSE
CONSTANTS
    KiB = 2
    EXT2_INODE_INDIRECT_BLOCKS = 2
    U32 = 400
    MAX_NODE_NAME_LENGTH = 2
    MaxDepth = 2
    Names <- MCNames
    NameLength <- MCNameLength
    Disks <- MCDisks
    Reads <- MCReads
SPECIFICATION Spec
INVARIANTS
    
    
    ReadsExact
