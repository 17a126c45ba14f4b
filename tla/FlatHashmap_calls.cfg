SPECIFICATION Spec
CONSTANTS
    Keys <- MCKeys
    Data <- MCData
    Hash <- MCHash
    CopiedKeys <- MCCopied
    InitCapacity = 2
    MaxUsed = 4
INVARIANTS
    CountsExact
    ProbesReachEntries
PROPERTY
    RefinesDictionary
