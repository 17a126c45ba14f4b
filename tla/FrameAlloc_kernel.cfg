SPECIFICATION LiveKernelSpec
CONSTANTS
    N = 9
    Boot <- MCBoot
    MaxRequest = 3
    MaxRef = 1
INVARIANTS
    TypeOK
    FreeListExact
    NoFailedAssert
    NoFrameLost
    NullOnlyWhenNothingFits
PROPERTY
    AllocReturns
