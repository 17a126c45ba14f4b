SPECIFICATION Spec
CONSTANTS
    N = 5
    Boot <- MCBoot
    MaxRequest = 2
    MaxRef = 2
INVARIANT
    OneOwner
