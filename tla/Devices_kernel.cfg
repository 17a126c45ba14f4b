CONSTANTS
    VGA_WIDTH = 2
    VGA_HEIGHT = 2
    WORD = 2
    Tick = 3
    MaxKeys = 3
    MaxTicks = 2
    MaxChars = 1
    MaxDisk = 2
    MaxInputs = 3
    Rates <- MCRates
    Codes <- MCCodes
    Chars <- MCChars
    ChannelSets <- MCChannels
SPECIFICATION Spec
\* The devices fall silent at the bounds.
CHECK_DEADLOCK FALSE
INVARIANTS
    ConsoleExact
    ClockExact
    KeysExact
    NothingInService
PROPERTIES
    CursorLeavesByStaleStore
    RequestsServed
