\* One connection with a buffer of two bytes; the channels accept one byte at a time.
SPECIFICATION FairSpec
CONSTANTS
    BufferSize = 2
    Window = 1
    MaxBytes <- MCMaxBytes
INVARIANTS
    StreamIntact
    ClosesForAReason
PROPERTIES
    RequestsGoOn
    ClosesAtEnd
    ImplementsStreams
CHECK_DEADLOCK FALSE
