\* One byte each way through tsok forward and tsok serve.
SPECIFICATION RelaySpec
CONSTANTS
    N = 2
    MaxBytes = 1
    BufferSize = 1
    MaxFaults = 1
INVARIANTS
    RelayTypeOK
PROPERTIES
    BlamesCause
    PipePromise
    HalfClosePassed
    LetsGo
CHECK_DEADLOCK FALSE
