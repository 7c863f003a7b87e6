\* Every control request there is, against a short session.
SPECIFICATION Spec
CONSTANTS
    Control = Control
    ReadyThreads = {r1}
    NoThread = NoThread
    NoUrb = NoUrb
    Requests <- AllRequests
    UrbBuffers = {"fits"}
    MaxInterruptUrbs = 1
    MaxResponses = 2
    MaxPowerDowns = 0
    AllocationFails = TRUE
    HostCancels = FALSE
INVARIANTS
    BytesWithinBuffer
    FetchStatusIsTruthful
