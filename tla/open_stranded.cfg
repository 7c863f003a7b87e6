\* MbbOpen next to an interrupt URB that is already waiting.
SPECIFICATION FairSpec
CONSTANTS
    Control = Control
    ReadyThreads = {r1}
    NoThread = NoThread
    NoUrb = NoUrb
    Requests <- SessionRequests
    UrbBuffers = {"fits"}
    MaxInterruptUrbs = 1
    MaxResponses = 2
    MaxPowerDowns = 0
    AllocationFails = TRUE
    HostCancels = FALSE
PROPERTY
    OpenIsAnnounced
