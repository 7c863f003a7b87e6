\* A host that keeps an interrupt URB posted, never cancels, and may fetch.
SPECIFICATION FairSpec
CONSTANTS
    Control = Control
    ReadyThreads = {r1}
    NoThread = NoThread
    NoUrb = NoUrb
    Requests <- SessionRequests
    UrbBuffers = {"fits"}
    MaxInterruptUrbs = 2
    MaxResponses = 2
    MaxPowerDowns = 1
    AllocationFails = TRUE
    HostCancels = FALSE
PROPERTIES
    CommandIsAnnounced
    ControlUrbCompletes
    CommandIsFetched
