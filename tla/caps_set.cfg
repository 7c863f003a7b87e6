\* A SET of DEVICE_CAPS among the control requests.
SPECIFICATION Spec
CONSTANTS
    Control = Control
    ReadyThreads = {r1}
    NoThread = NoThread
    NoUrb = NoUrb
    Requests <- AllRequests
    UrbBuffers = {"fits"}
    MaxInterruptUrbs = 1
    MaxResponses = 1
    MaxPowerDowns = 0
    AllocationFails = FALSE
    HostCancels = FALSE
INVARIANTS
    DeviceCapsIsQueryOnly
