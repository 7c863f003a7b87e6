\* One device from its addition to its removal, with the channel at work.
SPECIFICATION FairDeviceSpec
CONSTANTS
    Control = Control
    ReadyThreads = {r1}
    NoThread = NoThread
    NoUrb = NoUrb
    Requests <- SessionRequests
    UrbBuffers = {"short", "fits"}
    MaxInterruptUrbs = 1
    MaxResponses = 2
    MaxPowerDowns = 2
    AllocationFails = TRUE
    HostCancels = FALSE
    Device = Device
    Cleaner = Cleaner
    MaxInstance = 0
    MaxStarts = 2
INVARIANTS
    DeviceTypeOK
    NothingLeftBehind
    HandlersHaveTheirObjects
    CleanupAlone
    ResponsesKept
PROPERTIES
    ImplementsChannelUntilFreed
    StopCompletes
CHECK_DEADLOCK FALSE
