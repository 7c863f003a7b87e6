\* A session with two concurrent ready callbacks, every kind of interrupt URB,
\* cancellation, failing allocations and a power transition.
SPECIFICATION Spec
CONSTANTS
    Control = Control
    ReadyThreads = {r1, r2}
    NoThread = NoThread
    NoUrb = NoUrb
    Requests <- SessionRequests
    UrbBuffers = {"none", "short", "fits"}
    MaxInterruptUrbs = 2
    MaxResponses = 2
    MaxPowerDowns = 1
    AllocationFails = TRUE
    HostCancels = TRUE
SYMMETRY ReadySymmetry
INVARIANTS
    TypeOK
    LockDiscipline
    NoRemoveFromEmptyList
    ResponsesInOrder
    EachResponseNotifiedOnce
    CommandNotStranded
    PoolAccounted
PROPERTIES
    NotifiedFetchFindsResponse
    OpenStatusIsTruthful
    ImplementsChannel
