\* The device that is built.
SPECIFICATION Spec
CONSTANTS
    Builds = {"USB30_COMPOSITE"}
INVARIANTS
    HidIsFilledIn
CHECK_DEADLOCK FALSE
