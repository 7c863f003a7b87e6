\* One device that is stopped and started again.
SPECIFICATION Spec
CONSTANTS
    Controllers = {c1}
    MaxInstance = 0
    MaxStarts = 2
PROPERTIES
    NotAlreadyAllowingResetInterrupts
CHECK_DEADLOCK FALSE
