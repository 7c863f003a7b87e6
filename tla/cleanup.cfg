\* One device whose addition or start fails.
SPECIFICATION Spec
CONSTANTS
    Controllers = {c1}
    MaxInstance = 0
    MaxStarts = 1
PROPERTIES
    DeviceInitFreedByDestroy
CHECK_DEADLOCK FALSE
