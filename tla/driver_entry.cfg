\* A driver whose WdfDriverCreate fails.
SPECIFICATION DriverSpec
CONSTANTS
    Controllers = {c1}
    MaxInstance = 0
    MaxStarts = 1
PROPERTIES
    FailedEntryOnlyCleansUp
CHECK_DEADLOCK FALSE
