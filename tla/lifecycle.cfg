\* Two devices added, started, stopped and removed concurrently, and the driver
\* that comes before and goes after them.
SPECIFICATION DriverSpec
CONSTANTS
    Controllers = {c1, c2}
    MaxInstance = 1
    MaxStarts = 2
INVARIANTS
    DriverTypeOK
    PluggedIsComplete
    NothingLeaks
    TracingSpansTheDriver
PROPERTIES
    ImplementsPresence
CHECK_DEADLOCK FALSE
