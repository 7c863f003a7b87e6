\* The devices of every build.
SPECIFICATION Spec
CONSTANTS
    Builds = {"USB30_COMPOSITE", "USB20_COMPOSITE", "USB20_MOUSE"}
INVARIANTS
    ConfigurationAccepted
    PipesServed
    PipesDistinct
    AssociationsMatchInterfaces
    MbimLeadsToChannel
CHECK_DEADLOCK FALSE
