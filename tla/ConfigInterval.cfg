\* The configurations of HookLibrary.cfg against the message of load.
\* A crashed process stops.
CHECK_DEADLOCK FALSE

CONSTANTS
    Configs <- MCConfigs
    Word = 16
    Millis = 3
    VlanNames = {"vlan10"}
    BadMacs = {"INCOMPLETE"}
    LookupBodies <- MCLookupBodies
    NeighborBodies <- MCNeighborBodies
    UptimeBodies <- MCUptimeBodies
    Docs <- MCDocs
    Statuses = {200, 401, 404, 500}

SPECIFICATION Spec

INVARIANTS IntervalIsPositive
