\* Two pool threads, so that answers overtake each other.
SPECIFICATION Spec
CHECK_DEADLOCK FALSE
CONSTANTS
    Workers = {w1, w2}
    MaxUptime = 1
    MaxHeartbeats = 2
    MaxRestores = 2
    MaxFaults = 2
INVARIANTS
    TypeOK
    OutageRemembered
    StoppedIsQuiet
PROPERTIES
    OutageRestored
    RoutesRestored
