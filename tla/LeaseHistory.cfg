\* Two clients on two VLANs, every environment assumption dropped.
SPECIFICATION HSpec
CONSTANTS
    c1 = c1
    c2 = c2
    a1 = a1
    a2 = a2
    p1 = p1
    p2 = p2
    v1 = v1
    v2 = v2
    w1 = w1
    w2 = w2
    None = None
    Clients = {c1, c2}
    NAAddrs = {a1}
    Prefixes = {p1}
    Vlans = {v1, v2}
    VlanOf <- TwoVlans
    Workers = {w1}
    MaxPending = 2
    Relaxed = {"overlap", "earlyExpire", "faults", "reboot", "naUnderPD", "prefixMove", "otherIA"}
SYMMETRY Symmetry
INVARIANTS OnlyLeasedRoutes
