\* RENEW and REBIND messages that carry several IA_NA options.
SPECIFICATION SafetySpec
CONSTANTS
    c1 = c1
    c2 = c2
    a1 = a1
    a2 = a2
    p1 = p1
    p2 = p2
    v1 = v1
    w1 = w1
    w2 = w2
    None = None
    Clients = {c1, c2}
    NAAddrs = {a1, a2}
    Prefixes = {}
    Vlans = {v1}
    VlanOf <- OneVlan
    Workers = {w1, w2}
    MaxPending = 2
    Relaxed = {"otherIA"}
PROPERTIES ActiveRouteKept
