SPECIFICATION Spec
CONSTANTS
    Txns = {x1}
    Servers = {s1}
    Pollers = {w1}
    Leases = 2
    MaxCrashes = 0
INVARIANT BookedOnce
