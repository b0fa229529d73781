SPECIFICATION Spec
CONSTANTS
    Txns = {x1}
    Servers = {s1, s2}
    Pollers = {w1}
    Leases = 2
    MaxCrashes = 1
INVARIANTS
    TypeOK
    BookedOncePerLease
    
    
    FailedPushFailsItsPayment

    
