CONSTANTS
    Requests = {r1, r2, r3}
    Payments = {p1, p2}
    N = 2
    Rent = 2
    Amounts = {3}
SPECIFICATION Spec
CHECK_DEADLOCK FALSE
INVARIANTS
    LatestRowIsTheBalance
