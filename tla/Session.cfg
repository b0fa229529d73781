SPECIFICATION Spec
CONSTANTS
    t1 = t1
    t2 = t2
    c1 = c1
    c2 = c2
    Tabs = {t1, t2}
    Calls = {c1, c2}
    Home <- AllInFirst
    Scopes <- BusyOrTwo
INVARIANTS
    TypeOK
    CookieTokenIsLive
    SignedOutStaysOut
    StuckNeedsAFault
PROPERTIES
    SignedOutForACause
    WaitersAreReleased
    
CHECK_DEADLOCK FALSE
