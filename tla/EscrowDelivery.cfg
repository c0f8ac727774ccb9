SPECIFICATION FairSpec
CONSTANTS
    o1 = o1
    Orders = {o1}
    Holds = {h1, h2}
    Disputes = {d1}
    OrderOf <- MCOrderOf
    Couriers = {c1, c2}
    Devs = {v1}
    Releasers = {r1}
    Tabs = {t1}
    Admins = {}
    Watchers = {w1}
    Window = 2
    CodeTTL = 0
    TxTimeout = 1
    Sla = 1
    MaxAttempts = 2
    MaxNow = 3
    Never = Never
    Nobody = Nobody
INVARIANTS
    NoFreeGuess
PROPERTIES
    LockedStaysLocked
    ReleaseIsEarned
    DisputeInTimeFreezes
    DeliveredIsReleased
    OverdueIsEscalated
CHECK_DEADLOCK FALSE
