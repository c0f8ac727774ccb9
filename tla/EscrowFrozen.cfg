SPECIFICATION Spec
CONSTANTS
    o1 = o1
    Orders = {o1}
    Holds = {h1}
    Disputes = {d1}
    OrderOf <- MCOrderOf
    Couriers = {c1}
    Devs = {v1}
    Releasers = {r1}
    Tabs = {t1}
    Admins = {}
    Watchers = {}
    Window = 0
    CodeTTL = 1
    TxTimeout = 0
    Sla = 1
    MaxAttempts = 1
    MaxNow = 1
    Never = Never
    Nobody = Nobody
INVARIANTS
    DisputedIsFrozen
CHECK_DEADLOCK FALSE
