SPECIFICATION Spec
CONSTANTS
    o1 = o1
    Orders = {o1}
    Holds = {h1}
    Disputes = {d1}
    OrderOf <- MCOrderOf
    Couriers = {}
    Devs = {}
    Releasers = {}
    Tabs = {t1}
    Admins = {a1}
    Watchers = {w1}
    Window = 1
    CodeTTL = 1
    TxTimeout = 0
    Sla = 0
    MaxAttempts = 1
    MaxNow = 2
    Never = Never
    Nobody = Nobody
PROPERTIES
    SweepSkipsResolved
CHECK_DEADLOCK FALSE
