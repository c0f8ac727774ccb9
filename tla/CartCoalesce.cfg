SPECIFICATION CartSpec
CONSTANTS
    Browsers = {b1}
    Tabs = {t1, t2}
    Products = {p1, p2}
    Price <- MCPrice
    Zones = {z1}
    ZoneFee <- MCZoneFee
    FreeFrom = 50
    PageFee = 2
    Cap = 2
    NoOne = NoOne
    MaxSessions = 1
    MaxCarts = 1
    MaxItems = 3
    MaxQuantity = 2
    MaxOrders = 1
INVARIANTS
    AddsCoalesce
CHECK_DEADLOCK FALSE
