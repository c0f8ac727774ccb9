SPECIFICATION CartSpec
CONSTANTS
    Browsers = {b1}
    Tabs = {t1}
    Products = {p1}
    Price <- MCPrice
    Zones = {z1}
    ZoneFee <- MCZoneFee
    FreeFrom = 50
    PageFee = 2
    Cap = 2
    NoOne = NoOne
    MaxSessions = 1
    MaxCarts = 1
    MaxItems = 2
    MaxQuantity = 2
    MaxOrders = 1
INVARIANTS
    ChargedAsShown
CHECK_DEADLOCK FALSE
