SPECIFICATION Spec
CONSTANTS
    c1 = c1
    Orders = {o1}
    Carts = {c1}
    Sellers = {s1}
    CartOf <- MCCartOf
    SellersOf <- MCSellersOf
    Hooks = {h1}
    Sweeps = {w1}
    NoOrder = NoOrder
INVARIANTS
    CapturedIsPaid
CHECK_DEADLOCK FALSE
