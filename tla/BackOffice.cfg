SPECIFICATION BackOfficeSpec
CONSTANTS
    c1 = c1
    Orders = {o1, o2}
    Carts = {c1}
    Sellers = {s1, s2}
    CartOf <- MCCartOf
    SellersOf <- MCSellersOf
    Hooks = {a1, a2}
    Sweeps = {w1, w2}
    NoOrder = NoOrder
    d1 = d1  d2 = d2  d3 = d3
    p1 = p1  p2 = p2  p3 = p3  p4 = p4
    b1 = b1  b2 = b2  s1 = s1
    FundOrders = {o1}
    Contribution <- MCContribution
    Disputes = {d1, d2, d3}
    BuyerOf <- MCBuyerOf
    SellerOf <- MCSellerOf
    Payouts = {p1, p2, p3, p4}
    DisputeOf <- MCDisputeOf
    Amount <- MCAmount
    Total <- MCTotal
    Admins = {a1, a2}
    TopUps = {t1}
    InitialBalance = 3
    MaxPerIncident = 2
    MaxPerBuyerYear = 3
    MaxPerSellerYear = 1
    Year = 1
    MaxNow = 3
    Never = Never
    Nobody = Nobody
    Buyers = {u1}
    Period = 1
    Interval = 1
    Margin = 2
    Lag = 1
    Late = 1
    MaxTime = 3
    MaxOrders = 2
    Subjects = {driver}
    RuleOf <- MCRuleOf
    Threshold <- MCThreshold
    Scanners = {w1, w2}
    Desks = {a1, a2}
    Resolutions = {WARNING_ISSUED, RESTORED}
    None = None
    MaxEvidence = 1
    MaxCases = 3
    MaxNotes = 1
    MaxFaults = 1
INVARIANTS
    RowsAgree
    CardPaidMeansCaptured
    AckedIsAccounted
    FundSound
    YearCapsHold
    NobodySkipped
    OpenCasesBounded
PROPERTIES
    ImplementsOutcome
    ResolutionStands
SYMMETRY MCSymmetry
CHECK_DEADLOCK FALSE
