SPECIFICATION FundSpec
CONSTANTS
    FundOrders = {o1}
    Contribution <- MCContribution
    Disputes = {}
    BuyerOf <- MCBuyerOf
    SellerOf <- MCSellerOf
    Payouts = {}
    DisputeOf <- MCDisputeOf
    Amount <- MCAmount
    Total <- MCTotal
    Admins = {}
    TopUps = {w1, w2}
    InitialBalance = 0
    MaxPerIncident = 0
    MaxPerBuyerYear = 0
    MaxPerSellerYear = 0
    Year = 1
    MaxNow = 2
    Never = Never
    Nobody = Nobody
INVARIANTS
    CountedOnce
CHECK_DEADLOCK FALSE
