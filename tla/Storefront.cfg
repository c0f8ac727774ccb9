SPECIFICATION StorefrontSpec
CONSTANTS
    Browsers = {b1, b2}
    Tabs = {t1, t2}
    Products = {p1}
    Price <- MCPrice
    Zones = {z1}
    ZoneFee <- MCZoneFee
    FreeFrom = 50
    PageFee = 2
    Cap = 2
    NoOne = NoOne
    MaxSessions = 2
    MaxCarts = 3
    MaxItems = 3
    MaxQuantity = 2
    MaxOrders = 1
    g1 = g1
    g2 = g2
    g3 = g3
    s1 = s1
    s2 = s2
    c1 = c1
    c2 = c2
    rice = rice
    Goods <- MCGoods
    SellerOf <- MCSellerOf
    CategoryOf <- MCCategoryOf
    Box <- MCBox
    Rating <- MCRating
    PriceOf <- MCPriceOf
    Featured <- MCFeatured
    Created <- MCCreated
    Queries = {rice}
    NoQuery = NoQuery
    Rank <- MCRank
    AllSellers = {s1, s2}
    Tiers = {1, 2}
    Conditions = {"NEW", "USED_GOOD"}
    Authenticities = {"PROOF_PROVIDED", "CLAIMED"}
    Sorts = {"best", "price-asc"}
    Everywhere = Everywhere
    PerPage = 2
    People = {a1, a2}
    Emails = {e1, e2}
    Visits = {v1, v2}
    Guest = Guest
    MaxVisits = 3
    MaxChanges = 1
    Submissions = {d1, d2}
    NoKey = NoKey
    Skew = 1
    ProofHorizon = 4
INVARIANTS
    EveryHitOnce
    CountsKeepTheirWord
    OrdersStayApart
    ProofIsGenuine
PROPERTIES
    OthersUntouched
SYMMETRY MCSymmetry
CHECK_DEADLOCK FALSE
