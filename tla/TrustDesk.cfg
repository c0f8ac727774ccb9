SPECIFICATION TrustDeskSpec
CONSTANTS
    o1 = o1
    Orders = {o1}
    Holds = {h1, h2}
    Disputes = {k1, k2}
    OrderOf <- MCOrderOf
    Couriers = {}
    Devs = {}
    Releasers = {}
    Tabs = {t1, t2}
    Admins = {a1, a2}
    Watchers = {w1}
    Window = 1
    CodeTTL = 1
    TxTimeout = 0
    Sla = 0
    MaxAttempts = 1
    MaxNow = 1
    Never = Never
    Nobody = Nobody
    b1 = b1
    Users = {u1, u2}
    Slugs = {s1}
    Browsers = {b1}
    SignedIn <- MCSignedIn
    Wizards = {t1, t2}
    BrowserOf <- MCBrowserOf
    Applications = {k1, k2}
    Reviewers = {a1, a2}
    Uploads = {x1}
    Missing = Missing
    s3 = s3
    Products = {1, 2, 3}
    ProductSlugs = {u1, u2, s3}
    Contents = {y1}
    Keys = {1, 2, 3}
    Cap = 1
    SellerTabs = {t1, t2}
    Moderators = {a1, a2}
    NoKey = NoKey
INVARIANTS
    DisputeFreezes
    FrozenIsListed
    SellerHasItsApplication
    StandingIsBacked
    DocumentsAreStored
    ImagesAreStored
    ListingsNearCap
PROPERTIES
    DecidedForGood
    LiveIsFrozen
    RejectionStands
SYMMETRY MCSymmetry
CHECK_DEADLOCK FALSE
