\* Requests one at a time beside the daily job; the page orders are made on; and readings of a site.
SPECIFICATION MCSpec
CONSTANTS
    t1 = t1
    t2 = t2
    Tenants = {t1, t2}
    NoTenant = NoTenant
    Orders = {1, 2, 3}
    NoOrder = NoOrder
    Handlers = {h1}
    BuyPlans = {"pro"}
    GrantPlans = {}
    HandPlans = {}
    Terms = {1}
    Codes = {c1}
    NoCode = NoCode
    MaxUses = 1
    EarlySeats = 1
    MonthDays = 1
    RefundDays = 1
    MaxReferralMonths = 2
    PartnerTenants = {t1}
    PartnerMonths = 1
    Referrer <- MCReferrer
    TrialEndsAt <- MCTrialEndsAt
    TargetLimit <- MCNoTargets
    MaxTime = 2
    MaxCrashes = 1
    MaxJobCrashes = 0
    Plans = {"pro", "team"}
    Lengths = {1, 12}
    Price <- MCPrice
    EarlyPrice <- MCEarlyPrice
    Offers = {"long", "short", "team20"}
    Offer <- MCOffer
    MaxDay = 1
    MaxRequests = 2
    Chatters = {"writer"}
    Visitors = {"visitor"}
    Members = {"member"}
    Updates = {u1, u2}
    Sites = {"shop", "myshop"}
    Described = {}
    Containing <- MCContaining
    DayLimit = 2
    MonthLimit = 1
    MaxChecks = 2
    MaxRows = 2
    LastDay = 1
    none = "none"
INVARIANTS
    PurchaseTypeOK
    PaidPeriodsDisjoint
    RewardedIffPaid
    
    HeardOfReading
PROPERTY
    TrialKept

CHECK_DEADLOCK FALSE
