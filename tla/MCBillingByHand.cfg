\* One tenant with targets, payments granted and plans set by hand.
SPECIFICATION FairSpec
CONSTANTS
    t1 = t1
    t2 = t2
    Tenants = {t1}
    NoTenant = NoTenant
    Orders = {1, 2}
    NoOrder = NoOrder
    Handlers = {h1}
    BuyPlans = {"pro"}
    GrantPlans = {"starter"}
    HandPlans = {"team"}
    Terms = {1}
    Codes = {}
    NoCode = NoCode
    MaxUses = 1
    EarlySeats = 1
    MonthDays = 1
    RefundDays = 1
    MaxReferralMonths = 1
    PartnerTenants = {}
    PartnerMonths = 1
    Referrer <- MCAlone
    TrialEndsAt <- MCTrialEndsAt
    TargetLimit <- MCTargetLimit
    MaxTime = 1
    MaxCrashes = 1
    MaxJobCrashes = 0

    
PROPERTY
    PaymentApplied
CHECK_DEADLOCK FALSE
