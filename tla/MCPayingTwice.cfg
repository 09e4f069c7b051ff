\* Two payments of one tenant applied at once.
SPECIFICATION Spec
CONSTANTS
    t1 = t1
    t2 = t2
    Tenants = {t1}
    NoTenant = NoTenant
    Orders = {1, 2}
    NoOrder = NoOrder
    Handlers = {h1, h2}
    BuyPlans = {"pro"}
    GrantPlans = {}
    HandPlans = {}
    Terms = {1}
    Codes = {c1}
    NoCode = NoCode
    MaxUses = 1
    EarlySeats = 1
    MonthDays = 1
    RefundDays = 1
    MaxReferralMonths = 1
    PartnerTenants = {}
    PartnerMonths = 1
    Referrer <- MCAlone
    TrialEndsAt <- MCTrialEndsAt
    TargetLimit <- MCNoTargets
    MaxTime = 2
    MaxCrashes = 1
    MaxJobCrashes = 0
INVARIANT PaidPeriodsDisjoint
CHECK_DEADLOCK FALSE
