\* Two requests of one tenant in progress at once, beside the daily job.
SPECIFICATION Spec
CONSTANTS
    t1 = t1
    t2 = t2
    Tenants = {t1}
    NoTenant = NoTenant
    Orders = {1, 2}
    NoOrder = NoOrder
    Handlers = {h1, h2}
    BuyPlans = {"pro"}
    GrantPlans = {}
    HandPlans = {}
    Terms = {1}
    Codes = {c1}
    NoCode = NoCode
    MaxUses = 1
    EarlySeats = 1
    MonthDays = 1
    RefundDays = 1
    MaxReferralMonths = 1
    PartnerTenants = {}
    PartnerMonths = 1
    Referrer <- MCAlone
    TrialEndsAt <- MCTrialEndsAt
    TargetLimit <- MCNoTargets
    MaxTime = 2
    MaxCrashes = 1
    MaxJobCrashes = 1
INVARIANTS
    PromoUsesCounted
    SettledPlan
SYMMETRY MCSymmetry
CHECK_DEADLOCK FALSE
