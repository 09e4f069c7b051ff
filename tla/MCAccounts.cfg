SPECIFICATION MCSpec
CONSTANTS
    Mail = {m1, m2}
    Telegrams = {t1, t2}
    Requests = {r1, r2}
    Pendings = {p1}
    Invitations = {i1}
    Addressee <- MCAddressee
    Host = host
    RegistrationOpen = TRUE
    MaxProfiles = 1
    MaxTenants = 1
    none = none
    ProfileIds = {f1, f2}
    Names = {self, n1, n2}
    Selves = {self}
    Writers = {r1, r2}
    TargetLimits = {1, 2}
    ProfileLimit = 2
    MaxVersion = 3
    Entries = {"a", "b", "c"}
    KindOf <- MCKindOf
    PageSize = 1
    Horizon = 1
    MaxDelay = 1
    MaxMoment = 2
    MaxFlights = 3
    Companies = {"a", "b"}
    noCompany = "none"
    News <- MCNews
    MaxNews = 4
    GroupingThreshold = 2
    MarketLimit = 1
    GroupFactsShown = 2
    MaxLines = 2
    Readers = {"p", "q"}
    Chats = {"x"}
    noChat = "none"
    CardsEach = 2
    ReplyWindow = 0
    LinkLife = 0
    LastMoment = 1
    MaxQuestions = 1
    MaxDecisions = 1
INVARIANTS WebTypeOK OneTenant BuiltOnce ChatOfClaimer WithinPlan VersionTellsTruth NothingSkipped ShownAsFiltered EachChangeTold HeardAsSaid
SYMMETRY MCSymmetry
CHECK_DEADLOCK FALSE
