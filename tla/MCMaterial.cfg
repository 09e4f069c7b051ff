SPECIFICATION MCSpec
CONSTANTS
    Pages = {p}
    Boards = {b}
    Texts = {t1, t2, t3}
    Postings = {j1, j2}
    FailuresBeforeBroken = 2
    MaxVersions = 2
    MaxPolls = 3
    Own = {o}
    Market = {m, n}
    Rank <- MCRank
    HourLength = 2
    MonthLength = 4
    FirstRunSpan = 1
    MaxWindow = 2
    MarketSectionLimit = 1
    Start = 3
    MaxMoment = 6
    Changes = {e1, e2, e3}
    Language <- MCLanguage
    Priority <- MCPriority
    Drafters = {d1, d2}
    Presses = {h1, h2}
    DailyDraftLimit = 1
    WeekLength = 1
    MaxRadarDay = 2
    Callers = {h1, h2}
    Cap = 1
    MaxPrice = 1
    MaxMidnights = 1
    MaxSpent = 6
    News = {n1, n2}
    KindIn <- MCKindIn
    About <- MCAbout
    Watched = {w}
    DaysInMonth = 2
    SilenceDays = 1
    MaxTopEvents = 1
    MaxLag = 2
    LastDay = 4
    Inputs = {"acme", "zeta", "we sell"}
    Hosts = {"acme", "acme.io", "zeta", "zeta.help"}
    Web <- MCWeb
    Outages <- MCOutages
    Answers <- MCAnswers
    TargetConcurrency = 2
    FeedPaths <- MCFeedPaths
    ChangelogPaths <- MCChangelogPaths
    PricingPaths <- MCPricingPaths
    CareersPaths <- MCCareersPaths
    StatusPaths <- MCStatusPaths
    InternalPaths = {"/pricing"}
    nowhere = "nowhere"
INVARIANTS MaterialTypeOK  ShownOnce NoneForgotten PostedOnce   OneStory 
 
SYMMETRY MCSymmetry
CHECK_DEADLOCK FALSE
