\* The report of a month is made between two regular digests.
SPECIFICATION DigestsSpec
CONSTANTS
    Own = {o}
    Market = {m}
    Rank <- MCRank
    HourLength = 1
    MonthLength = 4
    FirstRunSpan = 1
    MaxWindow = 3
    MarketSectionLimit = 1
    Start = 3
    MaxMoment = 6
INVARIANT StartsAtLastRegularEnd
CHECK_DEADLOCK FALSE
