\* Both channels, the waits in proportion, one handler at a time.
SPECIFICATION FairSpec
CONSTANTS
    Windows = {1}
    Urgent = {}
    Handlers = {h1}
    NoDigest = NoDigest
    ReaderChannels = {"telegram", "email"}
    Messages = 1
    RetryLimit = 2
    HourSeconds = 1800000
    MaxCrashes = 1
PROPERTY EverySettles
CHECK_DEADLOCK FALSE
