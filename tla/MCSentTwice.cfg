\* The hourly tick beside a delivery in progress; nothing dies.
SPECIFICATION Spec
CONSTANTS
    Windows = {1}
    Urgent = {}
    Handlers = {h1}
    NoDigest = NoDigest
    ReaderChannels = {"telegram"}
    Messages = 1
    RetryLimit = 2
    HourSeconds = 10000000
    MaxCrashes = 0
PROPERTY NotSentAgain
CHECK_DEADLOCK FALSE
