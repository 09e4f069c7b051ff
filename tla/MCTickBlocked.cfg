\* Waits in the hours the queue really counts; nothing dies.
SPECIFICATION Spec
CONSTANTS
    Windows = {1}
    Urgent = {}
    Handlers = {h1}
    NoDigest = NoDigest
    ReaderChannels = {"telegram"}
    Messages = 1
    RetryLimit = 2
    HourSeconds = 3600
    MaxCrashes = 0
PROPERTY PickedUpByTick
CHECK_DEADLOCK FALSE
