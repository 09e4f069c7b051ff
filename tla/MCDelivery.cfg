\* A Telegram reader, two handlers, one death of any process; the forms.
SPECIFICATION MCSpec
CONSTANTS
    Windows = {1}
    Urgent = {}
    Handlers = {h1, h2}
    NoDigest = NoDigest
    ReaderChannels = {"telegram"}
    Messages = 2
    RetryLimit = 1
    HourSeconds = 10000000
    MaxCrashes = 1
    Proposed <- MCProposed
    Verified = {"news"}
    NamesTyped = {"Acme"}
    Folded <- MCFolded
    Offered <- MCOffered
    Regions <- MCRegions
    Finds <- MCFinds
    ExtraLimit = 2
    Allowances <- MCAllowances
    MaxEdits = 2
    blank = ""
INVARIANTS TypeOK 
PROPERTY KeepsPromise
SYMMETRY HandlerSymmetry
CHECK_DEADLOCK FALSE
