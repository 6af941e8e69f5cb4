SPECIFICATION StoresSpec
CONSTANTS
    Msgs <- MCMsgs
    Envelope <- MCEnvelope
    RestMsgs <- MCRestMsgs
    Scenarios <- MCScenarios
    PollRoot <- MCPollRoot
    PollDay <- MCPollDay
    AnySetRoot = "open"
    FirstRoots = {"r1"}
    NewRoots = {"r2"}
    DayLength = 3
    Skew = 1
    DefaultTtl = 2
    MaxTtl = 3
    MaxEntries = 3
    RetainNamed = 2
    RetainDaily = 2
    RetainAnon = 2
    PendingPerKey = 1
    PendingTotal = 2
    PendingTtl = 1
    Burst = 1
    DailyCap = 2
    ReceiptCap = 2
    MaxTime = 3
    MaxTmailCrashes = 1
    Wallet = {"m","a","b","c"}
    Moderator = "m"
    Joined = {"m","a","b"}
    ModInvites = 2
    Vouches = 2
    SuspendTime = 1
    AppealTime = 1
    RecordSkew = 0
    AnonMin = 2
    Nicknames = {"x"}
    MaxRoots = 2
    StartLog <- MCLog
    KeyHolders = {"c"}
    MaxRecords = 6
    MaxShelterTime = 2
    FileEnvelope <- MCFiles
    FileCalls = {"u1","u2"}
    MaxBody = 3
    NetworkBody = 2
    MaxTotal = 4
    MaxFiles = 1
    FileTtl = 1
    MaxFileTime = 2
    Site = {"s1","s2"}
    Body = {"x","y"}
    BodySize <- MCBodySize
    SiteMaxBytes = 3
    SiteMaxEdits = 2
    MaxSites = 3
    SitesTotalCap = 4
    SiteTtl = 1
    EditSkew = 1
    PruneGap = 0
    Lister = {"a"}
    ListDay = 2
    ListCap = 1
    Mark = {"r1","r2","r3"}
    MarkSigner <- MCSigner
    MarkFile <- MCFile
    MarksPerSigner = 1
    MarksCap = 3
    SearchMax = 1
    MaxHeight = 2
    Hideable = {"s1"}
    MaxRecTime = 3
    MaxEditing = 1
    MaxSigCalls = 2
    MaxRecCrashes = 1
    MaxStamps = 2
INVARIANTS  AnonymousGate ShelterRules  RecordsSound
PROPERTIES BoardKeeps OneRecordOneChange
CHECK_DEADLOCK FALSE
