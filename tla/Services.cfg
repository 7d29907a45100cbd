SPECIFICATION ServicesSpec
CONSTANTS
    a1 = a1
    a2 = a2
    s1 = s1
    HookAgents = {a1, a2}
    Sources = {s1}
    Handlers = {h1, h2}
    TriggerLists <- MCLists
    Window = 2
    MaxStall = 1
    ChannelCap = 1
    StateRuns = {r1, r2}
    StateKeys = {k1, k2}
    ValueSizes = {1, 2}
    Ttls = {"parsed"}
    MaxKeys = 2
    MaxValueSize = 2
    MaxTotalSize = 4
    Subscribers = {"a1", "a2"}
    Target = "a1"
    EventRuns = {r1, r2}
    ConsumeBound = 2
    NotifyAgents = {a1, a2}
    Notifiers = {n1, n2}
    Channels <- MCChannels
    Hour = 1
    MaxPerHour = 1
    ChannelTypes <- MCChannelTypes
    TeamRuns = {r1, r2, r3}
    MaxConcurrentRuns = 2
    MaxRunsPerDay = 3
    MaxTokenBudget = 2
    RunTokens = 1
    ApiRequests = {q1, q2}
    ApiTokens <- MCTokens
    Logins = {l1, l2}
    Callbacks = {c1, c2}
    Requests = {q1}
    ViewAgents = {a1, a2}
    AnyAgent = AnyAgent
    ApiLimit = 2
    CliLimit = 1
    OverviewLimit = 3
    MaxStored = 3
    WaitRuns = {r1}
    Horizon = 6
    MaxPolls = 2
    CredNames = {"github-pat", "c2"}
    CredSpecs <- MCCredSpecs
    SshHosts = {"h1", "h2"}
    SudoHosts = {"h1"}
    SshCommands <- MCCommands
    MaxRows = 3
    MaxBytes = 5
    RowSizes = {1, 4}
    ToolNames <- MCToolNames
    MaxRetries = 2
    MaxTurns = 2
    MaxCalls = 2
    KeepPairs = 1
    SkillSources = {"oci", "git", "cm", "builtin"}
    SourceKind <- MCSourceKind
    Versions = {1, 2, 3}
    Contents <- MCContents
    Loads = {l1}
    CacheTtl = 1
INVARIANTS
    AllWithinLimit MoreGroupsMorePermissions ReportsALaterRun
     ResultTellsWhatRan  LoadedSkillsSound ServicesInv
PROPERTIES
    StateIsMap NoWriterUndone DebouncedSends 
    AdmittedBelowQuota  TriggerKeepsSpec 
CHECK_DEADLOCK FALSE
