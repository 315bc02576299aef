SPECIFICATION FairSpec
CONSTANTS
    Parts = {"files", "loop", "reports", "title"}
    RoutingNames = {"LLM_BASE_URL", "LLM_MODEL", "AGENT_BASE_URL", "AGENT_MODEL", "VLM_MODEL", "RERANK_URL"}
    LimitNames = {"AGENT_RESEARCH_SECONDS", "AGENT_TOTAL_SECONDS"}
    Off = ""
    Servers = {"u1", "u2", "h1"}
    WebServers = {"u1", "u2"}
    ServerModels = {"m1", "m2", "rerank"}
    LimitRanges <- UpToSix
    LimitDefaults <- OneAndTwo
    StaleRun = 2
    Admins = {"a1"}
    SettingsAtFirst <- TwoSettings
    ServerPuts <- RoutingSaves
    LimitPuts <- LimitSaves
    MaxSaves = 0
    MaxClock = 0
    MaxAnswerRuns = 0
    MaxChanges = 0
    Pupils = {"ann"}
    Pages = {"t1"}
    Posts = {"c1"}
    StaleReport = 1
    MaxReports = 2
    None = None
    Uploads = {"u1", "u2"}
    Parsers = {"p1"}
    FirstUpload = "u1"
    MaxGeneration = 1
    LoadGates <- ChatThenGpu
    GateLoads <- SampledLoads
    LowMark <- LowMarks
    HighMark <- HighMarks
    Window = 2
    WorkerConfigs = {"c1", "c2", "bad"}
    BrokenConfigs = {"bad"}
    MaxJobs = 1
    MaxArrivals = 1
    MaxCrashes = 1
    Asks = {"q1", "q2"}
    Wordless = {"q2"}
    ChatTabs = {"t1", "t2"}
    Renamers = {"r1", "r2"}
    TypedNames = {"a", "  "}
    MaxRenames = 1
INVARIANTS
    GatesAndTitlesHold
PROPERTIES
    StepsKeepTheirWord
    WorkArrives
    WaitsEnd
CHECK_DEADLOCK FALSE
