SPECIFICATION Spec
CONSTANTS
    Parts = {"servers", "limits", "class", "reports"}
    RoutingNames = {"LLM_BASE_URL", "LLM_MODEL", "AGENT_BASE_URL", "AGENT_MODEL", "VLM_MODEL", "RERANK_URL"}
    LimitNames = {"AGENT_RESEARCH_SECONDS", "AGENT_TOTAL_SECONDS"}
    Off = ""
    Servers = {"u1", "u2", "h1"}
    WebServers = {"u1", "u2"}
    ServerModels = {"m1", "m2", "rerank"}
    LimitRanges <- UpToSix
    LimitDefaults <- OneAndTwo
    StaleRun = 2
    Admins = {"a1", "a2"}
    SettingsAtFirst <- TwoSettings
    ServerPuts <- RoutingSaves
    LimitPuts <- LimitSaves
    MaxSaves = 3
    MaxClock = 10
    MaxAnswerRuns = 2
    MaxChanges = 2
    Pupils = {"ann", "bob"}
    Pages = {"t1"}
    Posts = {"c1", "c2"}
    StaleReport = 1
    MaxReports = 1
    None = None
    Uploads = {"u1"}
    Parsers = {"p1"}
    FirstUpload = "u1"
    MaxGeneration = 1
    LoadGates <- ChatThenGpu
    GateLoads <- SampledLoads
    LowMark <- LowMarks
    HighMark <- HighMarks
    Window = 2
    WorkerConfigs = {"c1"}
    BrokenConfigs = {}
    MaxJobs = 1
    MaxArrivals = 1
    MaxCrashes = 1
    Asks = {"q1"}
    Wordless = {}
    ChatTabs = {"t1"}
    Renamers = {"r1"}
    TypedNames = {"  "}
    MaxRenames = 1
INVARIANTS
    SettingsHold
    FiguresAgree
    ReportsExplain

    
CHECK_DEADLOCK FALSE
