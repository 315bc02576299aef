------------------------------ MODULE MCPlatform ------------------------------
(* What goes on around the answers, for TLC: the settings of the platform, the   *)
(* numbers and the reports of a class, the files of a document, the tick of the  *)
(* worker and the title of a conversation. part is the machine that moves, the   *)
(* others stand still, and fairness is asked of the one that moves.              *)
EXTENDS TLC, Naturals, Sequences

CONSTANTS
    Parts,              \* the machines of the run
    \* of Settings
    RoutingNames, LimitNames, Off, Servers, WebServers, ServerModels, LimitRanges, LimitDefaults, StaleRun,
    Admins, SettingsAtFirst, ServerPuts, LimitPuts, MaxSaves, MaxClock, MaxAnswerRuns, MaxChanges,
    \* of Reports
    Pupils, Pages, Posts, StaleReport, MaxReports,
    \* of StagedFiles
    None, Uploads, Parsers, FirstUpload, MaxGeneration,
    \* of WorkerLoop
    LoadGates, GateLoads, LowMark, HighMark, Window, WorkerConfigs, BrokenConfigs, MaxJobs,
    MaxArrivals, MaxCrashes,
    \* of Titles
    Asks, Wordless, ChatTabs, Renamers, TypedNames, MaxRenames

VARIABLES
    part,
    table, saving, saves, given, served, probe, shown, changes, clock, runs,
    messages, asked, cited, usage, members, labs, today,
    reports, tasks, listed, page, calls,
    life, generation, row, ledger, passed, file, at, seen, reads, holder, cleanup, overruns,
    load, samples, open, config, known, tick, job, waiting, arrivals, crashes,
    session, test, title, answers, task, rename, renames

settingVars == <<table, saving, saves, given, served, probe, shown, changes, clock, runs>>
classVars   == <<messages, asked, cited, usage, members, labs, today>>
reportVars  == <<reports, tasks, listed, page, calls>>
fileVars    == <<life, generation, row, ledger, passed, file, at, seen, reads, holder, cleanup, overruns>>
loopVars    == <<load, samples, open, config, known, tick, job, waiting, arrivals, crashes>>
titleVars   == <<session, test, title, answers, task, rename, renames>>
vars == <<part, settingVars, classVars, reportVars, fileVars, loopVars, titleVars>>

Settings == INSTANCE Settings WITH
    RoutingKeys <- RoutingNames, LimitKeys <- LimitNames, Urls <- Servers, WebUrls <- WebServers,
    Models <- ServerModels,
    Ranges <- LimitRanges, Defaults <- LimitDefaults, StaleAfter <- StaleRun,
    Firsts <- SettingsAtFirst, Puts <- ServerPuts \cup LimitPuts, MaxRuns <- MaxAnswerRuns

\* Two conversations of one lab, one of another lab and a test drive; an answer,
\* and one the budget cut short. A page is a file and a number.
ClassChats == [a |-> [user |-> "ann", lab |-> "l1", test |-> FALSE],
               b |-> [user |-> "bob", lab |-> "l1", test |-> FALSE],
               c |-> [user |-> "ann", lab |-> "l2", test |-> FALSE],
               t |-> [user |-> "tea", lab |-> "l1", test |-> TRUE]]
RunOutcomes == {[stop |-> "finished", pages |-> {<<"f", 1>>}],
                [stop |-> "budget_exhausted", pages |-> {<<"f", 2>>, <<"g", 1>>}]}
Class == INSTANCE Analytics WITH
    Students <- {"ann", "bob"}, Labs <- {"l1", "l2"}, Chats <- ClassChats,
    LabFiles <- {"f", "g", "h"}, Modes <- {"research"}, Outcomes <- RunOutcomes,
    Days <- 2, MaxRuns <- 2, runs <- asked

Reports == INSTANCE Reports WITH
    Subjects <- Pupils, Tabs <- Pages, Calls <- Posts, StaleAfter <- StaleReport, asked <- listed

Files == INSTANCE StagedFiles WITH
    Parses <- Parsers, First <- FirstUpload, Twins <- {}, MaxOverruns <- 0

Loop == INSTANCE WorkerLoop WITH
    Gates <- LoadGates, Loads <- GateLoads, Start <- LowMark, Stop <- HighMark,
    Configs <- WorkerConfigs, Broken <- BrokenConfigs, at <- tick

Titles == INSTANCE Titles WITH
    Requests <- Asks, Tabs <- ChatTabs, Renames <- Renamers, Names <- TypedNames

ASSUME SettingsAssumption == Settings!SettingConstants
ASSUME Class!AnalyticsConstants
ASSUME ReportsAssumption == Reports!ReportConstants
ASSUME FilesAssumption == Files!StagedAssumption
ASSUME LoopAssumption == Loop!LoopConstants
ASSUME TitlesAssumption == Titles!TitleConstants

-----------------------------------------------------------------------------
(* The values of constants that a .cfg cannot write                        *)

\* One server for everything, no limit set; and long runs.
OneServer == [LLM_BASE_URL |-> "u1", LLM_MODEL |-> "m1", AGENT_BASE_URL |-> "", AGENT_MODEL |-> "",
              VLM_MODEL |-> "", RERANK_URL |-> "", AGENT_RESEARCH_SECONDS |-> 0, AGENT_TOTAL_SECONDS |-> 0]
LongRuns == [OneServer EXCEPT !.AGENT_TOTAL_SECONDS = 6, !.AGENT_RESEARCH_SECONDS = 6]
TwoSettings == {OneServer, LongRuns}

\* The main model, with a reranker whose URL has no scheme; a server of its own
\* for the agent; and the other slots on and off.
RoutingSaves == {"LLM_BASE_URL" :> "u2" @@ "LLM_MODEL" :> "m2" @@ "RERANK_URL" :> "h1",
                 "AGENT_BASE_URL" :> "u2" @@ "AGENT_MODEL" :> "m2" @@ "VLM_MODEL" :> "m1",
                 "RERANK_URL" :> "u1" @@ "VLM_MODEL" :> ""}
LimitSaves == {"AGENT_TOTAL_SECONDS" :> 6, "AGENT_TOTAL_SECONDS" :> 1, "AGENT_TOTAL_SECONDS" :> 9,
               "AGENT_RESEARCH_SECONDS" :> 3 @@ "AGENT_TOTAL_SECONDS" :> 0}

\* A unit is five minutes, rounded: 420 s and 300 s by default, at most 1800 s.
UpToSix == [AGENT_RESEARCH_SECONDS |-> 1..6, AGENT_TOTAL_SECONDS |-> 1..6]
OneAndTwo == [AGENT_RESEARCH_SECONDS |-> 1, AGENT_TOTAL_SECONDS |-> 2]

\* Loads below the low watermark, between the two and above the high one.
ChatThenGpu == <<"chat", "gpu">>
SampledLoads == [chat |-> {1, 4, 9}, gpu |-> {10, 90}]
LowMarks == [chat |-> 2, gpu |-> 25]
HighMarks == [chat |-> 6, gpu |-> 60]

-----------------------------------------------------------------------------

\* A machine that does not move starts in one of its states.
Still(name, oneState) == part = name \/ oneState

Init ==
    /\ part \in Parts
    /\ Settings!Init /\ table = IF part = "limits" THEN LongRuns ELSE OneServer
    /\ Class!Init
    /\ Reports!Init /\ Still("reports", listed = {})
    /\ Files!Init
    /\ Loop!Init /\ Still("loop", /\ \A g \in DOMAIN load : \A x \in GateLoads[g] : load[g] <= x
                                  /\ config \notin BrokenConfigs)
    /\ Titles!Init /\ Still("title", ~test /\ title = Titles!Untitled)

\* Bounds: admins who save the servers while the page shows them, or twice the
\* limits while runs work.
Sent(puts) == \A a \in {a \in Admins : saving'[a].at = "save"} : saving'[a].put \in puts
SettingsMove ==
    /\ Settings!Next
    /\ \/ part = "servers" /\ Sent(ServerPuts) /\ UNCHANGED <<clock, runs>>
       \/ part = "limits" /\ Sent(LimitPuts) /\ saves' <= 2 /\ UNCHANGED <<served, probe, shown, changes>>
    /\ UNCHANGED <<part, classVars, reportVars, fileVars, loopVars, titleVars>>
ClassMoves ==
    /\ part = "class" /\ Class!Next
    /\ UNCHANGED <<part, settingVars, reportVars, fileVars, loopVars, titleVars>>
ReportsMove ==
    /\ part = "reports" /\ Reports!Next
    /\ UNCHANGED <<part, settingVars, classVars, fileVars, loopVars, titleVars>>
FilesMove ==
    /\ part = "files" /\ Files!Next
    /\ UNCHANGED <<part, settingVars, classVars, reportVars, loopVars, titleVars>>
LoopMoves ==
    /\ part = "loop" /\ Loop!Next
    /\ UNCHANGED <<part, settingVars, classVars, reportVars, fileVars, titleVars>>
TitleMoves ==
    /\ part = "title" /\ Titles!Next
    /\ UNCHANGED <<part, settingVars, classVars, reportVars, fileVars, loopVars>>

Next == SettingsMove \/ ClassMoves \/ ReportsMove \/ FilesMove \/ LoopMoves \/ TitleMoves

Spec == Init /\ [][Next]_vars

\* As in the modules, of the machine that moves.
Fairness ==
    /\ \A k \in Files!Keys :
        /\ WF_fileVars(part = "files" /\ at[k] # "idle" /\ Files!WriterStep(k))
        /\ WF_fileVars(part = "files" /\ Files!LeasePasses(k))
        /\ WF_fileVars(part = "files" /\ k \in Files!Due /\ Files!Sweep(k) /\ k \notin ledger')
    /\ WF_fileVars(part = "files" /\ Files!RunCleanup)
    /\ WF_loopVars(part = "loop" /\ Loop!Tick)
    /\ WF_reportVars(part = "reports" /\ Reports!Tick)
    /\ \A c \in Posts :
        /\ WF_reportVars(part = "reports" /\ (Reports!Serve(c) \/ Reports!RequestFails(c)))
        /\ WF_reportVars(part = "reports" /\ Reports!Receive(c))
    /\ \A p \in Pages : SF_reportVars(part = "reports" /\ \E c \in Posts : Reports!Poll(c, p))
    /\ \A t \in ChatTabs : WF_titleVars(part = "title" /\ Titles!Works(t))

FairSpec == Spec /\ Fairness

-----------------------------------------------------------------------------
(* What the modules state of their machines                                *)

\* A key holds a value somebody gave it, a run keeps time for its answer, and with
\* the limits left alone no run that works counts as lost (Settings).
SettingsHold ==
    /\ Settings!TypeOK /\ Settings!SavesTouchTheirKeys
    /\ Settings!SearchFitsTheRun /\ Settings!LiveRunsAreKept

\* The page calls a slot off exactly when a new chat does without it or calls it
\* at a URL that is no web address (Settings).
StatusAgreesWithUse == [][Settings!StatusOfUse]_settingVars

\* The pages show with an answer the question it answers, the class is the sum of
\* its labs and of its students, no number comes from a test drive, and files,
\* pages and wrong answers are counted over the same answers (Analytics).
FiguresAgree ==
    part = "class" => /\ Class!TypeOK /\ Class!AnswersKeepTheirQuestion /\ Class!NumbersAddUp
                      /\ Class!TestDrivesDoNotCount /\ Class!CitationsAgree

\* A finished report has its text or the reason why it has none, and a page shows
\* reports of the student it is about (Reports).
ReportsExplain ==
    Reports!TypeOK /\ Reports!FinishedReportsExplain /\ Reports!PagesShowTheirStudent

\* A whole window of loads on one side of its watermarks decides a gate, and a job
\* starts on the settings and gates of its own tick (WorkerLoop); a generated title
\* is about the first exchange (Titles).
GatesAndTitlesHold ==
    /\ Files!TypeOK /\ Reports!TypeOK
    /\ Loop!TypeOK /\ Loop!GatesFollowTheirWindow /\ Loop!JobsStartPrepared
    /\ Titles!TypeOK /\ Titles!TitleOfTheFirstExchange

\* Between its watermarks a gate stays as it is (WorkerLoop); a rename during the
\* model's call is kept (Titles).
StepsKeepTheirWord == [][Loop!BandKeeps /\ Titles!RenameStays]_<<loopVars, titleVars>>

\* A deleted document ends without rows, ledger entries and files (StagedFiles);
\* when the load stays low and the settings can be used, every job is run, and what
\* an admin saves reaches the worker without a restart (WorkerLoop).
WorkArrives ==
    /\ part = "files" => Files!DeletedIsPurged
    /\ part = "loop" => Loop!JobsAreRun /\ Loop!SettingsArrive

\* No page says "writing" for ever (Reports), and a client who stays gets a title
\* (Titles).
WaitsEnd ==
    /\ part = "reports" => Reports!WaitingEnds
    /\ part = "title" => Titles!StayingGetsATitle

=============================================================================
