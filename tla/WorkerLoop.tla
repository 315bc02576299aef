------------------------------ MODULE WorkerLoop ------------------------------
(***************************************************************************)
(* The loop of the document worker: run_forever and run_tick               *)
(* (worker/main.py) with the two load gates of worker/gpu_gate.py and the  *)
(* settings the worker reloads at every tick. Students chat, the GPU is    *)
(* used, jobs arrive and an admin changes the settings between any two     *)
(* steps of a tick. What a job does is in IngestionWorker; here it is one  *)
(* that waits, runs and ends, or is lost with the process.                 *)
(***************************************************************************)
EXTENDS Naturals, SequencesExt

CONSTANTS
    Gates,              \* the chat gate and the GPU gate, in this order
    Loads,              \* of each gate: bound: the loads that are sampled
    Start, Stop,        \* of each gate: the low and the high watermark
    Window,             \* samples that are averaged
    Configs,            \* settings an admin may save
    Broken,             \* the ones the clients cannot be built from
    MaxJobs,            \* bound: jobs waiting of each kind
    MaxArrivals,        \* bound: jobs and changes of settings
    MaxCrashes          \* bound: lost processes

Kinds == <<"parse", "index">>       \* in the order run_tick asks for them

\* Assumed of the constants wherever the module is instantiated.
LoopConstants ==
    /\ Len(Gates) = 2 /\ Gates \in Seq(Range(Gates)) /\ Gates[1] # Gates[2]
    /\ Range(Gates) \cap {"settings", "work", "working", "asleep", "down"} = {}
    /\ Window \in Nat \ {0} /\ Broken \subseteq Configs
    /\ \A g \in Range(Gates) : Loads[g] \subseteq Nat /\ Start[g] \in Nat /\ Stop[g] \in Nat /\ Start[g] <= Stop[g]
    /\ MaxJobs \in Nat /\ MaxArrivals \in Nat /\ MaxCrashes \in Nat

VARIABLES
    load,       \* what each gate would measure now
    samples, open,      \* of each gate
    config,     \* the saved settings
    known,      \* the settings the clients were built from, and the clients
    at, job,    \* where the tick stands; the kind of the job that runs
    waiting,    \* jobs of each kind
    arrivals, crashes

world == <<load, config, waiting>>
gates == <<samples, open>>
vars == <<world, gates, known, at, job, arrivals, crashes>>

NoConfig == "none"
NoJob == "none"
NothingKnown == [config |-> NoConfig, clients |-> NoConfig]

Init ==
    /\ load \in [Range(Gates) -> UNION {Loads[g] : g \in Range(Gates)}]
    /\ \A g \in Range(Gates) : load[g] \in Loads[g]
    /\ samples = [g \in Range(Gates) |-> <<>>] /\ open = [g \in Range(Gates) |-> FALSE]
    /\ config \in Configs /\ known = NothingKnown
    /\ at = "settings" /\ job = NoJob
    /\ waiting = [k \in Range(Kinds) |-> 0]
    /\ arrivals = 0 /\ crashes = 0

-----------------------------------------------------------------------------
(* Around the worker                                                       *)

LoadChanges(g, x) ==
    /\ x \in Loads[g] \ {load[g]}
    /\ load' = [load EXCEPT ![g] = x]
    /\ UNCHANGED <<config, waiting, gates, known, at, job, arrivals, crashes>>

JobArrives(k) ==
    /\ waiting[k] < MaxJobs /\ arrivals < MaxArrivals
    /\ waiting' = [waiting EXCEPT ![k] = @ + 1] /\ arrivals' = arrivals + 1
    /\ UNCHANGED <<load, config, gates, known, at, job, crashes>>

\* update_llm_config.
SaveSettings(c) ==
    /\ c # config /\ arrivals < MaxArrivals
    /\ config' = c /\ arrivals' = arrivals + 1
    /\ UNCHANGED <<load, waiting, gates, known, at, job, crashes>>

-----------------------------------------------------------------------------
(* One tick                                                                *)

\* The process ends: what it kept in memory is gone, a job it ran waits again.
Dies ==
    /\ at' = "down" /\ known' = NothingKnown /\ job' = NoJob
    /\ samples' = [g \in Range(Gates) |-> <<>>] /\ open' = [g \in Range(Gates) |-> FALSE]
    /\ waiting' = IF job = NoJob THEN waiting ELSE [waiting EXCEPT ![job] = @ + 1]
    /\ UNCHANGED <<load, config, arrivals>>

\* Mutant: the clients are built once.
BuiltOnce ==
    IF known.config = NoConfig THEN [config |-> config, clients |-> config]
    ELSE [known EXCEPT !.config = config]

\* make_fn_builder: built again only for other settings.
Built == IF known.config = config THEN known ELSE [config |-> config, clients |-> config]

LoadSettings ==
    /\ at = "settings"
    /\ known.config = config \/ config \notin Broken
    /\ known' = Built /\ at' = Head(Gates)
    /\ UNCHANGED <<world, gates, job, arrivals, crashes>>

\* Nothing catches what _build_worker_fns raises: the process ends.
BuildFails ==
    /\ at = "settings" /\ known.config # config /\ config \in Broken
    /\ Dies /\ UNCHANGED crashes

\* Mutant: never closes again.
StaysOpen(g, window) == open[g] \/ FoldSeq(+, 0, window) < Start[g] * Len(window)

\* Mutant: one watermark.
OneMark(g, window) == FoldSeq(+, 0, window) < Start[g] * Len(window)

\* should_run and observe: the average of the window against two watermarks.
Opens(g, window) ==
    LET sum == FoldSeq(+, 0, window)
    IN IF open[g] THEN sum <= Stop[g] * Len(window) ELSE sum < Start[g] * Len(window)

\* A deque of the last samples.
Sampled(g) == LET all == Append(samples[g], load[g])
              IN IF Len(all) > Window THEN Tail(all) ELSE all

After(g) == IF g = Last(Gates) THEN "work" ELSE Gates[2]

\* Mutant: a closed gate is not obeyed.
ObservedOnly(g) ==
    /\ at = g
    /\ samples' = [samples EXCEPT ![g] = Sampled(g)]
    /\ open' = [open EXCEPT ![g] = Opens(g, Sampled(g))]
    /\ at' = After(g)
    /\ UNCHANGED <<world, known, job, arrivals, crashes>>

\* A closed gate ends the tick: the next gate takes no sample.
Observe(g) ==
    /\ at = g
    /\ samples' = [samples EXCEPT ![g] = Sampled(g)]
    /\ open' = [open EXCEPT ![g] = Opens(g, Sampled(g))]
    /\ at' = IF open'[g] THEN After(g) ELSE "asleep"
    /\ UNCHANGED <<world, known, job, arrivals, crashes>>

\* Mutant: the tick ends when no parse job waits.
ParseOnly(k) ==
    /\ at = "work" /\ waiting[k] > 0 /\ k = "parse"
    /\ at' = "working" /\ job' = k /\ waiting' = [waiting EXCEPT ![k] = @ - 1]
    /\ UNCHANGED <<load, config, gates, known, arrivals, crashes>>

\* A parse job, else an index job.
StartJob(k) ==
    /\ at = "work" /\ waiting[k] > 0
    /\ k = "index" => waiting["parse"] = 0
    /\ at' = "working" /\ job' = k /\ waiting' = [waiting EXCEPT ![k] = @ - 1]
    /\ UNCHANGED <<load, config, gates, known, arrivals, crashes>>

EndJob ==
    /\ at = "working" /\ at' = "settings" /\ job' = NoJob
    /\ UNCHANGED <<world, gates, known, arrivals, crashes>>

\* Nothing to do: the sweep, then the idle sleep.
Sweep ==
    /\ at = "work" /\ \A k \in Range(Kinds) : waiting[k] = 0
    /\ at' = "asleep"
    /\ UNCHANGED <<world, gates, known, job, arrivals, crashes>>

Wake ==
    /\ at = "asleep" /\ at' = "settings"
    /\ UNCHANGED <<world, gates, known, job, arrivals, crashes>>

Crash ==
    /\ at # "down" /\ crashes < MaxCrashes
    /\ Dies /\ crashes' = crashes + 1

\* The container is started again (restart: unless-stopped).
Restart ==
    /\ at = "down" /\ at' = "settings"
    /\ UNCHANGED <<world, gates, known, job, arrivals, crashes>>

Tick == \/ LoadSettings \/ BuildFails \/ EndJob \/ Sweep \/ Wake \/ Restart
        \/ \E g \in Range(Gates) : Observe(g)
        \/ \E k \in Range(Kinds) : StartJob(k)

Next == \/ Tick \/ Crash
        \/ \E g \in Range(Gates) : \E x \in Loads[g] : LoadChanges(g, x)
        \/ \E k \in Range(Kinds) : JobArrives(k)
        \/ \E c \in Configs : SaveSettings(c)

\* The process goes on with its tick and is started again when it ends.
Spec == Init /\ [][Next]_vars /\ WF_vars(Tick)

-----------------------------------------------------------------------------
(* Properties                                                              *)

TypeOK ==
    /\ \A g \in Range(Gates) : /\ load[g] \in Loads[g] /\ open[g] \in BOOLEAN
                               /\ samples[g] \in Seq(Loads[g]) /\ Len(samples[g]) <= Window
    /\ config \in Configs /\ known \in [config : Configs \cup {NoConfig}, clients : Configs \cup {NoConfig}]
    /\ at \in {"settings", "work", "working", "asleep", "down"} \cup Range(Gates)
    /\ job \in Range(Kinds) \cup {NoJob} /\ waiting \in [Range(Kinds) -> Nat]

\* Whatever the gate did before, a whole window above the high watermark keeps
\* it closed and a whole window below the low one keeps it open: one burst or
\* one quiet moment decides nothing for longer than the window.
GatesFollowTheirWindow ==
    \A g \in Range(Gates) : Len(samples[g]) = Window =>
        /\ (\A i \in 1..Window : samples[g][i] > Stop[g]) => ~open[g]
        /\ (\A i \in 1..Window : samples[g][i] < Start[g]) => open[g]

BandKeeps ==
    at' # "down" => \A g \in Range(Gates) :
     /\ open[g] /\ ~open'[g] => \E i \in DOMAIN samples'[g] : samples'[g][i] > Stop[g]
     /\ ~open[g] /\ open'[g] => \E i \in DOMAIN samples'[g] : samples'[g][i] < Start[g]

\* Between the watermarks nothing is decided: a gate closes only when its window
\* holds a sample above the high watermark, and opens only when it holds one
\* below the low watermark, so a load that moves between the two never flaps it.
BandKeepsTheGate == [][BandKeeps]_vars

\* A job starts only while both gates are open, with clients built from the
\* settings its own tick read, however they changed since the clients were made.
JobsStartPrepared ==
    at = "working" => (\A g \in Range(Gates) : open[g]) /\ known.clients = known.config

\* When the load stays low and the saved settings can be used, every job is run.
Quiet == \A g \in Range(Gates) : load[g] < Start[g]
Usable == config \notin Broken
JobsAreRun == <>[](Quiet /\ Usable) => []<>(\A k \in Range(Kinds) : waiting[k] = 0)

\* What an admin saves reaches the worker without a restart, gates closed or not.
SettingsArrive == \A c \in Configs \ Broken : <>[](config = c) => <>[](known.clients \in {c, NoConfig} /\ (at = "working" => known.clients = c))

=============================================================================
