------------------------------- MODULE Settings -------------------------------
(***************************************************************************)
(* The settings an admin saves (update_llm_config of routers/admin.py) and *)
(* what is made of them: the endpoint of each role (model_routing.py), the *)
(* state of its server on the admin page (model_servers.py) and the limits *)
(* of a research run (ResearchLimits of research_service.py) with the age  *)
(* at which the run counts as lost. Saves interleave with each other, with *)
(* the probes and with the runs of one conversation.                       *)
(***************************************************************************)
EXTENDS Integers, FiniteSets, SequencesExt

CONSTANTS
    RoutingKeys, LimitKeys,     \* the keys that are modelled
    Firsts,                     \* the settings at first, one of them
    Puts,                       \* what an admin may send: values of some keys
    Urls, Models,
    WebUrls,                    \* the URLs with an http(s) scheme and a host
    Off,                        \* the empty value of a key
    Ranges, Defaults,           \* of each limit; in units of time
    StaleAfter,                 \* STALE_RUN_SECONDS
    Admins,                     \* bound: saves at one time
    MaxSaves, MaxClock, MaxRuns, MaxChanges     \* bounds: saves, time, runs, changes of servers

Keys == RoutingKeys \cup LimitKeys
Slots == {"llm", "agent", "vlm", "rerank"}

\* Assumed of the constants wherever the module is instantiated.
SettingConstants ==
    /\ {"AGENT_RESEARCH_SECONDS", "AGENT_TOTAL_SECONDS"} \subseteq LimitKeys
    /\ RoutingKeys \cap LimitKeys = {} /\ Off \notin Urls \cup Models /\ WebUrls \subseteq Urls /\ "rerank" \in Models
    /\ \A k \in LimitKeys : Ranges[k] \subseteq Nat \ {0} /\ Defaults[k] \in Ranges[k]
    /\ \A f \in Firsts : /\ DOMAIN f = Keys /\ \A k \in RoutingKeys : f[k] \in Urls \cup Models \cup {Off}
                         /\ \A k \in LimitKeys : f[k] \in Ranges[k] \cup {0}
    /\ Defaults["AGENT_RESEARCH_SECONDS"] <= Defaults["AGENT_TOTAL_SECONDS"]
    /\ StaleAfter \in Nat

VARIABLES
    table,      \* the saved settings
    saving,     \* of each admin the request under way
    saves,
    given,      \* ghost: the values each key was ever given
    served,     \* of each server the models it serves; none: it does not answer
    probe, shown,       \* the routing the page asks the servers about, if any; the last rows
    changes,
    clock, runs         \* of one conversation

admin == <<table, saving, saves, given>>
page == <<served, probe, shown, changes>>
vars == <<admin, page, clock, runs>>

Idle == [at |-> "idle"]
NoRows == [s \in Slots |-> "none"]

Init ==
    /\ table \in Firsts /\ saving = [a \in Admins |-> Idle] /\ saves = 0
    /\ given = [k \in Keys |-> {table[k]}]
    /\ served = [u \in WebUrls |-> Models] /\ probe = <<>> /\ shown = NoRows /\ changes = 0
    /\ clock = 0 /\ runs = <<>>

-----------------------------------------------------------------------------
(* Saving                                                                  *)

\* limit_value: an empty field is not checked.
Valid(put) == \A k \in DOMAIN put \cap LimitKeys : put[k] \in Ranges[k] \cup {0}

\* _upsert_config of every field looks at the row it finds; 422 for a value
\* out of its range, before anything is written.
StartSave(a, put) ==
    /\ saving[a].at = "idle" /\ saves < MaxSaves /\ saves' = saves + 1
    /\ saving' = IF Valid(put) THEN [saving EXCEPT ![a] = [at |-> "save", put |-> put, seen |-> table]] ELSE saving
    /\ UNCHANGED <<table, given, page, clock, runs>>

\* Mutant: a field that is not given is written empty.
AllWritten(a) == [k \in Keys |-> IF k \in DOMAIN saving[a].put THEN saving[a].put[k]
                                 ELSE IF k \in LimitKeys THEN 0 ELSE Off]

\* The rows that differ from what was seen are updated.
Written(a) == [k \in Keys |-> IF k \in DOMAIN saving[a].put /\ saving[a].put[k] # saving[a].seen[k]
                                THEN saving[a].put[k] ELSE table[k]]

EndSave(a) ==
    /\ saving[a].at = "save"
    /\ table' = Written(a) /\ saving' = [saving EXCEPT ![a] = Idle]
    /\ given' = [k \in Keys |-> IF k \in DOMAIN saving[a].put THEN given[k] \cup {saving[a].put[k]} ELSE given[k]]
    /\ UNCHANGED <<saves, page, clock, runs>>

-----------------------------------------------------------------------------
(* The routing and the page of the servers                                 *)

Or(value, default) == IF value = Off THEN default ELSE value

\* resolve_model_routing: an empty field inherits the main model's, but for the
\* URL of the reranker and the model of the vision slot.
Routing(t) ==
    [s \in Slots |->
        [url |-> CASE s = "agent" -> Or(t.AGENT_BASE_URL, t.LLM_BASE_URL)
                   [] s = "rerank" -> t.RERANK_URL
                   [] OTHER -> t.LLM_BASE_URL,
         model |-> CASE s = "llm" -> t.LLM_MODEL
                     [] s = "agent" -> Or(t.AGENT_MODEL, t.LLM_MODEL)
                     [] s = "vlm" -> t.VLM_MODEL
                     [] s = "rerank" -> "rerank"]]

\* What a chat makes of a slot: the reranker and the vision model are left out
\* when they are not set, without an agent the chat is refused.
Uses(t, s) == LET e == Routing(t)[s] IN IF s = "rerank" THEN e.url # Off ELSE e.model # Off /\ e.url # Off

ServerChanges(u) ==
    /\ changes < MaxChanges /\ changes' = changes + 1
    /\ \E ms \in SUBSET Models \ {served[u]} : served' = [served EXCEPT ![u] = ms]
    /\ UNCHANGED <<admin, probe, shown, clock, runs>>

\* get_model_servers reads the table and lets go of it.
OpenPage ==
    /\ probe = <<>> /\ probe' = <<Routing(table)>>
    /\ UNCHANGED <<admin, served, shown, changes, clock, runs>>

\* Mutant: every slot with a server is asked.
HasServer(e) == e.url \in WebUrls

\* models_url, only for a slot that has a model. A save takes any URL.
AsksServer(e) == e.model # Off /\ e.url \in WebUrls

\* server_status and check.
Status(e) == IF ~AsksServer(e) THEN "off"
             ELSE IF served[e.url] = {} THEN "unreachable"
             ELSE IF e.model \in served[e.url] THEN "ok" ELSE "model_missing"

ServersAnswer ==
    /\ probe # <<>> /\ shown' = [s \in Slots |-> Status(probe[1][s])] /\ probe' = <<>>
    /\ UNCHANGED <<admin, served, changes, clock, runs>>

-----------------------------------------------------------------------------
(* The limits and the runs                                                 *)

\* A value that is missing or out of its range is the default.
Read(t) == [k \in LimitKeys |-> IF t[k] \in Ranges[k] THEN t[k] ELSE Defaults[k]]

\* Mutant: the two times are independent.
EachLimit(t) == Read(t)

\* ResearchLimits.from_config.
Limits(t) ==
    LET read == Read(t)
    IN [read EXCEPT !["AGENT_RESEARCH_SECONDS"] =
            IF @ < read["AGENT_TOTAL_SECONDS"] THEN @ ELSE read["AGENT_TOTAL_SECONDS"]]

Total(t) == Limits(t)["AGENT_TOTAL_SECONDS"]

Later == clock < MaxClock /\ clock' = clock + 1 /\ UNCHANGED <<admin, page, runs>>

\* Mutant: one age for all limits.
OneAge(t) == StaleAfter

\* run_persisted_research: from the limits of the new request.
Age(t) == IF StaleAfter < 2 * Total(t) THEN 2 * Total(t) ELSE StaleAfter

\* begin_run closes a run of the conversation that is too old.
Closed(r) == [runs EXCEPT ![r].status = "lost"]
Busy == {r \in DOMAIN runs : runs[r].status = "running"}
Old(r) == clock - runs[r].start > Age(table)

\* A question: refused while a run is busy that is not too old.
StartRun ==
    /\ Len(runs) < MaxRuns /\ \A r \in Busy : Old(r)
    /\ runs' = Append(IF Busy = {} THEN runs ELSE Closed(CHOOSE r \in Busy : TRUE),
                      [start |-> clock, total |-> Total(table), research |-> Limits(table)["AGENT_RESEARCH_SECONDS"],
                       alive |-> TRUE, status |-> "running"])
    /\ UNCHANGED <<admin, page, clock>>

\* The deadline ends a run; a run may end before.
EndRun(r) ==
    /\ r \in Busy /\ runs[r].alive
    /\ runs' = [runs EXCEPT ![r].status = "ended"]
    /\ UNCHANGED <<admin, page, clock>>

\* The process of the run is lost: its row stays as it is.
LoseProcess(r) ==
    /\ r \in Busy /\ runs[r].alive
    /\ runs' = [runs EXCEPT ![r].alive = FALSE]
    /\ UNCHANGED <<admin, page, clock>>

\* Time does not pass a deadline before the run has ended.
InTime == \A r \in Busy : runs[r].alive => clock < runs[r].start + runs[r].total

-----------------------------------------------------------------------------

Next ==
    \/ \E a \in Admins : EndSave(a) \/ \E put \in Puts : StartSave(a, put)
    \/ \E u \in WebUrls : ServerChanges(u)
    \/ OpenPage \/ ServersAnswer \/ StartRun
    \/ InTime /\ Later
    \/ \E r \in DOMAIN runs : EndRun(r) \/ LoseProcess(r)

Spec == Init /\ [][Next]_vars

-----------------------------------------------------------------------------
(* Properties                                                              *)

TypeOK ==
    /\ DOMAIN table = Keys /\ \A k \in LimitKeys : table[k] \in Ranges[k] \cup {0}
    /\ \A a \in Admins : saving[a].at \in {"idle", "save"}
    /\ \A s \in Slots : shown[s] \in {"none", "off", "unreachable", "model_missing", "ok"}
    /\ \A r \in DOMAIN runs : runs[r].status \in {"running", "ended", "lost"} /\ runs[r].start <= clock

\* A key holds a value somebody gave it, whatever saves of other keys were
\* under way: a short save of the main model never wipes the rest.
SavesTouchTheirKeys == \A k \in Keys : table[k] \in given[k]

StatusOfUse ==
    probe # <<>> /\ probe' = <<>> /\ probe[1] = Routing(table) =>
       \A s \in Slots : (shown'[s] = "off") = (~Uses(table, s) \/ Routing(table)[s].url \notin WebUrls)

\* As long as nobody saved since the page was opened, it calls a slot off exactly
\* when a chat that starts now leaves it out or is refused for want of it, or
\* calls a server at a URL without http(s) scheme or host (server_status).
StatusAgreesWithUse == [][StatusOfUse]_vars

\* A run keeps time for its answer: it never searches longer than it may last.
SearchFitsTheRun == \A r \in DOMAIN runs : runs[r].research <= runs[r].total /\ runs[r].total > 0

\* With the limits left alone, a run that works is never taken for a lost one.
LiveRunsAreKept ==
    (\A k \in LimitKeys : Cardinality(given[k]) = 1) =>
        \A r \in DOMAIN runs : runs[r].status = "lost" => ~runs[r].alive

\* "A run still active after this long was left by a lost process."
OnlyLostRunsAreClosed == \A r \in DOMAIN runs : runs[r].status = "lost" => ~runs[r].alive

=============================================================================
