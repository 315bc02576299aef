---------------------------- MODULE PlatformProofs ----------------------------
(***************************************************************************)
(* What the two runs of MCPlatform check of a few admins, pages, loads and *)
(* titles, for any number of them: the settings, the reports of a student, *)
(* the worker's loop and the title of a conversation. The loop's average   *)
(* is a sum, see SumProofs; files are in StagedProofs.                     *)
(***************************************************************************)
EXTENDS MCPlatform, SumProofs, TLAPS

-----------------------------------------------------------------------------
(* Settings: what is saved *)

\* Nobody changed a limit.
LimitsAreLeftAlone == \A k \in LimitNames : Cardinality(given[k]) = 1

SavedSettings ==
    /\ DOMAIN table = Settings!Keys /\ DOMAIN given = Settings!Keys /\ DOMAIN saving = Admins
    /\ \A k \in LimitNames : table[k] \in LimitRanges[k] \cup {0}
    /\ \A a \in Admins : saving[a].at \in {"idle", "save"}
    /\ \A a \in Admins : saving[a].at = "save" => Settings!Valid(saving[a].put)
    /\ \A k \in Settings!Keys : IsFiniteSet(given[k]) /\ table[k] \in given[k]

LEMMA SettingsAtTheStart == Settings!Init => SavedSettings
  <1> SUFFICES ASSUME Settings!Init  PROVE SavedSettings
    OBVIOUS
  <1>1. DOMAIN table = Settings!Keys /\ \A k \in LimitNames : table[k] \in LimitRanges[k] \cup {0}
    BY SettingsAssumption DEF Settings!Init, Settings!SettingConstants
  <1>2. \A a \in Admins : saving[a].at = "idle"
    BY DEF Settings!Init, Settings!Idle
  <1>3. \A k \in Settings!Keys : IsFiniteSet(given[k]) /\ table[k] \in given[k]
    BY FS_Singleton DEF Settings!Init
  <1>4. DOMAIN given = Settings!Keys /\ DOMAIN saving = Admins
    BY DEF Settings!Init
  <1> QED
    BY <1>1, <1>2, <1>3, <1>4 DEF SavedSettings

\* A save starts with what limit_value accepts.
LEMMA SaveStarts ==
    ASSUME SavedSettings, NEW a \in Admins, NEW put, Settings!StartSave(a, put)
    PROVE  SavedSettings'
  <1>1. UNCHANGED <<table, given>>
    BY DEF Settings!StartSave
  <1>2. CASE saving' = saving
    BY <1>1, <1>2 DEF SavedSettings, Settings!Valid
  <1>3. CASE saving' # saving
    <2>1. saving' = [saving EXCEPT ![a] = [at |-> "save", put |-> put, seen |-> table]] /\ Settings!Valid(put)
      BY <1>3 DEF Settings!StartSave
    <2>2. \A b \in Admins : saving'[b] = IF b = a THEN [at |-> "save", put |-> put, seen |-> table] ELSE saving[b]
      BY <2>1 DEF SavedSettings
    <2>3. DOMAIN saving' = Admins
      BY <2>1 DEF SavedSettings
    <2>4. \A b \in Admins : saving'[b].at \in {"idle", "save"}
      BY <2>2 DEF SavedSettings
    <2>5. ASSUME NEW b \in Admins, saving'[b].at = "save"  PROVE Settings!Valid(saving'[b].put)
      BY <2>1, <2>2, <2>5 DEF SavedSettings
    <2> QED
      BY <1>1, <2>3, <2>4, <2>5 DEF SavedSettings, Settings!Valid
  <1> QED
    BY <1>2, <1>3

\* A save writes what it was given, and records it.
LEMMA SaveEnds ==
    ASSUME SavedSettings, NEW a \in Admins, Settings!EndSave(a)
    PROVE  SavedSettings' /\ \A k \in Settings!Keys : given[k] \subseteq given'[k]
  <1> DEFINE sent == saving[a].put
  <1>1. /\ DOMAIN table' = Settings!Keys
        /\ \A k \in Settings!Keys : table'[k] = table[k] \/ (k \in DOMAIN sent /\ table'[k] = sent[k])
    BY DEF Settings!EndSave, Settings!Written
  <1>2. /\ DOMAIN given' = Settings!Keys
        /\ \A k \in Settings!Keys : given'[k] = IF k \in DOMAIN sent THEN given[k] \cup {sent[k]} ELSE given[k]
    BY DEF Settings!EndSave
  <1>3. Settings!Valid(sent)
    BY DEF SavedSettings, Settings!EndSave
  <1>4. \A k \in LimitNames : table'[k] \in LimitRanges[k] \cup {0}
    BY <1>1, <1>3 DEF SavedSettings, Settings!Valid, Settings!Keys
  <1>5. DOMAIN saving' = Admins /\ \A b \in Admins : saving'[b] = IF b = a THEN Settings!Idle ELSE saving[b]
    BY DEF Settings!EndSave, SavedSettings
  <1>6. /\ \A b \in Admins : saving'[b].at \in {"idle", "save"}
        /\ \A b \in Admins : saving'[b].at = "save" => Settings!Valid(saving'[b].put)
    BY <1>5 DEF SavedSettings, Settings!Idle
  <1>7. ASSUME NEW k \in Settings!Keys  PROVE IsFiniteSet(given'[k]) /\ table'[k] \in given'[k] /\ given[k] \subseteq given'[k]
    <2> HIDE DEF sent
    <2>1. IsFiniteSet(given[k]) /\ table[k] \in given[k]
      BY DEF SavedSettings
    <2>2. IsFiniteSet(given[k] \cup {sent[k]})
      BY <2>1, FS_AddElement
    <2> QED
      BY <1>1, <1>2, <2>1, <2>2
  <1> HIDE DEF sent
  <1> QED
    BY <1>1, <1>2, <1>4, <1>5, <1>6, <1>7 DEF SavedSettings, Settings!Valid

LEMMA OtherStepsLeaveSettings ==
    ASSUME SavedSettings, UNCHANGED <<table, saving, given>>
    PROVE  SavedSettings' /\ \A k \in Settings!Keys : given[k] \subseteq given'[k]
  BY DEF SavedSettings, Settings!Valid

\* Which of the two a step is.
LEMMA SettingsSteps ==
    ASSUME Settings!Next
    PROVE  \/ \E a \in Admins : Settings!EndSave(a) \/ \E put \in ServerPuts \cup LimitPuts : Settings!StartSave(a, put)
           \/ UNCHANGED <<table, saving, given>>
  BY DEF Settings!Next, Settings!ServerChanges, Settings!OpenPage, Settings!ServersAnswer, Settings!StartRun,
         Settings!Later, Settings!EndRun, Settings!LoseProcess, Settings!admin

LEMMA SettingsStep ==
    ASSUME SavedSettings, Settings!Next
    PROVE  SavedSettings' /\ \A k \in Settings!Keys : given[k] \subseteq given'[k]
  <1>1. CASE \E a \in Admins : Settings!EndSave(a)
    BY <1>1, SaveEnds
  <1>2. CASE \E a \in Admins, put \in ServerPuts \cup LimitPuts : Settings!StartSave(a, put)
    <2>1. given' = given
      BY <1>2 DEF Settings!StartSave
    <2> QED
      BY <1>2, <2>1, SaveStarts
  <1>3. CASE UNCHANGED <<table, saving, given>>
    BY <1>3, OtherStepsLeaveSettings
  <1> QED
    BY <1>1, <1>2, <1>3, SettingsSteps

\* As long as nobody changes a limit they have their values of the start.
LEMMA LimitsLeftAloneStay ==
    ASSUME SavedSettings, Settings!Next, LimitsAreLeftAlone'
    PROVE  LimitsAreLeftAlone /\ \A k \in LimitNames : table'[k] = table[k]
  <1> SUFFICES ASSUME NEW k \in LimitNames  PROVE Cardinality(given[k]) = 1 /\ table'[k] = table[k]
    BY DEF LimitsAreLeftAlone
  <1>1. k \in Settings!Keys
    BY DEF Settings!Keys
  <1>2. SavedSettings' /\ given[k] \subseteq given'[k]
    BY <1>1, SettingsStep
  <1>3. IsFiniteSet(given[k]) /\ table[k] \in given[k] /\ IsFiniteSet(given'[k]) /\ table'[k] \in given'[k]
    BY <1>1, <1>2 DEF SavedSettings
  <1>4. Cardinality(given'[k]) = 1
    BY DEF LimitsAreLeftAlone
  <1>5. PICK v : given'[k] = {v}
    BY ONLY <1>3, <1>4, FS_Singleton
  <1>6. given[k] = {v} /\ table'[k] = v /\ table[k] = v
    BY <1>2, <1>3, <1>5
  <1> QED
    BY ONLY <1>6, FS_Singleton

-----------------------------------------------------------------------------
(* Settings: the runs that work under the limits *)

AnswerRun == [start : Nat, total : Nat \ {0}, research : Nat, alive : BOOLEAN,
              status : {"running", "ended", "lost"}]

RunsKeepTime ==
    /\ clock \in Nat /\ runs \in Seq(AnswerRun)
    /\ \A r \in DOMAIN runs : runs[r].start <= clock /\ runs[r].research <= runs[r].total
    /\ \A r \in DOMAIN runs : runs[r].status = "running" /\ runs[r].alive
                                => clock <= runs[r].start + runs[r].total

\* With the limits left alone every run has the time of the limits, and one that
\* was closed as lost had lost its process.
LostRunsAreDead ==
    LimitsAreLeftAlone => \A r \in DOMAIN runs : /\ runs[r].total = Settings!Total(table)
                                                 /\ runs[r].status = "lost" => ~runs[r].alive

\* What from_config makes of the saved limits.
LEMMA LimitsFit ==
    ASSUME SavedSettings
    PROVE  /\ Settings!Total(table) \in Nat \ {0}
           /\ Settings!Limits(table)["AGENT_RESEARCH_SECONDS"] \in Nat
           /\ Settings!Limits(table)["AGENT_RESEARCH_SECONDS"] <= Settings!Total(table)
           /\ Settings!Age(table) \in Nat /\ Settings!Age(table) >= 2 * Settings!Total(table)
  <1> DEFINE limits == Settings!Read(table)
  <1>1. {"AGENT_RESEARCH_SECONDS", "AGENT_TOTAL_SECONDS"} \subseteq LimitNames /\ StaleRun \in Nat
    BY SettingsAssumption DEF Settings!SettingConstants
  <1>2. ASSUME NEW k \in LimitNames  PROVE limits[k] \in Nat \ {0}
    BY SettingsAssumption DEF Settings!SettingConstants, Settings!Read
  <1>3. DOMAIN limits = LimitNames
    BY DEF Settings!Read
  <1> DEFINE cut == IF limits["AGENT_RESEARCH_SECONDS"] < limits["AGENT_TOTAL_SECONDS"]
                    THEN limits["AGENT_RESEARCH_SECONDS"] ELSE limits["AGENT_TOTAL_SECONDS"]
  <1>4. Settings!Limits(table) = [limits EXCEPT !["AGENT_RESEARCH_SECONDS"] = cut]
    BY DEF Settings!Limits
  <1> HIDE DEF limits
  <1>5. /\ Settings!Limits(table)["AGENT_TOTAL_SECONDS"] = limits["AGENT_TOTAL_SECONDS"]
        /\ Settings!Limits(table)["AGENT_RESEARCH_SECONDS"] = cut
    <2> HIDE DEF cut
    <2> QED
      BY <1>1, <1>3, <1>4
  <1>6. cut \in Nat /\ cut <= limits["AGENT_TOTAL_SECONDS"]
    BY <1>1, <1>2
  <1>7. Settings!Total(table) = limits["AGENT_TOTAL_SECONDS"]
    BY <1>5 DEF Settings!Total
  <1>8. Settings!Total(table) \in Nat \ {0}
    BY <1>1, <1>2, <1>7
  <1>9. Settings!Age(table) \in Nat /\ Settings!Age(table) >= 2 * Settings!Total(table)
    BY <1>1, <1>8 DEF Settings!Age
  <1> HIDE DEF cut
  <1> QED
    BY <1>5, <1>6, <1>7, <1>8, <1>9

\* The time of a run depends on one key.
LEMMA SameLimitSameTotal ==
    ASSUME \A k \in LimitNames : table'[k] = table[k]
    PROVE  Settings!Total(table)' = Settings!Total(table)
  <1>1. Settings!Read(table)' = Settings!Read(table)
    BY DEF Settings!Read
  <1> QED
    BY <1>1 DEF Settings!Total, Settings!Limits

\* A run of the conversation that is too old has no process any more.
LEMMA OldRunsAreDead ==
    ASSUME SavedSettings, RunsKeepTime, LostRunsAreDead, LimitsAreLeftAlone,
           NEW r \in DOMAIN runs, runs[r].status = "running", Settings!Old(r)
    PROVE  ~runs[r].alive
  <1>1. runs[r] \in AnswerRun
    BY DEF RunsKeepTime
  <1>2. runs[r].total = Settings!Total(table)
    BY DEF LostRunsAreDead
  <1>3. clock - runs[r].start > Settings!Age(table)
    BY DEF Settings!Old
  <1>4. runs[r].alive => clock <= runs[r].start + runs[r].total
    BY DEF RunsKeepTime
  <1>5. /\ clock \in Nat /\ runs[r].start \in Nat /\ runs[r].total \in Nat \ {0}
        /\ Settings!Age(table) \in Nat /\ Settings!Age(table) >= 2 * runs[r].total
    BY <1>1, <1>2, LimitsFit DEF RunsKeepTime, AnswerRun
  <1> QED
    BY ONLY <1>3, <1>4, <1>5

\* begin_run closes one run and starts one.
LEMMA RunStarts ==
    ASSUME SavedSettings, RunsKeepTime, LostRunsAreDead, Settings!StartRun
    PROVE  RunsKeepTime' /\ LostRunsAreDead'
  <1> DEFINE new == [start |-> clock, total |-> Settings!Total(table),
                     research |-> Settings!Limits(table)["AGENT_RESEARCH_SECONDS"],
                     alive |-> TRUE, status |-> "running"]
             before == IF Settings!Busy = {} THEN runs ELSE Settings!Closed(CHOOSE r \in Settings!Busy : TRUE)
  <1>1. runs' = Append(before, new) /\ UNCHANGED <<clock, table, given>>
    BY DEF Settings!StartRun, Settings!admin
  <1>2. new \in AnswerRun
    BY LimitsFit DEF AnswerRun, RunsKeepTime
  <1>3. /\ before \in Seq(AnswerRun) /\ DOMAIN before = DOMAIN runs
        /\ \A r \in DOMAIN runs : \/ before[r] = runs[r]
                                  \/ /\ runs[r].status = "running" /\ Settings!Old(r)
                                     /\ before[r] = [runs[r] EXCEPT !.status = "lost"]
    <2>1. CASE Settings!Busy = {}
      BY <2>1 DEF RunsKeepTime
    <2>2. CASE Settings!Busy # {}
      <3>1. PICK q \in Settings!Busy : before = Settings!Closed(q)
        BY <2>2
      <3>2. q \in DOMAIN runs /\ runs[q].status = "running" /\ Settings!Old(q)
        BY DEF Settings!Busy, Settings!StartRun
      <3>3. before = [runs EXCEPT ![q].status = "lost"]
        BY <3>1 DEF Settings!Closed
      <3>4. runs[q] \in AnswerRun
        BY <3>2 DEF RunsKeepTime
      <3>5. [runs[q] EXCEPT !.status = "lost"] \in AnswerRun
        BY <3>4 DEF AnswerRun
      <3> HIDE DEF before
      <3>6. DOMAIN before = DOMAIN runs /\ before \in Seq(AnswerRun)
        BY <3>2, <3>3, <3>5 DEF RunsKeepTime
      <3>7. \A r \in DOMAIN runs : before[r] = IF r = q THEN [runs[q] EXCEPT !.status = "lost"] ELSE runs[r]
        BY <3>2, <3>3
      <3> QED
        BY <3>2, <3>6, <3>7
    <2> QED
      BY <2>1, <2>2
  <1> HIDE DEF before
  <1>4. /\ runs' \in Seq(AnswerRun) /\ DOMAIN runs' = DOMAIN runs \cup {Len(before) + 1}
        /\ Len(before) + 1 \notin DOMAIN runs /\ runs'[Len(before) + 1] = new
        /\ \A r \in DOMAIN runs : runs'[r] = before[r]
    <2> HIDE DEF new
    <2> QED
      BY <1>1, <1>2, <1>3
  <1>5. ASSUME NEW r \in DOMAIN runs
        PROVE  /\ runs'[r].start = runs[r].start /\ runs'[r].total = runs[r].total
               /\ runs'[r].research = runs[r].research /\ runs'[r].alive = runs[r].alive
               /\ runs'[r].status \in {runs[r].status, "lost"}
               /\ runs'[r].status # runs[r].status => runs[r].status = "running" /\ Settings!Old(r)
    <2>1. runs[r] \in AnswerRun
      BY DEF RunsKeepTime
    <2>2. CASE runs'[r] = runs[r]
      BY <2>2
    <2>3. CASE runs'[r] # runs[r]
      <3>1. /\ runs'[r] = [runs[r] EXCEPT !.status = "lost"]
            /\ runs[r].status = "running" /\ Settings!Old(r)
        BY <1>3, <1>4, <2>3
      <3>2. PICK old \in AnswerRun : old = runs[r]
        BY <2>1
      <3>3. runs'[r] = [old EXCEPT !.status = "lost"]
        BY <3>1, <3>2
      <3> QED
        BY <3>1, <3>2, <3>3 DEF AnswerRun
    <2> QED
      BY <2>2, <2>3
  <1>6. /\ new.start = clock /\ new.research <= new.total /\ new.status = "running"
        /\ new.total = Settings!Total(table) /\ clock <= new.start + new.total
    BY LimitsFit DEF RunsKeepTime
  <1> HIDE DEF new
  <1>7. RunsKeepTime'
    <2>1. ASSUME NEW r \in DOMAIN runs'
          PROVE  /\ runs'[r].start <= clock' /\ runs'[r].research <= runs'[r].total
                 /\ runs'[r].status = "running" /\ runs'[r].alive => clock' <= runs'[r].start + runs'[r].total
      <3>1. CASE r \in DOMAIN runs
        BY <1>1, <1>5, <3>1 DEF RunsKeepTime
      <3>2. CASE r = Len(before) + 1
        BY <1>1, <1>4, <1>6, <3>2 DEF RunsKeepTime
      <3> QED
        BY <1>4, <3>1, <3>2
    <2> QED
      BY <1>1, <1>4, <2>1 DEF RunsKeepTime
  <1>8. LostRunsAreDead'
    <2> SUFFICES ASSUME LimitsAreLeftAlone', NEW r \in DOMAIN runs'
                 PROVE  /\ runs'[r].total = Settings!Total(table)'
                        /\ runs'[r].status = "lost" => ~runs'[r].alive
      BY DEF LostRunsAreDead
    <2>1. LimitsAreLeftAlone /\ Settings!Total(table)' = Settings!Total(table)
      BY <1>1, SameLimitSameTotal DEF LimitsAreLeftAlone
    <2>2. CASE r \in DOMAIN runs
      <3>1. runs[r].total = Settings!Total(table) /\ (runs[r].status = "lost" => ~runs[r].alive)
        BY <2>1, <2>2 DEF LostRunsAreDead
      <3>2. runs'[r].status # runs[r].status => ~runs[r].alive
        BY <1>5, <2>1, <2>2, OldRunsAreDead
      <3> QED
        BY <1>5, <2>1, <2>2, <3>1, <3>2
    <2>3. CASE r = Len(before) + 1
      BY <1>4, <1>6, <2>1, <2>3
    <2> QED
      BY <1>4, <2>2, <2>3
  <1> QED
    BY <1>7, <1>8

\* A run ends, or its process is lost.
LEMMA RunChanges ==
    ASSUME SavedSettings, RunsKeepTime, LostRunsAreDead,
           NEW r \in DOMAIN runs, Settings!EndRun(r) \/ Settings!LoseProcess(r)
    PROVE  RunsKeepTime' /\ LostRunsAreDead'
  <1>1. UNCHANGED <<clock, table, given>> /\ runs[r].status = "running"
    BY DEF Settings!EndRun, Settings!LoseProcess, Settings!admin, Settings!Busy
  <1>2. PICK row2 : /\ row2 = [runs[r] EXCEPT !.status = "ended"] \/ row2 = [runs[r] EXCEPT !.alive = FALSE]
                    /\ runs' = [runs EXCEPT ![r] = row2]
    BY DEF Settings!EndRun, Settings!LoseProcess
  <1>3. runs[r] \in AnswerRun
    BY DEF RunsKeepTime
  <1>4. /\ row2 \in AnswerRun /\ row2.start = runs[r].start /\ row2.total = runs[r].total
        /\ row2.research = runs[r].research /\ row2.status # "lost"
        /\ row2.status = "running" /\ row2.alive => runs[r].alive
    BY <1>1, <1>2, <1>3 DEF AnswerRun
  <1>5. /\ runs' \in Seq(AnswerRun) /\ DOMAIN runs' = DOMAIN runs
        /\ \A q \in DOMAIN runs : runs'[q] = IF q = r THEN row2 ELSE runs[q]
    BY <1>2, <1>4 DEF RunsKeepTime
  <1>6. RunsKeepTime'
    BY <1>1, <1>4, <1>5 DEF RunsKeepTime
  <1>7. LostRunsAreDead'
    <2> SUFFICES ASSUME LimitsAreLeftAlone', NEW q \in DOMAIN runs'
                 PROVE  /\ runs'[q].total = Settings!Total(table)'
                        /\ runs'[q].status = "lost" => ~runs'[q].alive
      BY DEF LostRunsAreDead
    <2>1. LimitsAreLeftAlone /\ Settings!Total(table)' = Settings!Total(table)
      BY <1>1, SameLimitSameTotal DEF LimitsAreLeftAlone
    <2> QED
      BY <1>4, <1>5, <2>1 DEF LostRunsAreDead
  <1> QED
    BY <1>6, <1>7

LEMMA TimePasses ==
    ASSUME SavedSettings, RunsKeepTime, LostRunsAreDead, Settings!InTime, Settings!Later
    PROVE  RunsKeepTime' /\ LostRunsAreDead'
  <1>1. UNCHANGED <<runs, table, given>> /\ clock' = clock + 1
    BY DEF Settings!Later, Settings!admin
  <1>2. ASSUME NEW r \in DOMAIN runs
        PROVE  /\ runs[r].start <= clock' /\ runs[r].research <= runs[r].total
               /\ runs[r].status = "running" /\ runs[r].alive => clock' <= runs[r].start + runs[r].total
    <2>1. runs[r] \in AnswerRun /\ clock \in Nat
      BY DEF RunsKeepTime
    <2>2. runs[r].status = "running" /\ runs[r].alive => clock < runs[r].start + runs[r].total
      BY DEF Settings!InTime, Settings!Busy
    <2> QED
      BY <1>1, <2>1, <2>2 DEF RunsKeepTime, AnswerRun
  <1>3. RunsKeepTime'
    BY <1>1, <1>2 DEF RunsKeepTime
  <1>4. LimitsAreLeftAlone' = LimitsAreLeftAlone /\ Settings!Total(table)' = Settings!Total(table)
    BY <1>1, SameLimitSameTotal DEF LimitsAreLeftAlone
  <1> QED
    BY <1>1, <1>3, <1>4 DEF LostRunsAreDead

\* A save leaves the runs alone; if it changes a limit nothing more is said of
\* their time.
LEMMA RunsOutlastSaves ==
    ASSUME SavedSettings, RunsKeepTime, LostRunsAreDead, Settings!Next, UNCHANGED <<clock, runs>>
    PROVE  RunsKeepTime' /\ LostRunsAreDead'
  <1>1. RunsKeepTime'
    BY DEF RunsKeepTime
  <1>2. ASSUME LimitsAreLeftAlone'
        PROVE  LimitsAreLeftAlone /\ Settings!Total(table)' = Settings!Total(table)
    BY <1>2, LimitsLeftAloneStay, SameLimitSameTotal
  <1>3. LostRunsAreDead'
    BY <1>2 DEF LostRunsAreDead
  <1> QED
    BY <1>1, <1>3

LEMMA RunsStep ==
    ASSUME SavedSettings, RunsKeepTime, LostRunsAreDead, Settings!Next
    PROVE  RunsKeepTime' /\ LostRunsAreDead'
  <1>1. CASE Settings!StartRun
    BY <1>1, RunStarts
  <1>2. CASE Settings!InTime /\ Settings!Later
    BY <1>2, TimePasses
  <1>3. CASE \E r \in DOMAIN runs : Settings!EndRun(r) \/ Settings!LoseProcess(r)
    BY <1>3, RunChanges
  <1>4. CASE UNCHANGED <<clock, runs>>
    BY <1>4, RunsOutlastSaves
  <1>5. \/ Settings!StartRun \/ (Settings!InTime /\ Settings!Later)
        \/ \E r \in DOMAIN runs : Settings!EndRun(r) \/ Settings!LoseProcess(r)
        \/ UNCHANGED <<clock, runs>>
    BY DEF Settings!Next, Settings!ServerChanges, Settings!OpenPage, Settings!ServersAnswer, Settings!StartSave,
           Settings!EndSave
  <1> QED
    BY <1>1, <1>2, <1>3, <1>4, <1>5

-----------------------------------------------------------------------------
(* Settings: the page of the servers *)

PageShowsStates ==
    \A s \in Settings!Slots : shown[s] \in {"none", "off", "unreachable", "model_missing", "ok"}

LEMMA StatusIsAState ==
    \A e : Settings!Status(e) \in {"off", "unreachable", "model_missing", "ok"}
  BY DEF Settings!Status

LEMMA PageStep ==
    ASSUME PageShowsStates, Settings!Next
    PROVE  PageShowsStates'
  <1>1. CASE Settings!ServersAnswer
    <2>1. shown' = [s \in Settings!Slots |-> Settings!Status(probe[1][s])]
      BY <1>1 DEF Settings!ServersAnswer
    <2> QED
      BY <2>1, StatusIsAState DEF PageShowsStates
  <1>2. CASE shown' = shown
    BY <1>2 DEF PageShowsStates
  <1>3. Settings!ServersAnswer \/ shown' = shown
    BY DEF Settings!Next, Settings!ServerChanges, Settings!OpenPage, Settings!StartRun, Settings!Later,
           Settings!EndRun, Settings!LoseProcess, Settings!StartSave, Settings!EndSave, Settings!page
  <1> QED
    BY <1>1, <1>2, <1>3

\* A slot is off without what a chat needs of it or without a web address, and no
\* other.
LEMMA OffIsNotUsed ==
    ASSUME NEW t, NEW s \in Settings!Slots
    PROVE  (Settings!Status(Settings!Routing(t)[s]) = "off")
              = (~Settings!Uses(t, s) \/ Settings!Routing(t)[s].url \notin WebServers)
  <1> DEFINE e == Settings!Routing(t)[s]
  <1>1. s = "rerank" => e.model # Off
    <2>1. "rerank" # Off
      BY SettingsAssumption DEF Settings!SettingConstants
    <2> QED
      BY <2>1 DEF Settings!Routing, Settings!Slots
  <1>2. Settings!Uses(t, s) = IF s = "rerank" THEN e.url # Off ELSE e.model # Off /\ e.url # Off
    BY DEF Settings!Uses
  <1> HIDE DEF e
  <1>3. Settings!AsksServer(e) = (e.model # Off /\ e.url \in WebServers)
    BY DEF Settings!AsksServer
  <1>4. (Settings!Status(e) = "off") = ~Settings!AsksServer(e)
    BY DEF Settings!Status
  <1>5. Off \notin WebServers
    BY SettingsAssumption DEF Settings!SettingConstants
  <1>6. (Settings!Status(e) = "off") = (~Settings!Uses(t, s) \/ e.url \notin WebServers)
    BY <1>1, <1>2, <1>3, <1>4, <1>5
  <1> QED
    BY <1>6 DEF e

LEMMA PageTellsOfUse ==
    ASSUME Settings!Next
    PROVE  Settings!StatusOfUse
  <1> SUFFICES ASSUME probe # <<>>, probe' = <<>>, probe[1] = Settings!Routing(table), NEW s \in Settings!Slots
               PROVE  (shown'[s] = "off")
                         = (~Settings!Uses(table, s) \/ Settings!Routing(table)[s].url \notin WebServers)
    BY DEF Settings!StatusOfUse
  <1>1. Settings!ServersAnswer
    BY DEF Settings!Next, Settings!ServerChanges, Settings!OpenPage, Settings!StartRun, Settings!Later,
           Settings!EndRun, Settings!LoseProcess, Settings!StartSave, Settings!EndSave, Settings!page
  <1>2. shown'[s] = Settings!Status(Settings!Routing(table)[s])
    BY <1>1 DEF Settings!ServersAnswer
  <1> QED
    BY <1>2, OffIsNotUsed

-----------------------------------------------------------------------------
(* Settings together *)

SettingsInv == SavedSettings /\ RunsKeepTime /\ LostRunsAreDead /\ PageShowsStates

LEMMA SettingsInit == Settings!Init => SettingsInv
  <1> SUFFICES ASSUME Settings!Init  PROVE SettingsInv
    OBVIOUS
  <1>1. runs = <<>> /\ clock = 0 /\ shown = [s \in Settings!Slots |-> "none"]
    BY DEF Settings!Init, Settings!NoRows
  <1>2. RunsKeepTime /\ LostRunsAreDead /\ PageShowsStates
    BY <1>1 DEF RunsKeepTime, LostRunsAreDead, PageShowsStates
  <1> QED
    BY <1>2, SettingsAtTheStart DEF SettingsInv

LEMMA SettingsInvStep ==
    ASSUME SettingsInv, Settings!Next
    PROVE  SettingsInv'
  BY SettingsStep, RunsStep, PageStep DEF SettingsInv

LEMMA SettingsStay ==
    ASSUME SettingsInv, UNCHANGED settingVars
    PROVE  SettingsInv' /\ Settings!StatusOfUse
  <1>1. SavedSettings' /\ PageShowsStates' /\ Settings!StatusOfUse
    BY DEF settingVars, SettingsInv, SavedSettings, PageShowsStates, Settings!Valid, Settings!StatusOfUse
  <1>2. RunsKeepTime'
    BY DEF settingVars, SettingsInv, RunsKeepTime
  <1>3. Settings!Total(table)' = Settings!Total(table)
    BY SameLimitSameTotal DEF settingVars
  <1>4. LostRunsAreDead'
    BY <1>3 DEF settingVars, SettingsInv, LostRunsAreDead, LimitsAreLeftAlone
  <1> QED
    BY <1>1, <1>2, <1>4 DEF SettingsInv

LEMMA SameCardinality == \A S : Settings!Cardinality(S) = Cardinality(S)
  BY DEF Settings!Cardinality, Cardinality

LEMMA SettingsInvHolds == SettingsInv => SettingsHold
  <1> SUFFICES ASSUME SettingsInv  PROVE SettingsHold
    OBVIOUS
  <1>1. \A r \in DOMAIN runs : runs[r] \in AnswerRun
    BY DEF SettingsInv, RunsKeepTime
  <1>2. Settings!TypeOK
    <2>1. \A r \in DOMAIN runs : runs[r].status \in {"running", "ended", "lost"} /\ runs[r].start <= clock
      BY <1>1 DEF SettingsInv, RunsKeepTime, AnswerRun
    <2> QED
      BY <2>1 DEF SettingsInv, SavedSettings, PageShowsStates, Settings!TypeOK
  <1>3. Settings!SavesTouchTheirKeys
    BY DEF SettingsInv, SavedSettings, Settings!SavesTouchTheirKeys
  <1>4. Settings!SearchFitsTheRun
    BY <1>1 DEF SettingsInv, RunsKeepTime, AnswerRun, Settings!SearchFitsTheRun
  <1>5. Settings!LiveRunsAreKept
    BY SameCardinality DEF SettingsInv, LostRunsAreDead, LimitsAreLeftAlone, Settings!LiveRunsAreKept
  <1> QED
    BY <1>2, <1>3, <1>4, <1>5 DEF SettingsHold

-----------------------------------------------------------------------------
(* Reports: the rows and the tasks that write them *)

Reasons == {"no_questions", "empty_reply", "exception"}
ReportRow == [subject : Pupils, status : {"running", "done", "failed"}, text : {"none", "text"},
              error : {"none"} \cup Reasons, facts : BOOLEAN, age : 0 .. StaleReport + 1]

\* What a task is about to save.
ReportResult == [at : {"save"}, status : {"done", "failed"}, text : {"none", "text"},
                 error : {"none"} \cup Reasons, facts : BOOLEAN]
ReportTask == [at : {"gather", "model", "gone"}] \cup ReportResult

\* A text with its facts, or a reason; x is a row or a result of a
\* student who asked a question or not.
Explained(x, hasAsked) ==
    /\ x.status = "done" => x.text # "none" /\ x.facts /\ hasAsked
    /\ x.status = "failed" <=> x.error # "none"

ReportRows ==
    /\ reports \in Seq(ReportRow) /\ tasks \in Seq(ReportTask) /\ Len(tasks) = Len(reports)
    /\ \A i \in DOMAIN reports : Explained(reports[i], reports[i].subject \in listed)
    /\ \A i \in DOMAIN reports : tasks[i].at = "model" => reports[i].subject \in listed
    /\ \A i \in DOMAIN reports : tasks[i].at = "save" => Explained(tasks[i], reports[i].subject \in listed)

LEMMA ReportsAtTheStart == Reports!Init => ReportRows
  BY DEF Reports!Init, ReportRows

\* One task goes on, the rows stay.
LEMMA TaskMoves ==
    ASSUME ReportRows, NEW i \in DOMAIN reports, NEW result \in ReportTask,
           result.at = "model" => reports[i].subject \in listed,
           result.at = "save" => Explained(result, reports[i].subject \in listed),
           tasks' = [tasks EXCEPT ![i] = result], UNCHANGED <<reports, listed>>
    PROVE  ReportRows'
  <1>1. i \in DOMAIN tasks
    BY DEF ReportRows
  <1>2. tasks' \in Seq(ReportTask) /\ Len(tasks') = Len(reports')
    BY <1>1 DEF ReportRows
  <1>3. \A j \in DOMAIN reports : tasks'[j] = IF j = i THEN result ELSE tasks[j]
    BY <1>1 DEF ReportRows
  <1>4. \A j \in DOMAIN reports : tasks'[j].at = "save" => Explained(tasks'[j], reports[j].subject \in listed)
    BY <1>3 DEF ReportRows, Explained
  <1>5. \A j \in DOMAIN reports : tasks'[j].at = "model" => reports[j].subject \in listed
    BY <1>3 DEF ReportRows
  <1> QED
    BY <1>2, <1>4, <1>5 DEF ReportRows, Explained

LEMMA TaskIsThere ==
    ASSUME ReportRows, NEW i \in DOMAIN reports
    PROVE  i \in DOMAIN tasks /\ tasks[i] \in ReportTask /\ reports[i] \in ReportRow
  BY DEF ReportRows

LEMMA ReportsGather ==
    ASSUME ReportRows, NEW i \in DOMAIN reports, Reports!Gather(i)
    PROVE  ReportRows'
  <1> USE TaskIsThere
  <1>1. tasks[i] = [at |-> "gather"]
    BY DEF Reports!Gather, ReportTask, ReportResult
  <1>2. UNCHANGED <<reports, listed>>
    BY DEF Reports!Gather
  <1>3. CASE reports[i].subject \in listed /\ tasks' = [tasks EXCEPT ![i].at = "model"]
    <2>1. tasks' = [tasks EXCEPT ![i] = [at |-> "model"]]
      <3>1. [tasks[i] EXCEPT !.at = "model"] = [at |-> "model"]
        BY <1>1
      <3> QED
        BY <1>3, <3>1
    <2>2. [at |-> "model"] \in ReportTask
      BY DEF ReportTask
    <2> QED
      BY <1>2, <1>3, <2>1, <2>2, TaskMoves
  <1>4. CASE \E error \in {"no_questions", "exception"} : Reports!Result(i, "failed", "none", error, FALSE)
    <2>1. PICK error \in {"no_questions", "exception"} : Reports!Result(i, "failed", "none", error, FALSE)
      BY <1>4
    <2> DEFINE result == [at |-> "save", status |-> "failed", text |-> "none", error |-> error, facts |-> FALSE]
    <2>2. tasks' = [tasks EXCEPT ![i] = result]
      BY <2>1 DEF Reports!Result
    <2>3. result \in ReportTask /\ Explained(result, reports[i].subject \in listed) /\ result.at # "model"
      BY DEF ReportTask, ReportResult, Explained, Reasons
    <2> HIDE DEF result
    <2> QED
      BY <1>2, <2>2, <2>3, TaskMoves
  <1> QED
    BY <1>3, <1>4 DEF Reports!Gather

LEMMA ReportsReply ==
    ASSUME ReportRows, NEW i \in DOMAIN reports, Reports!Reply(i)
    PROVE  ReportRows'
  <1> USE TaskIsThere
  <1>1. UNCHANGED <<reports, listed>> /\ reports[i].subject \in listed
    BY DEF Reports!Reply, ReportRows
  <1>2. PICK status \in {"done", "failed"}, text \in {"none", "text"}, error \in {"none", "empty_reply", "exception"} :
            /\ Reports!Result(i, status, text, error, TRUE)
            /\ status = "done" => text = "text" /\ error = "none"
            /\ status = "failed" => error # "none"
    BY DEF Reports!Reply
  <1> DEFINE result == [at |-> "save", status |-> status, text |-> text, error |-> error, facts |-> TRUE]
  <1>3. tasks' = [tasks EXCEPT ![i] = result]
    BY <1>2 DEF Reports!Result
  <1>4. result \in ReportTask /\ Explained(result, reports[i].subject \in listed) /\ result.at # "model"
    BY <1>1, <1>2 DEF ReportTask, ReportResult, Explained, Reasons
  <1> HIDE DEF result
  <1> QED
    BY <1>1, <1>3, <1>4, TaskMoves

\* The row takes the result of its task.
LEMMA ReportsSave ==
    ASSUME ReportRows, NEW i \in DOMAIN reports, Reports!Save(i)
    PROVE  ReportRows' /\ DOMAIN reports' = DOMAIN reports
                       /\ \A j \in DOMAIN reports : reports'[j].subject = reports[j].subject
  <1> USE TaskIsThere
  <1>1. tasks[i] \in ReportResult /\ Explained(tasks[i], reports[i].subject \in listed) /\ listed' = listed
    BY DEF Reports!Save, ReportRows, ReportTask
  <1> DEFINE line == [reports[i] EXCEPT !.status = tasks[i].status, !.text = tasks[i].text,
                                        !.error = tasks[i].error, !.facts = tasks[i].facts]
  <1>2. line \in ReportRow /\ line.subject = reports[i].subject
    BY <1>1 DEF ReportRow, ReportResult
  <1>3. Explained(line, line.subject \in listed)
    BY <1>1, <1>2 DEF ReportRow, Explained
  <1>4. reports' = [reports EXCEPT ![i] = line]
    BY DEF Reports!Save
  <1>5. tasks' = [tasks EXCEPT ![i] = [at |-> "gone"]]
    BY DEF Reports!Save, Reports!Gone
  <1> HIDE DEF line
  <1>6. reports' \in Seq(ReportRow) /\ Len(reports') = Len(reports) /\ DOMAIN reports' = DOMAIN reports
    BY <1>2, <1>4 DEF ReportRows
  <1>7. \A j \in DOMAIN reports : reports'[j] = IF j = i THEN line ELSE reports[j]
    BY <1>4
  <1>8. [at |-> "gone"] \in ReportTask
    BY DEF ReportTask
  <1>9. tasks' \in Seq(ReportTask) /\ Len(tasks') = Len(tasks)
    BY <1>5, <1>8 DEF ReportRows
  <1>10. \A j \in DOMAIN reports : tasks'[j] = IF j = i THEN [at |-> "gone"] ELSE tasks[j]
    BY <1>5
  <1>11. \A j \in DOMAIN reports : Explained(reports'[j], reports'[j].subject \in listed)
    BY <1>1, <1>3, <1>7 DEF ReportRows, Explained
  <1>12. \A j \in DOMAIN reports : reports'[j].subject = reports[j].subject
    BY <1>2, <1>7
  <1>13. \A j \in DOMAIN reports : /\ tasks'[j].at = "model" => reports'[j].subject \in listed
                                   /\ tasks'[j].at = "save" => Explained(tasks'[j], reports'[j].subject \in listed)
    BY <1>1, <1>10, <1>12 DEF ReportRows, Explained
  <1>14. Len(tasks') = Len(reports')
    BY <1>6, <1>9 DEF ReportRows
  <1> QED
    BY <1>1, <1>6, <1>9, <1>11, <1>12, <1>13, <1>14 DEF ReportRows, Explained

LEMMA ReportsSaveFails ==
    ASSUME ReportRows, NEW i \in DOMAIN reports, Reports!SaveFails(i)
    PROVE  ReportRows'
  <1>1. [at |-> "gone"] \in ReportTask
    BY DEF ReportTask
  <1>2. tasks' = [tasks EXCEPT ![i] = [at |-> "gone"]] /\ UNCHANGED <<reports, listed>>
    BY DEF Reports!SaveFails, Reports!Gone
  <1> QED
    BY <1>1, <1>2, TaskMoves

\* A new row, and its task.
LEMMA ReportsInsert ==
    ASSUME ReportRows, NEW c \in Posts, Reports!Insert(c), calls[c].subject \in Pupils
    PROVE  /\ ReportRows' /\ Len(reports') = Len(reports) + 1
           /\ reports'[Len(reports) + 1].subject = calls[c].subject
           /\ \A j \in DOMAIN reports : j \in DOMAIN reports' /\ reports'[j].subject = reports[j].subject
  <1> DEFINE line == [subject |-> calls[c].subject, status |-> "running", text |-> "none",
                      error |-> "none", facts |-> FALSE, age |-> 0]
  <1>1. reports' = Append(reports, line) /\ tasks' = Append(tasks, [at |-> "gather"]) /\ listed' = listed
    BY DEF Reports!Insert
  <1>2. line \in ReportRow /\ line.subject = calls[c].subject /\ Explained(line, line.subject \in listed)
    <2>1. 0 \in 0 .. StaleReport + 1
      BY ReportsAssumption DEF Reports!ReportConstants
    <2> QED
      BY <2>1 DEF ReportRow, Explained
  <1> HIDE DEF line
  <1>3. [at |-> "gather"] \in ReportTask
    BY DEF ReportTask
  <1>4. /\ reports' \in Seq(ReportRow) /\ Len(reports') = Len(reports) + 1
        /\ reports'[Len(reports) + 1] = line /\ \A j \in DOMAIN reports : reports'[j] = reports[j]
        /\ DOMAIN reports' = DOMAIN reports \cup {Len(reports) + 1}
    BY <1>1, <1>2 DEF ReportRows
  <1>5. /\ tasks' \in Seq(ReportTask) /\ Len(tasks') = Len(reports')
        /\ tasks'[Len(reports) + 1] = [at |-> "gather"] /\ \A j \in DOMAIN reports : tasks'[j] = tasks[j]
    BY <1>1, <1>3, <1>4 DEF ReportRows
  <1>6. \A j \in DOMAIN reports' : /\ Explained(reports'[j], reports'[j].subject \in listed)
                                   /\ tasks'[j].at = "model" => reports'[j].subject \in listed
                                   /\ tasks'[j].at = "save" => Explained(tasks'[j], reports'[j].subject \in listed)
    BY <1>1, <1>2, <1>4, <1>5 DEF ReportRows, Explained
  <1> QED
    BY <1>1, <1>2, <1>4, <1>5, <1>6 DEF ReportRows, Explained

\* Only the ages change.
LEMMA ReportsTick ==
    ASSUME ReportRows, Reports!Tick
    PROVE  ReportRows' /\ DOMAIN reports' = DOMAIN reports
                       /\ \A j \in DOMAIN reports : reports'[j].subject = reports[j].subject
  <1>1. UNCHANGED <<tasks, listed>> /\ StaleReport \in Nat
    BY ReportsAssumption DEF Reports!Tick, Reports!ReportConstants
  <1> DEFINE Aged(r) == [r EXCEPT !.age = IF @ > StaleReport THEN @ ELSE @ + 1]
  <1>2. reports' = [i \in DOMAIN reports |-> Aged(reports[i])]
    BY DEF Reports!Tick
  <1>3. ASSUME NEW r \in ReportRow
        PROVE  /\ Aged(r) \in ReportRow /\ Aged(r).subject = r.subject /\ Aged(r).status = r.status
               /\ Aged(r).text = r.text /\ Aged(r).error = r.error /\ Aged(r).facts = r.facts
    <2>1. PICK n \in 0 .. StaleReport + 1 : Aged(r) = [r EXCEPT !.age = n]
      <3>1. r.age \in 0 .. StaleReport + 1
        BY DEF ReportRow
      <3> DEFINE next == IF r.age > StaleReport THEN r.age ELSE r.age + 1
      <3>2. next \in 0 .. StaleReport + 1
        BY <1>1, <3>1
      <3>3. Aged(r) = [r EXCEPT !.age = next]
        OBVIOUS
      <3> QED
        BY <3>2, <3>3
    <2> HIDE DEF Aged
    <2> QED
      BY <2>1 DEF ReportRow
  <1> HIDE DEF Aged
  <1>4. \A j \in DOMAIN reports : reports'[j] = Aged(reports[j]) /\ reports[j] \in ReportRow
    BY <1>2, TaskIsThere
  <1>5. DOMAIN reports = 1 .. Len(reports) /\ Len(reports) \in Nat
    BY DEF ReportRows
  <1>6. reports' \in [1 .. Len(reports) -> ReportRow]
    BY <1>2, <1>3, <1>4, <1>5
  <1>7. reports' \in Seq(ReportRow) /\ Len(reports') = Len(reports)
    BY <1>5, <1>6
  <1>8. \A j \in DOMAIN reports : Explained(reports'[j], reports'[j].subject \in listed)
    BY <1>1, <1>3, <1>4 DEF ReportRows, Explained
  <1>9. \A j \in DOMAIN reports : reports'[j].subject = reports[j].subject
    BY <1>3, <1>4
  <1> QED
    BY <1>1, <1>2, <1>7, <1>8, <1>9 DEF ReportRows, Explained

LEMMA ReportsCrash ==
    ASSUME ReportRows, Reports!Crash
    PROVE  ReportRows'
  <1>1. UNCHANGED <<reports, listed>> /\ tasks' = [i \in DOMAIN tasks |-> [at |-> "gone"]]
    BY DEF Reports!Crash, Reports!Gone
  <1>2. [at |-> "gone"] \in ReportTask
    BY DEF ReportTask
  <1>3. DOMAIN tasks = 1 .. Len(tasks) /\ Len(tasks) \in Nat
    BY DEF ReportRows
  <1>4. tasks' \in Seq(ReportTask) /\ Len(tasks') = Len(tasks)
    BY <1>1, <1>2, <1>3
  <1>5. \A j \in DOMAIN tasks : tasks'[j].at = "gone"
    BY <1>1
  <1>6. DOMAIN tasks = DOMAIN reports
    BY DEF ReportRows
  <1> QED
    BY <1>1, <1>4, <1>5, <1>6 DEF ReportRows, Explained

LEMMA ReportsAsk ==
    ASSUME ReportRows, reports' = reports, tasks' = tasks, listed \subseteq listed'
    PROVE  ReportRows'
  BY DEF ReportRows, Explained

-----------------------------------------------------------------------------
(* Reports: the pages and their requests *)

ShownReport == [id : Nat, status : {"loading", "none", "running", "done", "failed"}]
PageState == [subject : Pupils \cup {"nobody"}, report : ShownReport, starting : BOOLEAN]
PageCall == [at : {"sent", "insert", "answered"}, kind : {"GET", "POST"}, tab : Pages \cup {"nobody"},
             subject : Pupils, report : ShownReport]

\* A report that is shown or answered is one of the student.
IsAbout(shownReport, who, rows) ==
    shownReport.id # 0 => shownReport.id \in DOMAIN rows /\ rows[shownReport.id].subject = who

ReportPages ==
    /\ page \in [Pages -> PageState] /\ DOMAIN calls = Posts
    /\ \A p \in Pages : page[p].subject \notin Pupils => page[p].report.status = "loading"
    /\ \A p \in Pages : IsAbout(page[p].report, page[p].subject, reports)
    /\ \A c \in Posts : calls[c] # Reports!Free =>
          /\ calls[c] \in PageCall /\ IsAbout(calls[c].report, calls[c].subject, reports)
          /\ calls[c].tab \in Pages => page[calls[c].tab].subject = calls[c].subject

\* The rows keep their student.
RowsStay == \A j \in DOMAIN reports : j \in DOMAIN reports' /\ reports'[j].subject = reports[j].subject

LEMMA NoReportIsShown ==
    ASSUME NEW who, NEW rows
    PROVE  /\ Reports!NoReport \in ShownReport /\ Reports!Loading \in ShownReport
           /\ IsAbout(Reports!NoReport, who, rows) /\ IsAbout(Reports!Loading, who, rows)
  BY DEF Reports!NoReport, Reports!Loading, ShownReport, IsAbout

LEMMA PagesAtTheStart == Reports!Init => ReportPages
  <1> SUFFICES ASSUME Reports!Init  PROVE ReportPages
    OBVIOUS
  <1>1. \A p \in Pages : page[p] = [subject |-> "nobody", report |-> Reports!Loading, starting |-> FALSE]
    BY DEF Reports!Init
  <1>2. page \in [Pages -> PageState]
    BY NoReportIsShown DEF Reports!Init, PageState
  <1>3. \A p \in Pages : page[p].report = Reports!Loading
    BY <1>1
  <1>4. \A p \in Pages : page[p].report.status = "loading" /\ IsAbout(page[p].report, page[p].subject, reports)
    BY <1>3, NoReportIsShown DEF Reports!Loading
  <1>5. DOMAIN calls = Posts /\ \A c \in Posts : calls[c] = Reports!Free
    BY DEF Reports!Init
  <1> QED
    BY <1>2, <1>4, <1>5 DEF ReportPages

\* The rows of the past are what they were.
LEMMA AboutStays ==
    ASSUME RowsStay
    PROVE  \A r, who : IsAbout(r, who, reports) => IsAbout(r, who, reports')
  BY DEF RowsStay, IsAbout

\* Of a free slot or a request.
LEMMA ACall ==
    ASSUME ReportPages, NEW c \in Posts, calls[c].at \in {"sent", "insert", "answered"}
    PROVE  /\ calls[c] # Reports!Free /\ calls[c] \in PageCall /\ IsAbout(calls[c].report, calls[c].subject, reports)
           /\ calls[c].tab \in Pages => page[calls[c].tab].subject = calls[c].subject
  <1>1. calls[c] # Reports!Free
    BY DEF Reports!Free
  <1> QED
    BY <1>1 DEF ReportPages

\* One request goes on; the pages stay.
LEMMA CallMoves ==
    ASSUME ReportPages, RowsStay, NEW c \in Posts, NEW next \in PageCall, calls' = [calls EXCEPT ![c] = next],
           calls[c] # Reports!Free, next.tab = calls[c].tab, next.subject = calls[c].subject,
           IsAbout(next.report, next.subject, reports'), page' = page
    PROVE  ReportPages'
  <1>1. DOMAIN calls' = Posts /\ \A d \in Posts : calls'[d] = IF d = c THEN next ELSE calls[d]
    BY DEF ReportPages
  <1>2. \A p \in Pages : IsAbout(page[p].report, page[p].subject, reports')
    BY AboutStays DEF ReportPages
  <1>3. ASSUME NEW d \in Posts, calls'[d] # Reports!Free
        PROVE  /\ calls'[d] \in PageCall /\ IsAbout(calls'[d].report, calls'[d].subject, reports')
               /\ calls'[d].tab \in Pages => page'[calls'[d].tab].subject = calls'[d].subject
    <2>1. CASE d = c
      BY <1>1, <2>1 DEF ReportPages
    <2>2. CASE d # c
      BY <1>1, <1>3, <2>2, AboutStays DEF ReportPages
    <2> QED
      BY <2>1, <2>2
  <1> QED
    BY <1>1, <1>2, <1>3 DEF ReportPages

\* An answer is a report of the student who was asked about.
LEMMA CallIsAnswered ==
    ASSUME ReportPages, RowsStay, NEW c \in Posts, NEW r \in ShownReport,
           calls[c].at \in {"sent", "insert", "answered"},
           Reports!Answered(c, r), IsAbout(r, calls[c].subject, reports'), page' = page
    PROVE  ReportPages'
  <1> DEFINE next == [calls[c] EXCEPT !.at = "answered", !.report = r]
  <1>1. calls[c] \in PageCall /\ calls[c] # Reports!Free
    BY ACall
  <1>2. /\ next \in PageCall /\ next.tab = calls[c].tab /\ next.subject = calls[c].subject
        /\ next.report = r
    BY <1>1 DEF PageCall
  <1>3. calls' = [calls EXCEPT ![c] = next]
    BY DEF Reports!Answered
  <1> HIDE DEF next
  <1>4. IsAbout(next.report, next.subject, reports')
    BY <1>2
  <1> QED
    BY <1>1, <1>2, <1>3, <1>4, CallMoves

SubjectRows(x) == {i \in DOMAIN reports : reports[i].subject = x}

LEMMA SameMax == \A S : Reports!Max(S) = Max(S)
  BY DEF Reports!Max, Max

\* The latest row of a student is one of hers, or none is there.
LEMMA LatestIsOfTheSubject ==
    ASSUME ReportRows, NEW x
    PROVE  Reports!Latest(x) \in {0} \cup SubjectRows(x)
  <1> DEFINE S == {0} \cup SubjectRows(x)
  <1>1. Len(reports) \in Nat /\ DOMAIN reports = 1 .. Len(reports)
    BY DEF ReportRows
  <1>2. S \subseteq 0 .. Len(reports) /\ S # {} /\ S \subseteq Nat
    BY <1>1 DEF SubjectRows
  <1>3. IsFiniteSet(S)
    <2>1. IsFiniteSet(0 .. Len(reports))
      BY <1>1, FS_Interval
    <2> QED
      BY <1>2, <2>1, FS_Subset
  <1>4. Max(S) \in S
    BY <1>2, <1>3, MaxOfNumbers
  <1>5. Reports!Latest(x) = Max(S)
    BY SameMax DEF Reports!Latest, SubjectRows
  <1> QED
    BY <1>4, <1>5

LEMMA PublicIsAbout ==
    ASSUME ReportRows, NEW x
    PROVE  /\ Reports!Public(Reports!Latest(x)) \in ShownReport
           /\ IsAbout(Reports!Public(Reports!Latest(x)), x, reports)
  <1> DEFINE i == Reports!Latest(x)
  <1>1. i \in {0} \cup SubjectRows(x)
    BY LatestIsOfTheSubject
  <1> HIDE DEF i
  <1>2. CASE i = 0
    <2>1. Reports!Public(i) = Reports!NoReport
      BY <1>2 DEF Reports!Public
    <2> QED
      BY <2>1, NoReportIsShown DEF i
  <1>3. CASE i # 0
    <2>1. i \in DOMAIN reports /\ reports[i].subject = x /\ i \in Nat
      BY <1>1, <1>3 DEF SubjectRows, ReportRows
    <2>2. reports[i].status \in {"running", "done", "failed"}
      BY <2>1, TaskIsThere DEF ReportRow
    <2>3. PICK status \in {"running", "done", "failed"} : Reports!Public(i) = [id |-> i, status |-> status]
      BY <1>3, <2>2 DEF Reports!Public
    <2> QED
      BY <2>1, <2>3 DEF ShownReport, IsAbout, i
  <1> QED
    BY <1>2, <1>3

LEMMA ReportsGet ==
    ASSUME ReportRows, ReportPages, NEW c \in Posts, Reports!Get(c)
    PROVE  ReportPages'
  <1>1. RowsStay /\ reports' = reports /\ page' = page /\ calls[c].at = "sent"
    BY DEF Reports!Get, RowsStay
  <1> DEFINE r == Reports!Public(Reports!Latest(calls[c].subject))
  <1>2. Reports!Answered(c, r)
    BY DEF Reports!Get
  <1>3. r \in ShownReport /\ IsAbout(r, calls[c].subject, reports')
    BY <1>1, PublicIsAbout
  <1> HIDE DEF r
  <1> QED
    BY <1>1, <1>2, <1>3, CallIsAnswered

LEMMA ReportsLook ==
    ASSUME ReportRows, ReportPages, NEW c \in Posts, Reports!Look(c)
    PROVE  ReportPages'
  <1>1. RowsStay /\ reports' = reports /\ page' = page /\ calls[c].at = "sent"
    BY DEF Reports!Look, RowsStay
  <1>2. calls[c] # Reports!Free /\ calls[c] \in PageCall /\ IsAbout(calls[c].report, calls[c].subject, reports)
    BY <1>1, ACall
  <1> DEFINE r == Reports!Public(Reports!Latest(calls[c].subject))
             next == [calls[c] EXCEPT !.at = "insert"]
  <1>3. Reports!Answered(c, r) \/ calls' = [calls EXCEPT ![c] = next]
    BY DEF Reports!Look
  <1>4. r \in ShownReport /\ IsAbout(r, calls[c].subject, reports')
    BY <1>1, PublicIsAbout
  <1>5. next \in PageCall /\ next.tab = calls[c].tab /\ next.subject = calls[c].subject /\ next.report = calls[c].report
    BY <1>2 DEF PageCall
  <1> HIDE DEF r, next
  <1>6. CASE Reports!Answered(c, r)
    BY <1>1, <1>4, <1>6, CallIsAnswered
  <1>7. CASE calls' = [calls EXCEPT ![c] = next]
    BY <1>1, <1>2, <1>5, <1>7, CallMoves
  <1> QED
    BY <1>3, <1>6, <1>7

LEMMA ReportsInserted ==
    ASSUME ReportRows, ReportPages, NEW c \in Posts, Reports!Insert(c)
    PROVE  ReportRows' /\ ReportPages'
  <1>1. calls[c].at = "insert" /\ page' = page
    BY DEF Reports!Insert
  <1>2. calls[c].subject \in Pupils
    BY <1>1, ACall DEF PageCall
  <1>3. /\ ReportRows' /\ Len(reports') = Len(reports) + 1
        /\ reports'[Len(reports) + 1].subject = calls[c].subject /\ RowsStay
    BY <1>2, ReportsInsert DEF RowsStay
  <1> DEFINE r == [id |-> Len(reports) + 1, status |-> "running"]
  <1>4. Reports!Answered(c, r)
    BY DEF Reports!Insert
  <1>5. r \in ShownReport /\ IsAbout(r, calls[c].subject, reports')
    BY <1>3 DEF ShownReport, IsAbout, ReportRows
  <1> HIDE DEF r
  <1> QED
    BY <1>1, <1>3, <1>4, <1>5, CallIsAnswered

LEMMA ReportsRequestFails ==
    ASSUME ReportPages, NEW c \in Posts, Reports!RequestFails(c)
    PROVE  ReportPages'
  <1>1. RowsStay /\ page' = page /\ calls[c].at \in {"sent", "insert"} /\ Reports!Answered(c, Reports!NoReport)
    BY DEF Reports!RequestFails, RowsStay
  <1> QED
    BY <1>1, NoReportIsShown, CallIsAnswered

\* The rows change, the pages do not.
LEMMA PagesOutlastRows ==
    ASSUME ReportPages, RowsStay, page' = page, calls' = calls
    PROVE  ReportPages'
  BY AboutStays DEF ReportPages

\* Every request that is under way is answered with nothing.
LEMMA PagesCrash ==
    ASSUME ReportPages, Reports!Crash
    PROVE  ReportPages'
  <1>1. RowsStay /\ reports' = reports /\ page' = page /\ DOMAIN calls' = Posts
    BY DEF Reports!Crash, RowsStay
  <1>2. ASSUME NEW c \in Posts, calls'[c] # Reports!Free
        PROVE  /\ calls'[c] \in PageCall /\ IsAbout(calls'[c].report, calls'[c].subject, reports)
               /\ calls'[c].tab \in Pages => page[calls'[c].tab].subject = calls'[c].subject
    <2>1. CASE calls[c].at \in {"sent", "insert"}
      <3>1. /\ calls[c] \in PageCall
            /\ calls[c].tab \in Pages => page[calls[c].tab].subject = calls[c].subject
        BY <2>1, ACall
      <3>2. calls'[c] = [calls[c] EXCEPT !.at = "answered", !.report = Reports!NoReport]
        BY <2>1 DEF Reports!Crash
      <3>3. /\ calls'[c] \in PageCall /\ calls'[c].tab = calls[c].tab /\ calls'[c].subject = calls[c].subject
            /\ calls'[c].report = Reports!NoReport
        BY <3>1, <3>2, NoReportIsShown DEF PageCall
      <3> QED
        BY <3>1, <3>3, NoReportIsShown
    <2>2. CASE calls[c].at \notin {"sent", "insert"}
      <3>1. calls'[c] = calls[c]
        BY <2>2 DEF Reports!Crash
      <3> QED
        BY <1>2, <3>1 DEF ReportPages
    <2> QED
      BY <2>1, <2>2
  <1> QED
    BY <1>1, <1>2 DEF ReportPages

-----------------------------------------------------------------------------
(* Reports: what the page does *)

\* A request of a page about its student.
LEMMA ReportsSend ==
    ASSUME ReportPages, RowsStay, NEW c \in Posts, NEW p \in Pages, NEW kind \in {"GET", "POST"},
           NEW going \in BOOLEAN, page[p].subject \in Pupils,
           page' = [page EXCEPT ![p].starting = going], Reports!Send(c, p, kind)
    PROVE  ReportPages'
  <1>1. page[p] \in PageState
    BY DEF ReportPages
  <1> DEFINE shows == [page[p] EXCEPT !.starting = going]
  <1>2. shows \in PageState /\ shows.subject = page[p].subject /\ shows.report = page[p].report
    BY <1>1 DEF PageState
  <1>3. page' = [page EXCEPT ![p] = shows]
    OBVIOUS
  <1> HIDE DEF shows
  <1>4. page' \in [Pages -> PageState] /\ \A q \in Pages : page'[q] = IF q = p THEN shows ELSE page[q]
    BY <1>2, <1>3 DEF ReportPages
  <1>5. \A q \in Pages : page'[q].subject = page[q].subject /\ page'[q].report = page[q].report
    BY <1>2, <1>4
  <1> DEFINE next == [at |-> "sent", kind |-> kind, tab |-> p, subject |-> page'[p].subject,
                      report |-> Reports!NoReport]
  <1>6. calls' = [calls EXCEPT ![c] = next]
    BY DEF Reports!Send
  <1>7. /\ next \in PageCall /\ next.tab = p /\ next.subject = page[p].subject
        /\ next.report = Reports!NoReport
    BY <1>5, NoReportIsShown DEF PageCall
  <1> HIDE DEF next
  <1>8. DOMAIN calls' = Posts /\ \A d \in Posts : calls'[d] = IF d = c THEN next ELSE calls[d]
    BY <1>6 DEF ReportPages
  <1>9. ASSUME NEW d \in Posts, calls'[d] # Reports!Free
        PROVE  /\ calls'[d] \in PageCall /\ IsAbout(calls'[d].report, calls'[d].subject, reports')
               /\ calls'[d].tab \in Pages => page'[calls'[d].tab].subject = calls'[d].subject
    <2>1. CASE d = c
      BY <1>5, <1>7, <1>8, <2>1, NoReportIsShown
    <2>2. CASE d # c
      BY <1>5, <1>8, <1>9, <2>2, AboutStays DEF ReportPages
    <2> QED
      BY <2>1, <2>2
  <1>10. \A q \in Pages : /\ page'[q].subject \notin Pupils => page'[q].report.status = "loading"
                          /\ IsAbout(page'[q].report, page'[q].subject, reports')
    BY <1>5, AboutStays DEF ReportPages
  <1> QED
    BY <1>4, <1>8, <1>9, <1>10 DEF ReportPages

LEMMA ReportsPollOrWrite ==
    ASSUME ReportPages, NEW c \in Posts, NEW p \in Pages, Reports!Poll(c, p) \/ Reports!Write(c, p)
    PROVE  ReportPages'
  <1>1. RowsStay
    BY DEF RowsStay, Reports!Poll, Reports!Write
  <1>2. page[p] \in PageState /\ DOMAIN page = Pages
    BY DEF ReportPages
  <1>3. page[p].subject \in Pupils
    BY DEF ReportPages, Reports!Poll, Reports!Write
  <1>4. CASE Reports!Poll(c, p)
    <2>1. page[p].starting \in BOOLEAN /\ page' = [page EXCEPT ![p].starting = page[p].starting]
      <3>1. [page[p] EXCEPT !.starting = page[p].starting] = page[p]
        BY <1>2 DEF PageState
      <3>2. page' = page /\ page = [page EXCEPT ![p] = page[p]]
        BY <1>2, <1>4 DEF Reports!Poll, ReportPages
      <3> QED
        BY <1>2, <3>1, <3>2 DEF PageState
    <2>2. Reports!Send(c, p, "GET")
      BY <1>4 DEF Reports!Poll
    <2>3. PICK going \in BOOLEAN : page' = [page EXCEPT ![p].starting = going]
      BY <2>1
    <2> QED
      BY <1>1, <1>3, <2>2, <2>3, ReportsSend
  <1>5. CASE Reports!Write(c, p)
    <2>1. page' = [page EXCEPT ![p].starting = TRUE] /\ Reports!Send(c, p, "POST")
      BY <1>5 DEF Reports!Write
    <2> QED
      BY <1>1, <1>3, <2>1, ReportsSend
  <1> QED
    BY <1>4, <1>5

\* A page is opened about another student: what was asked for the old one is
\* dropped, and nothing of it is shown any more.
LEMMA ReportsOpen ==
    ASSUME ReportPages, NEW c \in Posts, NEW p \in Pages, NEW x \in Pupils, Reports!Open(c, p, x)
    PROVE  ReportPages'
  <1> DEFINE shows == [subject |-> x, report |-> Reports!Loading, starting |-> FALSE]
             next == [at |-> "sent", kind |-> "GET", tab |-> p, subject |-> x, report |-> Reports!NoReport]
  <1>1. RowsStay /\ reports' = reports
    BY DEF Reports!Open, RowsStay
  <1>2. page' = [page EXCEPT ![p] = shows]
    BY DEF Reports!Open
  <1>3. calls' = [d \in Posts |->
                    IF d = c THEN next
                    ELSE IF calls[d] = Reports!Free \/ calls[d].tab # p THEN calls[d]
                    ELSE IF calls[d].kind = "GET" THEN Reports!Free ELSE [calls[d] EXCEPT !.tab = "nobody"]]
    BY DEF Reports!Open
  <1>4. /\ shows \in PageState /\ shows.report = Reports!Loading /\ shows.subject = x
        /\ shows.report.status = "loading"
    BY NoReportIsShown DEF PageState, Reports!Loading
  <1>5. next \in PageCall /\ next.tab = p /\ next.subject = x /\ next.report = Reports!NoReport
    BY NoReportIsShown DEF PageCall
  <1> HIDE DEF shows, next
  <1>6. page' \in [Pages -> PageState] /\ \A q \in Pages : page'[q] = IF q = p THEN shows ELSE page[q]
    BY <1>2, <1>4 DEF ReportPages
  <1>7. \A q \in Pages : /\ page'[q].subject \notin Pupils => page'[q].report.status = "loading"
                         /\ IsAbout(page'[q].report, page'[q].subject, reports)
    BY <1>4, <1>6, NoReportIsShown DEF ReportPages
  <1>8. ASSUME NEW d \in Posts, calls'[d] # Reports!Free
        PROVE  /\ calls'[d] \in PageCall /\ IsAbout(calls'[d].report, calls'[d].subject, reports)
               /\ calls'[d].tab \in Pages => page'[calls'[d].tab].subject = calls'[d].subject
    <2>1. CASE d = c
      <3>1. calls'[d] = next
        BY <1>3, <2>1
      <3> QED
        BY <1>4, <1>5, <1>6, <3>1, NoReportIsShown
    <2>2. CASE d # c /\ calls[d] # Reports!Free /\ calls[d].tab # p
      <3>1. calls'[d] = calls[d]
        BY <1>3, <2>2
      <3> QED
        BY <1>6, <2>2, <3>1 DEF ReportPages
    <2>3. CASE d # c /\ calls[d] # Reports!Free /\ calls[d].tab = p
      <3>1. /\ calls[d] \in PageCall /\ IsAbout(calls[d].report, calls[d].subject, reports)
            /\ "nobody" \notin Pages
        BY <2>3, ReportsAssumption DEF ReportPages, Reports!ReportConstants
      <3>2. calls'[d] = [calls[d] EXCEPT !.tab = "nobody"]
        BY <1>3, <1>8, <2>3
      <3>3. /\ calls'[d] \in PageCall /\ calls'[d].report = calls[d].report
            /\ calls'[d].subject = calls[d].subject /\ calls'[d].tab = "nobody"
        BY <3>1, <3>2 DEF PageCall
      <3> QED
        BY <3>1, <3>3
    <2>4. CASE d # c /\ calls[d] = Reports!Free
      BY <1>3, <1>8, <2>4
    <2> QED
      BY <2>1, <2>2, <2>3, <2>4
  <1>9. DOMAIN calls' = Posts
    BY <1>3
  <1> QED
    BY <1>1, <1>6, <1>7, <1>8, <1>9 DEF ReportPages

\* An answer arrives at the page that asked, if it still is about the student.
LEMMA ReportsReceive ==
    ASSUME ReportPages, NEW c \in Posts, Reports!Receive(c)
    PROVE  ReportPages'
  <1>1. RowsStay /\ reports' = reports /\ calls[c].at = "answered" /\ calls' = [calls EXCEPT ![c] = Reports!Free]
    BY DEF Reports!Receive, RowsStay
  <1>2. /\ calls[c] \in PageCall /\ IsAbout(calls[c].report, calls[c].subject, reports)
        /\ calls[c].tab \in Pages => page[calls[c].tab].subject = calls[c].subject
    BY <1>1, ACall
  <1>3. ASSUME NEW p \in Pages
        PROVE  /\ page'[p] \in PageState /\ page'[p].subject = page[p].subject
               /\ page'[p].subject \notin Pupils => page'[p].report.status = "loading"
               /\ IsAbout(page'[p].report, page'[p].subject, reports)
    <2>1. /\ page[p] \in PageState /\ IsAbout(page[p].report, page[p].subject, reports)
          /\ page[p].subject \notin Pupils => page[p].report.status = "loading"
      BY DEF ReportPages
    <2>2. CASE p # calls[c].tab
      <3>1. page'[p] = page[p]
        BY <2>2 DEF Reports!Receive
      <3> QED
        BY <2>1, <3>1
    <2>3. CASE p = calls[c].tab
      <3>1. PICK going \in BOOLEAN, r \in {page[p].report, calls[c].report} :
                page'[p] = [page[p] EXCEPT !.starting = going, !.report = r]
        <4> DEFINE going == page[p].starting /\ calls[c].kind = "GET"
                   r == IF calls[c].kind = "POST" /\ calls[c].report = Reports!NoReport THEN page[p].report
                        ELSE calls[c].report
        <4>1. page'[p] = [page[p] EXCEPT !.starting = going, !.report = r]
          BY <2>3 DEF Reports!Receive
        <4>2. going \in BOOLEAN /\ r \in {page[p].report, calls[c].report}
          OBVIOUS
        <4> HIDE DEF going, r
        <4> QED
          BY <4>1, <4>2
      <3>2. page[p].subject = calls[c].subject /\ calls[c].subject \in Pupils /\ calls[c].report \in ShownReport
        BY <1>2, <2>3 DEF PageCall
      <3>3. r \in ShownReport /\ IsAbout(r, page[p].subject, reports)
        BY <1>2, <2>1, <3>2 DEF PageState
      <3>4. page'[p] \in PageState /\ page'[p].subject = page[p].subject /\ page'[p].report = r
        BY <2>1, <3>1, <3>3 DEF PageState
      <3> QED
        BY <3>2, <3>3, <3>4
    <2> QED
      BY <2>2, <2>3
  <1>4. page' \in [Pages -> PageState]
    <2>1. page' = [p \in Pages |-> page'[p]]
      BY DEF Reports!Receive
    <2> QED
      BY <1>3, <2>1
  <1>5. DOMAIN calls' = Posts /\ \A d \in Posts : calls'[d] = IF d = c THEN Reports!Free ELSE calls[d]
    BY <1>1 DEF ReportPages
  <1> QED
    BY <1>1, <1>3, <1>4, <1>5 DEF ReportPages

-----------------------------------------------------------------------------
(* Reports together *)

ReportsInv == ReportRows /\ ReportPages

LEMMA ReportsTaskSteps ==
    ASSUME ReportsInv, NEW i \in DOMAIN reports, Reports!Runs(i)
    PROVE  ReportsInv'
  <1> USE DEF ReportsInv
  <1>1. ReportRows' /\ RowsStay
    <2>1. CASE Reports!Save(i)
      BY <2>1, ReportsSave DEF RowsStay
    <2>2. CASE Reports!Gather(i) \/ Reports!Reply(i) \/ Reports!SaveFails(i)
      <3>1. reports' = reports
        BY <2>2 DEF Reports!Gather, Reports!Reply, Reports!SaveFails
      <3> QED
        BY <2>2, <3>1, ReportsGather, ReportsReply, ReportsSaveFails DEF RowsStay
    <2> QED
      BY <2>1, <2>2 DEF Reports!Runs
  <1>2. page' = page /\ calls' = calls
    BY DEF Reports!Runs, Reports!Gather, Reports!Reply, Reports!Save, Reports!SaveFails
  <1> QED
    BY <1>1, <1>2, PagesOutlastRows

LEMMA ReportsCallSteps ==
    ASSUME ReportsInv, NEW c \in Posts,
           \/ Reports!Serve(c) \/ Reports!RequestFails(c) \/ Reports!Receive(c)
           \/ \E p \in Pages : \/ Reports!Poll(c, p) \/ Reports!Write(c, p)
                               \/ \E x \in Pupils : Reports!Open(c, p, x)
    PROVE  ReportsInv'
  <1> USE DEF ReportsInv
  <1>1. CASE Reports!Insert(c)
    BY <1>1, ReportsInserted
  <1>2. CASE ~Reports!Insert(c)
    <2>1. /\ UNCHANGED <<reports, tasks, listed>>
      BY <1>2 DEF Reports!Serve, Reports!Get, Reports!Look, Reports!RequestFails, Reports!Receive,
                  Reports!Poll, Reports!Write, Reports!Open
    <2>2. ReportRows'
      BY <2>1, ReportsAsk
    <2>3. ReportPages'
      BY <1>2, ReportsGet, ReportsLook, ReportsRequestFails, ReportsReceive, ReportsPollOrWrite, ReportsOpen
         DEF Reports!Serve
    <2> QED
      BY <2>2, <2>3
  <1> QED
    BY <1>1, <1>2

LEMMA ReportsInvStep ==
    ASSUME ReportsInv, Reports!Next
    PROVE  ReportsInv'
  <1> USE DEF ReportsInv
  <1>1. CASE Reports!Tick
    <2>1. ReportRows' /\ RowsStay /\ page' = page /\ calls' = calls
      BY <1>1, ReportsTick DEF RowsStay, Reports!Tick
    <2> QED
      BY <2>1, PagesOutlastRows
  <1>2. CASE Reports!Crash
    BY <1>2, ReportsCrash, PagesCrash
  <1>3. CASE \E x \in Pupils : Reports!AskQuestion(x)
    <2>1. UNCHANGED <<reports, tasks, page, calls>> /\ listed \subseteq listed' /\ RowsStay
      BY <1>3 DEF Reports!AskQuestion, RowsStay
    <2> QED
      BY <2>1, ReportsAsk, PagesOutlastRows
  <1> QED
    BY <1>1, <1>2, <1>3, ReportsTaskSteps, ReportsCallSteps DEF Reports!Next

LEMMA ReportsStay ==
    ASSUME ReportsInv, UNCHANGED reportVars
    PROVE  ReportsInv'
  <1>1. UNCHANGED <<reports, tasks, listed, page, calls>> /\ RowsStay
    BY DEF reportVars, RowsStay
  <1> QED
    BY <1>1, ReportsAsk, PagesOutlastRows DEF ReportsInv

LEMMA ReportsInvHolds == ReportsInv => ReportsExplain
  <1> SUFFICES ASSUME ReportsInv  PROVE ReportsExplain
    OBVIOUS
  <1>1. Reports!TypeOK
    <2>1. reports \in Seq(ReportRow) /\ Len(tasks) = Len(reports)
      BY DEF ReportsInv, ReportRows
    <2>2. \A i \in DOMAIN tasks : tasks[i].at \in {"gather", "model", "save", "gone"}
      <3>1. \A i \in DOMAIN tasks : tasks[i] \in ReportTask
        BY DEF ReportsInv, ReportRows
      <3> QED
        BY <3>1 DEF ReportTask, ReportResult
    <2>3. \A p \in Pages : page[p].subject \in Pupils \cup {"nobody"} /\ page[p].starting \in BOOLEAN
      <3>1. \A p \in Pages : page[p] \in PageState
        BY DEF ReportsInv, ReportPages
      <3> QED
        BY <3>1 DEF PageState
    <2>4. \A c \in Posts : calls[c].at \in {"free", "sent", "insert", "answered"}
      BY DEF ReportsInv, ReportPages, PageCall, Reports!Free
    <2> QED
      BY <2>1, <2>2, <2>3, <2>4 DEF Reports!TypeOK, ReportRow, Reasons
  <1>2. Reports!FinishedReportsExplain
    BY DEF ReportsInv, ReportRows, Explained, Reports!FinishedReportsExplain
  <1>3. Reports!PagesShowTheirStudent
    BY DEF ReportsInv, ReportPages, IsAbout, Reports!PagesShowTheirStudent
  <1> QED
    BY <1>1, <1>2, <1>3 DEF ReportsExplain

-----------------------------------------------------------------------------
(* The worker's loop: the average of a window                              *)

\* What should_run adds up is the sum over the window's places.
LEMMA OpensByTheSum ==
    ASSUME NEW g, NEW w
    PROVE  Loop!Opens(g, w) = (IF open[g] THEN SumFunctionOnSet(w, DOMAIN w) <= HighMark[g] * Len(w)
                               ELSE SumFunctionOnSet(w, DOMAIN w) < LowMark[g] * Len(w))
  BY DEF Loop!Opens, Loop!FoldSeq, Loop!FoldFunction, Loop!FoldFunctionOnSet, Loop!MapThenFoldSet,
         SumFunctionOnSet, FoldFunctionOnSet, MapThenFoldSet

LEMMA OneMore ==
    \A n, m, a, b \in Nat : /\ a >= m /\ b >= m * n => a + b >= m * (n + 1)
                            /\ a <= m /\ b <= m * n => a + b <= m * (n + 1)
                            /\ m * n \in Nat
  <1> SUFFICES ASSUME NEW n \in Nat, NEW m \in Nat, NEW a \in Nat, NEW b \in Nat
               PROVE  /\ a >= m /\ b >= m * n => a + b >= m * (n + 1)
                      /\ a <= m /\ b <= m * n => a + b <= m * (n + 1)
                      /\ m * n \in Nat
    OBVIOUS
  <1>1. m * (n + 1) = m * n + m
    OBVIOUS
  <1>2. m * n \in Nat
    OBVIOUS
  <1> QED
    BY <1>1, <1>2

\* A sum of numbers that are all at least, or all at most, m.
SumAtLeast(f, m, s) == (\A x \in s : f[x] >= m) => SumFunctionOnSet(f, s) >= m * Cardinality(s)
SumAtMost(f, m, s) == (\A x \in s : f[x] <= m) => SumFunctionOnSet(f, s) <= m * Cardinality(s)

LEMMA SumBounds ==
    ASSUME NEW f, NEW S, NumbersOn(f, S), NEW m \in Nat
    PROVE  SumAtLeast(f, m, S) /\ SumAtMost(f, m, S)
  <1> DEFINE good == {s \in SUBSET S : SumAtLeast(f, m, s) /\ SumAtMost(f, m, s)}
  <1>1. ASSUME NEW s \in SUBSET S, \A t \in SUBSET s : t # s => t \in good
        PROVE  s \in good
    <2>1. IsFiniteSet(s) /\ Cardinality(s) \in Nat /\ NumbersOn(f, s)
      BY FS_Subset, FS_CardinalityType DEF NumbersOn
    <2>2. CASE s = {}
      <3>1. SumFunctionOnSet(f, s) = 0 /\ Cardinality(s) = 0
        BY <2>2, SumEmpty, FS_EmptySet
      <3>2. m * 0 = 0
        OBVIOUS
      <3> QED
        BY <3>1, <3>2 DEF SumAtLeast, SumAtMost
    <2>3. CASE s # {}
      <3>1. PICK c \in s : TRUE
        BY <2>3
      <3> DEFINE rest == s \ {c}
      <3>2. rest \in SUBSET S /\ rest \in good
        BY <1>1, <3>1
      <3>3. SumFunctionOnSet(f, s) = f[c] + SumFunctionOnSet(f, rest)
        BY <2>1, <3>1, SumTakes
      <3>4. IsFiniteSet(rest) /\ Cardinality(rest) \in Nat /\ Cardinality(s) = Cardinality(rest) + 1
        <4>1. IsFiniteSet(rest) /\ Cardinality(rest) = Cardinality(s) - 1
          BY <2>1, <3>1, FS_RemoveElement
        <4>2. Cardinality(rest) \in Nat
          BY <4>1, FS_CardinalityType
        <4> QED
          BY <2>1, <4>1, <4>2
      <3>5. NumbersOn(f, rest) /\ f[c] \in Nat
        BY <2>1, <3>1, <3>4 DEF NumbersOn
      <3>6. SumFunctionOnSet(f, rest) \in Nat
        BY <3>5, SumType
      <3>7. SumAtLeast(f, m, rest) /\ SumAtMost(f, m, rest) /\ \A x \in rest : x \in s
        BY <3>2
      <3> HIDE DEF rest, good
      <3>8. SumAtLeast(f, m, s)
        BY <3>1, <3>3, <3>4, <3>5, <3>6, <3>7, OneMore DEF SumAtLeast
      <3>9. SumAtMost(f, m, s)
        BY <3>1, <3>3, <3>4, <3>5, <3>6, <3>7, OneMore DEF SumAtMost
      <3> QED
        BY <3>8, <3>9 DEF good
    <2> QED
      BY <2>2, <2>3
  <1>2. S \in good
    <2>1. IsFiniteSet(S)
      BY DEF NumbersOn
    <2> HIDE DEF good
    <2> QED
      BY <1>1, <2>1, SubsetInduction
  <1> QED
    BY <1>2

\* A window and the sum of its samples.
LEMMA WindowBounds ==
    ASSUME NEW w \in Seq(Nat), NEW m \in Nat
    PROVE  /\ SumFunctionOnSet(w, DOMAIN w) \in Nat
           /\ Len(w) \in Nat /\ m * Len(w) \in Nat
           /\ (\A i \in DOMAIN w : w[i] >= m) => SumFunctionOnSet(w, DOMAIN w) >= m * Len(w)
           /\ (\A i \in DOMAIN w : w[i] <= m) => SumFunctionOnSet(w, DOMAIN w) <= m * Len(w)
  <1>1. Len(w) \in Nat /\ DOMAIN w = 1 .. Len(w) /\ \A i \in DOMAIN w : w[i] \in Nat
    OBVIOUS
  <1>2. IsFiniteSet(1 .. Len(w)) /\ Cardinality(1 .. Len(w)) = Len(w)
    <2>1. \A n \in Nat : n \in Int /\ 1 \in Int /\ (n - 1) + 1 = n /\ (1 > n => n = 0)
      OBVIOUS
    <2>2. IsFiniteSet(1 .. Len(w)) /\ Cardinality(1 .. Len(w)) = (IF 1 > Len(w) THEN 0 ELSE Len(w) - 1 + 1)
      BY <1>1, <2>1, FS_Interval
    <2> QED
      BY <1>1, <2>1, <2>2
  <1>3. NumbersOn(w, DOMAIN w)
    BY <1>1, <1>2 DEF NumbersOn
  <1>4. SumFunctionOnSet(w, DOMAIN w) \in Nat
    BY <1>3, SumType
  <1>5. SumAtLeast(w, m, DOMAIN w) /\ SumAtMost(w, m, DOMAIN w)
    BY <1>3, SumBounds
  <1>6. m * Len(w) \in Nat
    BY <1>1
  <1> QED
    BY <1>1, <1>2, <1>4, <1>5, <1>6 DEF SumAtLeast, SumAtMost

\* A whole window above the high watermark closes the gate, one below the low
\* watermark opens it, and a window that changes a gate has a sample beyond the mark.
LEMMA WindowDecides ==
    ASSUME NEW g, NEW w \in Seq(Nat), w # <<>>, LowMark[g] \in Nat, HighMark[g] \in Nat,
           LowMark[g] <= HighMark[g]
    PROVE  /\ (\A i \in DOMAIN w : w[i] > HighMark[g]) => ~Loop!Opens(g, w)
           /\ (\A i \in DOMAIN w : w[i] < LowMark[g]) => Loop!Opens(g, w)
           /\ open[g] /\ ~Loop!Opens(g, w) => \E i \in DOMAIN w : w[i] > HighMark[g]
           /\ ~open[g] /\ Loop!Opens(g, w) => \E i \in DOMAIN w : w[i] < LowMark[g]
  <1> DEFINE sum == SumFunctionOnSet(w, DOMAIN w)
             n == Len(w)
             high == HighMark[g]
             low == LowMark[g]
  <1>1. n \in Nat \ {0} /\ \A i \in DOMAIN w : w[i] \in Nat
    OBVIOUS
  <1>2. sum \in Nat /\ high * n \in Nat /\ low * n \in Nat
    BY WindowBounds
  <1>3. \A m \in Nat : (\A i \in DOMAIN w : w[i] >= m) => sum >= m * n
    BY WindowBounds
  <1>4. \A m \in Nat : (\A i \in DOMAIN w : w[i] <= m) => sum <= m * n
    BY WindowBounds
  <1>5. Loop!Opens(g, w) = (IF open[g] THEN sum <= high * n ELSE sum < low * n)
    BY OpensByTheSum
  <1>6. \A a \in Nat : (a + 1) * n = a * n + n /\ a * n \in Nat
    BY <1>1
  <1>7. low * n <= high * n
    <2>1. \A a, b, c \in Nat : a <= b => a * c <= b * c
      <3> SUFFICES ASSUME NEW a \in Nat, NEW b \in Nat, NEW c \in Nat, a <= b
                   PROVE  a * c <= b * c
        OBVIOUS
      <3>1. b - a \in Nat /\ (b - a) * c \in Nat
        OBVIOUS
      <3>2. b * c = a * c + (b - a) * c
        OBVIOUS
      <3>3. a * c \in Nat /\ b * c \in Nat
        OBVIOUS
      <3> QED
        BY <3>1, <3>2, <3>3
    <2> QED
      BY <1>1, <2>1
  <1> HIDE DEF sum, n
  <1>8. ASSUME \A i \in DOMAIN w : w[i] > high  PROVE sum > high * n
    <2>1. \A i \in DOMAIN w : w[i] >= high + 1
      BY <1>1, <1>8
    <2>2. sum >= (high + 1) * n
      BY <1>3, <2>1
    <2>3. (high + 1) * n = high * n + n
      BY <1>6
    <2> QED
      BY <1>1, <1>2, <2>2, <2>3
  <1>9. ASSUME \A i \in DOMAIN w : w[i] < low  PROVE sum < low * n
    <2>1. low - 1 \in Nat /\ \A i \in DOMAIN w : w[i] <= low - 1
      <3>1. 1 \in DOMAIN w
        BY <1>1 DEF n
      <3> QED
        BY <1>1, <1>9, <3>1
    <2>2. sum <= (low - 1) * n
      BY <1>4, <2>1
    <2>3. ((low - 1) + 1) * n = (low - 1) * n + n /\ (low - 1) * n \in Nat
      BY <1>6, <2>1
    <2>4. (low - 1) + 1 = low
      OBVIOUS
    <2> QED
      BY <1>1, <1>2, <2>2, <2>3, <2>4
  <1> DEFINE highs == high * n
             lows == low * n
  <1>10. highs \in Nat /\ lows \in Nat /\ lows <= highs
    BY <1>2, <1>7
  <1>11. /\ (\A i \in DOMAIN w : w[i] <= high) => sum <= highs
         /\ (\A i \in DOMAIN w : w[i] >= low) => sum >= lows
    BY <1>3, <1>4
  <1>12. /\ (\A i \in DOMAIN w : w[i] > high) => sum > highs
         /\ (\A i \in DOMAIN w : w[i] < low) => sum < lows
    BY <1>8, <1>9
  <1>13. Loop!Opens(g, w) = (IF open[g] THEN sum <= highs ELSE sum < lows)
    BY <1>5
  <1>14. \A i \in DOMAIN w : (w[i] > high <=> ~(w[i] <= high)) /\ (w[i] < low <=> ~(w[i] >= low))
    BY <1>1
  <1> HIDE DEF highs, lows, high, low
  <1>15. /\ (\A i \in DOMAIN w : w[i] > high) => ~Loop!Opens(g, w)
         /\ (\A i \in DOMAIN w : w[i] < low) => Loop!Opens(g, w)
    <2>1. /\ sum > highs => ~(sum <= highs) /\ ~(sum < lows)
          /\ sum < lows => sum <= highs
      BY <1>2, <1>10
    <2> QED
      BY <1>12, <1>13, <2>1
  <1>16. sum > highs => \E i \in DOMAIN w : w[i] > high
    <2>1. sum > highs => ~(sum <= highs)
      BY <1>2, <1>10
    <2> QED
      BY <1>11, <1>14, <2>1
  <1>17. sum < lows => \E i \in DOMAIN w : w[i] < low
    <2>1. sum < lows => ~(sum >= lows)
      BY <1>2, <1>10
    <2> QED
      BY <1>11, <1>14, <2>1
  <1>18. /\ open[g] /\ ~Loop!Opens(g, w) => sum > highs
         /\ ~open[g] /\ Loop!Opens(g, w) => sum < lows
    <2>1. ~(sum <= highs) => sum > highs
      BY <1>2, <1>10
    <2> QED
      BY <1>13, <2>1
  <1> QED
    BY <1>15, <1>16, <1>17, <1>18 DEF high, low

-----------------------------------------------------------------------------
(* The worker's loop: a step of the tick                                   *)

GateSet == {LoadGates[1], LoadGates[2]}

LEMMA TheGates ==
    /\ Loop!Range(LoadGates) = GateSet /\ Head(LoadGates) = LoadGates[1]
    /\ Loop!Last(LoadGates) = LoadGates[2] /\ LoadGates[1] # LoadGates[2]
    /\ \A g \in GateSet : g \notin {"settings", "work", "working", "asleep", "down"}
  <1>1. /\ Len(LoadGates) = 2 /\ LoadGates \in Seq(Loop!Range(LoadGates)) /\ LoadGates[1] # LoadGates[2]
        /\ Loop!Range(LoadGates) \cap {"settings", "work", "working", "asleep", "down"} = {}
    BY LoopAssumption DEF Loop!LoopConstants
  <1>2. DOMAIN LoadGates = {1, 2}
    BY <1>1
  <1>3. Loop!Range(LoadGates) = GateSet
    BY <1>2 DEF Loop!Range, GateSet
  <1>4. Head(LoadGates) = LoadGates[1] /\ Loop!Last(LoadGates) = LoadGates[2]
    BY <1>1 DEF Loop!Last
  <1> QED
    BY <1>1, <1>3, <1>4

LEMMA GateNumbers ==
    \A g \in GateSet : /\ GateLoads[g] \subseteq Nat /\ LowMark[g] \in Nat /\ HighMark[g] \in Nat
                       /\ LowMark[g] <= HighMark[g]
  BY LoopAssumption, TheGates DEF Loop!LoopConstants

LEMMA WindowIsANumber == Window \in Nat \ {0}
  BY LoopAssumption DEF Loop!LoopConstants

AWindow(w, g) == w \in Seq(GateLoads[g]) /\ Len(w) <= Window

\* A gate that is full of loads beyond a watermark stands as they say.
FollowsWindow(w, o, g) ==
    Len(w) = Window => /\ (\A i \in 1 .. Window : w[i] > HighMark[g]) => ~o
                       /\ (\A i \in 1 .. Window : w[i] < LowMark[g]) => o

LoopTypes ==
    /\ DOMAIN load = GateSet /\ DOMAIN samples = GateSet /\ DOMAIN open = GateSet
    /\ \A g \in GateSet : /\ load[g] \in GateLoads[g] /\ open[g] \in BOOLEAN
                          /\ AWindow(samples[g], g) /\ FollowsWindow(samples[g], open[g], g)
    /\ config \in WorkerConfigs
    /\ known \in [config : WorkerConfigs \cup {"none"}, clients : WorkerConfigs \cup {"none"}]
    /\ tick \in {"settings", "work", "working", "asleep", "down"} \cup GateSet
    /\ job \in {"parse", "index", "none"} /\ waiting \in [{"parse", "index"} -> Nat]

LoopPrepared ==
    /\ known.clients = known.config
    /\ tick = LoadGates[2] => open[LoadGates[1]]
    /\ tick \in {"work", "working"} => \A g \in GateSet : open[g]

LoopInv == LoopTypes /\ LoopPrepared

LEMMA TheKinds == Loop!Range(Loop!Kinds) = {"parse", "index"}
  <1>1. DOMAIN Loop!Kinds = {1, 2} /\ Loop!Kinds[1] = "parse" /\ Loop!Kinds[2] = "index"
    BY DEF Loop!Kinds
  <1> QED
    BY <1>1 DEF Loop!Range

LEMMA NoWindowYet == \A g : AWindow(<<>>, g) /\ \A o : FollowsWindow(<<>>, o, g)
  <1>1. \A S : <<>> \in Seq(S) /\ Len(<<>>) = 0
    OBVIOUS
  <1> QED
    BY <1>1, WindowIsANumber DEF AWindow, FollowsWindow

LEMMA LoopInit == Loop!Init => LoopInv
  <1> SUFFICES ASSUME Loop!Init  PROVE LoopInv
    OBVIOUS
  <1>1. /\ DOMAIN load = GateSet /\ \A g \in GateSet : load[g] \in GateLoads[g]
        /\ samples = [g \in GateSet |-> <<>>] /\ open = [g \in GateSet |-> FALSE]
        /\ config \in WorkerConfigs /\ known = [config |-> "none", clients |-> "none"]
        /\ tick = "settings" /\ job = "none" /\ waiting = [k \in {"parse", "index"} |-> 0]
    BY TheGates, TheKinds DEF Loop!Init, Loop!NothingKnown, Loop!NoConfig, Loop!NoJob
  <1>2. LoopTypes
    BY <1>1, NoWindowYet DEF LoopTypes
  <1>3. LoopPrepared
    BY <1>1, TheGates DEF LoopPrepared, GateSet
  <1> QED
    BY <1>2, <1>3 DEF LoopInv

\* What the steps do to the queues, the clients and the world.
LEMMA AppendToWindow ==
    ASSUME NEW S, NEW w \in Seq(S), NEW x \in S
    PROVE  /\ Append(w, x) \in Seq(S) /\ Len(Append(w, x)) = Len(w) + 1
           /\ Tail(Append(w, x)) \in Seq(S) /\ Len(Tail(Append(w, x))) = Len(w) /\ Len(w) \in Nat
  <1>1. Append(w, x) \in Seq(S) /\ Len(Append(w, x)) = Len(w) + 1 /\ Len(w) \in Nat
    OBVIOUS
  <1> DEFINE v == Append(w, x)
  <1>2. Len(v) # 0 /\ v \in Seq(S)
    BY <1>1
  <1> HIDE DEF v
  <1>3. Tail(v) \in Seq(S) /\ Len(Tail(v)) = Len(v) - 1
    BY <1>2
  <1> QED
    BY <1>1, <1>3 DEF v

LEMMA SampledIsAWindow ==
    ASSUME LoopTypes, NEW g \in GateSet
    PROVE  AWindow(Loop!Sampled(g), g) /\ Loop!Sampled(g) # <<>>
  <1> DEFINE w == samples[g]
             all == Append(w, load[g])
  <1>1. w \in Seq(GateLoads[g]) /\ Len(w) <= Window /\ load[g] \in GateLoads[g] /\ Window \in Nat \ {0}
    BY WindowIsANumber DEF LoopTypes, AWindow
  <1>2. /\ all \in Seq(GateLoads[g]) /\ Len(all) = Len(w) + 1 /\ Len(w) \in Nat
        /\ Tail(all) \in Seq(GateLoads[g]) /\ Len(Tail(all)) = Len(w)
    BY <1>1, AppendToWindow
  <1>3. Loop!Sampled(g) = IF Len(all) > Window THEN Tail(all) ELSE all
    BY DEF Loop!Sampled
  <1> HIDE DEF all, w
  <1>4. CASE Len(all) > Window
    <2>1. Loop!Sampled(g) = Tail(all) /\ Len(w) = Window /\ Len(Tail(all)) = Window
      BY <1>1, <1>2, <1>3, <1>4
    <2>2. Tail(all) # <<>>
      BY <1>1, <2>1
    <2> QED
      BY <1>1, <1>2, <2>1, <2>2 DEF AWindow
  <1>5. CASE ~(Len(all) > Window)
    <2>1. Loop!Sampled(g) = all /\ Len(all) <= Window
      BY <1>1, <1>2, <1>3, <1>5
    <2>2. all # <<>>
      BY <1>2
    <2> QED
      BY <1>2, <2>1, <2>2 DEF AWindow
  <1> QED
    BY <1>4, <1>5

\* What a gate decides on its new window.
LEMMA SampledDecides ==
    ASSUME LoopTypes, NEW g \in GateSet, NEW w, w = Loop!Sampled(g), NEW o, o = Loop!Opens(g, w)
    PROVE  /\ AWindow(w, g) /\ FollowsWindow(w, o, g) /\ o \in BOOLEAN
           /\ open[g] /\ ~o => \E i \in DOMAIN w : w[i] > HighMark[g]
           /\ ~open[g] /\ o => \E i \in DOMAIN w : w[i] < LowMark[g]
  <1>1. AWindow(w, g) /\ w # <<>>
    BY SampledIsAWindow
  <1>2. /\ GateLoads[g] \subseteq Nat /\ LowMark[g] \in Nat /\ HighMark[g] \in Nat /\ LowMark[g] <= HighMark[g]
    BY GateNumbers
  <1>3. w \in Seq(Nat)
    <2>1. w \in Seq(GateLoads[g])
      BY <1>1 DEF AWindow
    <2> QED
      BY <1>2, <2>1
  <1>4. /\ (\A i \in DOMAIN w : w[i] > HighMark[g]) => ~o
        /\ (\A i \in DOMAIN w : w[i] < LowMark[g]) => o
        /\ open[g] /\ ~o => \E i \in DOMAIN w : w[i] > HighMark[g]
        /\ ~open[g] /\ o => \E i \in DOMAIN w : w[i] < LowMark[g]
    BY <1>1, <1>2, <1>3, WindowDecides
  <1>5. o \in BOOLEAN
    <2> DEFINE sum == SumFunctionOnSet(w, DOMAIN w)
               highs == HighMark[g] * Len(w)
               lows == LowMark[g] * Len(w)
    <2>1. sum \in Nat /\ highs \in Nat /\ lows \in Nat
      BY <1>2, <1>3, WindowBounds
    <2>2. o = (IF open[g] THEN sum <= highs ELSE sum < lows)
      BY OpensByTheSum
    <2> HIDE DEF sum, highs, lows
    <2>3. (sum <= highs) \in BOOLEAN /\ (sum < lows) \in BOOLEAN
      BY <2>1
    <2> QED
      BY <2>2, <2>3
  <1>6. Len(w) = Window => DOMAIN w = 1 .. Window
    BY <1>3
  <1> QED
    BY <1>1, <1>4, <1>5, <1>6 DEF FollowsWindow

LEMMA ObserveStep ==
    ASSUME LoopInv, NEW g \in GateSet, Loop!Observe(g)
    PROVE  LoopInv' /\ Loop!BandKeeps
  <1> DEFINE w == Loop!Sampled(g)
             o == Loop!Opens(g, w)
  <1>1. LoopTypes /\ LoopPrepared
    BY DEF LoopInv
  <1>2. /\ AWindow(w, g) /\ FollowsWindow(w, o, g) /\ o \in BOOLEAN
        /\ open[g] /\ ~o => \E i \in DOMAIN w : w[i] > HighMark[g]
        /\ ~open[g] /\ o => \E i \in DOMAIN w : w[i] < LowMark[g]
    BY <1>1, SampledDecides
  <1>3. /\ tick = g /\ samples' = [samples EXCEPT ![g] = w] /\ open' = [open EXCEPT ![g] = o]
        /\ tick' = IF open'[g] THEN Loop!After(g) ELSE "asleep"
        /\ UNCHANGED <<load, config, waiting, known, job>>
    BY DEF Loop!Observe, Loop!world
  <1> HIDE DEF w, o
  <1>4. /\ DOMAIN samples' = GateSet /\ DOMAIN open' = GateSet /\ samples'[g] = w /\ open'[g] = o
        /\ \A h \in GateSet : h # g => samples'[h] = samples[h] /\ open'[h] = open[h]
    BY <1>1, <1>3 DEF LoopTypes
  <1>5. Loop!After(g) = IF g = LoadGates[2] THEN "work" ELSE LoadGates[2]
    BY TheGates DEF Loop!After
  <1>6. \A h \in GateSet : /\ load'[h] \in GateLoads[h] /\ open'[h] \in BOOLEAN
                           /\ AWindow(samples'[h], h) /\ FollowsWindow(samples'[h], open'[h], h)
    BY <1>1, <1>2, <1>3, <1>4 DEF LoopTypes
  <1>7. tick' \in {"settings", "work", "working", "asleep", "down"} \cup GateSet
    BY <1>3, <1>5 DEF GateSet
  <1>8. LoopTypes'
    <2>1. /\ DOMAIN load' = GateSet /\ config' \in WorkerConfigs
          /\ known' \in [config : WorkerConfigs \cup {"none"}, clients : WorkerConfigs \cup {"none"}]
          /\ job' \in {"parse", "index", "none"} /\ waiting' \in [{"parse", "index"} -> Nat]
      BY <1>1, <1>3 DEF LoopTypes
    <2> QED
      BY <1>4, <1>6, <1>7, <2>1 DEF LoopTypes
  <1>9. LoopPrepared'
    <2>1. known'.clients = known'.config
      BY <1>1, <1>3 DEF LoopPrepared
    <2>2. CASE ~o
      BY <1>3, <1>4, <2>1, <2>2, TheGates DEF LoopPrepared, GateSet
    <2>3. CASE o /\ g = LoadGates[2]
      <3>1. tick' = "work"
        BY <1>3, <1>4, <1>5, <2>3
      <3>2. open'[LoadGates[2]] /\ open'[LoadGates[1]]
        BY <1>1, <1>3, <1>4, <2>3, TheGates DEF LoopPrepared, GateSet
      <3> QED
        BY <2>1, <3>1, <3>2 DEF LoopPrepared, GateSet
    <2>4. CASE o /\ g = LoadGates[1]
      <3>1. tick' = LoadGates[2]
        BY <1>3, <1>4, <1>5, <2>4, TheGates
      <3> QED
        BY <1>4, <2>1, <2>4, <3>1, TheGates DEF LoopPrepared, GateSet
    <2> QED
      BY <2>2, <2>3, <2>4 DEF GateSet
  <1>10. Loop!BandKeeps
    BY <1>2, <1>4, TheGates DEF Loop!BandKeeps
  <1> QED
    BY <1>8, <1>9, <1>10 DEF LoopInv

-----------------------------------------------------------------------------
(* The worker's loop: the other steps                                      *)

\* A step that leaves the gates alone keeps them.
LEMMA GatesStay ==
    ASSUME LoopTypes, UNCHANGED <<samples, open>>,
           DOMAIN load' = GateSet, \A g \in GateSet : load'[g] \in GateLoads[g]
    PROVE  /\ DOMAIN load' = GateSet /\ DOMAIN samples' = GateSet /\ DOMAIN open' = GateSet
           /\ \A g \in GateSet : /\ load'[g] \in GateLoads[g] /\ open'[g] \in BOOLEAN
                                 /\ AWindow(samples'[g], g) /\ FollowsWindow(samples'[g], open'[g], g)
           /\ Loop!BandKeeps
  <1>1. Loop!BandKeeps
    BY TheGates DEF Loop!BandKeeps, LoopTypes
  <1> QED
    BY <1>1 DEF LoopTypes

LEMMA AroundTheWorker ==
    ASSUME LoopInv,
           \/ \E g \in GateSet : \E x \in GateLoads[g] : Loop!LoadChanges(g, x)
           \/ \E k \in {"parse", "index"} : Loop!JobArrives(k)
           \/ \E c \in WorkerConfigs : Loop!SaveSettings(c)
    PROVE  LoopInv' /\ Loop!BandKeeps
  <1>1. LoopTypes /\ LoopPrepared
    BY DEF LoopInv
  <1>2. UNCHANGED <<samples, open, known, tick, job>>
    BY DEF Loop!LoadChanges, Loop!JobArrives, Loop!SaveSettings, Loop!gates
  <1>3. DOMAIN load' = GateSet /\ \A g \in GateSet : load'[g] \in GateLoads[g]
    <2>1. ASSUME NEW g \in GateSet, NEW x \in GateLoads[g], Loop!LoadChanges(g, x)
          PROVE  DOMAIN load' = GateSet /\ \A h \in GateSet : load'[h] \in GateLoads[h]
      BY <1>1, <2>1 DEF Loop!LoadChanges, LoopTypes
    <2>2. CASE load' = load
      BY <1>1, <2>2 DEF LoopTypes
    <2> QED
      BY <2>1, <2>2 DEF Loop!JobArrives, Loop!SaveSettings
  <1>4. config' \in WorkerConfigs
    BY <1>1 DEF LoopTypes, Loop!LoadChanges, Loop!JobArrives, Loop!SaveSettings
  <1>5. waiting' \in [{"parse", "index"} -> Nat]
    <2>1. ASSUME NEW k \in {"parse", "index"}, Loop!JobArrives(k)
          PROVE  waiting' \in [{"parse", "index"} -> Nat]
      BY <1>1, <2>1 DEF Loop!JobArrives, LoopTypes
    <2>2. CASE waiting' = waiting
      BY <1>1, <2>2 DEF LoopTypes
    <2> QED
      BY <2>1, <2>2 DEF Loop!LoadChanges, Loop!SaveSettings
  <1>6. LoopTypes' /\ Loop!BandKeeps
    <2>1. /\ DOMAIN samples' = GateSet /\ DOMAIN open' = GateSet
          /\ \A g \in GateSet : /\ load'[g] \in GateLoads[g] /\ open'[g] \in BOOLEAN
                                /\ AWindow(samples'[g], g) /\ FollowsWindow(samples'[g], open'[g], g)
          /\ Loop!BandKeeps
      BY <1>1, <1>2, <1>3, GatesStay
    <2>2. /\ known' \in [config : WorkerConfigs \cup {"none"}, clients : WorkerConfigs \cup {"none"}]
          /\ tick' \in {"settings", "work", "working", "asleep", "down"} \cup GateSet
          /\ job' \in {"parse", "index", "none"}
      BY <1>1, <1>2 DEF LoopTypes
    <2> QED
      BY <1>3, <1>4, <1>5, <2>1, <2>2 DEF LoopTypes
  <1>7. LoopPrepared'
    BY <1>1, <1>2 DEF LoopPrepared
  <1> QED
    BY <1>6, <1>7 DEF LoopInv

LEMMA DiesStep ==
    ASSUME LoopInv, Loop!Dies
    PROVE  LoopInv' /\ Loop!BandKeeps
  <1>1. LoopTypes
    BY DEF LoopInv
  <1>2. /\ tick' = "down" /\ known' = [config |-> "none", clients |-> "none"] /\ job' = "none"
        /\ samples' = [g \in GateSet |-> <<>>] /\ open' = [g \in GateSet |-> FALSE]
        /\ waiting' = IF job = "none" THEN waiting ELSE [waiting EXCEPT ![job] = @ + 1]
        /\ UNCHANGED <<load, config>>
    BY TheGates DEF Loop!Dies, Loop!NothingKnown, Loop!NoConfig, Loop!NoJob
  <1>3. waiting' \in [{"parse", "index"} -> Nat]
    BY <1>1, <1>2 DEF LoopTypes
  <1>4. \A g \in GateSet : /\ load'[g] \in GateLoads[g] /\ open'[g] \in BOOLEAN
                           /\ AWindow(samples'[g], g) /\ FollowsWindow(samples'[g], open'[g], g)
    BY <1>1, <1>2, NoWindowYet DEF LoopTypes
  <1>5. LoopTypes'
    <2>1. /\ DOMAIN load' = GateSet /\ DOMAIN samples' = GateSet /\ DOMAIN open' = GateSet
          /\ config' \in WorkerConfigs
      BY <1>1, <1>2 DEF LoopTypes
    <2> QED
      BY <1>2, <1>3, <1>4, <2>1 DEF LoopTypes
  <1>6. LoopPrepared'
    BY <1>2, TheGates DEF LoopPrepared, GateSet
  <1>7. Loop!BandKeeps
    BY <1>2 DEF Loop!BandKeeps
  <1> QED
    BY <1>5, <1>6, <1>7 DEF LoopInv

LEMMA LoadSettingsStep ==
    ASSUME LoopInv, Loop!LoadSettings
    PROVE  LoopInv' /\ Loop!BandKeeps
  <1>1. LoopTypes /\ LoopPrepared
    BY DEF LoopInv
  <1>2. /\ tick' = LoadGates[1] /\ UNCHANGED <<load, config, waiting, samples, open, job>>
        /\ known' = IF known.config = config THEN known ELSE [config |-> config, clients |-> config]
    BY TheGates DEF Loop!LoadSettings, Loop!Built, Loop!world, Loop!gates
  <1>3. /\ known' \in [config : WorkerConfigs \cup {"none"}, clients : WorkerConfigs \cup {"none"}]
        /\ known'.clients = known'.config
    BY <1>1, <1>2 DEF LoopTypes, LoopPrepared
  <1>4. /\ DOMAIN load' = GateSet /\ DOMAIN samples' = GateSet /\ DOMAIN open' = GateSet
        /\ \A g \in GateSet : /\ load'[g] \in GateLoads[g] /\ open'[g] \in BOOLEAN
                              /\ AWindow(samples'[g], g) /\ FollowsWindow(samples'[g], open'[g], g)
        /\ Loop!BandKeeps
    <2>1. DOMAIN load' = GateSet /\ \A g \in GateSet : load'[g] \in GateLoads[g]
      BY <1>1, <1>2 DEF LoopTypes
    <2> QED
      BY <1>1, <1>2, <2>1, GatesStay
  <1>5. LoopTypes'
    <2>1. /\ config' \in WorkerConfigs /\ job' \in {"parse", "index", "none"}
          /\ waiting' \in [{"parse", "index"} -> Nat]
      BY <1>1, <1>2 DEF LoopTypes
    <2>2. tick' \in {"settings", "work", "working", "asleep", "down"} \cup GateSet
      BY <1>2 DEF GateSet
    <2> QED
      BY <1>3, <1>4, <2>1, <2>2 DEF LoopTypes
  <1>6. LoopPrepared'
    BY <1>2, <1>3, TheGates DEF LoopPrepared, GateSet
  <1> QED
    BY <1>4, <1>5, <1>6 DEF LoopInv

\* The steps that change no gate, no load and no settings.
LEMMA QuietTicks ==
    ASSUME LoopInv,
           \/ Loop!EndJob \/ Loop!Sweep \/ Loop!Wake \/ Loop!Restart
           \/ \E k \in {"parse", "index"} : Loop!StartJob(k)
    PROVE  LoopInv' /\ Loop!BandKeeps
  <1>1. LoopTypes /\ LoopPrepared
    BY DEF LoopInv
  <1>2. UNCHANGED <<load, config, samples, open, known>>
    BY DEF Loop!EndJob, Loop!Sweep, Loop!Wake, Loop!Restart, Loop!StartJob, Loop!world, Loop!gates
  <1>3. /\ tick' \in {"settings", "working", "asleep"}
        /\ tick' = "working" => tick = "work"
    BY DEF Loop!EndJob, Loop!Sweep, Loop!Wake, Loop!Restart, Loop!StartJob
  <1>4. job' \in {"parse", "index", "none"} /\ waiting' \in [{"parse", "index"} -> Nat]
    <2>1. ASSUME NEW k \in {"parse", "index"}, Loop!StartJob(k)
          PROVE  job' \in {"parse", "index", "none"} /\ waiting' \in [{"parse", "index"} -> Nat]
      <3>1. waiting' = [waiting EXCEPT ![k] = @ - 1] /\ job' = k /\ waiting[k] > 0
        BY <2>1 DEF Loop!StartJob
      <3>2. waiting[k] - 1 \in Nat
        BY <1>1, <3>1 DEF LoopTypes
      <3> QED
        BY <1>1, <3>1, <3>2 DEF LoopTypes
    <2>2. ASSUME waiting' = waiting, job' \in {job, "none"}
          PROVE  job' \in {"parse", "index", "none"} /\ waiting' \in [{"parse", "index"} -> Nat]
      BY <1>1, <2>2 DEF LoopTypes
    <2> QED
      BY <2>1, <2>2 DEF Loop!EndJob, Loop!Sweep, Loop!Wake, Loop!Restart, Loop!NoJob, Loop!world
  <1>5. /\ DOMAIN load' = GateSet /\ DOMAIN samples' = GateSet /\ DOMAIN open' = GateSet
        /\ \A g \in GateSet : /\ load'[g] \in GateLoads[g] /\ open'[g] \in BOOLEAN
                              /\ AWindow(samples'[g], g) /\ FollowsWindow(samples'[g], open'[g], g)
        /\ Loop!BandKeeps
    <2>1. DOMAIN load' = GateSet /\ \A g \in GateSet : load'[g] \in GateLoads[g]
      BY <1>1, <1>2 DEF LoopTypes
    <2> QED
      BY <1>1, <1>2, <2>1, GatesStay
  <1>6. LoopTypes'
    <2>1. /\ config' \in WorkerConfigs
          /\ known' \in [config : WorkerConfigs \cup {"none"}, clients : WorkerConfigs \cup {"none"}]
      BY <1>1, <1>2 DEF LoopTypes
    <2> QED
      BY <1>3, <1>4, <1>5, <2>1 DEF LoopTypes
  <1>7. LoopPrepared'
    <2>1. tick' # LoadGates[2]
      BY <1>3, TheGates DEF GateSet
    <2>2. tick' \in {"work", "working"} => \A g \in GateSet : open'[g]
      BY <1>1, <1>2, <1>3 DEF LoopPrepared
    <2>3. known'.clients = known'.config
      BY <1>1, <1>2 DEF LoopPrepared
    <2> QED
      BY <2>1, <2>2, <2>3 DEF LoopPrepared
  <1> QED
    BY <1>5, <1>6, <1>7 DEF LoopInv

LEMMA LoopInvStep ==
    ASSUME LoopInv, Loop!Next
    PROVE  LoopInv' /\ Loop!BandKeeps
  <1>1. \/ \E g \in GateSet : \E x \in GateLoads[g] : Loop!LoadChanges(g, x)
        \/ \E k \in {"parse", "index"} : Loop!JobArrives(k)
        \/ \E c \in WorkerConfigs : Loop!SaveSettings(c)
        \/ Loop!Tick \/ Loop!Crash
    BY TheGates, TheKinds DEF Loop!Next
  <1>2. \/ Loop!EndJob \/ Loop!Sweep \/ Loop!Wake \/ Loop!Restart
        \/ \E k \in {"parse", "index"} : Loop!StartJob(k)
        \/ Loop!LoadSettings \/ Loop!BuildFails
        \/ \E g \in GateSet : Loop!Observe(g)
        \/ ~Loop!Tick
    BY TheGates, TheKinds DEF Loop!Tick
  <1>3. ASSUME Loop!Crash \/ Loop!BuildFails  PROVE Loop!Dies
    BY <1>3 DEF Loop!Crash, Loop!BuildFails
  <1> QED
    BY <1>1, <1>2, <1>3, AroundTheWorker, DiesStep, LoadSettingsStep, QuietTicks, ObserveStep

LEMMA LoopStays ==
    ASSUME LoopInv, UNCHANGED loopVars
    PROVE  LoopInv' /\ Loop!BandKeeps
  <1>1. LoopTypes /\ LoopPrepared
    BY DEF LoopInv
  <1>2. LoopTypes' /\ LoopPrepared'
    BY <1>1 DEF loopVars, LoopTypes, LoopPrepared
  <1>3. Loop!BandKeeps
    BY <1>1, TheGates DEF loopVars, Loop!BandKeeps, LoopTypes
  <1> QED
    BY <1>2, <1>3 DEF LoopInv

LEMMA LoopInvHolds ==
    LoopInv => Loop!TypeOK /\ Loop!GatesFollowTheirWindow /\ Loop!JobsStartPrepared
  <1> SUFFICES ASSUME LoopInv
               PROVE  Loop!TypeOK /\ Loop!GatesFollowTheirWindow /\ Loop!JobsStartPrepared
    OBVIOUS
  <1>1. LoopTypes /\ LoopPrepared
    BY DEF LoopInv
  <1>2. Loop!TypeOK
    BY <1>1, TheGates, TheKinds DEF LoopTypes, Loop!TypeOK, Loop!NoConfig, Loop!NoJob, AWindow
  <1>3. Loop!GatesFollowTheirWindow
    BY <1>1, TheGates DEF LoopTypes, FollowsWindow, Loop!GatesFollowTheirWindow
  <1>4. Loop!JobsStartPrepared
    BY <1>1, TheGates DEF LoopPrepared, Loop!JobsStartPrepared
  <1> QED
    BY <1>2, <1>3, <1>4

-----------------------------------------------------------------------------
(* Titles: what a request knows at each place                              *)

TitleSet == [by : {"model", "question", "student", "nobody"}, text : TypedNames \cup Asks]
Made(q) == [by : {"model", "question"}, text : {q}]
NoTitles == {x \in TitleSet : x.text = Titles!Blank}

Rested == [at : {"idle", "left"}]
Answered(a) == [at : {"answered"}, of : Titles!ToSet(a)]
Writing(q) == [at : {"writing"}, of : {q}]
AtProposal(q) == [at : {"proposed"}, of : {q}, title : Made(q)]
AtRow(q) == [at : {"loaded"}, of : {q}, title : Made(q), seen : NoTitles]

\* Whoever writes a title does so about the first answer, and not on a test drive.
TaskShapes(a, drive) ==
    Rested \cup Answered(a) \cup
    (IF a = <<>> \/ drive THEN {} ELSE Writing(Head(a)) \cup AtProposal(Head(a)) \cup AtRow(Head(a)))
RenameShapes == [at : {"idle"}] \cup [at : {"loaded"}, name : TypedNames, seen : TitleSet]

AboutTheFirst(x, a, drive) == x.by \in {"model", "question"} => a # <<>> /\ x.text = Head(a) /\ ~drive

TitlesInv ==
    /\ session \in {"open", "hidden", "gone"} /\ test \in BOOLEAN /\ answers \in Seq(Asks)
    /\ title \in TitleSet /\ AboutTheFirst(title, answers, test)
    /\ DOMAIN task = ChatTabs /\ \A t \in ChatTabs : task[t] \in TaskShapes(answers, test)
    /\ DOMAIN rename = Renamers /\ \A r \in Renamers : rename[r] \in RenameShapes

LEMMA BlankIsTyped == Titles!Blank \in TypedNames /\ Titles!Untitled \in TitleSet
  <1>1. Titles!Blank \in TypedNames
    BY TitlesAssumption DEF Titles!TitleConstants
  <1> QED
    BY <1>1 DEF Titles!Untitled, TitleSet

LEMMA TitlesInit == Titles!Init => TitlesInv
  <1> SUFFICES ASSUME Titles!Init  PROVE TitlesInv
    OBVIOUS
  <1>1. title \in TitleSet /\ title.by \in {"nobody", "student"}
    <2>1. CASE title = Titles!Untitled
      BY <2>1, BlankIsTyped DEF Titles!Untitled
    <2>2. CASE title \in [by : {"student"}, text : TypedNames]
      BY <2>2 DEF TitleSet
    <2> QED
      BY <2>1, <2>2 DEF Titles!Init
  <1>2. AboutTheFirst(title, answers, test)
    BY <1>1 DEF AboutTheFirst
  <1>3. /\ session = "open" /\ test \in BOOLEAN /\ answers = <<>>
        /\ task = [t \in ChatTabs |-> [at |-> "idle"]] /\ rename = [r \in Renamers |-> [at |-> "idle"]]
    BY DEF Titles!Init, Titles!Idle
  <1>4. [at |-> "idle"] \in TaskShapes(answers, test) /\ [at |-> "idle"] \in RenameShapes
    BY DEF TaskShapes, RenameShapes, Rested
  <1>5. answers \in Seq(Asks)
    BY <1>3
  <1> QED
    BY <1>1, <1>2, <1>3, <1>4, <1>5 DEF TitlesInv

\* The record of a task by the place it stands at.
LEMMA TaskByPlace ==
    ASSUME NEW a, NEW drive, NEW x \in TaskShapes(a, drive)
    PROVE  /\ x.at \in {"idle", "left", "answered", "writing", "proposed", "loaded"}
           /\ x.at = "answered" => x \in Answered(a)
           /\ x.at \in {"writing", "proposed", "loaded"} => a # <<>> /\ ~drive
           /\ x.at = "writing" => x \in Writing(Head(a))
           /\ x.at = "proposed" => x \in AtProposal(Head(a))
           /\ x.at = "loaded" => x \in AtRow(Head(a))
  <1>1. CASE x \in Rested
    BY <1>1 DEF Rested
  <1>2. CASE x \in Answered(a)
    BY <1>2 DEF Answered
  <1>3. CASE x \in Writing(Head(a)) /\ a # <<>> /\ ~drive
    BY <1>3 DEF Writing
  <1>4. CASE x \in AtProposal(Head(a)) /\ a # <<>> /\ ~drive
    BY <1>4 DEF AtProposal
  <1>5. CASE x \in AtRow(Head(a)) /\ a # <<>> /\ ~drive
    BY <1>5 DEF AtRow
  <1> QED
    BY <1>1, <1>2, <1>3, <1>4, <1>5 DEF TaskShapes

\* One task goes on to a shape of its own and the rest stays.
LEMMA OneTaskMoves ==
    ASSUME TitlesInv, NEW t \in ChatTabs, NEW x \in TaskShapes(answers, test),
           task' = [task EXCEPT ![t] = x], UNCHANGED <<session, test, title, answers, rename>>
    PROVE  TitlesInv' /\ Titles!RenameStays
  <1>1. DOMAIN task' = ChatTabs /\ \A u \in ChatTabs : task'[u] \in TaskShapes(answers, test)
    BY DEF TitlesInv
  <1>2. TitlesInv'
    BY <1>1 DEF TitlesInv
  <1>3. Titles!RenameStays
    BY DEF Titles!RenameStays, Titles!Generated
  <1> QED
    BY <1>2, <1>3

LEMMA TaskEnds ==
    ASSUME TitlesInv, NEW t \in ChatTabs,
           Titles!Stop(t) \/ task' = [task EXCEPT ![t] = [at |-> "left"]],
           UNCHANGED <<session, test, title, answers, rename>>
    PROVE  TitlesInv' /\ Titles!RenameStays
  <1>1. PICK x \in Rested : task' = [task EXCEPT ![t] = x]
    BY DEF Titles!Stop, Titles!Idle, Rested
  <1>2. x \in TaskShapes(answers, test)
    BY DEF TaskShapes
  <1> QED
    BY <1>1, <1>2, OneTaskMoves

LEMMA CheckStep ==
    ASSUME TitlesInv, NEW t \in ChatTabs, Titles!Check(t)
    PROVE  TitlesInv' /\ Titles!RenameStays
  <1>1. task[t].at = "answered" /\ UNCHANGED <<session, test, title, answers, rename>>
    BY DEF Titles!Check
  <1>2. CASE ~Titles!UntitledFirstExchange
    <2>1. Titles!Stop(t)
      BY <1>2 DEF Titles!Check
    <2> QED
      BY <1>1, <2>1, TaskEnds
  <1>3. CASE Titles!UntitledFirstExchange
    <2>1. task' = [task EXCEPT ![t].at = "writing"] /\ ~test /\ Len(answers) = 1
      BY <1>3 DEF Titles!Check, Titles!UntitledFirstExchange
    <2>2. task[t] \in Answered(answers)
      BY <1>1, TaskByPlace DEF TitlesInv
    <2>3. PICK q \in Titles!ToSet(answers) : task[t] = [at |-> "answered", of |-> q]
      BY <2>2 DEF Answered
    <2>4. q = Head(answers) /\ answers # <<>>
      <3>1. answers \in Seq(Asks)
        BY DEF TitlesInv
      <3>2. PICK i \in DOMAIN answers : q = answers[i]
        BY DEF Titles!ToSet
      <3>3. DOMAIN answers = 1 .. 1 /\ answers # <<>>
        <4>1. DOMAIN answers = 1 .. Len(answers)
          BY ONLY <3>1
        <4>2. Len(<<>>) = 0 /\ Len(answers) # 0
          BY <2>1
        <4>3. answers # <<>>
          BY ONLY <4>2
        <4> QED
          BY <2>1, <4>1, <4>3
      <3>4. i = 1
        BY <3>2, <3>3
      <3>5. Head(answers) = answers[1]
        BY ONLY <3>1, <3>3
      <3> QED
        BY <3>2, <3>3, <3>4, <3>5
    <2>5. [task[t] EXCEPT !.at = "writing"] = [at |-> "writing", of |-> q]
      BY <2>3
    <2>6. [at |-> "writing", of |-> q] \in TaskShapes(answers, test)
      BY <2>1, <2>4 DEF TaskShapes, Writing
    <2>7. task' = [task EXCEPT ![t] = [at |-> "writing", of |-> q]]
      BY <2>1, <2>5
    <2> QED
      BY <1>1, <2>6, <2>7, OneTaskMoves
  <1> QED
    BY <1>2, <1>3

LEMMA ProposedStep ==
    ASSUME TitlesInv, NEW t \in ChatTabs, task[t].at = "writing", NEW b \in {"model", "question"},
           Titles!Proposed(t, b), UNCHANGED <<session, test, title, answers, rename>>
    PROVE  TitlesInv' /\ Titles!RenameStays
  <1> DEFINE q == Head(answers)
             x == [at |-> "proposed", of |-> q, title |-> [by |-> b, text |-> q]]
  <1>1. task[t] \in Writing(q) /\ answers # <<>> /\ ~test
    BY TaskByPlace DEF TitlesInv
  <1>2. task[t].of = q
    BY <1>1 DEF Writing
  <1>3. task' = [task EXCEPT ![t] = x]
    BY <1>2 DEF Titles!Proposed
  <1>4. x \in TaskShapes(answers, test)
    <2>1. x \in AtProposal(q)
      BY DEF AtProposal, Made
    <2> HIDE DEF x, q
    <2> QED
      BY <1>1, <2>1 DEF TaskShapes, q
  <1> HIDE DEF x, q
  <1> QED
    BY <1>3, <1>4, OneTaskMoves

LEMMA LoadStep ==
    ASSUME TitlesInv, NEW t \in ChatTabs, Titles!Load(t)
    PROVE  TitlesInv' /\ Titles!RenameStays
  <1>1. task[t].at = "proposed" /\ UNCHANGED <<session, test, title, answers, rename>>
    BY DEF Titles!Load
  <1>2. CASE ~Titles!StillUntitled(t)
    <2>1. Titles!Stop(t)
      BY <1>2 DEF Titles!Load
    <2> QED
      BY <1>1, <2>1, TaskEnds
  <1>3. CASE Titles!StillUntitled(t)
    <2> DEFINE q == Head(answers)
               old == task[t]
               x == [at |-> "loaded", of |-> old.of, title |-> old.title, seen |-> title]
    <2>1. old \in AtProposal(q) /\ answers # <<>> /\ ~test
      BY <1>1, TaskByPlace DEF TitlesInv
    <2>2. old.of = q /\ old.title \in Made(q)
      BY <2>1 DEF AtProposal
    <2>3. title \in NoTitles
      BY <1>3 DEF Titles!StillUntitled, Titles!Titled, NoTitles, TitlesInv
    <2>4. x \in AtRow(q)
      BY <2>2, <2>3 DEF AtRow
    <2>5. task' = [task EXCEPT ![t] = x]
      BY <1>3 DEF Titles!Load
    <2>6. x \in TaskShapes(answers, test)
      <3> HIDE DEF x, q
      <3> QED
        BY <2>1, <2>4 DEF TaskShapes, q
    <2> HIDE DEF x, q, old
    <2> QED
      BY <1>1, <2>5, <2>6, OneTaskMoves
  <1> QED
    BY <1>2, <1>3

\* Only a request that saw no title writes one.
LEMMA CommitStep ==
    ASSUME TitlesInv, NEW t \in ChatTabs, Titles!Commit(t)
    PROVE  TitlesInv' /\ Titles!RenameStays
  <1> DEFINE q == Head(answers)
             idle == [at |-> "idle"]
  <1>1. /\ task[t].at = "loaded" /\ task' = [task EXCEPT ![t] = idle]
        /\ title' = (IF session = "gone" THEN title ELSE task[t].title)
        /\ UNCHANGED <<session, test, answers, rename>>
    BY DEF Titles!Commit, Titles!Stop, Titles!Idle
  <1>2. task[t] \in AtRow(q) /\ answers # <<>> /\ ~test
    BY <1>1, TaskByPlace DEF TitlesInv
  <1>3. task[t].title \in Made(q) /\ task[t].seen \in NoTitles
    BY <1>2 DEF AtRow
  <1>4. q \in Asks
    BY <1>2 DEF TitlesInv
  <1>5. title' \in TitleSet /\ AboutTheFirst(title', answers, test)
    <2>1. ASSUME NEW m \in Made(q)  PROVE m \in TitleSet /\ AboutTheFirst(m, answers, test)
      BY <1>2, <1>4 DEF Made, TitleSet, AboutTheFirst
    <2>2. title \in TitleSet /\ AboutTheFirst(title, answers, test)
      BY DEF TitlesInv
    <2> HIDE DEF q
    <2> QED
      BY <1>1, <1>3, <2>1, <2>2
  <1>6. /\ DOMAIN task' = ChatTabs /\ task'[t] = idle
        /\ \A u \in ChatTabs : task'[u] \in TaskShapes(answers, test)
    <2>1. idle \in TaskShapes(answers, test)
      BY DEF TaskShapes, Rested
    <2> HIDE DEF idle
    <2> QED
      BY <1>1, <2>1 DEF TitlesInv
  <1>7. TitlesInv'
    BY <1>1, <1>5, <1>6 DEF TitlesInv
  <1>8. Titles!RenameStays
    <2>1. task'[t].at = "idle" /\ ~Titles!Titled(task[t].seen)
      BY <1>3, <1>6 DEF NoTitles, Titles!Titled
    <2> QED
      BY <1>1, <2>1 DEF Titles!RenameStays
  <1> QED
    BY <1>7, <1>8

\* A second answer leaves the first one where it is.
LEMMA MoreAnswers ==
    ASSUME NEW a \in Seq(Asks), NEW q \in Asks, NEW b,
           b = IF q \in Titles!ToSet(a) THEN a ELSE Append(a, q)
    PROVE  /\ b \in Seq(Asks) /\ q \in Titles!ToSet(b) /\ Titles!ToSet(a) \subseteq Titles!ToSet(b)
           /\ a # <<>> => b # <<>> /\ Head(b) = Head(a)
  <1>1. CASE q \in Titles!ToSet(a)
    BY <1>1
  <1>2. CASE q \notin Titles!ToSet(a)
    <2>1. /\ b = Append(a, q) /\ Len(b) = Len(a) + 1 /\ b[Len(a) + 1] = q
          /\ \A i \in DOMAIN a : i \in DOMAIN b /\ b[i] = a[i]
          /\ Len(a) + 1 \in DOMAIN b /\ b \in Seq(Asks)
      BY <1>2
    <2>2. q \in Titles!ToSet(b) /\ Titles!ToSet(a) \subseteq Titles!ToSet(b)
      BY <2>1 DEF Titles!ToSet
    <2>3. a # <<>> => b # <<>> /\ Head(b) = Head(a)
      BY <2>1
    <2> QED
      BY <2>1, <2>2, <2>3
  <1> QED
    BY <1>1, <1>2

LEMMA DeliverStep ==
    ASSUME TitlesInv, NEW t \in ChatTabs, NEW q \in Asks, Titles!Deliver(t, q)
    PROVE  TitlesInv' /\ Titles!RenameStays
  <1> DEFINE x == [at |-> "answered", of |-> q]
  <1>1. /\ answers' = (IF q \in Titles!ToSet(answers) THEN answers ELSE Append(answers, q))
        /\ task' = [task EXCEPT ![t] = x] /\ UNCHANGED <<session, test, title, rename>>
    BY DEF Titles!Deliver
  <1>2. PICK b : b = answers'
    OBVIOUS
  <1>3. /\ b \in Seq(Asks) /\ q \in Titles!ToSet(b) /\ Titles!ToSet(answers) \subseteq Titles!ToSet(b)
        /\ answers # <<>> => b # <<>> /\ Head(b) = Head(answers)
    <2>1. answers \in Seq(Asks)
      BY DEF TitlesInv
    <2> QED
      BY <1>1, <1>2, <2>1, MoreAnswers
  <1>4. TaskShapes(answers, test) \subseteq TaskShapes(b, test)
    <2>1. Answered(answers) \subseteq Answered(b)
      BY <1>3 DEF Answered
    <2> QED
      BY <1>3, <2>1 DEF TaskShapes
  <1>5. x \in TaskShapes(b, test)
    BY <1>3 DEF TaskShapes, Answered
  <1> HIDE DEF x
  <1>6. DOMAIN task' = ChatTabs /\ \A u \in ChatTabs : task'[u] \in TaskShapes(b, test)
    BY <1>1, <1>4, <1>5 DEF TitlesInv
  <1>7. AboutTheFirst(title, b, test)
    BY <1>3 DEF TitlesInv, AboutTheFirst
  <1>8. TitlesInv'
    BY <1>1, <1>2, <1>3, <1>6, <1>7 DEF TitlesInv
  <1>9. Titles!RenameStays
    BY <1>1 DEF Titles!RenameStays, Titles!Generated
  <1> QED
    BY <1>8, <1>9

LEMMA BeginRenameStep ==
    ASSUME TitlesInv, NEW r \in Renamers, NEW name \in TypedNames, Titles!BeginRename(r, name)
    PROVE  TitlesInv' /\ Titles!RenameStays
  <1> DEFINE x == [at |-> "loaded", name |-> name, seen |-> title]
  <1>1. rename' = [rename EXCEPT ![r] = x] /\ UNCHANGED <<session, test, title, answers, task>>
    BY DEF Titles!BeginRename
  <1>2. x \in RenameShapes
    BY DEF RenameShapes, TitlesInv
  <1> HIDE DEF x
  <1>3. DOMAIN rename' = Renamers /\ \A u \in Renamers : rename'[u] \in RenameShapes
    BY <1>1, <1>2 DEF TitlesInv
  <1>4. TitlesInv'
    BY <1>1, <1>3 DEF TitlesInv
  <1>5. Titles!RenameStays
    BY <1>1 DEF Titles!RenameStays, Titles!Generated
  <1> QED
    BY <1>4, <1>5

LEMMA EndRenameStep ==
    ASSUME TitlesInv, NEW r \in Renamers, Titles!EndRename(r)
    PROVE  TitlesInv' /\ Titles!RenameStays
  <1> DEFINE idle == [at |-> "idle"]
             typed == [by |-> "student", text |-> rename[r].name]
  <1>1. /\ rename[r].at = "loaded" /\ rename' = [rename EXCEPT ![r] = idle]
        /\ title' \in {title, typed} /\ UNCHANGED <<session, test, answers, task>>
    BY DEF Titles!EndRename, Titles!Idle
  <1>2. rename[r].name \in TypedNames
    BY <1>1 DEF TitlesInv, RenameShapes
  <1>3. typed \in TitleSet /\ AboutTheFirst(typed, answers, test)
    BY <1>2 DEF TitleSet, AboutTheFirst
  <1>4. idle \in RenameShapes
    BY DEF RenameShapes
  <1>5. typed.by = "student"
    OBVIOUS
  <1> HIDE DEF idle, typed
  <1>6. title' \in TitleSet /\ AboutTheFirst(title', answers, test)
    BY <1>1, <1>3 DEF TitlesInv
  <1>7. DOMAIN rename' = Renamers /\ \A u \in Renamers : rename'[u] \in RenameShapes
    BY <1>1, <1>4 DEF TitlesInv
  <1>8. TitlesInv'
    BY <1>1, <1>6, <1>7 DEF TitlesInv
  <1>9. Titles!RenameStays
    BY <1>1, <1>5 DEF Titles!RenameStays, Titles!Generated
  <1> QED
    BY <1>8, <1>9

LEMMA SessionStep ==
    ASSUME TitlesInv, Titles!Hide \/ Titles!HardDelete \/ UNCHANGED titleVars
    PROVE  TitlesInv' /\ Titles!RenameStays
  <1>1. session' \in {"open", "hidden", "gone"} /\ UNCHANGED <<test, title, answers, task, rename>>
    BY DEF Titles!Hide, Titles!HardDelete, TitlesInv, titleVars
  <1>2. TitlesInv'
    BY <1>1 DEF TitlesInv
  <1>3. Titles!RenameStays
    BY <1>1 DEF Titles!RenameStays, Titles!Generated
  <1> QED
    BY <1>2, <1>3

LEMMA WorksStep ==
    ASSUME TitlesInv, NEW t \in ChatTabs, Titles!Works(t)
    PROVE  TitlesInv' /\ Titles!RenameStays
  <1>1. CASE Titles!ModelWrites(t)
    BY <1>1, ProposedStep DEF Titles!ModelWrites
  <1>2. CASE Titles!ModelFails(t)
    BY <1>2, ProposedStep, TaskEnds DEF Titles!ModelFails
  <1> QED
    BY <1>1, <1>2, CheckStep, LoadStep, CommitStep DEF Titles!Works

LEMMA TitlesInvStep ==
    ASSUME TitlesInv, Titles!Next
    PROVE  TitlesInv' /\ Titles!RenameStays
  <1>1. CASE \E t \in ChatTabs : Titles!Leave(t)
    BY <1>1, TaskEnds DEF Titles!Leave
  <1> QED
    BY <1>1, WorksStep, DeliverStep, BeginRenameStep, EndRenameStep, SessionStep DEF Titles!Next

LEMMA TitlesInvHolds == TitlesInv => Titles!TypeOK /\ Titles!TitleOfTheFirstExchange
  <1> SUFFICES ASSUME TitlesInv  PROVE Titles!TypeOK /\ Titles!TitleOfTheFirstExchange
    OBVIOUS
  <1>1. \A t \in ChatTabs : task[t].at \in {"idle", "left", "answered", "writing", "proposed", "loaded"}
    BY TaskByPlace DEF TitlesInv
  <1>2. \A r \in Renamers : rename[r].at \in {"idle", "loaded"}
    BY DEF TitlesInv, RenameShapes
  <1>3. Titles!TypeOK
    BY <1>1, <1>2 DEF Titles!TypeOK, Titles!Resting, Titles!Generated, TitlesInv, TitleSet
  <1>4. Titles!TitleOfTheFirstExchange
    BY DEF Titles!TitleOfTheFirstExchange, Titles!Generated, TitlesInv, AboutTheFirst
  <1> QED
    BY <1>3, <1>4

-----------------------------------------------------------------------------
(* Files *)

\* The theorems about the instance of StagedFiles.
OfFiles == INSTANCE StagedProofs WITH
    Parses <- Parsers, First <- FirstUpload, Twins <- {}, MaxOverruns <- 0

\* Both instances are of one module: the machine is the same.
LEMMA SameFiles ==
    /\ Files!StagedAssumption <=> OfFiles!StagedAssumption
    /\ Files!Init <=> OfFiles!Init
    /\ Files!Next <=> OfFiles!Next
    /\ OfFiles!TypeOK => Files!TypeOK
  BY DEF Files!document, OfFiles!document, Files!disk, OfFiles!disk, Files!attempts,
         OfFiles!attempts, Files!Keys, OfFiles!Keys, Files!Steps, OfFiles!Steps, Files!Sources,
         OfFiles!Sources, Files!NoCleanup, OfFiles!NoCleanup, Files!SameBytes,
         OfFiles!SameBytes, Files!Init, OfFiles!Init, Files!Unlocked, OfFiles!Unlocked,
         Files!Unowned, OfFiles!Unowned, Files!Due, OfFiles!Due, Files!OwnedKeys,
         OfFiles!OwnedKeys, Files!StartGeneration, OfFiles!StartGeneration, Files!Goes,
         OfFiles!Goes, Files!BeginReplace, OfFiles!BeginReplace, Files!StageUpload,
         OfFiles!StageUpload, Files!UploadMayCommit, OfFiles!UploadMayCommit,
         Files!CommitUpload, OfFiles!CommitUpload, Files!RefuseUpload, OfFiles!RefuseUpload,
         Files!WritePart, OfFiles!WritePart, Files!LinkFile, OfFiles!LinkFile, Files!FailWrite,
         OfFiles!FailWrite, Files!Discard, OfFiles!Discard, Files!ClaimParse,
         OfFiles!ClaimParse, Files!HoldsClaim, OfFiles!HoldsClaim, Files!Reused,
         OfFiles!Reused, Files!StageParse, OfFiles!StageParse, Files!CheckClaim,
         OfFiles!CheckClaim, Files!CommitParse, OfFiles!CommitParse, Files!StopParse,
         OfFiles!StopParse, Files!Change, OfFiles!Change, Files!MarkDeleted,
         OfFiles!MarkDeleted, Files!Removed, OfFiles!Removed, Files!CleanupFails,
         OfFiles!CleanupFails, Files!CleanupCrashes, OfFiles!CleanupCrashes, Files!RunCleanup,
         OfFiles!RunCleanup, Files!Sweep, OfFiles!Sweep, Files!Working, OfFiles!Working,
         Files!LeasePasses, OfFiles!LeasePasses, Files!Crash, OfFiles!Crash, Files!WriterStep,
         OfFiles!WriterStep, Files!Next, OfFiles!Next, Files!TypeOK, OfFiles!TypeOK,
         Files!StagedAssumption, OfFiles!StagedAssumption

LEMMA FilesStay ==
    ASSUME OfFiles!StagedInv, Files!Next \/ UNCHANGED fileVars
    PROVE  OfFiles!StagedInv'
  <1>1. OfFiles!Next \/ UNCHANGED OfFiles!vars
    BY SameFiles DEF fileVars, OfFiles!vars
  <1> QED
    BY <1>1, FilesAssumption, SameFiles, OfFiles!StagedStep

-----------------------------------------------------------------------------
(* The machines together *)

\* What holds of every machine, whichever of them moves.
PlatformInv == SettingsInv /\ ReportsInv /\ OfFiles!StagedInv /\ LoopInv /\ TitlesInv

LEMMA PlatformInit == Init => PlatformInv
  <1> SUFFICES ASSUME Init  PROVE PlatformInv
    OBVIOUS
  <1>1. Settings!Init /\ Reports!Init /\ Files!Init /\ Loop!Init /\ Titles!Init
    BY DEF Init
  <1>2. ReportsInv
    BY <1>1, ReportsAtTheStart, PagesAtTheStart DEF ReportsInv
  <1>3. OfFiles!StagedInv
    BY <1>1, FilesAssumption, SameFiles, OfFiles!StagedInit
  <1> QED
    BY <1>1, <1>2, <1>3, SettingsInit, LoopInit, TitlesInit DEF PlatformInv

\* One machine moves and the others stand still.
LEMMA PlatformStep ==
    ASSUME PlatformInv, [Next]_vars
    PROVE  PlatformInv' /\ Settings!StatusOfUse /\ Loop!BandKeeps /\ Titles!RenameStays
  <1>1. Settings!Next \/ UNCHANGED settingVars
    BY DEF Next, SettingsMove, ClassMoves, ReportsMove, FilesMove, LoopMoves, TitleMoves, vars
  <1>2. Reports!Next \/ UNCHANGED reportVars
    BY DEF Next, SettingsMove, ClassMoves, ReportsMove, FilesMove, LoopMoves, TitleMoves, vars
  <1>3. Files!Next \/ UNCHANGED fileVars
    BY DEF Next, SettingsMove, ClassMoves, ReportsMove, FilesMove, LoopMoves, TitleMoves, vars
  <1>4. Loop!Next \/ UNCHANGED loopVars
    BY DEF Next, SettingsMove, ClassMoves, ReportsMove, FilesMove, LoopMoves, TitleMoves, vars
  <1>5. Titles!Next \/ UNCHANGED titleVars
    BY DEF Next, SettingsMove, ClassMoves, ReportsMove, FilesMove, LoopMoves, TitleMoves, vars
  <1>6. SettingsInv' /\ Settings!StatusOfUse
    BY <1>1, SettingsInvStep, PageTellsOfUse, SettingsStay DEF PlatformInv
  <1>7. ReportsInv'
    BY <1>2, ReportsInvStep, ReportsStay DEF PlatformInv
  <1>8. OfFiles!StagedInv'
    BY <1>3, FilesStay DEF PlatformInv
  <1>9. LoopInv' /\ Loop!BandKeeps
    BY <1>4, LoopInvStep, LoopStays DEF PlatformInv
  <1>10. TitlesInv' /\ Titles!RenameStays
    BY <1>5, TitlesInvStep, SessionStep DEF PlatformInv
  <1> QED
    BY <1>6, <1>7, <1>8, <1>9, <1>10 DEF PlatformInv

LEMMA PlatformAlways == Spec => []PlatformInv
  BY PlatformInit, PlatformStep, PTL DEF Spec

\* Of any settings, admins, limits and runs: a save that reads, checks and writes while
\* another does keeps to its own keys, a run never searches longer than it may
\* last, whatever was saved when it began, and while the limits are left alone no run that works
\* counts as lost.
THEOREM SettingsAreSound == Spec => []SettingsHold
  <1>1. PlatformInv => SettingsHold
    BY SettingsInvHolds DEF PlatformInv
  <1> QED
    BY <1>1, PlatformAlways, PTL

\* With any settings: unless somebody saves while the servers are asked, the page calls a
\* slot off exactly when a chat that starts then does without it, or calls it at a URL
\* that is no web address.
THEOREM PageTellsOff == Spec => StatusAgreesWithUse
  <1>1. PlatformInv /\ [Next]_vars => [Settings!StatusOfUse]_settingVars
    BY PlatformStep
  <1> QED
    BY <1>1, PlatformAlways, PTL DEF Spec, StatusAgreesWithUse

\* Of any pages, students and requests, lost processes among them: a finished report has
\* its text or the reason why it has none, and a page shows a report of its own student
\* only, however late an answer to it arrives.
THEOREM ReportsAreExplained == Spec => []ReportsExplain
  <1>1. PlatformInv => ReportsExplain
    BY ReportsInvHolds DEF PlatformInv
  <1> QED
    BY <1>1, PlatformAlways, PTL

\* Of any watermarks, window and loads, and of any renames, tabs and answers: a whole window
\* beyond its watermark decides a gate, a job starts with both gates open on clients of the
\* settings its tick read, and a generated title is about the first answer.
THEOREM GatesDecideTitlesFit == Spec => []GatesAndTitlesHold
  <1>1. PlatformInv => GatesAndTitlesHold
    <2>1. OfFiles!StagedInv => Files!TypeOK
      BY SameFiles DEF OfFiles!StagedInv
    <2>2. ReportsExplain => Reports!TypeOK
      BY DEF ReportsExplain
    <2> QED
      BY <2>1, <2>2, ReportsInvHolds, LoopInvHolds, TitlesInvHolds DEF PlatformInv, GatesAndTitlesHold
  <1> QED
    BY <1>1, PlatformAlways, PTL

\* A gate changes only when its window holds a load beyond the watermark that changes it,
\* and only a request that loaded the row before the student's title was committed writes
\* over it.
THEOREM GatesAndRenamesStand == Spec => StepsKeepTheirWord
  <1>1. PlatformInv /\ [Next]_vars => [Loop!BandKeeps /\ Titles!RenameStays]_<<loopVars, titleVars>>
    BY PlatformStep
  <1> QED
    BY <1>1, PlatformAlways, PTL DEF Spec, StepsKeepTheirWord

=============================================================================
