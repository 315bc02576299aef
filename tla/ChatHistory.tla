----------------------------- MODULE ChatHistory -----------------------------
(***************************************************************************)
(* What a new question is told of the conversation before it: the history  *)
(* of load_safe_context and trim_history, over documents that teachers     *)
(* replace, archive, restore and delete (backend/app/services/             *)
(* research_runs.py, agent/history.py). Course has the access to the class *)
(* and the lab, Research the runs and their labels; here a citation is the *)
(* document and the revision it names, and a session does not change.      *)
(***************************************************************************)
EXTENDS Naturals, SequencesExt

CONSTANTS
    Documents,
    Requests,       \* bound: requests at one time
    MaxRevision,    \* bound
    MaxQuestions,   \* bound
    MaxChanges,     \* bound: changes of the documents
    Limit           \* messages that are loaded (limit)

\* Assumed of the constants wherever the module is instantiated.
HistoryBounds == {MaxRevision, MaxQuestions, MaxChanges, Limit} \subseteq Nat /\ MaxRevision # 0

VARIABLES document, messages, request, changes

vars == <<document, messages, request, changes>>

-----------------------------------------------------------------------------
(* Rows and requests                                                       *)

Sources == Documents \X (1 .. MaxRevision)

\* The revision of each document that students may read, 0 for none.
Snapshot == [d \in Documents |-> IF document[d].life = "active" THEN document[d].current ELSE 0]

In(snapshot) == {<<d, snapshot[d]>> : d \in {e \in Documents : snapshot[e] # 0}}

\* A question is numbered; its answer bears the number.
Question(n) == [by |-> "student", kind |-> "question", number |-> n, cites |-> {}, snapshot |-> {}, tells |-> {}]

\* tells: what an answer may repeat: what it cites and, as nothing forces the model
\* to cite, all that it read or was told; a question back states nothing.
Answer(n, kind, cites, snapshot, known) ==
    [by |-> "model", kind |-> kind, number |-> n, cites |-> cites, snapshot |-> snapshot,
     tells |-> IF kind = "asked" THEN {} ELSE cites \cup known]

Questions == {i \in DOMAIN messages : messages[i].by = "student"}
NoSnapshot == [d \in Documents |-> 0]
Idle == [at |-> "idle", number |-> 0, snapshot |-> NoSnapshot, told |-> {}, earlier |-> {}, read |-> {}, answer |-> <<>>]

\* Documents are published or gone; a conversation may begin with an answer from
\* before the research runs.
Init ==
    /\ document \in [Documents -> {[life |-> "active", current |-> 1], [life |-> "deleted", current |-> 0]}]
    /\ messages \in {<<>>, <<Question(1), Answer(1, "legacy", {}, {}, Sources)>>}
    /\ request = [q \in Requests |-> Idle]
    /\ changes = 0

-----------------------------------------------------------------------------
(* Teachers                                                                *)

Changed(d, row) ==
    /\ changes < MaxChanges /\ changes' = changes + 1
    /\ document' = [document EXCEPT ![d] = row]
    /\ UNCHANGED <<messages, request>>

Publish(d) == /\ document[d].life = "active" /\ document[d].current < MaxRevision
              /\ Changed(d, [document[d] EXCEPT !.current = @ + 1])
Archive(d) == document[d].life = "active" /\ Changed(d, [document[d] EXCEPT !.life = "archived"])
Restore(d) == document[d].life = "archived" /\ Changed(d, [document[d] EXCEPT !.life = "active"])
Delete(d)  == document[d].life # "deleted" /\ Changed(d, [life |-> "deleted", current |-> 0])

-----------------------------------------------------------------------------
(* The history                                                             *)

\* readable_revision: a superseded revision stays readable, its document must be active.
Readable(source) == document[source[1]].life = "active"

\* Mutant: an answer without citations is always kept.
KeptByCitations(m, snapshot) ==
    m.kind # "legacy" /\ \A source \in m.cites : source \in In(snapshot)

Kept(m, snapshot) ==
    /\ m.kind # "legacy"
    /\ \A source \in m.cites : source \in In(snapshot) /\ Readable(source)
    /\ m.cites = {} /\ m.kind # "asked" => m.snapshot \subseteq In(snapshot)

Open(h) == h # <<>> /\ Last(h).by = "student"
WithoutOpen(h) == IF Open(h) THEN Front(h) ELSE h

\* A question without an answer goes, and one whose answer is left out. An answer
\* whose question was not loaded finds none.
Turn(h, m, snapshot) ==
    IF m.by = "student" THEN Append(WithoutOpen(h), m)
    ELSE IF Open(h) /\ Kept(m, snapshot) THEN Append(h, m) ELSE WithoutOpen(h)

Loaded == SubSeq(messages, Max({1, Len(messages) - Limit + 1}), Len(messages))

History(snapshot) ==
    WithoutOpen(FoldLeft(LAMBDA h, m : Turn(h, m, snapshot), <<>>, Loaded))

\* Mutant: the budget cuts anywhere.
CutAnywhere(h, i) == SubSeq(h, i, Len(h))

\* trim_history: the longest end that fits, without a leading answer. i is where
\* the budget happens to end.
Trimmed(h, i) ==
    IF i <= Len(h) /\ h[i].by = "model" THEN SubSeq(h, i + 1, Len(h)) ELSE SubSeq(h, i, Len(h))

-----------------------------------------------------------------------------
(* A question, from its scope to its answer                                *)

To(q, next) == request' = [request EXCEPT ![q] = next] /\ UNCHANGED <<document, changes>>

CreateScope(q) ==
    /\ request[q].at = "idle"
    /\ To(q, [Idle EXCEPT !.at = "scoped", !.snapshot = Snapshot]) /\ UNCHANGED messages

LoadSafeContext(q) ==
    /\ request[q].at = "scoped"
    /\ LET history == History(request[q].snapshot) IN
       \E i \in 1 .. Len(history) + 1 :
          To(q, [request[q] EXCEPT !.at = "loaded",
                     !.told = UNION {m.tells : m \in ToSet(Trimmed(history, i))},
                     !.earlier = UNION {m.cites : m \in ToSet(history)}])
    /\ UNCHANGED messages

\* Mutant: a session takes two questions at a time.
AlwaysFree == TRUE

\* uq_agent_run_active_session.
Free == \A q \in Requests : request[q].at \notin {"working", "written"}

BeginRun(q) ==
    /\ request[q].at = "loaded" /\ Cardinality(Questions) < MaxQuestions
    /\ IF Free
       THEN LET n == Cardinality(Questions) + 1 IN
            /\ messages' = Append(messages, Question(n))
            /\ To(q, [request[q] EXCEPT !.at = "working", !.number = n])
       ELSE To(q, Idle) /\ UNCHANGED messages

\* A tool or a search shows a page of the snapshot.
ReadPage(q, source) ==
    /\ request[q].at = "working" /\ source \in In(request[q].snapshot) /\ Readable(source)
    /\ To(q, [request[q] EXCEPT !.read = @ \cup {source}]) /\ UNCHANGED messages

\* An answer cites what was read or cited before, or nothing; a question back
\* cites nothing; an answer whose sources are gone says only that.
Write(q) ==
    /\ request[q].at = "working"
    /\ \E kind \in {"answer", "asked"} : \E cites \in SUBSET (request[q].read \cup request[q].earlier) :
          /\ kind = "asked" => cites = {}
          /\ LET revoked == \E source \in cites : ~Readable(source)
                 r == request[q]
             IN To(q, [r EXCEPT !.at = "written",
                           !.answer = <<Answer(r.number, kind, IF revoked THEN {} ELSE cites,
                                               In(r.snapshot), IF revoked THEN {} ELSE r.read \cup r.told)>>])
    /\ UNCHANGED messages

\* finish_run checks each citation again; a refused answer ends the run.
FinishRun(q) ==
    /\ request[q].at = "written"
    /\ LET answer == request[q].answer[1] IN
       messages' = IF \A source \in answer.cites : source \in In(request[q].snapshot) /\ Readable(source)
                   THEN Append(messages, answer) ELSE messages
    /\ To(q, Idle)

\* An error, a timeout, a student who leaves, a run closed as stale.
Stop(q) == request[q].at # "idle" /\ To(q, Idle) /\ UNCHANGED messages

Next ==
    \/ \E d \in Documents : Publish(d) \/ Archive(d) \/ Restore(d) \/ Delete(d)
    \/ \E q \in Requests :
          \/ CreateScope(q) \/ LoadSafeContext(q) \/ BeginRun(q) \/ Write(q) \/ FinishRun(q) \/ Stop(q)
          \/ \E source \in Sources : ReadPage(q, source)

Spec == Init /\ [][Next]_vars

-----------------------------------------------------------------------------
(* Properties                                                              *)

Loads(q) == request[q].at = "scoped"

\* Rows and requests are well formed; answers follow their questions.
TypeOK ==
    /\ \A d \in Documents : document[d] \in [life : {"active", "archived", "deleted"}, current : 0 .. MaxRevision]
    /\ \A i \in DOMAIN messages :
          /\ messages[i].cites \cup messages[i].tells \cup messages[i].snapshot \subseteq Sources
          /\ messages[i].by = "model" => \E j \in 1 .. i - 1 : messages[j] = Question(messages[i].number)
    /\ \A q \in Requests :
          /\ request[q].at \in {"idle", "scoped", "loaded", "working", "written"}
          /\ request[q].told \cup request[q].earlier \cup request[q].read \subseteq Sources

\* What answers of this conversation may have repeated beside what they cite: only
\* the citations of such an answer are checked again.
Unnamed == {source \in Sources :
               \E m \in ToSet(messages) : m.cites # {} /\ source \in m.tells \ m.cites}

\* However the documents changed since, whatever each earlier answer had itself
\* been told: what a new prompt repeats, students could read when its scope was
\* taken, all but what some answer that cites other sources had passed on without
\* naming it. A citation is always one that students could read
\* (load_safe_context, which keeps an answer by its citations, or by its whole
\* snapshot when it has none).
HistoryIsReadable ==
    \A q \in Requests : Loads(q) =>
        \A m \in ToSet(History(request[q].snapshot)) :
            /\ m.cites \subseteq In(request[q].snapshot)
            /\ m.tells \subseteq In(request[q].snapshot) \cup Unnamed

\* The model sees pairs: every answer right after its own question, wherever the
\* limit, the budget and the failed questions cut (load_safe_context: turns must
\* alternate; trim_history: no orphan reply).
TurnsPair ==
    \A q \in Requests : Loads(q) =>
        LET history == History(request[q].snapshot) IN
        \A i \in 1 .. Len(history) + 1 :
            LET h == Trimmed(history, i) IN
            \A k \in DOMAIN h :
                /\ h[k].by = (IF k % 2 = 1 THEN "student" ELSE "model")
                /\ k % 2 = 0 => h[k - 1] = Question(h[k].number)

\* Leaving out goes no further: an answer that may be repeated is there, if its
\* question was loaded with it.
AnswersStay ==
    \A q \in Requests : Loads(q) =>
        LET history == ToSet(History(request[q].snapshot)) IN
        \A m \in ToSet(Loaded) :
            m.by = "model" /\ Kept(m, request[q].snapshot) /\ Question(m.number) \in ToSet(Loaded) => m \in history

-----------------------------------------------------------------------------
(* What the documentation says and the code does not do                    *)

\* load_safe_context: "The safe chat history". An answer that cites a page students
\* can still read stays, although it may repeat another one that they cannot.
HistoryIsSafe ==
    \A q \in Requests : Loads(q) =>
        \A m \in ToSet(History(request[q].snapshot)) : m.tells \subseteq In(request[q].snapshot)

=============================================================================
