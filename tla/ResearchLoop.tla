----------------------------- MODULE ResearchLoop -----------------------------
(***************************************************************************)
(* One run of the research agent: ResearchRunner.run (agent/runner.py)     *)
(* with the budgets of CourseTools (agent/course_tools.py) and the numbers *)
(* of EvidenceStore (agent/evidence.py). The model may reply anything at   *)
(* any turn. A text is what the runner asks of it: whether it is empty,    *)
(* tool markup or DONE, which [E#] IDs it cites, and one reference that is *)
(* not an ID. Search, open and grep are one tool: they return leads and no *)
(* evidence. Drafts, progress, usage rows and the reminder after searches  *)
(* without a new page are left out: no step depends on them.               *)
(***************************************************************************)
EXTENDS Naturals, FiniteSets, SequencesExt

CONSTANTS
    Pieces,             \* what the course holds: page texts and observations
    Nothing,
    Earlier,            \* the IDs of earlier answers that still name their sources
    First,              \* first_evidence: above every ID of the session
    MaxToolCalls, MaxVisualCalls,
    Room                \* turns until the input is over max_input_tokens - final_reserve

\* Assumed of the constants wherever the module is instantiated.
LoopConstants ==
    /\ Nothing \notin Pieces /\ IsFiniteSet(Pieces)
    /\ First \in Nat \ {0} /\ Earlier \subseteq 1..(First - 1)
    /\ MaxToolCalls \in Nat /\ MaxVisualCalls \in Nat /\ Room \in Nat

VARIABLES
    at,         \* where run stands
    now,        \* the clock, see below
    open,       \* tools_open
    noDocuments, mayAsk,
    rows, dispatched, seen,     \* tool rows of the trace, those dispatched, visual_calls
    evidence,   \* EvidenceStore.all(): IDs with their pieces, most recent last
    size,       \* the turns of the conversation
    pending,    \* calls of the reply not yet executed
    unchecked,  \* the reply that got CHECK_TURN
    retried, readTurn, checks,
    answer, stop, partial,
    offered     \* the answer the loop ended with

budgets == <<rows, dispatched, seen>>
turns   == <<unchecked, retried, readTurn, checks>>
result  == <<answer, stop, partial, offered>>
setting == <<noDocuments, mayAsk>>
vars == <<at, now, open, setting, budgets, evidence, size, pending, turns, result>>

\* The clock: research; the research_seconds of CourseTools are over (it was
\* made first); research_timeout is over; total_timeout is over.
ToolsOver == 1
ResearchOver == 2
Over == 3

Ids == Earlier \cup First..(First + Cardinality(Pieces) - 1)
Found == {e.id : e \in Range(evidence)}
Permitted == Found \cup Earlier

\* odd: a reference that is no ID: none, "[E3 in d1.p2]" (its ID), or a file name (0).
NoOdd == First + Cardinality(Pieces)
Text == [kind : {"empty", "markup", "done", "prose"}, cited : SUBSET Ids,
         odd : Ids \cup {0, NoOdd}]
Plain(kind) == [kind |-> kind, cited |-> {}, odd |-> NoOdd]
Empty == Plain("empty")
NoText == Plain("none")
Prose(cited, odd) == [kind |-> "prose", cited |-> cited, odd |-> odd]

\* What the model writes: bound: at most one ID and one odd reference.
Texts == {Empty, Plain("markup"), Plain("done")}
         \cup {Prose(c, o) : c \in {{}} \cup {{i} : i \in Ids}, o \in {NoOdd, First}}

Calls == [tool : {"search", "unreadable", "ask", "ask badly"}, of : {Nothing}]
         \cup [tool : {"read", "view_image"}, of : Pieces]

\* bound: two calls in one reply.
ToolTurns == {<<c>> : c \in Calls} \cup {<<c, d>> : c \in Calls, d \in Calls}
Replies == {[calls |-> <<>>, text |-> t] : t \in Texts}
           \cup {[calls |-> cs, text |-> t] : cs \in ToolTurns, t \in {Empty, Prose({}, NoOdd)}}

Init ==
    /\ at = "start" /\ now = 0 /\ open = TRUE
    /\ noDocuments \in BOOLEAN /\ mayAsk \in BOOLEAN
    /\ rows = 0 /\ dispatched = 0 /\ seen = 0
    /\ evidence = <<>> /\ size = 0 /\ pending = <<>>
    /\ unchecked = NoText /\ retried = FALSE /\ readTurn = FALSE /\ checks = 0
    /\ answer = Empty /\ stop = "budget_exhausted" /\ partial = FALSE /\ offered = NoText

Ended == at \in {"done", "stopped"}

Tick ==
    /\ ~Ended /\ now < Over /\ now' = now + 1
    /\ UNCHANGED <<at, open, setting, budgets, evidence, size, pending, turns, result>>

-----------------------------------------------------------------------------
(* The tools and their budgets                                             *)

IsAsk(c) == mayAsk /\ c.tool \in {"ask", "ask badly"}

\* Mutant: the row of the call itself is forgotten.
LimitWithoutOwnRow(c) == \/ rows > MaxToolCalls \/ now >= ToolsOver
                         \/ c.tool = "view_image" /\ seen >= MaxVisualCalls

\* _limit_error, after the call's row was added; rows counts the rows before it.
LimitError(c) == \/ rows + 1 > MaxToolCalls \/ now >= ToolsOver
                 \/ c.tool = "view_image" /\ seen >= MaxVisualCalls

\* Mutant: a repeated read is numbered anew.
Renumbered(p) ==
    LET others == SelectSeq(evidence, LAMBDA e : e.piece # p)
    IN Append(others, [id |-> First + Len(others), piece |-> p])

\* Mutant: numbered by position.
NumberedByPlace(p) ==
    LET moved == Append(SelectSeq(evidence, LAMBDA e : e.piece # p), [id |-> 0, piece |-> p])
    IN [i \in DOMAIN moved |-> [id |-> First + i - 1, piece |-> moved[i].piece]]

\* add_read, add_visual: a piece already known is moved to the end (touch).
AddEvidence(p) ==
    IF \E e \in Range(evidence) : e.piece = p
    THEN LET i == CHOOSE i \in DOMAIN evidence : evidence[i].piece = p
         IN Append(RemoveAt(evidence, i), evidence[i])
    ELSE Append(evidence, [id |-> First + Len(evidence), piece |-> p])

\* The next call of the reply. A call to ask_student that may be made takes no row.
RunTool ==
    /\ at = "tools" /\ pending # <<>>
    /\ pending' = Tail(pending)
    /\ LET c == Head(pending) IN
       \/ /\ IsAsk(c)
          /\ UNCHANGED <<budgets, evidence>>
       \/ /\ ~IsAsk(c)
          /\ (c.tool \in {"unreadable", "ask", "ask badly"} \/ LimitError(c))
          /\ rows' = rows + 1
          /\ UNCHANGED <<dispatched, seen, evidence>>
       \/ /\ c.tool \in {"search", "read", "view_image"} /\ ~LimitError(c)
          /\ rows' = rows + 1 /\ dispatched' = dispatched + 1
          /\ \/ /\ evidence' = IF c.of = Nothing THEN evidence ELSE AddEvidence(c.of)
                /\ seen' = IF c.tool = "view_image" THEN seen + 1 ELSE seen
             \/ UNCHANGED <<evidence, seen>>        \* the tool failed
    /\ UNCHANGED <<at, now, open, setting, size, turns, result>>

ToolsReturned ==
    /\ at = "tools" /\ pending = <<>>
    /\ at' = "turn" /\ size' = size + 1
    /\ UNCHANGED <<now, open, setting, budgets, evidence, pending, turns, result>>

-----------------------------------------------------------------------------
(* The turns                                                               *)

Begin ==
    /\ at = "start"
    /\ at' = "turn"
    /\ open' = ~noDocuments /\ size' = IF noDocuments THEN 1 ELSE 0
    /\ UNCHANGED <<now, setting, budgets, evidence, pending, turns, result>>

checking == unchecked # NoText

\* The loop ends with this answer.
Ends(text, why) == at' = "closing" /\ answer' = text /\ offered' = text /\ stop' = why

\* except TimeoutError.
TimedOut(stillOpen, length) ==
    \/ /\ checking /\ Ends(unchecked, "finished")
       /\ open' = stillOpen /\ size' = length /\ UNCHANGED partial
    \/ /\ ~checking /\ stillOpen /\ now < Over
       /\ at' = "turn" /\ open' = FALSE /\ size' = length + 1 /\ UNCHANGED result
    \/ /\ ~checking /\ ~(stillOpen /\ now < Over) /\ Ends(answer, "deadline_exceeded")
       /\ open' = stillOpen /\ size' = length /\ UNCHANGED partial

\* The withdrawal of the tools, then the model call if its time is not over.
Turn ==
    /\ at = "turn"
    /\ LET stays == open /\ rows < MaxToolCalls /\ now < ResearchOver /\ size <= Room
           length == IF open /\ ~stays THEN size + 1 ELSE size
       IN \/ /\ stays \/ now < Over
             /\ at' = "calling" /\ open' = stays /\ size' = length /\ UNCHANGED result
          \/ /\ ~stays /\ now = Over
             /\ TimedOut(stays, length)
    /\ UNCHANGED <<now, setting, budgets, evidence, pending, turns>>

\* wait_for ends the call: model_timeout or the end of its time.
CallTimesOut ==
    /\ at = "calling"
    /\ TimedOut(open, size)
    /\ UNCHANGED <<now, setting, budgets, evidence, pending, turns>>

CallFails ==
    /\ at = "calling"
    /\ IF checking THEN Ends(unchecked, "finished") ELSE Ends(answer, "model_unavailable")
    /\ UNCHANGED <<now, open, setting, budgets, evidence, size, pending, turns, partial>>

\* ResearchQuotaExceeded, ResearchRunStopped: from a model call or a tool.
RunStopped ==
    /\ \/ at \in {"calling", "correcting"}
       \/ at = "tools" /\ pending # <<>>
    /\ at' = "stopped"
    /\ UNCHANGED <<now, open, setting, budgets, evidence, size, pending, turns, result>>

\* What the loop does with a reply, in the order it asks.
Keeps(r)   == checking /\ r.calls = <<>> /\ r.text.kind \in {"done", "empty", "markup"}
Asks(r)    == open /\ mayAsk /\ r.calls = <<[tool |-> "ask", of |-> Nothing]>>
Works(r)   == open /\ r.calls # <<>>
Retries(r) == ~open /\ ~retried /\ (r.calls # <<>> \/ r.text.kind = "markup")
Invents(r) == open /\ ~readTurn /\ ~(r.text.cited \subseteq Permitted)
Unread(r)  == /\ open /\ ~checking /\ ~readTurn /\ rows = 0
              /\ r.text.cited = {} /\ r.text.odd = NoOdd

FinishedAs == IF open THEN "finished" ELSE IF noDocuments THEN "no_documents" ELSE "budget_exhausted"

Answered(r) ==
    \/ /\ Invents(r)
       /\ at' = "turn" /\ readTurn' = TRUE /\ unchecked' = NoText /\ size' = size + 1
       /\ UNCHANGED <<retried, checks, pending, result>>
    \/ /\ ~Invents(r) /\ Unread(r)
       /\ at' = "turn" /\ unchecked' = r.text /\ checks' = checks + 1 /\ size' = size + 1
       /\ UNCHANGED <<retried, readTurn, pending, result>>
    \/ /\ ~Invents(r) /\ ~Unread(r)
       /\ Ends(r.text, FinishedAs) /\ unchecked' = NoText
       /\ UNCHANGED <<retried, readTurn, checks, size, pending, partial>>

Reply(r) ==
    /\ \/ /\ Keeps(r)
          /\ Ends(unchecked, "finished") /\ unchecked' = NoText
          /\ UNCHANGED <<retried, readTurn, checks, size, pending, partial>>
       \/ /\ ~Keeps(r) /\ Asks(r)
          /\ at' = "done" /\ stop' = "clarification" /\ unchecked' = NoText
          /\ UNCHANGED <<retried, readTurn, checks, size, pending, answer, partial, offered>>
       \/ /\ ~Keeps(r) /\ ~Asks(r) /\ Works(r)
          /\ at' = "tools" /\ pending' = r.calls /\ unchecked' = NoText
          /\ UNCHANGED <<retried, readTurn, checks, size, result>>
       \/ /\ ~Keeps(r) /\ Retries(r)
          /\ at' = "turn" /\ retried' = TRUE /\ unchecked' = NoText /\ size' = size + 1
          /\ UNCHANGED <<readTurn, checks, pending, result>>
       \/ ~Keeps(r) /\ ~Works(r) /\ ~Retries(r) /\ Answered(r)
    /\ UNCHANGED <<now, open, setting, budgets, evidence>>

Receive == at = "calling" /\ \E r \in Replies : Reply(r)

-----------------------------------------------------------------------------
(* The answer                                                              *)

Repaired(t) == IF t.odd \in Permitted
               THEN [t EXCEPT !.cited = @ \cup {t.odd}, !.odd = NoOdd] ELSE t

Usable(t) == t.kind \in {"prose", "done"}

\* partial_answer lists the pages read, an ID of each (here each piece is a page).
Settle(t, why) ==
    /\ at' = "checking"
    /\ IF Usable(t) THEN answer' = t /\ stop' = why /\ UNCHANGED partial
       ELSE /\ answer' = Prose(Found, NoOdd) /\ partial' = TRUE
            /\ stop' = IF why \in {"finished", "budget_exhausted"} THEN "no_answer" ELSE why

Close ==
    /\ at = "closing"
    /\ LET t == Repaired(answer) IN
       IF t.kind # "empty" /\ (~(t.cited \subseteq Permitted) \/ t.odd # NoOdd)
       THEN at' = "correcting" /\ answer' = t /\ UNCHANGED <<stop, partial>>
       ELSE Settle(t, stop)
    /\ UNCHANGED <<now, open, setting, budgets, evidence, size, pending, turns, offered>>

\* Mutant: an unusable correction is the answer.
CorrectedAlways(t) == Settle(IF t.cited \subseteq Permitted THEN t ELSE Empty, stop)

\* Mutant: corrected until its IDs are valid.
CorrectedAgain(t) == at' = "closing" /\ answer' = t /\ UNCHANGED <<stop, partial>>

\* Mutant: the corrected answer is not looked at again.
CorrectedBlindly(t) == Settle(t, stop)

Corrected(t) ==
    LET fallback == IF answer.cited \subseteq Permitted THEN answer ELSE Empty
        invented == ~(t.cited \subseteq Permitted)
        lost     == fallback.cited # {} /\ t.cited = {}
        usable   == Usable(t) /\ ~invented /\ ~lost
    IN Settle(IF usable THEN t ELSE fallback,
              IF ~usable /\ invented /\ fallback = Empty THEN "invalid_evidence_ids" ELSE stop)

\* The correction turn: a reply, or no reply (an error, no time left).
Correct(t) ==
    /\ at = "correcting"
    /\ now < Over \/ t = Empty
    /\ Corrected(t)
    /\ UNCHANGED <<now, open, setting, budgets, evidence, size, pending, turns, offered>>

\* The last look at the access to the cited documents and the session.
CheckAccess ==
    /\ at = "checking"
    /\ at' = "done"
    /\ \/ UNCHANGED result
       \/ answer' = Empty /\ stop' = "access_revoked" /\ UNCHANGED <<partial, offered>>
    /\ UNCHANGED <<now, open, setting, budgets, evidence, size, pending, turns>>

Done == Ended /\ UNCHANGED vars

Step == \/ Begin \/ Turn \/ RunTool \/ ToolsReturned \/ CallTimesOut \/ CallFails
        \/ Receive
        \/ Close \/ CheckAccess
        \/ \E t \in Texts : Correct(t)

Next == Step \/ RunStopped \/ Tick \/ Done

Spec == Init /\ [][Next]_vars /\ WF_vars(Step)

-----------------------------------------------------------------------------
(* Properties                                                              *)

Stops == {"finished", "budget_exhausted", "no_documents", "deadline_exceeded", "clarification",
          "model_unavailable", "invalid_evidence_ids", "no_answer", "access_revoked"}

TypeOK ==
    /\ at \in {"start", "turn", "calling", "tools", "closing", "correcting", "checking",
               "done", "stopped"}
    /\ now \in 0..Over /\ open \in BOOLEAN /\ noDocuments \in BOOLEAN /\ mayAsk \in BOOLEAN
    /\ rows \in Nat /\ dispatched \in 0..rows /\ seen \in 0..dispatched
    /\ evidence \in Seq([id : Ids, piece : Pieces])
    /\ size \in Nat /\ pending \in Seq(Calls)
    /\ unchecked \in Text \cup {NoText} /\ checks \in Nat
    /\ retried \in BOOLEAN /\ readTurn \in BOOLEAN /\ partial \in BOOLEAN
    /\ answer \in Text /\ offered \in Text \cup {NoText} /\ stop \in Stops

\* However many calls a reply makes, and whichever of them fail or cannot be
\* read, a run dispatches no more tools and observes no more images than its
\* limits, and none after the tools were withdrawn (a lab without files: none).
BudgetsHold ==
    /\ dispatched <= MaxToolCalls /\ seen <= MaxVisualCalls
    /\ at = "tools" => open
    /\ noDocuments => dispatched = 0

\* An ID names one source: no two pieces share one, no piece has two, and an
\* ID of this run is never an ID of an earlier answer.
IdsNameOneSource ==
    /\ \A i, j \in DOMAIN evidence : i # j =>
           evidence[i].id # evidence[j].id /\ evidence[i].piece # evidence[j].piece
    /\ Found \cap Earlier = {}

KeepsIds ==
    \A e \in Range(evidence) : e \in Range(evidence')

\* What an ID names does not change while the run goes on reading.
IdsStay == [][KeepsIds]_evidence

\* The answer a student gets cites only sources that the run read or that an
\* earlier answer names, whatever the model wrote and corrected.
CitesOnlySources == at \in {"checking", "done"} => answer.cited \subseteq Permitted

\* An answer with text whose IDs are all valid reaches the student: neither the
\* check nor the correction turn loses it for a list of pages.
GoodAnswersArrive ==
    at = "done" /\ partial => ~(Usable(offered) /\ offered.cited \subseteq Permitted)

\* Every run ends, with an answer or an exception, whatever the model replies.
RunEnds == <>Ended

\* runner.py:449: "No research and no citation: ask once whether this is really
\* the answer."
ChecksOnce == checks <= 1

\* runner.py:375: the tools are withdrawn during a call because "the research
\* time ran out during a call".
CutWhenTimeIsOver == [][at = "calling" /\ open /\ ~open' => now >= ResearchOver]_vars

=============================================================================
