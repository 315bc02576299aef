------------------------------ MODULE SearchMode ------------------------------
(***************************************************************************)
(* The two runners without a conversation of tools: SearchRunner           *)
(* (agent/search.py), one search and one answer from its pages, and        *)
(* DirectRunner (agent/direct.py), one answer without any page. The pages  *)
(* are those of one file, in order; each is one piece of evidence. The     *)
(* reads run at the same time and are numbered as they return. A text is   *)
(* what the runner asks of it; "only ids" is empty once its IDs are gone.  *)
(***************************************************************************)
EXTENDS Naturals, FiniteSets, SequencesExt

CONSTANTS
    N,              \* pages of the file
    SizeOf,         \* the length of each page's text, when it has any
    ContextChars, MaxPages,
    Scores,         \* what the reranker may give; 0 is none
    MinScore,
    Earlier, First, \* IDs of earlier answers; the first new one
    Rewrite         \* REWRITE: the question is rewritten into several queries

Pages == 1..N

\* Assumed of the constants wherever the module is instantiated.
SearchConstants ==
    /\ N \in Nat \ {0} /\ SizeOf \in [Pages -> Nat \ {0}] /\ ContextChars \in Nat /\ MaxPages \in Nat
    /\ Scores \subseteq Nat /\ MinScore \in Nat /\ Rewrite \in BOOLEAN
    /\ First \in Nat \ {0} /\ Earlier \subseteq 1..(First - 1)

VARIABLES
    mode, empty,    \* direct or search; the lab has no documents
    at, late,       \* where the run stands; total_timeout is over
    best,           \* the page the search ranked above every other, if one was
    reading,        \* candidates, found pages first
    texts,          \* the length of the text of each page that returned
    evidence,       \* the pages read, in the order of their IDs
    shown,          \* the pages in the prompt
    answer, stop

vars == <<mode, empty, at, late, best, reading, texts, evidence, shown, answer, stop>>
setting == <<mode, empty>>
sources == <<best, reading, texts, evidence, shown>>

Ids == Earlier \cup First..(First + N - 1)
IdOf(p) == First + (CHOOSE i \in DOMAIN evidence : evidence[i] = p) - 1
Found == {IdOf(p) : p \in Range(evidence)}

\* odd: a reference with extra parts, "[E3 in d1.p2]", or 0 for none.
Text == [kind : {"empty", "done", "prose", "only ids"}, cited : SUBSET Ids, odd : Ids \cup {0}]
Plain(kind) == [kind |-> kind, cited |-> {}, odd |-> 0]
Empty == Plain("empty")

\* What the model writes: bound: one ID or all of them, and one odd reference.
Texts == {Empty, Plain("done"), Plain("prose")} \cup
         [kind : {"prose", "only ids"}, cited : {Ids} \cup {{i} : i \in Ids}, odd : {0, First}]

Init ==
    /\ mode \in {"direct", "search"} /\ empty \in BOOLEAN
    /\ at = "start" /\ late = FALSE
    /\ best = {} /\ reading = <<>> /\ texts = <<>> /\ evidence = <<>> /\ shown = <<>>
    /\ answer = Empty /\ stop = "finished"

Ended == at \in {"done", "stopped"}

Tick == ~Ended /\ ~late /\ late' = TRUE
        /\ UNCHANGED <<setting, at, sources, answer, stop>>

Fails(why) == at' = "done" /\ answer' = Empty /\ stop' = why

-----------------------------------------------------------------------------
(* Search                                                                  *)

\* The hits of one query, best first: bound: two pages.
Hits == [page : Pages, score : Scores]
Results == {<<>>} \cup {<<a>> : a \in Hits} \cup {x \in Hits \X Hits : x[1].score >= x[2].score}

LargestOf(S) == CHOOSE x \in S : \A y \in S : y <= x
LeastOf(S) == CHOOSE x \in S : \A y \in S : x <= y

\* The pages of all queries, each with its best rank and its best score.
Merged(lists) ==
    LET places(p) == {x \in (DOMAIN lists) \X (1..2) :
                          x[2] \in DOMAIN lists[x[1]] /\ lists[x[1]][x[2]].page = p}
    IN [p \in {q \in Pages : places(q) # {}} |->
           [rank  |-> LeastOf({x[2] : x \in places(p)}),
            score |-> LargestOf({lists[x[1]][x[2]].score : x \in places(p)}),
            since |-> LeastOf({3 * x[1] + x[2] : x \in places(p)})]]

Best(found) == LargestOf({0} \cup {found[p].score : p \in DOMAIN found})

\* below_min_score: only a reranker says that the course has no such page.
NotFound(found) == DOMAIN found = {} \/ (Best(found) > 0 /\ Best(found) < MinScore)

\* The pages, each once, in an order.
InOrder(pages, before(_, _)) ==
    CHOOSE so \in [1..Cardinality(pages) -> pages] :
        Range(so) = pages /\ \A i, j \in DOMAIN so : i < j => before(so[i], so[j])

\* Mutant: the first query's pages come first.
InOrderFound(found) == InOrder(DOMAIN found, LAMBDA p, q : found[p].since < found[q].since)

\* By score, then by rank; equal pages stay in the order they were found.
Precedes(f, g) ==
    \/ f.score > g.score
    \/ /\ f.score = g.score
       /\ f.rank < g.rank \/ (f.rank = g.rank /\ f.since < g.since)

Ordered(found) == InOrder(DOMAIN found, LAMBDA p, q : Precedes(found[p], found[q]))

\* A page of the file that is not a candidate yet.
With(so, p) == IF p \in Pages /\ p \notin Range(so) THEN Append(so, p) ELSE so

\* The found pages, then the page after and before each; the first MaxPages.
Candidates(order) ==
    LET near == FoldLeft(LAMBDA so, p : With(With(so, p + 1), p - 1), order, order)
    IN SubSeq(near, 1, IF Len(near) < MaxPages THEN Len(near) ELSE MaxPages)

\* The gate: direct mode and a lab without documents go straight to the answer.
Begin ==
    /\ at = "start"
    /\ IF mode = "direct" \/ empty
       THEN at' = "answering" /\ stop' = IF mode = "direct" THEN "finished" ELSE "no_documents"
       ELSE at' = "searching" /\ UNCHANGED stop
    /\ UNCHANGED <<setting, late, sources, answer>>

\* A failed rewrite, and no rewrite, search the question as it was written.
Search(lists) ==
    /\ LET found == Merged(lists) IN
       IF NotFound(found)
       THEN at' = "answering" /\ stop' = "not_found" /\ UNCHANGED <<best, reading>>
       ELSE /\ at' = "reading" /\ reading' = Candidates(Ordered(found))
            /\ best' = {p \in DOMAIN found :
                           \A q \in DOMAIN found \ {p} : found[q].score < found[p].score}
            /\ UNCHANGED stop
    /\ UNCHANGED <<setting, late, texts, evidence, shown, answer>>

SearchReturns ==
    /\ at = "searching"
    /\ \E a \in Results : Search(<<a>>) \/ (Rewrite /\ \E b \in Results : Search(<<a, b>>))

\* One of the reads that are under way returns: with its text, or without any
\* (an error, a page of furniture, or the research time was over).
ReadReturns(p) ==
    /\ at = "reading" /\ p \in Range(reading) \ DOMAIN texts
    /\ \/ texts' = [q \in DOMAIN texts \cup {p} |-> IF q = p THEN 0 ELSE texts[q]]
          /\ UNCHANGED evidence
       \/ texts' = [q \in DOMAIN texts \cup {p} |-> IF q = p THEN SizeOf[p] ELSE texts[q]]
          /\ evidence' = Append(evidence, p)
    /\ UNCHANGED <<setting, at, late, best, reading, shown, answer, stop>>

\* Mutant: pages are added until the budget is passed.
ChosenUntilFull(length) ==
    FoldLeft(LAMBDA c, p : IF length[p] = 0 \/ c.used >= ContextChars THEN c
                           ELSE [pages |-> c.pages \cup {p}, used |-> c.used + length[p]],
             [pages |-> {}, used |-> 0], reading).pages

\* Each page that has text and still fits, in the order of the candidates.
Chosen(length) ==
    FoldLeft(LAMBDA c, p : IF length[p] = 0 \/ c.used + length[p] > ContextChars THEN c
                           ELSE [pages |-> c.pages \cup {p}, used |-> c.used + length[p]],
             [pages |-> {}, used |-> 0], reading).pages

Choose ==
    /\ at = "reading" /\ DOMAIN texts = Range(reading)
    /\ LET chosen == Chosen(texts) IN
       /\ shown' = InOrder(chosen, LAMBDA p, q : p < q)
       /\ stop' = IF chosen = {} THEN "not_found" ELSE stop
    /\ at' = "answering"
    /\ UNCHANGED <<setting, late, best, reading, texts, evidence, answer>>

-----------------------------------------------------------------------------
(* The answer                                                              *)

\* A direct answer cites nothing; no page given, only what is cited already.
Permitted == IF mode = "direct" THEN {} ELSE Earlier \cup (IF stop = "finished" THEN Found ELSE {})

Clean(t) ==
    LET ids == (t.cited \cup ({t.odd} \ {0})) \cap Permitted
    IN IF mode = "direct" /\ t.kind # "empty" /\ t.odd # 0
       THEN Plain("prose")                  \* only whole IDs are removed there
       ELSE [kind |-> IF t.kind = "only ids" /\ ids = {} /\ t.odd = 0 THEN "empty" ELSE t.kind,
             cited |-> ids, odd |-> IF t.odd \in Permitted THEN 0 ELSE t.odd]

\* Pages were given and nothing is cited: one check.
NeedsCheck(t) == mode = "search" /\ stop = "finished" /\ t.kind # "empty" /\ t.cited = {}

Answer(t) ==
    /\ at = "answering" /\ (mode = "search" => ~late)
    /\ LET c == Clean(t) IN
       IF c.kind = "empty" THEN Fails("partial_no_answer")
       ELSE /\ answer' = c /\ UNCHANGED stop
            /\ at' = IF NeedsCheck(c) THEN "checking" ELSE IF mode = "direct" THEN "done" ELSE "closing"
    /\ UNCHANGED <<setting, late, sources>>

\* Mutant: the reply to the check is not cleaned.
UncleanCheck(t) ==
    /\ at = "checking" /\ ~late
    /\ answer' = IF t.kind \in {"empty", "done"} THEN answer ELSE t
    /\ at' = "closing" /\ UNCHANGED <<setting, late, sources, stop>>

\* DONE or nothing keeps the reply.
Check(t) ==
    /\ at = "checking" /\ ~late
    /\ LET c == IF t.kind \in {"empty", "done"} THEN answer ELSE Clean(t) IN
       IF c.kind = "empty" THEN Fails("partial_no_answer")
       ELSE answer' = c /\ at' = "closing" /\ UNCHANGED stop
    /\ UNCHANGED <<setting, late, sources>>

\* The call fails, or its time is over.
AnswerFails ==
    /\ at = "answering"
    /\ Fails("partial_deadline_exceeded") \/ Fails("partial_model_unavailable")
    /\ UNCHANGED <<setting, late, sources>>

CheckFails ==
    /\ at = "checking"
    /\ at' = "closing"
    /\ UNCHANGED <<setting, late, sources, answer, stop>>

\* ResearchQuotaExceeded, ResearchRunStopped: from a model call or a tool.
RunStopped ==
    /\ at \in {"searching", "reading", "answering", "checking"}
    /\ at' = "stopped"
    /\ UNCHANGED <<setting, late, sources, answer, stop>>

CheckAccess ==
    /\ at = "closing"
    /\ \/ at' = "done" /\ UNCHANGED <<answer, stop>>
       \/ Fails("access_revoked")
    /\ UNCHANGED <<setting, late, sources>>

Step == \/ Begin \/ SearchReturns \/ Choose \/ AnswerFails \/ CheckFails \/ CheckAccess
        \/ \E p \in Pages : ReadReturns(p)
        \/ \E t \in Texts : Answer(t) \/ Check(t)

Next == Step \/ Tick \/ RunStopped \/ (Ended /\ UNCHANGED vars)

Spec == Init /\ [][Next]_vars /\ WF_vars(Step)

-----------------------------------------------------------------------------
(* Properties                                                              *)

TypeOK ==
    /\ at \in {"start", "searching", "reading", "answering", "checking", "closing", "done", "stopped"}
    /\ mode \in {"direct", "search"} /\ empty \in BOOLEAN /\ late \in BOOLEAN
    /\ best \subseteq Pages /\ reading \in Seq(Pages) /\ Len(reading) <= MaxPages
    /\ evidence \in Seq(Pages) /\ Len(evidence) <= N /\ answer \in Text
    /\ DOMAIN texts \subseteq Pages /\ shown \in Seq(Pages)
    /\ stop \in {"finished", "no_documents", "not_found", "access_revoked", "partial_no_answer",
                 "partial_deadline_exceeded", "partial_model_unavailable"}

Written == answer.kind # "empty"

\* Whatever the model wrote, and whichever reply was checked, the student's
\* answer cites only pages that were read or that an earlier answer cites; a
\* direct answer cites nothing, and an answer without pages nothing new.
CitesOnlySources ==
    at \in {"closing", "done"} /\ Written =>
        /\ answer.cited \subseteq Earlier \cup Found
        /\ mode = "direct" => answer.cited = {}
        /\ stop \in {"no_documents", "not_found"} => answer.cited \subseteq Earlier

Total(pages) == SumFunctionOnSet(SizeOf, pages)

\* The candidates before a page.
Before(p) == {reading[i] : i \in {k \in DOMAIN reading : \A j \in 1..k : reading[j] # p}}

\* The prompt holds no page twice and no more text than context_chars, and a
\* page the search found is left out only when it had no text or did not fit
\* beside the pages that come before it.
PromptFits ==
    at = "answering" /\ stop = "finished" /\ mode = "search" =>
        /\ Cardinality(Range(shown)) = Len(shown) /\ Total(Range(shown)) <= ContextChars
        /\ \A p \in Range(evidence) \ Range(shown) :
               Total(Before(p) \cap Range(shown)) + SizeOf[p] > ContextChars

\* The page with the best score of all queries, wherever the queries ranked
\* it, is in the prompt when it was read and fits alone.
BestPageIsShown ==
    at = "answering" /\ stop = "finished" /\ mode = "search" =>
        \A p \in best \cap Range(evidence) : SizeOf[p] <= ContextChars => p \in Range(shown)

\* A question always gets an end: an answer, a partial reply or an exception.
RunEnds == <>Ended

\* search.py:40: "Only these IDs, and IDs of earlier answers in this
\* conversation, are valid": the IDs in the pages the model was given.
CitesShownPages ==
    at = "done" /\ stop = "finished" =>
        answer.cited \subseteq Earlier \cup {IdOf(p) : p \in Range(shown)}

=============================================================================
