------------------------------ MODULE MCAnswers ------------------------------
(* That a student's question comes to an end, for TLC: the run of a request, and *)
(* the research loop and the search inside it. part is the machine that moves,   *)
(* the others stand still, and fairness is asked of the one that moves.          *)
EXTENDS TLC, Naturals, Sequences

CONSTANTS Nothing, t1, t2, s1

VARIABLES
    part,
    run, messages, cited, call, day, used, granted, refill, task, detached, lost, faults,
    turn, now, open, noDocuments, mayAsk, rows, dispatched, seen, evidence, size, pending,
    unchecked, retried, readTurn, checks, answer, stop, partial, offered,
    mode, empty, place, late, best, reading, texts, pages, shown, said, why

runVars    == <<run, messages, cited, call, day, used, granted, refill, task, detached, lost, faults>>
loopVars   == <<turn, now, open, noDocuments, mayAsk, rows, dispatched, seen, evidence, size, pending,
                unchecked, retried, readTurn, checks, answer, stop, partial, offered>>
searchVars == <<mode, empty, place, late, best, reading, texts, pages, shown, said, why>>
vars == <<part, runVars, loopVars, searchVars>>

\* Two requests of one conversation, without refills.
Chat == INSTANCE Research WITH
    Sessions <- {s1}, MaxRequests <- 2, MaxCalls <- 1, MaxDay <- 1, Teachers <- {},
    Quota <- 9, Estimate <- 2, Prompt <- 1, Bills <- {2}, Tasks <- {t1, t2},
    NewEvidence <- 0, MaxFaults <- 1

Loop == INSTANCE ResearchLoop WITH
    Pieces <- {"p1"}, Earlier <- {1}, First <- 3, MaxToolCalls <- 1, MaxVisualCalls <- 1,
    Room <- 2, at <- turn

\* Of the three pages, two fit beside each other, the third does not.
Search == INSTANCE SearchMode WITH
    N <- 3, SizeOf <- <<2, 1, 2>>, ContextChars <- 3, MaxPages <- 2, Scores <- {0, 1, 2, 3},
    MinScore <- 2, Earlier <- {1}, First <- 3, Rewrite <- TRUE,
    at <- place, evidence <- pages, answer <- said, stop <- why

ASSUME Loop!LoopConstants /\ Search!SearchConstants

Init ==
    /\ part \in {"chat", "loop", "search"}
    /\ Chat!Init
    /\ Loop!Init /\ (part = "loop" \/ ~(noDocuments \/ mayAsk))
    /\ Search!Init /\ (part = "search" \/ (mode = "search" /\ ~empty))

ChatMoves   == part = "chat" /\ Chat!Next /\ UNCHANGED <<part, loopVars, searchVars>>
LoopMoves   == part = "loop" /\ Loop!Next /\ UNCHANGED <<part, runVars, searchVars>>
SearchMoves == part = "search" /\ Search!Next /\ UNCHANGED <<part, runVars, loopVars>>

Next == ChatMoves \/ LoopMoves \/ SearchMoves

\* As in the modules, of the machine that moves.
Fairness ==
    /\ \A t \in {t1, t2} : WF_runVars(part = "chat" /\ Chat!TaskStep(t))
    /\ WF_loopVars(part = "loop" /\ Loop!Step)
    /\ WF_searchVars(part = "search" /\ Search!Step)

Spec == Init /\ [][Next]_vars /\ Fairness

-----------------------------------------------------------------------------
(* What the modules state of their machines                                *)

\* A run that began ends, or its process is gone (Research).
RunsEnd == part = "chat" => Chat!RunsEnd

\* A run of the research loop and a search end, whatever the model replies
\* (ResearchLoop, SearchMode).
RunnersEnd == <>(\/ part = "chat"
                 \/ part = "loop" /\ Loop!Ended
                 \/ part = "search" /\ Search!Ended)

=============================================================================
