---------------------------- MODULE Conversation ----------------------------
(***************************************************************************)
(* What the chat promises a student, whatever tasks, resends, cancelled    *)
(* requests and crashes do: a message is stored once, a session works on   *)
(* one question at a time, and an answer comes at most once and directly   *)
(* after its question. Source of the promise: client_request_id in the API *)
(* documentation and the agent_runs table.                                 *)
(***************************************************************************)
EXTENDS Integers, Sequences, SequencesExt

CONSTANTS Sessions, Requests

VARIABLES
    talk,   \* the messages of each session: who speaks, and for which request
    open    \* the requests that are being worked on

Says(speaker, q) ==
    talk' = [talk EXCEPT ![q.session] = Append(@, [speaker |-> speaker, request |-> q])]

Asked(q) == \E i \in DOMAIN talk[q.session] : talk[q.session][i].request = q

ConversationInit == talk = [s \in Sessions |-> <<>>] /\ open = {}

\* A question may take the place of one its session gives up.
Ask(q) ==
    /\ ~Asked(q)
    /\ Says("student", q)
    /\ open' = {p \in open : p.session # q.session} \cup {q}

Answer(q) ==
    /\ q \in open
    /\ Last(talk[q.session]) = [speaker |-> "student", request |-> q]
    /\ Says("model", q)
    /\ open' = open \ {q}

GiveUp(q) ==
    /\ q \in open
    /\ open' = open \ {q}
    /\ UNCHANGED talk

ConversationNext == \E q \in Requests : Ask(q) \/ Answer(q) \/ GiveUp(q)

ConversationSpec == ConversationInit /\ [][ConversationNext]_<<talk, open>>

=============================================================================
