------------------------------ MODULE Chunking ------------------------------
(***************************************************************************)
(* How the text and the description of one block become chunks:            *)
(* split_block and _prepare of worker/structured_index.py, and the check   *)
(* of the result before a publication (validate_publishable of             *)
(* services/document_versions.py). A character is what the code asks of    *)
(* it: its bytes in UTF-8, and whether it is a space. Each step cuts one   *)
(* slice.                                                                  *)
(***************************************************************************)
EXTENDS Integers, Sequences, FiniteSets, Functions

CONSTANTS
    Characters,     \* records [width, space]
    MaxLength,      \* of a content
    MaxDescription, \* of a description
    Budgets         \* pairs of target_bytes and hard_bytes

\* Assumed of the constants wherever the module is instantiated.
ChunkingConstants ==
    /\ \A c \in Characters : c.width \in 1..4 /\ c.space \in BOOLEAN
    /\ {MaxLength, MaxDescription} \subseteq Nat
    /\ Budgets \subseteq Nat \X Nat /\ \A b \in Budgets : 0 < b[1] /\ b[1] <= b[2]

VARIABLES
    block,          \* its text, description and index state
    budget,
    at,             \* the field that is being cut; done, or refused
    start,          \* where the next slice begins
    parts,          \* the slices of that field
    chunks          \* what is ready to be stored
vars == <<block, budget, at, start, parts, chunks>>

Texts(length) == UNION {[1..n -> Characters] : n \in 0..length}
Fields == {"content", "description"}
TargetBytes == budget[1]
HardBytes == budget[2]
Bytes(text, from, to) == SumFunctionOnSet([i \in DOMAIN text |-> text[i].width], (from + 1)..to)
Greatest(S) == CHOOSE x \in S : \A y \in S : y <= x
Larger(a, b) == IF a >= b THEN a ELSE b

\* Mutant: a description is cut whatever became of its block.
IndexedIfWritten(field) ==
    /\ block[field] # <<>>
    /\ field = "content" => block.state = "searchable"
\* Which fields _prepare cuts.
Indexed(field) ==
    /\ block[field] # <<>>
    /\ field = "content" => block.state = "searchable"
    /\ field = "description" => block.state # "excluded"
TextOf(f) == block[f]

\* As much as the target takes, and always one character.
FullEnd == Greatest({e \in (start + 1)..Len(TextOf(at)) :
                         e = start + 1 \/ Bytes(TextOf(at), start, e) <= TargetBytes})
\* Mutant: the one character of a small budget may be as wide as it likes.
TooWideNever == FALSE
TooWide == Bytes(TextOf(at), start, FullEnd) > HardBytes

\* Mutant: the slice ends in front of its last space.
EndBeforeSpace ==
    LET text == TextOf(at)
        spaces == {i \in start..(FullEnd - 1) : text[i + 1].space}
    IN IF FullEnd < Len(text) /\ spaces # {} THEN Greatest(spaces) ELSE FullEnd
\* Mutant: any space of the slice will do.
EndAtAnySpace ==
    LET text == TextOf(at)
        spaces == {i \in start..(FullEnd - 1) : text[i + 1].space}
    IN IF FullEnd < Len(text) /\ spaces # {} THEN 1 + CHOOSE i \in spaces : \A j \in spaces : i <= j
       ELSE FullEnd
\* Before more text, a slice ends after the last space of its second half.
End ==
    LET text == TextOf(at)
        spaces == {i \in (start + Larger(1, (FullEnd - start) \div 2))..(FullEnd - 1) : text[i + 1].space}
    IN IF FullEnd < Len(text) /\ spaces # {} THEN Greatest(spaces) + 1 ELSE FullEnd

Init ==
    /\ block \in [content : Texts(MaxLength), description : Texts(MaxDescription),
                  state : {"searchable", "needs_review", "excluded"}]
    /\ budget \in Budgets
    /\ at = "content" /\ start = 0 /\ parts = <<>> /\ chunks = {}

Cut ==
    /\ at \in Fields /\ Indexed(at)
    /\ start < Len(TextOf(at))
    /\ ~TooWide /\ End > start
    /\ parts' = Append(parts, [from |-> start, to |-> End])
    /\ start' = End
    /\ UNCHANGED <<block, budget, at, chunks>>

\* chunk_budget_smaller_than_codepoint or empty_chunk: the job goes to _retry
\* and stores nothing.
Refuse ==
    /\ at \in Fields /\ Indexed(at)
    /\ start < Len(TextOf(at))
    /\ TooWide \/ End <= start
    /\ at' = "refused"
    /\ start' = 0 /\ parts' = <<>> /\ chunks' = {}
    /\ UNCHANGED <<block, budget>>

\* Mutant: the number of parts is taken while there is one more to come.
ChunksShort(field) ==
    {[field |-> field, part |-> i, of |-> Len(parts) - 1, from |-> parts[i].from, to |-> parts[i].to] :
        i \in DOMAIN parts}
Chunks(field) ==
    {[field |-> field, part |-> i, of |-> Len(parts), from |-> parts[i].from, to |-> parts[i].to] :
        i \in DOMAIN parts}

\* The field is cut to its end: its parts are numbered and counted.
Prepare ==
    /\ at \in Fields
    /\ Indexed(at) => start = Len(TextOf(at))
    /\ chunks' = chunks \cup Chunks(at)
    /\ at' = IF at = "content" THEN "description" ELSE "done"
    /\ start' = 0 /\ parts' = <<>>
    /\ UNCHANGED <<block, budget>>

Next == Cut \/ Refuse \/ Prepare
Spec == Init /\ [][Next]_vars

-----------------------------------------------------------------------------
(* Properties                                                              *)

\* The types of the variables; the slices lie in the text.
TypeOK ==
    /\ at \in Fields \cup {"done", "refused"}
    /\ at \in Fields => start \in 0..Len(TextOf(at))
    /\ at \notin Fields => parts = <<>>
    /\ \A i \in DOMAIN parts : 0 <= parts[i].from /\ parts[i].from < parts[i].to
                               /\ parts[i].to <= Len(TextOf(at))

\* invalid_index and incomplete_index of validate_publishable.
ChunkFits(c) == 0 <= c.from /\ c.from < c.to /\ c.to <= Len(block[c.field])
IndexComplete ==
    block.state = "searchable" /\ block.content # <<>> =>
        LET own == {c \in chunks : c.field = "content"}
            Ends(i) == {c.to : c \in {d \in own : d.part = i}}
        IN /\ \A c \in own : c.part \in 1..c.of /\ c.of = Cardinality(own)
           /\ \A c \in own : c.from \in IF c.part = 1 THEN {0} ELSE Ends(c.part - 1)
           /\ \E c \in own : c.part = c.of /\ c.to = Len(block.content)

\* What the worker stores, validate_publishable accepts: otherwise the index
\* would be kept for a teacher who cannot publish it either.
PublicationAccepts == at = "done" => IndexComplete /\ \A c \in chunks : ChunkFits(c)

\* An excluded block is not found, neither by its text nor by its description
\* ("only search skips it", set_excluded of document_edits.py).
ExcludedIsNotFound == block.state = "excluded" => chunks = {}

\* A slice fits the target, or is one character that fits the hard limit.
SlicesFit ==
    \A i \in DOMAIN parts : at \in Fields =>
        LET bytes == Bytes(TextOf(at), parts[i].from, parts[i].to)
        IN \/ bytes <= TargetBytes
           \/ bytes <= HardBytes /\ parts[i].to = parts[i].from + 1

\* Spaces do not crumble a text: two slices in a row leave no room in the
\* target for the character behind them, so a text has at most about twice the
\* slices it needs.
SlicesFillTheTarget ==
    \A i \in DOMAIN parts \ {1} : at \in Fields /\ parts[i].to < Len(TextOf(at)) =>
        Bytes(TextOf(at), parts[i - 1].from, parts[i].to + 1) > TargetBytes

\* No text is refused but for a character that is wider than the hard limit;
\* with the limit of the code, 600 bytes, none is.
RefusedForACharacter ==
    at = "refused" => \E f \in Fields : Indexed(f) /\
        \E i \in DOMAIN TextOf(f) : TextOf(f)[i].width > HardBytes

=============================================================================
