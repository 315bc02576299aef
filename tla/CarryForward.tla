----------------------------- MODULE CarryForward -----------------------------
(***************************************************************************)
(* The blocks of a document's revisions: what the reader read, what a      *)
(* teacher made of it, and what becomes of the teacher's changes when the  *)
(* same file is read again (backend/app/services/document_edits.py).       *)
(* DocumentEdits has the rows of the revisions and their jobs; here a      *)
(* revision holds its blocks and its pending reviews. Any of them may be   *)
(* the teacher's: drafts stay until a later one replaces them.             *)
(***************************************************************************)
EXTENDS Naturals, Sequences

CONSTANTS
    Blocks,         \* identities of blocks: file, path in the file, identity version
    Quoted,         \* the blocks of a kind whose source_text the reader fills
    Captioned,      \* the pictures that a model describes when they are read
    Natives,        \* what a reading may find in a block
    Texts,          \* what a teacher may write
    NoText,
    MaxRevisions,   \* bound
    Reach           \* bound: the last revisions a teacher still works on

\* Assumed of the constants wherever the module is instantiated.
BlockConstants ==
    /\ Quoted \cup Captioned \subseteq Blocks /\ Natives \cap Texts = {}
    /\ NoText \notin Natives \cup Texts /\ MaxRevisions \in Nat /\ Reach \in Nat

VARIABLE revisions

-----------------------------------------------------------------------------
(* A block: its row, and what the properties remember of it: the text that *)
(* was read, the text read where the teacher wrote, the text the           *)
(* description is about.                                                   *)

Fresh(b, n) ==
    [content |-> n, source |-> IF b \in Quoted THEN n ELSE NoText, retyped |-> FALSE, edited |-> FALSE,
     excluded |-> FALSE, origin |-> IF b \in Captioned THEN "model" ELSE "none",
     native |-> n, under |-> NoText, about |-> IF b \in Captioned THEN n ELSE NoText]

NativeText(block) ==
    IF block.source # NoText \/ block.edited THEN block.source ELSE block.content

TeacherChanged(block) == block.edited \/ block.origin = "teacher" \/ block.excluded

\* A reading may miss blocks.
Readings == UNION {[bs -> Natives] : bs \in SUBSET Blocks}
Rows(reading) == [b \in DOMAIN reading |-> Fresh(b, reading[b])]

Draft(parent, blocks, reviews) ==
    [parent |-> parent, read |-> TRUE, waiting |-> TRUE, blocks |-> blocks, reviews |-> reviews]

Init == \E reading \in Readings :
            revisions = <<[Draft(0, Rows(reading), {}) EXCEPT !.waiting = FALSE]>>

-----------------------------------------------------------------------------
(* Changes of one block (apply_block_change, set_excluded)                 *)

\* Mutant: the model's description stays.
KeepsDescription(block, text) ==
    [block EXCEPT !.source = IF @ = NoText /\ ~block.edited THEN block.content ELSE @,
                  !.content = text, !.edited = TRUE, !.under = block.native]

Rewritten(block, text) ==
    [block EXCEPT !.source = IF @ = NoText /\ ~block.edited THEN block.content ELSE @,
                  !.content = text, !.edited = TRUE, !.under = block.native,
                  !.origin = IF @ = "model" THEN "none" ELSE @,
                  !.about = IF block.origin = "model" THEN NoText ELSE @]

Retyped(block) == [block EXCEPT !.retyped = ~@, !.edited = TRUE]

Described(block) == [block EXCEPT !.origin = "teacher", !.about = block.content]
Undescribed(block) == [block EXCEPT !.origin = "none", !.about = NoText]

Switched(block) == [block EXCEPT !.excluded = ~@]

Changes(block) ==
    {Rewritten(block, t) : t \in (Texts \cup Natives) \ {block.content}}
    \cup {Retyped(block), Described(block), Undescribed(block), Switched(block)}

-----------------------------------------------------------------------------
(* Revisions                                                               *)

Room == Len(revisions) < MaxRevisions
WorkedOn(r) == Len(revisions) < r + Reach

\* edit_block and set_excluded: the own draft that waits for its index takes the
\* change itself, every other revision is copied with its pending reviews.
Store(r, blocks, settled) ==
    IF revisions[r].waiting
    THEN revisions' = [revisions EXCEPT ![r].blocks = blocks, ![r].reviews = @ \ settled]
    ELSE Room /\ revisions' = Append(revisions, Draft(r, blocks, revisions[r].reviews \ settled))

Edit(r, b) ==
    /\ WorkedOn(r) /\ revisions[r].read /\ b \in DOMAIN revisions[r].blocks
    /\ \E block \in Changes(revisions[r].blocks[b]) \ {revisions[r].blocks[b]} :
          Store(r, [revisions[r].blocks EXCEPT ![b] = block], {})

\* The index job of the draft starts.
StartIndex(r) ==
    /\ revisions[r].waiting
    /\ revisions' = [revisions EXCEPT ![r].waiting = FALSE]

RequestReparse(r) ==
    /\ Room /\ WorkedOn(r)
    /\ revisions' = Append(revisions, [parent |-> r, read |-> FALSE, waiting |-> FALSE, blocks |-> <<>>, reviews |-> {}])

\* Mutant: the same block is enough.
SameBlock(old, new) == TRUE

Proven(old, new) == NativeText(old) # NoText /\ NativeText(new) = NativeText(old)

\* TEACHER_FIELDS and what goes with them.
Carried(old, new) ==
    [new EXCEPT !.source = IF old.edited /\ @ = NoText THEN NativeText(new) ELSE @,
                !.content = old.content, !.retyped = old.retyped, !.edited = old.edited, !.excluded = old.excluded,
                !.origin = old.origin, !.about = old.about, !.under = old.under]

ReviewOf(b, old) == [block |-> b, text |-> IF old.edited THEN old.content ELSE NoText]

\* Mutant: a block that was not read again is forgotten.
UnprovenPresent(old, new) ==
    {b \in DOMAIN old \cap DOMAIN new : TeacherChanged(old[b]) /\ ~Proven(old[b], new[b])}

Unproven(old, new) ==
    {b \in DOMAIN old : TeacherChanged(old[b]) /\ (b \in DOMAIN new => ~Proven(old[b], new[b]))}

\* carry_forward, in the transaction that stores the new reading.
CommitReading(r) ==
    /\ ~revisions[r].read
    /\ \E reading \in Readings :
          LET new == Rows(reading)
              old == revisions[revisions[r].parent].blocks
              moved == {b \in DOMAIN old : TeacherChanged(old[b])} \ Unproven(old, new)
          IN revisions' = [revisions EXCEPT ![r].read = TRUE,
                 ![r].blocks = [b \in DOMAIN new |-> IF b \in moved THEN Carried(old[b], new[b]) ELSE new[b]],
                 ![r].reviews = {ReviewOf(b, old[b]) : b \in Unproven(old, new)}]

\* resolve_review. Confirming applies the candidate or what the teacher typed
\* instead; a text that changes nothing is refused.
Confirm(r, review) ==
    /\ WorkedOn(r) /\ review.block \in DOMAIN revisions[r].blocks
    /\ LET block == revisions[r].blocks[review.block] IN
       \E text \in ({review.text} \cup Texts) \ {NoText, block.content} :
          Store(r, [revisions[r].blocks EXCEPT ![review.block] = Rewritten(block, text)], {review})

Ignore(r, review) ==
    /\ WorkedOn(r)
    /\ revisions' = [revisions EXCEPT ![r].reviews = @ \ {review}]

Next == \E r \in DOMAIN revisions :
    \/ StartIndex(r) \/ RequestReparse(r) \/ CommitReading(r)
    \/ \E b \in Blocks : Edit(r, b)
    \/ \E review \in revisions[r].reviews : Confirm(r, review) \/ Ignore(r, review)

Spec == Init /\ [][Next]_revisions

-----------------------------------------------------------------------------
(* Properties                                                              *)

Rewritings(r) == {b \in DOMAIN revisions[r].blocks : revisions[r].blocks[b].under # NoText}

\* The rows are well formed: a revision comes from an earlier one, a review names
\* a block and what can be confirmed in it.
TypeOK ==
    \A r \in DOMAIN revisions :
        /\ revisions[r].parent \in 0 .. r - 1
        /\ DOMAIN revisions[r].blocks \subseteq Blocks
        /\ revisions[r].reviews \subseteq [block : Blocks, text : Texts \cup Natives \cup {NoText}]

\* Through any series of copies, readings and confirmed reviews, a teacher's text
\* stands only over the native text it was written or confirmed over
\* (carry_forward: never applied on a guess).
NeverOnAGuess ==
    \A r \in DOMAIN revisions : \A b \in Rewritings(r) :
        revisions[r].blocks[b].under = revisions[r].blocks[b].native

\* A model's description is about the text the block has now, also after an edit,
\* a copy and a new reading (apply_block_change: it must not describe the new one).
ModelDescribesItsText ==
    \A r \in DOMAIN revisions : \A b \in DOMAIN revisions[r].blocks :
        revisions[r].blocks[b].origin = "model" => revisions[r].blocks[b].about = revisions[r].blocks[b].content

Reads(r) == ~revisions[r].read /\ revisions'[r].read

Reviewed(r, b, text) == [block |-> b, text |-> text] \in revisions'[r].reviews

LosesNoChange ==
    \A r \in DOMAIN revisions : Reads(r) =>
       LET old == revisions[revisions[r].parent].blocks
           new == revisions'[r].blocks
       IN \A b \in {c \in DOMAIN old : TeacherChanged(old[c])} :
             \/ /\ b \in DOMAIN new
                /\ new[b].content = old[b].content /\ new[b].retyped = old[b].retyped
                /\ new[b].excluded = old[b].excluded /\ new[b].origin = old[b].origin
             \/ Reviewed(r, b, IF old[b].edited THEN old[b].content ELSE NoText)

\* What a teacher changed in a revision by the time its new reading is stored,
\* a text, a kind, a description or an exclusion, is in that reading or waits
\* there for the teacher (carry_forward).
ReadingsLoseNoChange == [][LosesNoChange]_revisions

\* Of the rules of document_edits: a change that a reading cannot prove becomes a
\* review. So what waits for the teacher also waits after one more reading.
ReviewsOutlastReadings ==
    [][\A r \in DOMAIN revisions : Reads(r) =>
          \A review \in revisions[revisions[r].parent].reviews :
             \/ review \in revisions'[r].reviews
             \/ review.block \in DOMAIN revisions'[r].blocks /\ revisions'[r].blocks[review.block].content = review.text
      ]_revisions

\* Of the rules of document_edits: the native text stays as it was read, so that a
\* later reading can tell whether the source under an edit changed.
NativeTextStays ==
    \A r \in DOMAIN revisions : \A b \in DOMAIN revisions[r].blocks :
        NativeText(revisions[r].blocks[b]) = revisions[r].blocks[b].native

=============================================================================
