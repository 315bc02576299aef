---------------------------- MODULE MCDocuments ----------------------------
(* The machines around the files, blocks and chunks of a document, and the row  *)
(* locks of its transactions and of those of chats, for TLC: one run checks     *)
(* them all. part is the one that moves; the others stand still.                *)
EXTENDS Integers, TLC, Sequences

CONSTANTS
    \* of RowLocks
    None, Transactions,
    \* of StagedFiles: the uploads of the second instance, some of the same bytes
    Uploads, Parsers, First, MoreUploads, Copies, MaxGeneration, MaxOverruns,
    \* of CarryForward
    EditedBlocks, Quoted, Captioned, Natives, EditedTexts, NoText, MaxRevisions, Reach,
    \* of Chunking
    Characters, TextLength, DescriptionLength, ByteBudgets,
    \* of Reading
    PageOf, DocumentOf, Letters, Patterns, BlockLength, MaxBudget, OpenBatch, GrepBatch,
    GrepAllMatches, MaxEdits

VARIABLES
    part,
    life, generation, row, ledger, passed, file, at, seen, reads, holder, cleanup, overruns,
    revisions,
    block, budget, field, start, slices, chunks,
    content, edited, asked, taken, handle, answer,
    tx

files    == <<life, generation, row, ledger, passed, file, at, seen, reads, holder, cleanup, overruns>>
chunking == <<block, budget, field, start, slices, chunks>>
reading  == <<content, edited, asked, taken, handle, answer>>

\* Uploads and attempts to read; and uploads alone, of which some have the same bytes,
\* with one change more.
Files == INSTANCE StagedFiles WITH Parses <- Parsers, Twins <- {}
TwinFiles == INSTANCE StagedFiles WITH
    Uploads <- MoreUploads, Parses <- {}, Twins <- Copies, MaxGeneration <- MaxGeneration + 1

\* One block at a time, part: code, whose source text is its content, and a picture
\* that a model describes.
Edits == INSTANCE CarryForward WITH Blocks <- EditedBlocks, Texts <- EditedTexts

Chunking == INSTANCE Chunking WITH
    MaxLength <- TextLength, MaxDescription <- DescriptionLength, Budgets <- ByteBudgets,
    at <- field, parts <- slices

\* Read page by page, or searched for words.
Reading == INSTANCE Reading WITH MaxLength <- BlockLength

\* Three transactions of documents, and three of chats.
Locks == INSTANCE RowLocks WITH
    Traffic <- {"claim", "edit_in_place", "edit_copy", "review", "publish", "change", "delete",
                "cleanup", "sweep", "parse", "discard", "index", "give_back"}
Chats == INSTANCE RowLocks WITH
    Traffic <- {"reserve", "settle", "begin", "begin_over", "close", "finish", "refill", "rate",
                "rename", "purge"}

Symmetry == Permutations(Transactions) \cup Permutations(Parsers)

ASSUME FilesAssumption == Files!StagedAssumption /\ TwinFiles!StagedAssumption
ASSUME EditsAssumption == Edits!BlockConstants
ASSUME ChunkingAssumption == Chunking!ChunkingConstants
ASSUME ReadingAssumption == Reading!ReadingConstants

\* Of the .cfg: a letter, a space and an accented letter; targets below, at and above
\* the widest character.
ThreeCharacters == {[width |-> 1, space |-> FALSE], [width |-> 1, space |-> TRUE],
                    [width |-> 3, space |-> FALSE]}
ThreeBudgets == {<<1, 2>>, <<2, 3>>, <<4, 6>>}

\* Of the .cfg: two blocks on the first page, one on the second, none on the third; the
\* first page is a document of its own.
ThreeBlocks == <<1, 1, 2>>
ThreePages == <<1, 2, 2>>
ThreePatterns == {<<"a">>, <<"a", "a">>, <<"a", "b">>}

\* Bounds: what is read are short texts of one letter, and what is searched stays as
\* it is.
ShortTexts(texts) == \A b \in DOMAIN texts : texts[b] \in {<<>>, <<"a">>, <<"a", "a">>}
ReadInPages == ShortTexts(content') /\ asked'.tool \in {None, "open", "read"}
SearchForWords == edited' = {} /\ asked'.tool \in {None, "grep", "grep all"}

NoFiles ==
    /\ life = 0 /\ generation = 0 /\ row = 0 /\ ledger = 0 /\ passed = 0 /\ file = 0 /\ at = 0
    /\ seen = 0 /\ reads = 0 /\ holder = 0 /\ cleanup = 0 /\ overruns = 0
NoChunking == block = 0 /\ budget = 0 /\ field = 0 /\ start = 0 /\ slices = 0 /\ chunks = 0
NoReading  == content = 0 /\ edited = 0 /\ asked = 0 /\ taken = 0 /\ handle = 0 /\ answer = 0

OneBlock(rows) == \A r \in DOMAIN rows : DOMAIN rows[r].blocks \subseteq {part}

Init ==
    /\ part \in {"files", "twins", "chunking", "pages", "words", "locks", "chats"} \cup EditedBlocks
    /\ CASE part = "files" -> Files!Init [] part = "twins" -> TwinFiles!Init [] OTHER -> NoFiles
    /\ IF part \in EditedBlocks THEN Edits!Init /\ OneBlock(revisions) ELSE revisions = 0
    /\ IF part = "chunking" THEN Chunking!Init ELSE NoChunking
    /\ IF part \in {"pages", "words"} THEN Reading!Init ELSE NoReading
    /\ part = "pages" => ShortTexts(content)
    /\ CASE part = "locks" -> Locks!Init [] part = "chats" -> Chats!Init [] OTHER -> tx = 0

FilesMove ==
    /\ \/ part = "files" /\ Files!Next
       \/ part = "twins" /\ TwinFiles!Next
    /\ UNCHANGED <<part, revisions, chunking, reading, tx>>
BlocksMove ==
    /\ part \in EditedBlocks /\ Edits!Next /\ OneBlock(revisions')
    /\ UNCHANGED <<part, files, chunking, reading, tx>>
ChunksMove ==
    part = "chunking" /\ Chunking!Next /\ UNCHANGED <<part, files, revisions, reading, tx>>
ReadingMoves ==
    /\ part \in {"pages", "words"} /\ Reading!Next
    /\ IF part = "pages" THEN ReadInPages ELSE SearchForWords
    /\ UNCHANGED <<part, files, revisions, chunking, tx>>
LocksMove ==
    /\ \/ part = "locks" /\ Locks!Next
       \/ part = "chats" /\ Chats!Next
    /\ UNCHANGED <<part, files, revisions, chunking, reading>>

Next == FilesMove \/ BlocksMove \/ ChunksMove \/ ReadingMoves \/ LocksMove

Spec == Init /\ [][Next]_<<part, files, revisions, chunking, reading, tx>>

-----------------------------------------------------------------------------
(* What the modules state of their machines                                *)

\* Until a lease was overrun rows of a document that is not deleted have their whole
\* files, and what is on disk is accounted for, also with uploads of the same bytes
\* (StagedFiles).
FilesMatchRows ==
    /\ part = "files" => /\ Files!TypeOK
                         /\ overruns = 0 => Files!OwnedFilesExist /\ Files!NoLostFiles
    /\ part = "twins" => /\ TwinFiles!TypeOK
                         /\ overruns = 0 => TwinFiles!OwnedFilesExist /\ TwinFiles!NoLostFiles

\* A teacher's text stands only over the native text it was written over, and a
\* model's description is about the text the block has now (CarryForward).
TextsFitTheirBlocks ==
    part \in EditedBlocks => Edits!TypeOK /\ Edits!NeverOnAGuess /\ Edits!ModelDescribesItsText

\* What the worker stores can be published and found: slices fit their target and
\* fill it, only a character wider than the hard limit is refused, and an
\* excluded block is not found (Chunking).
ChunksServe ==
    part = "chunking" =>
        /\ Chunking!TypeOK /\ Chunking!PublicationAccepts /\ Chunking!ExcludedIsNotFound
        /\ Chunking!SlicesFit /\ Chunking!SlicesFillTheTarget /\ Chunking!RefusedForACharacter

\* An answer without a cursor ends a complete reading, a read keeps to its budget,
\* a handle that was given works, and a search names each document that has
\* matches it does not show (Reading).
ReadingsTellWhatIsLeft ==
    part \in {"pages", "words"} => /\ Reading!TypeOK /\ Reading!NoCursorMeansComplete
                                   /\ Reading!WithinBudget /\ Reading!HandlesContinue
                                   /\ Reading!SearchTellsWhatItOmits

\* In every circle of waiting transactions of the documents there is an edit of a
\* draft or a review, in every circle of those of the chats a purge or a question
\* over a lost run; and a claim never waits for a teacher, nor the sweep for an
\* upload (RowLocks).
LocksFlow ==
    /\ part = "locks" => Locks!DocumentsFlow /\ Locks!ClaimsNeverWait
    /\ part = "chats" => Chats!ChatsFlow

\* A new reading has what a teacher changed, or asks about it (CarryForward); each
\* answer goes on from a later place (Reading).
StepsLoseNothing ==
    /\ [][(part \in EditedBlocks) => Edits!LosesNoChange]_revisions
    /\ [][(part \in {"pages", "words"}) => Reading!Advances]_reading

=============================================================================
