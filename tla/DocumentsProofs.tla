---------------------------- MODULE DocumentsProofs ----------------------------
(***************************************************************************)
(* What the run of MCDocuments checks of files with two or three uploads,  *)
(* of edits in three revisions, of row locks with three transactions at    *)
(* one time, and of chunks and readings of short texts, for any number of  *)
(* them and any text. Files and locks: StagedProofs and LockProofs, each   *)
(* of its two instances.                                                   *)
(***************************************************************************)
EXTENDS MCDocuments, SumProofs, SequenceTheorems, TLAPS

-----------------------------------------------------------------------------
(* Rows and files *)

\* The theorems about the two instances of StagedFiles.
OfFiles == INSTANCE StagedProofs WITH Parses <- Parsers, Twins <- {}
OfTwins == INSTANCE StagedProofs WITH
    Uploads <- MoreUploads, Parses <- {}, Twins <- Copies, MaxGeneration <- MaxGeneration + 1

\* Each pair of instances is of one module: the machines are the same.
LEMMA SameFiles ==
    /\ Files!StagedAssumption <=> OfFiles!StagedAssumption
    /\ Files!Init <=> OfFiles!Init
    /\ Files!Next <=> OfFiles!Next
    /\ OfFiles!TypeOK => Files!TypeOK
    /\ OfFiles!OwnedFilesExist /\ OfFiles!NoLostFiles => Files!OwnedFilesExist /\ Files!NoLostFiles
  BY DEF Files!document, OfFiles!document, Files!disk, OfFiles!disk, Files!attempts,
         OfFiles!attempts, Files!Keys, OfFiles!Keys, Files!Steps, OfFiles!Steps, Files!Sources,
         OfFiles!Sources, Files!NoCleanup, OfFiles!NoCleanup, Files!SameBytes,
         OfFiles!SameBytes, Files!Init, OfFiles!Init, Files!Unlocked, OfFiles!Unlocked,
         Files!Unowned, OfFiles!Unowned, Files!Due, OfFiles!Due, Files!OwnedKeys,
         OfFiles!OwnedKeys, Files!StartGeneration, OfFiles!StartGeneration, Files!Goes,
         OfFiles!Goes, Files!BeginReplace, OfFiles!BeginReplace, Files!StageUpload,
         OfFiles!StageUpload, Files!UploadMayCommit, OfFiles!UploadMayCommit,
         Files!CommitUpload, OfFiles!CommitUpload, Files!RefuseUpload, OfFiles!RefuseUpload,
         Files!WritePart, OfFiles!WritePart, Files!LinkFile, OfFiles!LinkFile, Files!FailWrite,
         OfFiles!FailWrite, Files!Discard, OfFiles!Discard, Files!ClaimParse,
         OfFiles!ClaimParse, Files!HoldsClaim, OfFiles!HoldsClaim, Files!Reused,
         OfFiles!Reused, Files!StageParse, OfFiles!StageParse, Files!CheckClaim,
         OfFiles!CheckClaim, Files!CommitParse, OfFiles!CommitParse, Files!StopParse,
         OfFiles!StopParse, Files!Change, OfFiles!Change, Files!MarkDeleted,
         OfFiles!MarkDeleted, Files!Removed, OfFiles!Removed, Files!CleanupFails,
         OfFiles!CleanupFails, Files!CleanupCrashes, OfFiles!CleanupCrashes, Files!RunCleanup,
         OfFiles!RunCleanup, Files!Sweep, OfFiles!Sweep, Files!Working, OfFiles!Working,
         Files!LeasePasses, OfFiles!LeasePasses, Files!Crash, OfFiles!Crash, Files!WriterStep,
         OfFiles!WriterStep, Files!Next, OfFiles!Next, Files!TypeOK, OfFiles!TypeOK,
         Files!OwnedFilesExist, OfFiles!OwnedFilesExist, Files!NoLostFiles,
         OfFiles!NoLostFiles, Files!StagedAssumption, OfFiles!StagedAssumption

LEMMA SameTwins ==
    /\ TwinFiles!StagedAssumption <=> OfTwins!StagedAssumption
    /\ TwinFiles!Init <=> OfTwins!Init
    /\ TwinFiles!Next <=> OfTwins!Next
    /\ OfTwins!TypeOK => TwinFiles!TypeOK
    /\ OfTwins!OwnedFilesExist /\ OfTwins!NoLostFiles => TwinFiles!OwnedFilesExist /\ TwinFiles!NoLostFiles
  BY DEF TwinFiles!document, OfTwins!document, TwinFiles!disk, OfTwins!disk, TwinFiles!attempts,
         OfTwins!attempts, TwinFiles!Keys, OfTwins!Keys, TwinFiles!Steps, OfTwins!Steps, TwinFiles!Sources,
         OfTwins!Sources, TwinFiles!NoCleanup, OfTwins!NoCleanup, TwinFiles!SameBytes,
         OfTwins!SameBytes, TwinFiles!Init, OfTwins!Init, TwinFiles!Unlocked, OfTwins!Unlocked,
         TwinFiles!Unowned, OfTwins!Unowned, TwinFiles!Due, OfTwins!Due, TwinFiles!OwnedKeys,
         OfTwins!OwnedKeys, TwinFiles!StartGeneration, OfTwins!StartGeneration, TwinFiles!Goes,
         OfTwins!Goes, TwinFiles!BeginReplace, OfTwins!BeginReplace, TwinFiles!StageUpload,
         OfTwins!StageUpload, TwinFiles!UploadMayCommit, OfTwins!UploadMayCommit,
         TwinFiles!CommitUpload, OfTwins!CommitUpload, TwinFiles!RefuseUpload, OfTwins!RefuseUpload,
         TwinFiles!WritePart, OfTwins!WritePart, TwinFiles!LinkFile, OfTwins!LinkFile, TwinFiles!FailWrite,
         OfTwins!FailWrite, TwinFiles!Discard, OfTwins!Discard, TwinFiles!ClaimParse,
         OfTwins!ClaimParse, TwinFiles!HoldsClaim, OfTwins!HoldsClaim, TwinFiles!Reused,
         OfTwins!Reused, TwinFiles!StageParse, OfTwins!StageParse, TwinFiles!CheckClaim,
         OfTwins!CheckClaim, TwinFiles!CommitParse, OfTwins!CommitParse, TwinFiles!StopParse,
         OfTwins!StopParse, TwinFiles!Change, OfTwins!Change, TwinFiles!MarkDeleted,
         OfTwins!MarkDeleted, TwinFiles!Removed, OfTwins!Removed, TwinFiles!CleanupFails,
         OfTwins!CleanupFails, TwinFiles!CleanupCrashes, OfTwins!CleanupCrashes, TwinFiles!RunCleanup,
         OfTwins!RunCleanup, TwinFiles!Sweep, OfTwins!Sweep, TwinFiles!Working, OfTwins!Working,
         TwinFiles!LeasePasses, OfTwins!LeasePasses, TwinFiles!Crash, OfTwins!Crash, TwinFiles!WriterStep,
         OfTwins!WriterStep, TwinFiles!Next, OfTwins!Next, TwinFiles!TypeOK, OfTwins!TypeOK,
         TwinFiles!OwnedFilesExist, OfTwins!OwnedFilesExist, TwinFiles!NoLostFiles,
         OfTwins!NoLostFiles, TwinFiles!StagedAssumption, OfTwins!StagedAssumption

\* The machine that moves keeps the invariant of files; the others leave them alone.
DiskInv ==
    /\ part = "files" => OfFiles!StagedInv
    /\ part = "twins" => OfTwins!StagedInv

LEMMA DiskInit == Init => DiskInv
  BY FilesAssumption, SameFiles, SameTwins, OfFiles!StagedInit, OfTwins!StagedInit
     DEF Init, DiskInv

LEMMA StillFiles ==
    ASSUME UNCHANGED files
    PROVE  /\ OfFiles!StagedInv => OfFiles!StagedInv'
           /\ OfTwins!StagedInv => OfTwins!StagedInv'
  <1>1. UNCHANGED OfFiles!vars /\ UNCHANGED OfTwins!vars
    BY DEF files, OfFiles!vars, OfTwins!vars
  <1> QED
    BY <1>1, FilesAssumption, SameFiles, SameTwins, OfFiles!StagedStep, OfTwins!StagedStep

LEMMA DiskStep ==
    DiskInv /\ [Next]_<<part, files, revisions, chunking, reading, tx>> => DiskInv'
  <1> SUFFICES ASSUME DiskInv, [Next]_<<part, files, revisions, chunking, reading, tx>>
               PROVE  DiskInv'
    OBVIOUS
  <1>1. part' = part
    BY DEF Next, FilesMove, BlocksMove, ChunksMove, ReadingMoves, LocksMove
  <1>2. CASE UNCHANGED files
    BY <1>1, <1>2, StillFiles DEF DiskInv
  <1>3. CASE FilesMove
    BY <1>1, <1>3, FilesAssumption, SameFiles, SameTwins, OfFiles!StagedStep, OfTwins!StagedStep
       DEF DiskInv, FilesMove
  <1> QED
    BY <1>2, <1>3 DEF Next, BlocksMove, ChunksMove, ReadingMoves, LocksMove

\* Of any uploads, also of the same bytes, attempts to parse, changes and overruns: until
\* a lease was overrun rows have their whole files and no file is lost, however the steps
\* of writers, sweep and cleanup interleave and wherever they are cut.
THEOREM FilesAreKept == Spec => []FilesMatchRows
  <1>1. DiskInv => FilesMatchRows
    BY SameFiles, SameTwins, OfFiles!FilesMatch, OfTwins!FilesMatch
       DEF DiskInv, FilesMatchRows, OfFiles!StagedInv, OfTwins!StagedInv
  <1> QED
    BY <1>1, DiskInit, DiskStep, PTL DEF Spec

-----------------------------------------------------------------------------
(* Blocks and teachers' edits *)

\* A row of a block: what tells the native text is either empty or that text, a text
\* that no teacher edited is the native one, and a teacher's text was written over it.
BlockRows ==
    [content : EditedTexts \cup Natives, source : Natives \cup {NoText}, retyped : BOOLEAN,
     edited : BOOLEAN, excluded : BOOLEAN, origin : {"none", "model", "teacher"},
     native : Natives, under : Natives \cup {NoText}, about : EditedTexts \cup Natives \cup {NoText}]

Sound(x) ==
    /\ x.source \in {NoText, x.native}
    /\ ~x.edited => x.content = x.native
    /\ x.under \in {NoText, x.native}
    /\ x.origin = "model" => x.about = x.content

SoundRows == {x \in BlockRows : Sound(x)}

LEMMA FreshIsSound ==
    ASSUME NEW b \in EditedBlocks, NEW n \in Natives
    PROVE  /\ Edits!Fresh(b, n) \in SoundRows
           /\ Edits!NativeText(Edits!Fresh(b, n)) = n
           /\ Edits!Fresh(b, n).native = n
  BY EditsAssumption DEF Edits!BlockConstants, Edits!Fresh, Edits!NativeText, SoundRows, BlockRows,
     Sound

LEMMA RewrittenIsSound ==
    ASSUME NEW x \in SoundRows, NEW t \in EditedTexts \cup Natives
    PROVE  Edits!Rewritten(x, t) \in SoundRows
  <1>1. Edits!Rewritten(x, t) \in BlockRows
    <2>1. x \in BlockRows
      BY DEF SoundRows
    <2>2. PICK s \in Natives \cup {NoText} :
              s = IF x.source = NoText /\ ~x.edited THEN x.content ELSE x.source
      BY DEF SoundRows, BlockRows, Sound
    <2>3. PICK o \in {"none", "model", "teacher"} : o = IF x.origin = "model" THEN "none" ELSE x.origin
      BY <2>1 DEF BlockRows
    <2>4. PICK a \in EditedTexts \cup Natives \cup {NoText} :
              a = IF x.origin = "model" THEN NoText ELSE x.about
      BY <2>1 DEF BlockRows
    <2>5. [x EXCEPT !.source = s, !.content = t, !.edited = TRUE, !.under = x.native,
                    !.origin = o, !.about = a] \in BlockRows
      BY <2>1 DEF BlockRows
    <2> QED
      BY <2>2, <2>3, <2>4, <2>5 DEF Edits!Rewritten
  <1>2. Sound(Edits!Rewritten(x, t))
    BY DEF Edits!Rewritten, SoundRows, BlockRows, Sound
  <1> QED
    BY <1>1, <1>2 DEF SoundRows

LEMMA ChangesAreSound ==
    ASSUME NEW x \in SoundRows, NEW y \in Edits!Changes(x)
    PROVE  y \in SoundRows
  <1>1. CASE \E t \in (EditedTexts \cup Natives) \ {x.content} : y = Edits!Rewritten(x, t)
    BY <1>1, RewrittenIsSound
  <1> USE DEF SoundRows
  <1>2. CASE y = Edits!Retyped(x)
    <2>1. y \in BlockRows
      BY <1>2 DEF Edits!Retyped, BlockRows
    <2> QED
      BY <1>2, <2>1 DEF Edits!Retyped, BlockRows, Sound
  <1>3. CASE y = Edits!Described(x)
    <2>1. y \in BlockRows
      BY <1>3 DEF Edits!Described, BlockRows
    <2> QED
      BY <1>3, <2>1 DEF Edits!Described, BlockRows, Sound
  <1>4. CASE y = Edits!Undescribed(x)
    <2>1. y \in BlockRows
      BY <1>4 DEF Edits!Undescribed, BlockRows
    <2> QED
      BY <1>4, <2>1 DEF Edits!Undescribed, BlockRows, Sound
  <1>5. CASE y = Edits!Switched(x)
    <2>1. y \in BlockRows
      BY <1>5 DEF Edits!Switched, BlockRows
    <2> QED
      BY <1>5, <2>1 DEF Edits!Switched, BlockRows, Sound
  <1> QED
    BY <1>1, <1>2, <1>3, <1>4, <1>5 DEF Edits!Changes

\* What is carried over was changed over the same native text.
LEMMA CarriedIsSound ==
    ASSUME NEW x \in SoundRows, NEW b \in EditedBlocks, NEW n \in Natives,
           Edits!Proven(x, Edits!Fresh(b, n))
    PROVE  Edits!Carried(x, Edits!Fresh(b, n)) \in SoundRows
  <1>1. x.native = n
    BY FreshIsSound DEF Edits!Proven, Edits!NativeText, SoundRows, BlockRows, Sound
  <1> DEFINE new == Edits!Fresh(b, n)
  <1>2. new \in SoundRows /\ Edits!NativeText(new) = n /\ new.native = n
    BY FreshIsSound
  <1> HIDE DEF new
  <1>3. Edits!Carried(x, new) \in BlockRows
    <2>1. x \in BlockRows /\ new \in BlockRows
      BY <1>2 DEF SoundRows
    <2>2. PICK s \in Natives \cup {NoText} :
              s = IF x.edited /\ new.source = NoText THEN Edits!NativeText(new) ELSE new.source
      BY <1>2, <2>1 DEF BlockRows
    <2>3. [new EXCEPT !.source = s, !.content = x.content, !.retyped = x.retyped,
                      !.edited = x.edited, !.excluded = x.excluded, !.origin = x.origin,
                      !.about = x.about, !.under = x.under] \in BlockRows
      BY <2>1 DEF BlockRows
    <2> QED
      BY <2>2, <2>3 DEF Edits!Carried
  <1>4. Sound(Edits!Carried(x, new))
    BY <1>1, <1>2 DEF Edits!Carried, SoundRows, BlockRows, Sound
  <1> QED
    BY <1>3, <1>4 DEF new, SoundRows

\* The revisions: a new reading has a parent that is older.
BlockMaps == UNION {[bs -> SoundRows] : bs \in SUBSET EditedBlocks}
Reviews == [block : EditedBlocks, text : EditedTexts \cup Natives \cup {NoText}]
RevisionRows ==
    [parent : Nat, read : BOOLEAN, waiting : BOOLEAN, blocks : BlockMaps, reviews : SUBSET Reviews]

EditsInv ==
    /\ revisions \in Seq(RevisionRows)
    /\ \A r \in DOMAIN revisions : /\ revisions[r].parent < r
                                   /\ ~revisions[r].read => revisions[r].parent # 0

LEMMA RowsAreTyped ==
    ASSUME EditsInv, NEW r \in DOMAIN revisions
    PROVE  /\ revisions[r] \in RevisionRows
           /\ Len(revisions) \in Nat /\ DOMAIN revisions = 1..Len(revisions)
           /\ \A entry : Append(revisions, entry)[r] = revisions[r]
           /\ revisions[r].parent < r
           /\ ~revisions[r].read => revisions[r].parent # 0
  BY DEF EditsInv

\* What the invariant says of the blocks.
LEMMA EditsMean ==
    EditsInv => Edits!TypeOK /\ Edits!NeverOnAGuess /\ Edits!ModelDescribesItsText
  <1> SUFFICES ASSUME EditsInv
               PROVE  Edits!TypeOK /\ Edits!NeverOnAGuess /\ Edits!ModelDescribesItsText
    OBVIOUS
  <1>1. \A r \in DOMAIN revisions : revisions[r] \in RevisionRows /\ r \in Nat
    BY DEF EditsInv
  <1>2. \A r \in DOMAIN revisions : /\ DOMAIN revisions[r].blocks \subseteq EditedBlocks
                                    /\ \A b \in DOMAIN revisions[r].blocks :
                                          revisions[r].blocks[b] \in SoundRows
    BY <1>1 DEF RevisionRows, BlockMaps
  <1>3. Edits!TypeOK
    BY <1>1, <1>2 DEF EditsInv, Edits!TypeOK, RevisionRows, Reviews
  <1>4. Edits!NeverOnAGuess
    BY <1>2 DEF Edits!NeverOnAGuess, Edits!Rewritings, SoundRows, Sound
  <1>5. Edits!ModelDescribesItsText
    BY <1>2 DEF Edits!ModelDescribesItsText, SoundRows, Sound
  <1> QED
    BY <1>3, <1>4, <1>5

LEMMA ReadingIsSound ==
    ASSUME NEW found \in Edits!Readings
    PROVE  Edits!Rows(found) \in BlockMaps
  BY FreshIsSound DEF Edits!Readings, Edits!Rows, BlockMaps

LEMMA NoBlocks == <<>> \in BlockMaps
  <1>1. <<>> \in [{} -> SoundRows]
    OBVIOUS
  <1> QED
    BY <1>1 DEF BlockMaps

LEMMA OneMoreRow ==
    ASSUME EditsInv, NEW entry \in RevisionRows, entry.parent \in DOMAIN revisions,
           revisions' = Append(revisions, entry)
    PROVE  EditsInv'
  BY DEF EditsInv, RevisionRows

LEMMA SameRow ==
    ASSUME EditsInv, NEW r \in DOMAIN revisions, NEW entry \in RevisionRows,
           entry.parent = revisions[r].parent, entry.read \/ ~revisions[r].read,
           revisions' = [revisions EXCEPT ![r] = entry]
    PROVE  EditsInv'
  BY DEF EditsInv, RevisionRows

\* A change of an own draft, and the copy of any other revision.
LEMMA StoreIsSound ==
    ASSUME EditsInv, NEW r \in DOMAIN revisions, NEW blocks \in BlockMaps, NEW settled,
           Edits!Store(r, blocks, settled)
    PROVE  EditsInv'
  <1>1. revisions[r] \in RevisionRows
    BY DEF EditsInv
  <1>2. CASE revisions[r].waiting
    <2> DEFINE entry == [revisions[r] EXCEPT !.blocks = blocks, !.reviews = @ \ settled]
    <2>1. entry \in RevisionRows /\ entry.parent = revisions[r].parent /\ entry.read = revisions[r].read
      BY <1>1 DEF RevisionRows
    <2>2. revisions' = [revisions EXCEPT ![r] = entry]
      BY <1>1, <1>2 DEF Edits!Store, EditsInv, RevisionRows
    <2> HIDE DEF entry
    <2> QED
      BY <2>1, <2>2, SameRow
  <1>3. CASE ~revisions[r].waiting
    <2> DEFINE entry == Edits!Draft(r, blocks, revisions[r].reviews \ settled)
    <2>1. entry \in RevisionRows /\ entry.parent = r
      BY <1>1 DEF RevisionRows, Edits!Draft, EditsInv
    <2>2. revisions' = Append(revisions, entry)
      BY <1>3 DEF Edits!Store
    <2> HIDE DEF entry
    <2> QED
      BY <2>1, <2>2, OneMoreRow
  <1> QED
    BY <1>2, <1>3

LEMMA ChangesKeepBlocks ==
    ASSUME NEW f \in BlockMaps, NEW b \in DOMAIN f, NEW x \in SoundRows
    PROVE  [f EXCEPT ![b] = x] \in BlockMaps
  BY DEF BlockMaps

LEMMA EditKeeps ==
    ASSUME EditsInv, NEW r \in DOMAIN revisions, NEW b \in EditedBlocks, Edits!Edit(r, b)
    PROVE  EditsInv'
  <1>1. revisions[r].blocks \in BlockMaps /\ b \in DOMAIN revisions[r].blocks
    BY RowsAreTyped DEF RevisionRows, Edits!Edit
  <1>2. revisions[r].blocks[b] \in SoundRows
    BY <1>1 DEF BlockMaps
  <1>3. PICK x \in Edits!Changes(revisions[r].blocks[b]) :
            Edits!Store(r, [revisions[r].blocks EXCEPT ![b] = x], {})
    BY DEF Edits!Edit
  <1>4. x \in SoundRows
    BY <1>2, <1>3, ChangesAreSound
  <1> QED
    BY <1>1, <1>3, <1>4, ChangesKeepBlocks, StoreIsSound

LEMMA ConfirmKeeps ==
    ASSUME EditsInv, NEW r \in DOMAIN revisions, NEW review \in revisions[r].reviews,
           Edits!Confirm(r, review)
    PROVE  EditsInv'
  <1>1. /\ revisions[r].blocks \in BlockMaps /\ review \in Reviews
        /\ review.block \in DOMAIN revisions[r].blocks
    BY RowsAreTyped DEF RevisionRows, Edits!Confirm
  <1> DEFINE x == revisions[r].blocks[review.block]
  <1>2. x \in SoundRows
    BY <1>1 DEF BlockMaps
  <1>3. PICK text \in EditedTexts \cup Natives :
            Edits!Store(r, [revisions[r].blocks EXCEPT ![review.block] = Edits!Rewritten(x, text)],
                        {review})
    BY <1>1 DEF Edits!Confirm, Reviews
  <1>4. Edits!Rewritten(x, text) \in SoundRows
    BY <1>2, RewrittenIsSound
  <1> HIDE DEF x
  <1> QED
    BY <1>1, <1>3, <1>4, ChangesKeepBlocks, StoreIsSound

LEMMA IgnoreKeeps ==
    ASSUME EditsInv, NEW r \in DOMAIN revisions, NEW review \in revisions[r].reviews,
           Edits!Ignore(r, review)
    PROVE  EditsInv'
  <1> DEFINE entry == [revisions[r] EXCEPT !.reviews = @ \ {review}]
  <1>1. entry \in RevisionRows /\ entry.parent = revisions[r].parent /\ entry.read = revisions[r].read
    BY RowsAreTyped DEF RevisionRows
  <1>2. revisions' = [revisions EXCEPT ![r] = entry]
    BY DEF Edits!Ignore
  <1> HIDE DEF entry
  <1> QED
    BY <1>1, <1>2, SameRow

LEMMA StartIndexKeeps ==
    ASSUME EditsInv, NEW r \in DOMAIN revisions, Edits!StartIndex(r)
    PROVE  EditsInv'
  <1> DEFINE entry == [revisions[r] EXCEPT !.waiting = FALSE]
  <1>1. entry \in RevisionRows /\ entry.parent = revisions[r].parent /\ entry.read = revisions[r].read
    BY RowsAreTyped DEF RevisionRows
  <1>2. revisions' = [revisions EXCEPT ![r] = entry]
    BY DEF Edits!StartIndex
  <1> HIDE DEF entry
  <1> QED
    BY <1>1, <1>2, SameRow

LEMMA RequestReparseKeeps ==
    ASSUME EditsInv, NEW r \in DOMAIN revisions, Edits!RequestReparse(r)
    PROVE  EditsInv'
  <1> DEFINE entry == [parent |-> r, read |-> FALSE, waiting |-> FALSE, blocks |-> <<>>,
                     reviews |-> {}]
  <1>1. entry \in RevisionRows /\ entry.parent = r
    BY NoBlocks DEF EditsInv, RevisionRows
  <1>2. revisions' = Append(revisions, entry)
    BY DEF Edits!RequestReparse
  <1> HIDE DEF entry
  <1> QED
    BY <1>1, <1>2, OneMoreRow

\* The reading that carry_forward stores: sound blocks, and a review of what is unproven.
LEMMA CommitReadingKeeps ==
    ASSUME EditsInv, NEW r \in DOMAIN revisions, Edits!CommitReading(r)
    PROVE  EditsInv'
  <1>1. PICK found \in Edits!Readings :
          LET new == Edits!Rows(found)
              old == revisions[revisions[r].parent].blocks
              moved == {b \in DOMAIN old : Edits!TeacherChanged(old[b])} \ Edits!Unproven(old, new)
          IN revisions' = [revisions EXCEPT ![r].read = TRUE,
                 ![r].blocks = [b \in DOMAIN new |->
                                   IF b \in moved THEN Edits!Carried(old[b], new[b]) ELSE new[b]],
                 ![r].reviews = {Edits!ReviewOf(b, old[b]) : b \in Edits!Unproven(old, new)}]
    BY DEF Edits!CommitReading
  <1> DEFINE new == Edits!Rows(found)
             old == revisions[revisions[r].parent].blocks
             unproven == Edits!Unproven(old, new)
             moved == {b \in DOMAIN old : Edits!TeacherChanged(old[b])} \ unproven
             blocks == [b \in DOMAIN new |->
                           IF b \in moved THEN Edits!Carried(old[b], new[b]) ELSE new[b]]
             reviews == {Edits!ReviewOf(b, old[b]) : b \in unproven}
             entry == [revisions[r] EXCEPT !.read = TRUE, !.blocks = blocks, !.reviews = reviews]
  <1>2. revisions[r].parent \in DOMAIN revisions /\ revisions[r] \in RevisionRows
    <2>1. revisions[r].parent \in Nat
      BY RowsAreTyped DEF RevisionRows
    <2>2. revisions[r].parent # 0 /\ revisions[r].parent < r
      BY RowsAreTyped DEF Edits!CommitReading
    <2> QED
      BY <2>1, <2>2, RowsAreTyped
  <1>3. DOMAIN old \subseteq EditedBlocks /\ \A b \in DOMAIN old : old[b] \in SoundRows
    <2>1. old \in BlockMaps
      BY <1>2, RowsAreTyped DEF RevisionRows
    <2> HIDE DEF old
    <2> QED
      BY <2>1 DEF BlockMaps
  <1>4. new \in BlockMaps
    BY ReadingIsSound
  <1>5. ASSUME NEW b \in DOMAIN new, b \in moved
        PROVE  Edits!Carried(old[b], new[b]) \in SoundRows
    <2>1. new[b] = Edits!Fresh(b, found[b]) /\ found[b] \in Natives /\ b \in EditedBlocks
      BY DEF Edits!Rows, Edits!Readings
    <2>2. Edits!Proven(old[b], new[b]) /\ old[b] \in SoundRows
      BY <1>3, <1>5 DEF Edits!Unproven
    <2> QED
      BY <2>1, <2>2, CarriedIsSound
  <1>6. blocks \in BlockMaps
    <2> HIDE DEF new, old, moved
    <2> QED
      BY <1>4, <1>5 DEF BlockMaps
  <1>7. reviews \subseteq Reviews
    <2>1. unproven \subseteq DOMAIN old
      BY DEF Edits!Unproven
    <2> HIDE DEF unproven, old
    <2> QED
      BY <1>3, <2>1 DEF Edits!ReviewOf, Reviews, SoundRows, BlockRows
  <1>8. revisions' = [revisions EXCEPT ![r] = entry]
    <2> HIDE DEF blocks, reviews
    <2>1. revisions' = [revisions EXCEPT ![r].read = TRUE, ![r].blocks = blocks, ![r].reviews = reviews]
      BY <1>1 DEF blocks, reviews
    <2> QED
      BY <1>2, <2>1 DEF RevisionRows
  <1>9. entry \in RevisionRows /\ entry.parent = revisions[r].parent /\ entry.read
    <2> HIDE DEF blocks, reviews
    <2> QED
      BY <1>2, <1>6, <1>7 DEF RevisionRows
  <1> HIDE DEF entry
  <1> QED
    BY <1>8, <1>9, SameRow

LEMMA EditsStep == ASSUME EditsInv, Edits!Next PROVE EditsInv'
  BY EditKeeps, ConfirmKeeps, IgnoreKeeps, StartIndexKeeps, RequestReparseKeeps,
     CommitReadingKeeps DEF Edits!Next

LEMMA EditsInit == ASSUME Edits!Init PROVE EditsInv
  <1>1. PICK found \in Edits!Readings :
            revisions = <<[Edits!Draft(0, Edits!Rows(found), {}) EXCEPT !.waiting = FALSE]>>
    BY DEF Edits!Init
  <1>2. Edits!Rows(found) \in BlockMaps
    BY ReadingIsSound
  <1> DEFINE entry == [Edits!Draft(0, Edits!Rows(found), {}) EXCEPT !.waiting = FALSE]
  <1>3. entry \in RevisionRows /\ entry.parent = 0 /\ entry.read
    BY <1>2 DEF Edits!Draft, RevisionRows
  <1> HIDE DEF entry
  <1>4. revisions = <<entry>>
    BY <1>1 DEF entry
  <1> QED
    BY <1>3, <1>4 DEF EditsInv

\* What carry_forward does not carry over it makes a review of: no invariant is needed.
LEMMA ReadingLosesNothing ==
    ASSUME EditsInv, Edits!Next
    PROVE  Edits!LosesNoChange
  <1> SUFFICES ASSUME NEW r \in DOMAIN revisions, Edits!Reads(r)
               PROVE  LET old == revisions[revisions[r].parent].blocks
                          new == revisions'[r].blocks
                      IN \A b \in {c \in DOMAIN old : Edits!TeacherChanged(old[c])} :
                             \/ /\ b \in DOMAIN new
                                /\ new[b].content = old[b].content
                                /\ new[b].retyped = old[b].retyped
                                /\ new[b].excluded = old[b].excluded
                                /\ new[b].origin = old[b].origin
                             \/ Edits!Reviewed(r, b, IF old[b].edited THEN old[b].content
                                                                      ELSE NoText)
    BY DEF Edits!LosesNoChange
  <1>1. Edits!CommitReading(r)
    <2>1. ASSUME NEW s \in DOMAIN revisions, NEW blocks, NEW settled,
                 Edits!Store(s, blocks, settled)
          PROVE  revisions'[r].read = revisions[r].read
      <3>1. CASE revisions[s].waiting
        BY <2>1, <3>1, RowsAreTyped DEF Edits!Store, RevisionRows
      <3>2. CASE ~revisions[s].waiting
        BY <2>1, <3>2, RowsAreTyped DEF Edits!Store
      <3> QED
        BY <3>1, <3>2
    <2>2. ASSUME NEW s \in DOMAIN revisions, s # r, Edits!CommitReading(s)
          PROVE  revisions'[r].read = revisions[r].read
      BY <2>2 DEF Edits!CommitReading
    <2>3. ASSUME NEW s \in DOMAIN revisions, Edits!StartIndex(s)
          PROVE  revisions'[r].read = revisions[r].read
      BY <2>3, RowsAreTyped DEF Edits!StartIndex, RevisionRows
    <2>4. ASSUME NEW s \in DOMAIN revisions, Edits!RequestReparse(s)
          PROVE  revisions'[r].read = revisions[r].read
      BY <2>4, RowsAreTyped DEF Edits!RequestReparse
    <2>5. ASSUME NEW s \in DOMAIN revisions, NEW review, Edits!Ignore(s, review)
          PROVE  revisions'[r].read = revisions[r].read
      BY <2>5, RowsAreTyped DEF Edits!Ignore, RevisionRows
    <2> QED
      BY <2>1, <2>2, <2>3, <2>4, <2>5 DEF Edits!Next, Edits!Reads, Edits!Edit, Edits!Confirm
  <1>2. PICK found \in Edits!Readings :
          LET new == Edits!Rows(found)
              old == revisions[revisions[r].parent].blocks
              moved == {b \in DOMAIN old : Edits!TeacherChanged(old[b])} \ Edits!Unproven(old, new)
          IN revisions' = [revisions EXCEPT ![r].read = TRUE,
                 ![r].blocks = [b \in DOMAIN new |->
                                   IF b \in moved THEN Edits!Carried(old[b], new[b]) ELSE new[b]],
                 ![r].reviews = {Edits!ReviewOf(b, old[b]) : b \in Edits!Unproven(old, new)}]
    BY <1>1 DEF Edits!CommitReading
  <1> DEFINE old == revisions[revisions[r].parent].blocks
             rows == Edits!Rows(found)
             unproven == Edits!Unproven(old, rows)
             moved == {b \in DOMAIN old : Edits!TeacherChanged(old[b])} \ unproven
             blocks == [b \in DOMAIN rows |->
                           IF b \in moved THEN Edits!Carried(old[b], rows[b]) ELSE rows[b]]
             reviews == {Edits!ReviewOf(b, old[b]) : b \in unproven}
  <1>3. revisions'[r].blocks = blocks /\ revisions'[r].reviews = reviews
    <2> HIDE DEF blocks, reviews
    <2>1. revisions' = [revisions EXCEPT ![r].read = TRUE, ![r].blocks = blocks, ![r].reviews = reviews]
      BY <1>2 DEF blocks, reviews
    <2> QED
      BY <2>1, RowsAreTyped DEF RevisionRows
  <1> SUFFICES ASSUME NEW b \in DOMAIN old, Edits!TeacherChanged(old[b])
               PROVE  \/ /\ b \in DOMAIN blocks
                         /\ blocks[b].content = old[b].content
                         /\ blocks[b].retyped = old[b].retyped
                         /\ blocks[b].excluded = old[b].excluded
                         /\ blocks[b].origin = old[b].origin
                      \/ [block |-> b, text |-> IF old[b].edited THEN old[b].content ELSE NoText]
                             \in reviews
    BY <1>3 DEF Edits!Reviewed
  <1>4. CASE b \in unproven
    BY <1>4 DEF Edits!ReviewOf
  <1>5. CASE b \notin unproven
    <2>1. b \in DOMAIN rows /\ b \in moved
      BY <1>5 DEF Edits!Unproven
    <2>2. blocks[b] = Edits!Carried(old[b], rows[b])
      BY <2>1
    <2>3. rows[b] \in SoundRows
      BY <2>1, FreshIsSound DEF Edits!Rows, Edits!Readings
    <2> HIDE DEF blocks, rows, old, moved, unproven, reviews
    <2>4. rows[b] \in BlockRows
      BY <2>3 DEF SoundRows
    <2>5. /\ Edits!Carried(old[b], rows[b]).content = old[b].content
          /\ Edits!Carried(old[b], rows[b]).retyped = old[b].retyped
          /\ Edits!Carried(old[b], rows[b]).excluded = old[b].excluded
          /\ Edits!Carried(old[b], rows[b]).origin = old[b].origin
      BY <2>4 DEF Edits!Carried, BlockRows
    <2>6. b \in DOMAIN blocks
      BY <2>1 DEF blocks
    <2> QED
      BY <2>2, <2>5, <2>6
  <1> QED
    BY <1>4, <1>5

BlocksInv == part \in EditedBlocks => EditsInv

LEMMA BlocksInit == Init => BlocksInv
  BY EditsInit DEF Init, BlocksInv

LEMMA BlocksStep ==
    BlocksInv /\ [Next]_<<part, files, revisions, chunking, reading, tx>> => BlocksInv'
  <1> SUFFICES ASSUME BlocksInv, [Next]_<<part, files, revisions, chunking, reading, tx>>
               PROVE  BlocksInv'
    OBVIOUS
  <1>1. part' = part
    BY DEF Next, FilesMove, BlocksMove, ChunksMove, ReadingMoves, LocksMove
  <1>2. CASE UNCHANGED revisions
    BY <1>1, <1>2 DEF BlocksInv, EditsInv
  <1>3. CASE BlocksMove
    BY <1>1, <1>3, EditsStep DEF BlocksInv, BlocksMove
  <1> QED
    BY <1>2, <1>3 DEF Next, FilesMove, ChunksMove, ReadingMoves, LocksMove

\* Of any texts and any series of edits, copies, readings and confirmed reviews: a
\* teacher's text stands over the native text it was written over, and a model's
\* description is about the text its block has (carry_forward, apply_block_change).
THEOREM EditsAreNoGuess == Spec => []TextsFitTheirBlocks
  <1>1. BlocksInv => TextsFitTheirBlocks
    BY EditsMean DEF BlocksInv, TextsFitTheirBlocks
  <1> QED
    BY <1>1, BlocksInit, BlocksStep, PTL DEF Spec

-----------------------------------------------------------------------------
(* Row locks *)

\* The theorems about the traffic of documents and about that of chats.
OfDocuments == INSTANCE LockProofs WITH
    Traffic <- {"claim", "edit_in_place", "edit_copy", "review", "publish", "change", "delete",
                "cleanup", "sweep", "parse", "discard", "index", "give_back"}
OfChats == INSTANCE LockProofs WITH
    Traffic <- {"reserve", "settle", "begin", "begin_over", "close", "finish", "refill", "rate",
                "rename", "purge"}

\* Both instances are of one module: the machines are the same.
LEMMA SameDocuments ==
    /\ Locks!Init <=> OfDocuments!Init
    /\ Locks!Next <=> OfDocuments!Next
    /\ OfDocuments!DocumentsFlow => Locks!DocumentsFlow
    /\ OfDocuments!ClaimsNeverWait => Locks!ClaimsNeverWait
  BY DEF Locks!Init, OfDocuments!Init, Locks!DocumentsFlow, OfDocuments!DocumentsFlow,
         Locks!ClaimsNeverWait, OfDocuments!ClaimsNeverWait, Locks!CyclesNeed, OfDocuments!CyclesNeed,
         Locks!Key, OfDocuments!Key, Locks!Update, OfDocuments!Update, Locks!Own,
         OfDocuments!Own, Locks!SkipLocked, OfDocuments!SkipLocked, Locks!Conflict,
         OfDocuments!Conflict, Locks!Reserve, OfDocuments!Reserve, Locks!Settle,
         OfDocuments!Settle, Locks!BeginRun, OfDocuments!BeginRun, Locks!Close,
         OfDocuments!Close, Locks!Finish, OfDocuments!Finish, Locks!Refill,
         OfDocuments!Refill, Locks!Rate, OfDocuments!Rate, Locks!Rename,
         OfDocuments!Rename, Locks!Purge, OfDocuments!Purge, Locks!Conversations,
         OfDocuments!Conversations, Locks!Claim, OfDocuments!Claim,
         Locks!EditInPlace, OfDocuments!EditInPlace, Locks!EditCopy,
         OfDocuments!EditCopy, Locks!Review, OfDocuments!Review, Locks!Publish,
         OfDocuments!Publish, Locks!Change, OfDocuments!Change, Locks!MarkDeleted,
         OfDocuments!MarkDeleted, Locks!RunCleanup, OfDocuments!RunCleanup,
         Locks!Sweep, OfDocuments!Sweep, Locks!CommitParse, OfDocuments!CommitParse,
         Locks!Discard, OfDocuments!Discard, Locks!CommitIndex,
         OfDocuments!CommitIndex, Locks!GiveBack, OfDocuments!GiveBack,
         Locks!Documents, OfDocuments!Documents, Locks!Paths, OfDocuments!Paths,
         Locks!NoTransaction, OfDocuments!NoTransaction, Locks!Held,
         OfDocuments!Held, Locks!Asks, OfDocuments!Asks, Locks!Wanted,
         OfDocuments!Wanted, Locks!Blocks, OfDocuments!Blocks, Locks!Blocked,
         OfDocuments!Blocked, Locks!Waits, OfDocuments!Waits, Locks!Together,
         OfDocuments!Together, Locks!Start, OfDocuments!Start, Locks!Lock,
         OfDocuments!Lock, Locks!End, OfDocuments!End, Locks!Cycle,
         OfDocuments!Cycle, Locks!Victim, OfDocuments!Victim, Locks!Next,
         OfDocuments!Next

LEMMA SameChats ==
    /\ Chats!Init <=> OfChats!Init
    /\ Chats!Next <=> OfChats!Next
    /\ OfChats!ChatsFlow => Chats!ChatsFlow
  BY DEF Chats!Init, OfChats!Init, Chats!ChatsFlow, OfChats!ChatsFlow,
         Chats!CyclesNeed, OfChats!CyclesNeed,
         Chats!Key, OfChats!Key, Chats!Update, OfChats!Update, Chats!Own,
         OfChats!Own, Chats!SkipLocked, OfChats!SkipLocked, Chats!Conflict,
         OfChats!Conflict, Chats!Reserve, OfChats!Reserve, Chats!Settle,
         OfChats!Settle, Chats!BeginRun, OfChats!BeginRun, Chats!Close,
         OfChats!Close, Chats!Finish, OfChats!Finish, Chats!Refill, OfChats!Refill,
         Chats!Rate, OfChats!Rate, Chats!Rename, OfChats!Rename, Chats!Purge,
         OfChats!Purge, Chats!Conversations, OfChats!Conversations, Chats!Claim,
         OfChats!Claim, Chats!EditInPlace, OfChats!EditInPlace, Chats!EditCopy,
         OfChats!EditCopy, Chats!Review, OfChats!Review, Chats!Publish,
         OfChats!Publish, Chats!Change, OfChats!Change, Chats!MarkDeleted,
         OfChats!MarkDeleted, Chats!RunCleanup, OfChats!RunCleanup, Chats!Sweep,
         OfChats!Sweep, Chats!CommitParse, OfChats!CommitParse, Chats!Discard,
         OfChats!Discard, Chats!CommitIndex, OfChats!CommitIndex, Chats!GiveBack,
         OfChats!GiveBack, Chats!Documents, OfChats!Documents, Chats!Paths,
         OfChats!Paths, Chats!NoTransaction, OfChats!NoTransaction, Chats!Held,
         OfChats!Held, Chats!Asks, OfChats!Asks, Chats!Wanted, OfChats!Wanted,
         Chats!Blocks, OfChats!Blocks, Chats!Blocked, OfChats!Blocked, Chats!Waits,
         OfChats!Waits, Chats!Together, OfChats!Together, Chats!Start,
         OfChats!Start, Chats!Lock, OfChats!Lock, Chats!End, OfChats!End,
         Chats!Cycle, OfChats!Cycle, Chats!Victim, OfChats!Victim, Chats!Next,
         OfChats!Next

\* The machine that moves keeps the invariant of locks; the others leave tx alone.
TrafficInv ==
    /\ part = "locks" => OfDocuments!LockInv
    /\ part = "chats" => OfChats!LockInv

LEMMA StillLocks ==
    ASSUME UNCHANGED tx
    PROVE  /\ OfDocuments!LockInv => OfDocuments!LockInv'
           /\ OfChats!LockInv => OfChats!LockInv'
  BY OfDocuments!LockStep, OfChats!LockStep

LEMMA TrafficInit == Init => TrafficInv
  BY SameDocuments, SameChats, OfDocuments!LockInit, OfChats!LockInit DEF Init, TrafficInv

LEMMA TrafficStep ==
    TrafficInv /\ [Next]_<<part, files, revisions, chunking, reading, tx>> => TrafficInv'
  <1> SUFFICES ASSUME TrafficInv, [Next]_<<part, files, revisions, chunking, reading, tx>>
               PROVE  TrafficInv'
    OBVIOUS
  <1>1. part' = part
    BY DEF Next, FilesMove, BlocksMove, ChunksMove, ReadingMoves, LocksMove
  <1>2. CASE UNCHANGED tx
    BY <1>1, <1>2, StillLocks DEF TrafficInv
  <1>3. CASE LocksMove
    BY <1>1, <1>3, SameDocuments, SameChats, OfDocuments!LockStep, OfChats!LockStep
       DEF TrafficInv, LocksMove
  <1> QED
    BY <1>2, <1>3 DEF Next, FilesMove, BlocksMove, ChunksMove, ReadingMoves

\* Of any number of transactions at one time: every circle of waiting chats has an
\* admin's purge or a question over a lost run in it, every circle of waiting workers
\* and teachers the edit of a waiting draft or a review, and a claim waits for nobody.
\* The traffic of the run has these four, and their circles.
THEOREM CirclesHoldTheNamed == Spec => []LocksFlow
  <1>1. TrafficInv => LocksFlow
    <2>1. DOMAIN OfDocuments!Documents =
              {"claim", "edit_in_place", "edit_copy", "review", "publish", "change", "delete",
               "cleanup", "sweep", "parse", "discard", "index", "give_back"}
      BY DEF OfDocuments!Documents
    <2>2. DOMAIN OfChats!Conversations =
              {"reserve", "settle", "begin", "begin_over", "close", "finish", "refill", "rate",
               "rename", "purge"}
      BY DEF OfChats!Conversations
    <2>3. OfDocuments!LockInv => OfDocuments!DocumentsFlow /\ OfDocuments!ClaimsNeverWait
      BY <2>1, OfDocuments!WorkersMakeNoCircle, OfDocuments!ClaimsSkip
    <2>4. OfChats!LockInv => OfChats!ChatsFlow
      BY <2>2, OfChats!ChatsMakeNoCircle
    <2> QED
      BY <2>3, <2>4, SameDocuments, SameChats DEF TrafficInv, LocksFlow
  <1> QED
    BY <1>1, TrafficInit, TrafficStep, PTL DEF Spec

-----------------------------------------------------------------------------
(* Chunks: the bytes of a slice                                            *)

AText(text) == text \in Seq(Characters)
Widths(text) == [i \in DOMAIN text |-> text[i].width]

\* The instance's sum is the one of SumProofs.
LEMMA BytesAreASum ==
    \A text, from, to : Chunking!Bytes(text, from, to) = SumFunctionOnSet(Widths(text), (from + 1) .. to)
  BY DEF Chunking!Bytes, Chunking!SumFunctionOnSet, Chunking!FoldFunctionOnSet, Chunking!MapThenFoldSet,
         SumFunctionOnSet, FoldFunctionOnSet, MapThenFoldSet, Widths

LEMMA IntervalsAreFinite == \A a, b \in Int : IsFiniteSet(a .. b)
  BY FS_Interval

LEMMA WidthsAreNumbers ==
    ASSUME NEW text, AText(text), NEW from \in Nat, NEW to \in 0 .. Len(text)
    PROVE  NumbersOn(Widths(text), (from + 1) .. to)
  <1>1. \A c \in Characters : c.width \in 1 .. 4
    BY ChunkingAssumption DEF Chunking!ChunkingConstants
  <1>2. DOMAIN text = 1 .. Len(text) /\ Len(text) \in Nat /\ \A i \in DOMAIN text : text[i] \in Characters
    BY DEF AText
  <1>3. \A i \in (from + 1) .. to : i \in DOMAIN text
    BY <1>2
  <1>4. \A i \in (from + 1) .. to : Widths(text)[i] \in Nat
    BY <1>1, <1>2, <1>3 DEF Widths
  <1>5. IsFiniteSet((from + 1) .. to)
    BY IntervalsAreFinite
  <1> QED
    BY <1>4, <1>5 DEF NumbersOn

LEMMA BytesType ==
    ASSUME NEW text, AText(text), NEW from \in Nat, NEW to \in 0 .. Len(text)
    PROVE  Chunking!Bytes(text, from, to) \in Nat
  BY WidthsAreNumbers, BytesAreASum, SumType

\* A longer slice has no fewer bytes.
LEMMA BytesGrow ==
    ASSUME NEW text, AText(text), NEW from \in Nat, NEW to \in 0 .. Len(text),
           NEW later \in Nat, from <= later, NEW before \in 0 .. to
    PROVE  Chunking!Bytes(text, later, before) <= Chunking!Bytes(text, from, to)
  <1>1. Len(text) \in Nat
    BY DEF AText
  <1>2. (later + 1) .. before \in SUBSET ((from + 1) .. to)
    BY <1>1
  <1>3. NumbersOn(Widths(text), (from + 1) .. to)
    BY WidthsAreNumbers
  <1> QED
    BY <1>2, <1>3, BytesAreASum, SumGrows

\* One character is as wide as it is.
LEMMA BytesOfOne ==
    ASSUME NEW text, AText(text), NEW from \in Nat, from < Len(text)
    PROVE  /\ Chunking!Bytes(text, from, from + 1) = text[from + 1].width
           /\ from + 1 \in DOMAIN text
  <1>1. Len(text) \in Nat /\ DOMAIN text = 1 .. Len(text)
    BY DEF AText
  <1>2. (from + 1) .. (from + 1) = {from + 1} /\ from + 1 \in DOMAIN text
    BY <1>1
  <1>3. NumbersOn(Widths(text), {from + 1})
    <2>1. from + 1 \in 0 .. Len(text)
      BY <1>1
    <2>2. NumbersOn(Widths(text), (from + 1) .. (from + 1))
      BY <2>1, WidthsAreNumbers
    <2> QED
      BY <1>2, <2>2
  <1>4. {from + 1} \ {from + 1} = {}
    OBVIOUS
  <1>5. SumFunctionOnSet(Widths(text), {from + 1}) = Widths(text)[from + 1] + SumFunctionOnSet(Widths(text), {})
    <2> DEFINE x == from + 1
    <2>1. x \in {x} /\ {x} \ {x} = {}
      OBVIOUS
    <2> HIDE DEF x
    <2>2. NumbersOn(Widths(text), {x})
      BY <1>3 DEF x
    <2>3. SumFunctionOnSet(Widths(text), {x}) = Widths(text)[x] + SumFunctionOnSet(Widths(text), {x} \ {x})
      BY <2>1, <2>2, SumTakes
    <2> QED
      BY <2>1, <2>3 DEF x
  <1>6. Widths(text)[from + 1] \in Nat /\ Widths(text)[from + 1] = text[from + 1].width
    BY <1>2, <1>3 DEF NumbersOn, Widths
  <1>7. Chunking!Bytes(text, from, from + 1) = SumFunctionOnSet(Widths(text), {from + 1})
    BY <1>2, BytesAreASum
  <1> QED
    BY <1>2, <1>5, <1>6, <1>7, SumEmpty

\* The greatest of a set of numbers.
LEMMA GreatestOf ==
    ASSUME NEW S, IsFiniteSet(S), S \subseteq Nat, S # {}
    PROVE  Chunking!Greatest(S) \in S /\ \A y \in S : y <= Chunking!Greatest(S)
  <1>1. \E x \in S : \A y \in S : y <= x
    BY MaxOfNumbers
  <1> QED
    BY <1>1 DEF Chunking!Greatest

-----------------------------------------------------------------------------
(* Chunks: where a slice ends                                              *)

\* FullEnd and End of Chunking, of any place of any text.
FullEndAt(text, s, target) ==
    Chunking!Greatest({e \in (s + 1) .. Len(text) : e = s + 1 \/ Chunking!Bytes(text, s, e) <= target})
SpacesAt(text, s, full) ==
    {i \in (s + Chunking!Larger(1, (full - s) \div 2)) .. (full - 1) : text[i + 1].space}
EndAt(text, s, target) ==
    LET full == FullEndAt(text, s, target)
    IN IF full < Len(text) /\ SpacesAt(text, s, full) # {}
       THEN Chunking!Greatest(SpacesAt(text, s, full)) + 1 ELSE full

LEMMA SameEnds ==
    /\ Chunking!FullEnd = FullEndAt(block[field], start, budget[1])
    /\ Chunking!End = EndAt(block[field], start, budget[1])
  <1>1. Chunking!FullEnd = FullEndAt(block[field], start, budget[1])
    BY DEF Chunking!FullEnd, FullEndAt, Chunking!TextOf, Chunking!TargetBytes
  <1> QED
    BY <1>1 DEF Chunking!End, EndAt, SpacesAt, Chunking!TextOf

\* The target takes one character at least, and no more than it has room for.
LEMMA FullEndsFit ==
    ASSUME NEW text, AText(text), NEW target \in Nat, NEW s \in Nat, s < Len(text)
    PROVE  /\ FullEndAt(text, s, target) \in (s + 1) .. Len(text)
           /\ \/ FullEndAt(text, s, target) = s + 1
              \/ Chunking!Bytes(text, s, FullEndAt(text, s, target)) <= target
           /\ \A e \in (s + 1) .. Len(text) :
                  Chunking!Bytes(text, s, e) <= target => e <= FullEndAt(text, s, target)
  <1> DEFINE ends == {e \in (s + 1) .. Len(text) : e = s + 1 \/ Chunking!Bytes(text, s, e) <= target}
  <1>1. Len(text) \in Nat
    BY DEF AText
  <1>2. IsFiniteSet((s + 1) .. Len(text))
    BY <1>1, IntervalsAreFinite
  <1>3. IsFiniteSet(ends) /\ ends \subseteq Nat
    BY <1>1, <1>2, FS_Subset
  <1>4. s + 1 \in ends
    BY <1>1
  <1>5. FullEndAt(text, s, target) = Chunking!Greatest(ends)
    BY DEF FullEndAt
  <1>6. Chunking!Greatest(ends) \in ends /\ \A y \in ends : y <= Chunking!Greatest(ends)
    <2> HIDE DEF ends
    <2> QED
      BY <1>3, <1>4, GreatestOf
  <1> QED
    BY <1>5, <1>6

\* Each slice has a character; one that ends in front of the room that is left
\* ends behind a space, and none follows it in that room.
LEMMA EndsFit ==
    ASSUME NEW text, AText(text), NEW target \in Nat, NEW s \in Nat, s < Len(text),
           NEW full, full = FullEndAt(text, s, target), NEW end, end = EndAt(text, s, target)
    PROVE  /\ end \in (s + 1) .. full
           /\ end # full => /\ full < Len(text)
                            /\ \A i \in end .. (full - 1) : ~text[i + 1].space
           /\ end = full \/ text[end].space
  <1> DEFINE spaces == SpacesAt(text, s, full)
  <1>1. Len(text) \in Nat
    BY DEF AText
  <1>2. full \in (s + 1) .. Len(text)
    BY FullEndsFit
  <1>3. CASE ~(full < Len(text) /\ spaces # {})
    <2>1. end = full
      BY <1>3 DEF EndAt
    <2> QED
      BY <1>1, <1>2, <2>1
  <1>4. CASE full < Len(text) /\ spaces # {}
    <2> DEFINE half == s + Chunking!Larger(1, (full - s) \div 2)
    <2>1. (full - s) \div 2 \in Int
      BY <1>1, <1>2
    <2>2. half \in Nat /\ half >= s + 1
      BY <2>1 DEF Chunking!Larger
    <2>3. spaces = {i \in half .. (full - 1) : text[i + 1].space}
      BY DEF SpacesAt
    <2>4. IsFiniteSet(half .. (full - 1)) /\ full \in Int
      BY <1>1, <1>2, <2>2, IntervalsAreFinite
    <2> HIDE DEF half
    <2>5. IsFiniteSet(spaces) /\ spaces \subseteq Nat
      BY <2>2, <2>3, <2>4, FS_Subset
    <2>6. Chunking!Greatest(spaces) \in spaces /\ \A y \in spaces : y <= Chunking!Greatest(spaces)
      <3> HIDE DEF spaces
      <3> QED
        BY <1>4, <2>5, GreatestOf
    <2>7. PICK g \in spaces : g = Chunking!Greatest(spaces)
      BY <2>6
    <2>8. end = g + 1
      BY <1>4, <2>7 DEF EndAt
    <2>9. g \in half .. (full - 1) /\ text[g + 1].space /\ \A y \in spaces : y <= g
      BY <2>3, <2>6, <2>7
    <2> HIDE DEF spaces
    <2>10. end \in (s + 1) .. full
      BY <1>1, <1>2, <2>2, <2>8, <2>9
    <2>11. ASSUME NEW i \in end .. (full - 1), text[i + 1].space
           PROVE  FALSE
      <3>1. i \in half .. (full - 1) /\ i > g
        BY <1>1, <1>2, <2>2, <2>8, <2>9, <2>11
      <3>2. i \in spaces
        BY <2>3, <2>11, <3>1
      <3> QED
        BY <2>9, <3>1, <3>2, <2>4
    <2> QED
      BY <1>4, <2>8, <2>9, <2>10, <2>11
  <1> QED
    BY <1>3, <1>4

\* The end of a slice that goes on where one of the same text ended reaches what
\* the target had room for there.
LEMMA NextReachesFull ==
    ASSUME NEW text, AText(text), NEW target \in Nat, NEW s \in Nat, s < Len(text),
           NEW e, e = EndAt(text, s, target), e < Len(text)
    PROVE  /\ FullEndAt(text, s, target) < Len(text)
           /\ FullEndAt(text, s, target) <= EndAt(text, e, target)
  <1> DEFINE full == FullEndAt(text, s, target)
             then == FullEndAt(text, e, target)
             end  == EndAt(text, e, target)
  <1>1. Len(text) \in Nat
    BY DEF AText
  <1>2. full \in (s + 1) .. Len(text) /\ (full = s + 1 \/ Chunking!Bytes(text, s, full) <= target)
    BY FullEndsFit
  <1>3. /\ e \in (s + 1) .. full
        /\ e # full => full < Len(text) /\ \A i \in e .. (full - 1) : ~text[i + 1].space
    BY EndsFit
  <1>4. full < Len(text) /\ e \in Nat
    BY <1>1, <1>2, <1>3
  <1>5. then \in (e + 1) .. Len(text) /\ \A x \in (e + 1) .. Len(text) : Chunking!Bytes(text, e, x) <= target => x <= then
    BY <1>4, FullEndsFit
  <1>6. end \in (e + 1) .. then /\ (end = then \/ text[end].space)
    BY <1>4, EndsFit
  <1>7. SUFFICES full <= end
    BY <1>4
  <1> HIDE DEF full, then, end
  <1>8. CASE e = full
    BY <1>1, <1>2, <1>5, <1>6, <1>8
  <1>9. CASE e # full
    <2>1. full # s + 1 /\ full \in (e + 1) .. Len(text)
      BY <1>1, <1>2, <1>3, <1>9
    <2>2. Chunking!Bytes(text, e, full) <= Chunking!Bytes(text, s, full)
      <3>1. full \in 0 .. Len(text) /\ s <= e /\ full \in 0 .. full
        BY <1>1, <1>2, <1>3
      <3> QED
        BY <1>4, <3>1, BytesGrow
    <2>3. Chunking!Bytes(text, e, full) \in Nat /\ Chunking!Bytes(text, s, full) \in Nat
      <3>1. full \in 0 .. Len(text)
        BY <1>1, <1>2
      <3> QED
        BY <1>4, <3>1, BytesType
    <2>4. Chunking!Bytes(text, e, full) <= target
      BY <1>2, <2>1, <2>2, <2>3
    <2>5. full <= then
      BY <1>5, <2>1, <2>4
    <2>6. CASE end = then
      BY <2>5, <2>6
    <2>7. CASE text[end].space
      <3>1. SUFFICES ASSUME end < full
                     PROVE  FALSE
        BY <1>1, <1>2, <1>5, <1>6
      <3>2. end - 1 \in e .. (full - 1) /\ (end - 1) + 1 = end
        BY <1>1, <1>2, <1>4, <1>5, <1>6, <3>1
      <3> QED
        BY <1>3, <1>9, <2>7, <3>2
    <2> QED
      BY <1>6, <2>6, <2>7
  <1> QED
    BY <1>8, <1>9

-----------------------------------------------------------------------------
(* Chunks: the slices of a text, one after the other                       *)

Slice == [from : Nat, to : Nat]

\* Slices of a text from its beginning up to end: each goes on where the one
\* before ended, and none begins with a character that is too wide.
Sliced(text, cuts, end, target, hard) ==
    /\ cuts \in Seq(Slice)
    /\ \A i \in DOMAIN cuts :
           /\ cuts[i].from = IF i = 1 THEN 0 ELSE cuts[i - 1].to
           /\ cuts[i].from < Len(text)
           /\ cuts[i].to = EndAt(text, cuts[i].from, target)
           /\ Chunking!Bytes(text, cuts[i].from, FullEndAt(text, cuts[i].from, target)) <= hard
    /\ end = IF cuts = <<>> THEN 0 ELSE cuts[Len(cuts)].to

LEMMA SlicesLie ==
    ASSUME NEW text, AText(text), NEW target \in Nat, NEW cuts, NEW end, NEW hard,
           Sliced(text, cuts, end, target, hard), NEW i \in DOMAIN cuts
    PROVE  /\ cuts[i].from \in Nat /\ cuts[i].from < Len(text)
           /\ cuts[i].to \in (cuts[i].from + 1) .. FullEndAt(text, cuts[i].from, target)
           /\ FullEndAt(text, cuts[i].from, target) \in (cuts[i].from + 1) .. Len(text)
           /\ cuts[i].to \in Nat /\ cuts[i].to <= Len(text)
  <1>1. Len(text) \in Nat
    BY DEF AText
  <1>2. cuts[i] \in Slice
    BY DEF Sliced
  <1>3. cuts[i].from \in Nat /\ cuts[i].from < Len(text) /\ cuts[i].to = EndAt(text, cuts[i].from, target)
    BY <1>2 DEF Sliced, Slice
  <1>4. FullEndAt(text, cuts[i].from, target) \in (cuts[i].from + 1) .. Len(text)
    BY <1>3, FullEndsFit
  <1>5. cuts[i].to \in (cuts[i].from + 1) .. FullEndAt(text, cuts[i].from, target)
    BY <1>3, EndsFit
  <1> QED
    BY <1>1, <1>3, <1>4, <1>5

\* Cutting one more slice.
LEMMA OneMoreSlice ==
    ASSUME NEW text, AText(text), NEW target \in Nat, NEW cuts, NEW s \in Nat, NEW hard,
           Sliced(text, cuts, s, target, hard), s < Len(text),
           Chunking!Bytes(text, s, FullEndAt(text, s, target)) <= hard,
           NEW e, e = EndAt(text, s, target)
    PROVE  Sliced(text, Append(cuts, [from |-> s, to |-> e]), e, target, hard)
  <1> DEFINE one == [from |-> s, to |-> e]
             more == Append(cuts, one)
  <1>1. cuts \in Seq(Slice) /\ Len(text) \in Nat
    BY DEF Sliced, AText
  <1>2. e \in (s + 1) .. FullEndAt(text, s, target) /\ FullEndAt(text, s, target) \in (s + 1) .. Len(text)
    BY EndsFit, FullEndsFit
  <1>3. one \in Slice
    BY <1>1, <1>2 DEF Slice
  <1>4. one.from = s /\ one.to = e
    OBVIOUS
  <1> HIDE DEF one
  <1>5. /\ more \in Seq(Slice) /\ Len(more) = Len(cuts) + 1 /\ Len(cuts) \in Nat
        /\ more[Len(cuts) + 1] = one
        /\ \A i \in DOMAIN cuts : more[i] = cuts[i]
        /\ DOMAIN cuts = 1 .. Len(cuts) /\ DOMAIN more = 1 .. (Len(cuts) + 1)
    BY ONLY <1>1, <1>3
  <1>6. more # <<>>
    BY <1>5
  <1>7. cuts = <<>> <=> Len(cuts) = 0
    BY <1>1
  <1> HIDE DEF more
  <1>8. ASSUME NEW i \in DOMAIN more
        PROVE  /\ more[i].from = IF i = 1 THEN 0 ELSE more[i - 1].to
               /\ more[i].from < Len(text)
               /\ more[i].to = EndAt(text, more[i].from, target)
               /\ Chunking!Bytes(text, more[i].from, FullEndAt(text, more[i].from, target)) <= hard
    <2>1. CASE i \in DOMAIN cuts
      <3>1. more[i] = cuts[i]
        BY <1>5, <2>1
      <3>2. i # 1 => i - 1 \in DOMAIN cuts /\ more[i - 1] = cuts[i - 1]
        BY <1>5, <2>1
      <3> QED
        BY <2>1, <3>1, <3>2 DEF Sliced
    <2>2. CASE i \notin DOMAIN cuts
      <3>1. i = Len(cuts) + 1 /\ more[i] = one
        BY <1>5, <2>2
      <3>2. s = IF i = 1 THEN 0 ELSE more[i - 1].to
        <4>1. CASE i = 1
          BY <1>5, <1>7, <3>1, <4>1 DEF Sliced
        <4>2. CASE i # 1
          <5>1. i - 1 = Len(cuts) /\ i - 1 \in DOMAIN cuts
            BY <1>5, <3>1, <4>2
          <5>2. more[i - 1] = cuts[Len(cuts)] /\ cuts # <<>>
            BY <1>5, <1>7, <3>1, <4>2, <5>1
          <5> QED
            BY <4>2, <5>2 DEF Sliced
        <4> QED
          BY <4>1, <4>2
      <3> QED
        BY <1>4, <3>1, <3>2
    <2> QED
      BY <2>1, <2>2
  <1>9. more[Len(more)].to = e
    BY <1>4, <1>5
  <1>10. Sliced(text, more, e, target, hard)
    BY <1>5, <1>6, <1>8, <1>9 DEF Sliced
  <1> QED
    BY <1>10 DEF more, one

LEMMA NoSlices ==
    ASSUME NEW text, NEW target, NEW hard
    PROVE  Sliced(text, <<>>, 0, target, hard)
  BY DEF Sliced

\* A slice fits its target, or is one character that fits the hard limit.
LEMMA SlicesFitTheTarget ==
    ASSUME NEW text, AText(text), NEW target \in Nat, NEW hard \in Nat, target <= hard, NEW cuts, NEW end,
           Sliced(text, cuts, end, target, hard), NEW i \in DOMAIN cuts
    PROVE  \/ Chunking!Bytes(text, cuts[i].from, cuts[i].to) <= target
           \/ /\ Chunking!Bytes(text, cuts[i].from, cuts[i].to) <= hard
              /\ cuts[i].to = cuts[i].from + 1
  <1> DEFINE from == cuts[i].from
             to   == cuts[i].to
             full == FullEndAt(text, from, target)
  <1>1. /\ from \in Nat /\ from < Len(text) /\ to \in (from + 1) .. full
        /\ full \in (from + 1) .. Len(text) /\ Len(text) \in Nat
    BY SlicesLie DEF AText
  <1>2. full = from + 1 \/ Chunking!Bytes(text, from, full) <= target
    BY <1>1, FullEndsFit
  <1>3. Chunking!Bytes(text, from, full) <= hard
    BY DEF Sliced
  <1> HIDE DEF from, to, full
  <1>4. full \in 0 .. Len(text) /\ to \in 0 .. full /\ to \in 0 .. Len(text)
    BY <1>1
  <1>5. Chunking!Bytes(text, from, to) <= Chunking!Bytes(text, from, full)
    BY <1>1, <1>4, BytesGrow
  <1>6. Chunking!Bytes(text, from, to) \in Nat /\ Chunking!Bytes(text, from, full) \in Nat
    BY <1>1, <1>4, BytesType
  <1>7. PICK few, many \in Nat : /\ few = Chunking!Bytes(text, from, to)
                                /\ many = Chunking!Bytes(text, from, full)
    BY <1>6
  <1>8. few <= many
    BY <1>5, <1>7
  <1>9. CASE full = from + 1
    <2>1. to = from + 1
      BY <1>1, <1>9
    <2>2. many <= hard
      BY <1>3, <1>7
    <2>3. few <= hard
      BY <1>7, <1>8, <2>2
    <2> QED
      BY <1>7, <2>1, <2>3 DEF from, to
  <1>10. CASE many <= target
    <2>1. few <= target
      BY <1>7, <1>8, <1>10
    <2> QED
      BY <1>7, <2>1 DEF from, to
  <1> QED
    BY <1>2, <1>7, <1>9, <1>10

\* Two slices in a row leave no room for the character behind them.
LEMMA SlicesFillIt ==
    ASSUME NEW text, AText(text), NEW target \in Nat, NEW cuts, NEW end, NEW hard,
           Sliced(text, cuts, end, target, hard), NEW i \in DOMAIN cuts, i # 1,
           cuts[i].to < Len(text)
    PROVE  Chunking!Bytes(text, cuts[i - 1].from, cuts[i].to + 1) > target
  <1> DEFINE from == cuts[i - 1].from
             mid  == cuts[i - 1].to
             to   == cuts[i].to
             full == FullEndAt(text, from, target)
  <1>1. i - 1 \in DOMAIN cuts
    <2>1. cuts \in Seq(Slice)
      BY DEF Sliced
    <2> QED
      BY <2>1
  <1>2. Len(text) \in Nat
    BY DEF AText
  <1>3. from \in Nat /\ from < Len(text) /\ full \in (from + 1) .. Len(text)
    BY <1>1, SlicesLie
  <1>4. cuts[i].from = mid /\ mid = EndAt(text, from, target) /\ to = EndAt(text, mid, target) /\ mid < Len(text)
    BY <1>1 DEF Sliced
  <1>5. to \in Nat /\ to < Len(text)
    BY SlicesLie
  <1> HIDE DEF from, mid, to
  <1>6. full < Len(text) /\ full <= to
    BY <1>3, <1>4, NextReachesFull
  <1>7. \A e \in (from + 1) .. Len(text) : Chunking!Bytes(text, from, e) <= target => e <= full
    BY <1>3, FullEndsFit
  <1> HIDE DEF full
  <1>8. to + 1 \in (from + 1) .. Len(text) /\ ~(to + 1 <= full) /\ to + 1 \in 0 .. Len(text)
    BY <1>2, <1>3, <1>5, <1>6
  <1>9. Chunking!Bytes(text, from, to + 1) \in Nat
    BY <1>3, <1>8, BytesType
  <1>10. ~(Chunking!Bytes(text, from, to + 1) <= target)
    BY <1>7, <1>8
  <1>11. Chunking!Bytes(text, from, to + 1) > target
    BY <1>9, <1>10
  <1> QED
    BY <1>11 DEF from, to

-----------------------------------------------------------------------------
(* Chunks: the invariant                                                   *)

ChunksOf(f, cuts) ==
    {[field |-> f, part |-> i, of |-> Len(cuts), from |-> cuts[i].from, to |-> cuts[i].to] : i \in DOMAIN cuts}

ChunkTypes ==
    /\ block \in [content : Seq(Characters), description : Seq(Characters),
                  state : {"searchable", "needs_review", "excluded"}]
    /\ budget \in ByteBudgets
    /\ field \in {"content", "description", "done", "refused"}

\* What is cut of the field so far.
FieldSliced ==
    /\ field \in {"content", "description"} =>
           /\ start \in Nat /\ start <= Len(block[field])
           /\ Sliced(block[field], slices, start, budget[1], budget[2])
           /\ slices # <<>> => Chunking!Indexed(field)
    /\ field \notin {"content", "description"} => slices = <<>>

\* What is ready to be stored: chunks of the fields that are cut, all of the
\* slices of the content; or nothing, for a character that is too wide.
ChunksStored ==
    /\ \A c \in chunks : /\ c.field \in {"content", "description"}
                         /\ Chunking!Indexed(c.field) /\ Chunking!ChunkFits(c)
    /\ field = "content" => chunks = {}
    /\ field = "description" => \A c \in chunks : c.field = "content"
    /\ field \in {"description", "done"} /\ Chunking!Indexed("content") =>
           \E cuts \in Seq(Slice) :
               /\ Sliced(block.content, cuts, Len(block.content), budget[1], budget[2])
               /\ {c \in chunks : c.field = "content"} = ChunksOf("content", cuts)
    /\ field = "refused" =>
           /\ chunks = {}
           /\ \E f \in {"content", "description"} : Chunking!Indexed(f) /\
                  \E i \in DOMAIN block[f] : block[f][i].width > budget[2]

ChunkInv == ChunkTypes /\ FieldSliced /\ ChunksStored

LEMMA ChunkBudget ==
    ASSUME ChunkTypes
    PROVE  budget[1] \in Nat /\ budget[2] \in Nat /\ 0 < budget[1] /\ budget[1] <= budget[2]
  BY ChunkingAssumption DEF ChunkTypes, Chunking!ChunkingConstants

LEMMA ChunkTexts ==
    ASSUME ChunkTypes, NEW f \in {"content", "description"}
    PROVE  AText(block[f])
  BY DEF ChunkTypes, AText

LEMMA TextsAreTexts == \A n \in Nat : Chunking!Texts(n) \subseteq Seq(Characters)
  <1> SUFFICES ASSUME NEW n \in Nat, NEW text \in Chunking!Texts(n)
               PROVE  text \in Seq(Characters)
    OBVIOUS
  <1>1. PICK m \in 0 .. n : text \in [1 .. m -> Characters]
    BY DEF Chunking!Texts
  <1>2. m \in Nat
    OBVIOUS
  <1> QED
    BY <1>1, <1>2

LEMMA ChunksBegin == Chunking!Init => ChunkInv
  <1> SUFFICES ASSUME Chunking!Init
               PROVE  ChunkInv
    OBVIOUS
  <1>1. TextLength \in Nat /\ DescriptionLength \in Nat
    BY ChunkingAssumption DEF Chunking!ChunkingConstants
  <1>2. Chunking!Texts(TextLength) \subseteq Seq(Characters) /\ Chunking!Texts(DescriptionLength) \subseteq Seq(Characters)
    BY <1>1, TextsAreTexts
  <1>3. ChunkTypes
    BY <1>2 DEF Chunking!Init, ChunkTypes
  <1>4. field = "content" /\ start = 0 /\ slices = <<>> /\ chunks = {}
    BY DEF Chunking!Init
  <1>5. FieldSliced
    <2>1. block.content \in Seq(Characters)
      BY <1>3 DEF ChunkTypes
    <2>2. start \in Nat /\ start <= Len(block[field])
      BY <1>4, <2>1
    <2> QED
      BY <1>4, <2>2, NoSlices DEF FieldSliced
  <1>6. ChunksStored
    BY <1>4 DEF ChunksStored
  <1> QED
    BY <1>3, <1>5, <1>6 DEF ChunkInv

LEMMA CutKeeps ==
    ASSUME ChunkInv, Chunking!Cut
    PROVE  ChunkInv'
  <1>1. /\ field \in {"content", "description"} /\ Chunking!Indexed(field) /\ start < Len(block[field])
        /\ ~Chunking!TooWide
        /\ slices' = Append(slices, [from |-> start, to |-> Chunking!End]) /\ start' = Chunking!End
        /\ block' = block /\ budget' = budget /\ field' = field /\ chunks' = chunks
    BY DEF Chunking!Cut, Chunking!Fields, Chunking!TextOf
  <1>2. ChunkTypes'
    BY <1>1 DEF ChunkInv, ChunkTypes
  <1>3. budget[1] \in Nat /\ budget[2] \in Nat
    BY ChunkBudget DEF ChunkInv
  <1>4. PICK text : text = block[field] /\ AText(text)
    BY <1>1, ChunkTexts DEF ChunkInv
  <1>5. /\ start \in Nat /\ start < Len(text) /\ Len(text) \in Nat
        /\ Sliced(text, slices, start, budget[1], budget[2])
    BY <1>1, <1>4 DEF ChunkInv, FieldSliced, AText
  <1>6. Chunking!End = EndAt(text, start, budget[1]) /\ Chunking!FullEnd = FullEndAt(text, start, budget[1])
    BY <1>4, SameEnds
  <1>7. FullEndAt(text, start, budget[1]) \in (start + 1) .. Len(text)
    BY <1>3, <1>4, <1>5, FullEndsFit
  <1>8. Chunking!End \in (start + 1) .. FullEndAt(text, start, budget[1])
    BY <1>3, <1>4, <1>5, <1>6, EndsFit
  <1>9. Chunking!Bytes(text, start, FullEndAt(text, start, budget[1])) <= budget[2]
    <2>1. Chunking!Bytes(text, start, FullEndAt(text, start, budget[1])) \in Nat
      <3>1. FullEndAt(text, start, budget[1]) \in 0 .. Len(text)
        BY <1>5, <1>7
      <3> QED
        BY <1>4, <1>5, <3>1, BytesType
    <2>2. ~(Chunking!Bytes(text, start, FullEndAt(text, start, budget[1])) > budget[2])
      BY <1>1, <1>4, <1>6 DEF Chunking!TooWide, Chunking!TextOf, Chunking!HardBytes
    <2> QED
      BY <1>3, <2>1, <2>2
  <1>10. Sliced(text, slices', start', budget[1], budget[2])
    BY <1>1, <1>3, <1>4, <1>5, <1>6, <1>9, OneMoreSlice
  <1>11. start' \in Nat /\ start' <= Len(text)
    BY <1>1, <1>5, <1>7, <1>8
  <1>12. Chunking!Indexed(field)'
    BY <1>1 DEF Chunking!Indexed
  <1>13. FieldSliced'
    BY <1>1, <1>4, <1>10, <1>11, <1>12 DEF FieldSliced
  <1>14. ChunksStored'
    BY <1>1 DEF ChunkInv, ChunksStored, Chunking!Indexed, Chunking!ChunkFits
  <1> QED
    BY <1>2, <1>13, <1>14 DEF ChunkInv

LEMMA RefuseKeeps ==
    ASSUME ChunkInv, Chunking!Refuse
    PROVE  ChunkInv'
  <1>1. /\ field \in {"content", "description"} /\ Chunking!Indexed(field) /\ start < Len(block[field])
        /\ Chunking!TooWide \/ Chunking!End <= start
        /\ slices' = <<>> /\ field' = "refused" /\ chunks' = {}
        /\ block' = block /\ budget' = budget
    BY DEF Chunking!Refuse, Chunking!Fields, Chunking!TextOf
  <1>2. ChunkTypes'
    BY <1>1 DEF ChunkInv, ChunkTypes
  <1>3. budget[1] \in Nat /\ budget[2] \in Nat /\ budget[1] <= budget[2]
    BY ChunkBudget DEF ChunkInv
  <1>4. PICK text : text = block[field] /\ AText(text)
    BY <1>1, ChunkTexts DEF ChunkInv
  <1>5. start \in Nat /\ start < Len(text) /\ Len(text) \in Nat
    BY <1>1, <1>4 DEF ChunkInv, FieldSliced, AText
  <1>6. PICK full : full = FullEndAt(text, start, budget[1])
    OBVIOUS
  <1>7. Chunking!End = EndAt(text, start, budget[1]) /\ Chunking!FullEnd = full
    BY <1>4, <1>6, SameEnds
  <1>8. /\ full \in (start + 1) .. Len(text)
        /\ full = start + 1 \/ Chunking!Bytes(text, start, full) <= budget[1]
    BY <1>3, <1>4, <1>5, <1>6, FullEndsFit
  <1>9. Chunking!End \in (start + 1) .. full
    BY <1>3, <1>4, <1>5, <1>6, <1>7, EndsFit
  <1>10. Chunking!TooWide
    BY <1>1, <1>5, <1>8, <1>9
  <1>11. Chunking!Bytes(text, start, full) > budget[2]
    BY <1>4, <1>7, <1>10 DEF Chunking!TooWide, Chunking!TextOf, Chunking!HardBytes
  <1>12. Chunking!Bytes(text, start, full) \in Nat
    <2>1. full \in 0 .. Len(text)
      BY <1>5, <1>8
    <2> QED
      BY <1>4, <1>5, <2>1, BytesType
  <1>13. full = start + 1
    BY <1>3, <1>8, <1>11, <1>12
  <1>14. text[start + 1].width > budget[2] /\ start + 1 \in DOMAIN text
    BY <1>4, <1>5, <1>11, <1>13, BytesOfOne
  <1>15. FieldSliced'
    BY <1>1 DEF FieldSliced
  <1>16. ChunksStored'
    <2>1. PICK f \in {"content", "description"} : f = field
      BY <1>1
    <2>2. Chunking!Indexed(f)'
      BY <1>1, <2>1 DEF Chunking!Indexed
    <2>3. start + 1 \in DOMAIN block'[f] /\ block'[f][start + 1].width > budget'[2]
      BY <1>1, <1>4, <1>14, <2>1
    <2>4. \E g \in {"content", "description"} : Chunking!Indexed(g)' /\
              \E i \in DOMAIN block'[g] : block'[g][i].width > budget'[2]
      BY <2>2, <2>3
    <2> QED
      BY <1>1, <2>4 DEF ChunksStored
  <1> QED
    BY <1>2, <1>15, <1>16 DEF ChunkInv

LEMMA PrepareKeeps ==
    ASSUME ChunkInv, Chunking!Prepare
    PROVE  ChunkInv'
  <1>1. /\ field \in {"content", "description"}
        /\ Chunking!Indexed(field) => start = Len(block[field])
        /\ chunks' = chunks \cup ChunksOf(field, slices)
        /\ field' = IF field = "content" THEN "description" ELSE "done"
        /\ start' = 0 /\ slices' = <<>> /\ block' = block /\ budget' = budget
    BY DEF Chunking!Prepare, Chunking!Fields, Chunking!TextOf, Chunking!Chunks, ChunksOf
  <1>2. ChunkTypes'
    BY <1>1 DEF ChunkInv, ChunkTypes
  <1>3. budget[1] \in Nat /\ budget[2] \in Nat
    BY ChunkBudget DEF ChunkInv
  <1>4. PICK text : text = block[field] /\ AText(text)
    BY <1>1, ChunkTexts DEF ChunkInv
  <1>5. Sliced(text, slices, start, budget[1], budget[2]) /\ (slices # <<>> => Chunking!Indexed(field))
    BY <1>1, <1>4 DEF ChunkInv, FieldSliced
  <1>6. FieldSliced'
    <2>1. CASE field = "content"
      <3>1. field' = "description" /\ block' = block /\ start' = 0 /\ slices' = <<>>
        BY <1>1, <2>1
      <3>2. block.description \in Seq(Characters)
        BY DEF ChunkInv, ChunkTypes
      <3>3. start' \in Nat /\ start' <= Len(block'[field'])
        BY <3>1, <3>2
      <3> QED
        BY <3>1, <3>3, NoSlices DEF FieldSliced
    <2>2. CASE field # "content"
      BY <1>1, <2>2 DEF FieldSliced
    <2> QED
      BY <2>1, <2>2
  <1>7. ASSUME NEW c \in ChunksOf(field, slices)
        PROVE  /\ c.field = field /\ Chunking!Indexed(c.field)'
               /\ Chunking!ChunkFits(c)'
    <2>1. PICK i \in DOMAIN slices : c = [field |-> field, part |-> i, of |-> Len(slices),
                                         from |-> slices[i].from, to |-> slices[i].to]
      BY DEF ChunksOf
    <2>2. c.field = field /\ c.from = slices[i].from /\ c.to = slices[i].to
      BY <2>1
    <2>3. slices # <<>>
      BY <2>1
    <2>4. Chunking!Indexed(field)
      BY <1>5, <2>3
    <2>5. Chunking!Indexed(c.field)'
      BY <1>1, <2>2, <2>4 DEF Chunking!Indexed
    <2>6. /\ slices[i].from \in Nat /\ slices[i].to \in (slices[i].from + 1) .. FullEndAt(text, slices[i].from, budget[1])
          /\ slices[i].to \in Nat /\ slices[i].to <= Len(text)
          /\ FullEndAt(text, slices[i].from, budget[1]) \in (slices[i].from + 1) .. Len(text) /\ Len(text) \in Nat
      BY <1>3, <1>4, <1>5, SlicesLie DEF AText
    <2>7. 0 <= c.from /\ c.from < c.to /\ c.to <= Len(text)
      BY <2>2, <2>6
    <2>8. Chunking!ChunkFits(c)'
      BY <1>1, <1>4, <2>2, <2>7 DEF Chunking!ChunkFits
    <2> QED
      BY <2>2, <2>5, <2>8
  <1>8. ASSUME NEW c \in chunks'
        PROVE  /\ c.field \in {"content", "description"}
               /\ Chunking!Indexed(c.field)' /\ Chunking!ChunkFits(c)'
    <2>1. CASE c \in chunks
      BY <1>1, <2>1 DEF ChunkInv, ChunksStored, Chunking!Indexed, Chunking!ChunkFits
    <2>2. CASE c \in ChunksOf(field, slices)
      BY <1>1, <1>7, <2>2
    <2> QED
      BY <1>1, <2>1, <2>2
  <1>9. field' = "description" => \A c \in chunks' : c.field = "content"
    BY <1>1, <1>7 DEF ChunkInv, ChunksStored
  <1>10. ASSUME Chunking!Indexed("content")'
         PROVE  \E cuts \in Seq(Slice) :
                    /\ Sliced(block.content, cuts, Len(block.content), budget[1], budget[2])
                    /\ {c \in chunks' : c.field = "content"} = ChunksOf("content", cuts)
    <2>1. Chunking!Indexed("content")
      BY <1>1, <1>10 DEF Chunking!Indexed
    <2>2. CASE field = "content"
      <3>1. start = Len(block.content) /\ chunks = {} /\ text = block.content
        BY <1>1, <1>4, <2>1, <2>2 DEF ChunkInv, ChunksStored
      <3>2. slices \in Seq(Slice) /\ Sliced(block.content, slices, Len(block.content), budget[1], budget[2])
        BY <1>5, <3>1 DEF Sliced
      <3>3. {c \in chunks' : c.field = "content"} = ChunksOf("content", slices)
        BY <1>1, <1>7, <2>2, <3>1
      <3> QED
        BY <3>2, <3>3
    <2>3. CASE field = "description"
      <3>1. PICK cuts \in Seq(Slice) :
                /\ Sliced(block.content, cuts, Len(block.content), budget[1], budget[2])
                /\ {c \in chunks : c.field = "content"} = ChunksOf("content", cuts)
        BY <2>1, <2>3 DEF ChunkInv, ChunksStored
      <3>2. \A c \in ChunksOf(field, slices) : c.field # "content"
        BY <1>7, <2>3
      <3>3. {c \in chunks' : c.field = "content"} = {c \in chunks : c.field = "content"}
        BY <1>1, <3>2
      <3> QED
        BY <3>1, <3>3
    <2> QED
      BY <1>1, <2>2, <2>3
  <1>11. ChunksStored'
    BY <1>1, <1>8, <1>9, <1>10 DEF ChunksStored
  <1> QED
    BY <1>2, <1>6, <1>11 DEF ChunkInv

\* The instance's Cardinality is the one of FiniteSets.
LEMMA SameCardinality == \A S : Chunking!Cardinality(S) = Cardinality(S)
  BY DEF Chunking!Cardinality, Cardinality

\* There are as many chunks as slices.
LEMMA ChunksAreCounted ==
    ASSUME NEW f, NEW cuts \in Seq(Slice)
    PROVE  Cardinality(ChunksOf(f, cuts)) = Len(cuts)
  <1> DEFINE n == Len(cuts)
             Chunk(i) == [field |-> f, part |-> i, of |-> Len(cuts), from |-> cuts[i].from, to |-> cuts[i].to]
             number == [i \in 1 .. n |-> Chunk(i)]
             S == ChunksOf(f, cuts)
  <1>1. n \in Nat /\ DOMAIN cuts = 1 .. n
    OBVIOUS
  <1>2. \A c \in S : \E i \in 1 .. n : c = Chunk(i)
    BY <1>1 DEF ChunksOf
  <1>3. \A i \in 1 .. n : Chunk(i) \in S
    BY <1>1 DEF ChunksOf
  <1>4. \A i \in 1 .. n : Chunk(i).part = i
    OBVIOUS
  <1> HIDE DEF S, n, Chunk
  <1>5. number \in [1 .. n -> S]
    BY <1>3
  <1>6. \A i, j \in 1 .. n : number[i] = number[j] => i = j
    BY <1>4
  <1>7. \A c \in S : \E i \in 1 .. n : number[i] = c
    BY <1>2
  <1> HIDE DEF number
  <1>8. number \in Bijection(1 .. n, S)
    BY <1>5, <1>6, <1>7 DEF Bijection, Injection, Surjection, IsInjective
  <1>9. ExistsBijection(1 .. n, S)
    BY <1>8 DEF ExistsBijection
  <1>10. Cardinality(S) = n
    BY <1>1, <1>9, FS_CountingElements
  <1> QED
    BY <1>10 DEF S, n

\* What validate_publishable asks of the chunks of a content.
LEMMA StoredIsComplete ==
    ASSUME ChunkInv, field = "done"
    PROVE  Chunking!IndexComplete
  <1> DEFINE own == {c \in chunks : c.field = "content"}
             Ends(i) == {c.to : c \in {d \in own : d.part = i}}
  <1> SUFFICES ASSUME block.state = "searchable", block.content # <<>>
               PROVE  /\ \A c \in own : c.part \in 1 .. c.of /\ c.of = Chunking!Cardinality(own)
                      /\ \A c \in own : c.from \in IF c.part = 1 THEN {0} ELSE Ends(c.part - 1)
                      /\ \E c \in own : c.part = c.of /\ c.to = Len(block.content)
    BY DEF Chunking!IndexComplete
  <1>1. Chunking!Indexed("content")
    BY DEF Chunking!Indexed
  <1>2. PICK cuts \in Seq(Slice) :
            /\ Sliced(block.content, cuts, Len(block.content), budget[1], budget[2])
            /\ own = ChunksOf("content", cuts)
    BY <1>1 DEF ChunkInv, ChunksStored
  <1> DEFINE Chunk(i) == [field |-> "content", part |-> i, of |-> Len(cuts),
                          from |-> cuts[i].from, to |-> cuts[i].to]
  <1>3. Len(cuts) \in Nat /\ DOMAIN cuts = 1 .. Len(cuts)
    OBVIOUS
  <1>4. Cardinality(own) = Len(cuts)
    BY <1>2, ChunksAreCounted
  <1>5. \A c \in own : \E i \in DOMAIN cuts : c = Chunk(i)
    BY <1>2 DEF ChunksOf
  <1>6. \A i \in DOMAIN cuts : Chunk(i) \in own
    BY <1>2 DEF ChunksOf
  <1>7. \A i \in DOMAIN cuts : /\ Chunk(i).part = i /\ Chunk(i).of = Len(cuts)
                               /\ Chunk(i).from = cuts[i].from /\ Chunk(i).to = cuts[i].to
    OBVIOUS
  <1>8. Len(block.content) \in Nat \ {0}
    <2>1. block.content \in Seq(Characters)
      BY DEF ChunkInv, ChunkTypes
    <2> QED
      BY ONLY block.content # <<>>, <2>1
  <1>9. /\ \A i \in DOMAIN cuts : cuts[i].from = IF i = 1 THEN 0 ELSE cuts[i - 1].to
        /\ Len(block.content) = IF cuts = <<>> THEN 0 ELSE cuts[Len(cuts)].to
    BY <1>2 DEF Sliced
  <1> HIDE DEF own, Chunk
  <1>10. ASSUME NEW c \in own
         PROVE  /\ c.part \in 1 .. c.of /\ c.of = Cardinality(own)
                /\ c.from \in IF c.part = 1 THEN {0} ELSE Ends(c.part - 1)
    <2>1. PICK i \in DOMAIN cuts : c = Chunk(i)
      BY <1>5
    <2>2. c.part = i /\ c.of = Len(cuts) /\ c.from = cuts[i].from
      BY <1>7, <2>1
    <2>3. c.from \in IF c.part = 1 THEN {0} ELSE Ends(c.part - 1)
      <3>1. CASE i = 1
        BY <1>9, <2>2, <3>1
      <3>2. CASE i # 1
        <4>1. i - 1 \in DOMAIN cuts /\ c.from = cuts[i - 1].to
          BY <1>3, <1>9, <2>2, <3>2
        <4>2. Chunk(i - 1) \in own /\ Chunk(i - 1).part = i - 1 /\ Chunk(i - 1).to = cuts[i - 1].to
          BY <1>6, <1>7, <4>1
        <4>3. cuts[i - 1].to \in Ends(i - 1)
          BY <4>2
        <4> QED
          BY <2>2, <3>2, <4>1, <4>3
      <3> QED
        BY <3>1, <3>2
    <2> QED
      BY <1>3, <1>4, <2>2, <2>3
  <1>11. \E c \in own : c.part = c.of /\ c.to = Len(block.content)
    <2>1. cuts # <<>>
      BY <1>8, <1>9
    <2>2. Len(cuts) \in DOMAIN cuts
      BY ONLY <1>2, <1>3, <2>1, cuts \in Seq(Slice)
    <2>3. Chunk(Len(cuts)) \in own
      BY <1>6, <2>2
    <2>4. Chunk(Len(cuts)).part = Chunk(Len(cuts)).of /\ Chunk(Len(cuts)).to = Len(block.content)
      BY <1>7, <1>9, <2>1, <2>2
    <2> QED
      BY <2>3, <2>4
  <1> QED
    BY <1>10, <1>11, SameCardinality

\* The invariant says that the chunks serve.
LEMMA ChunksServeAsCut ==
    ASSUME ChunkInv
    PROVE  /\ Chunking!TypeOK /\ Chunking!PublicationAccepts /\ Chunking!ExcludedIsNotFound
           /\ Chunking!SlicesFit /\ Chunking!SlicesFillTheTarget /\ Chunking!RefusedForACharacter
  <1>1. /\ budget[1] \in Nat /\ budget[2] \in Nat /\ budget[1] <= budget[2]
    BY ChunkBudget DEF ChunkInv
  <1>2. Chunking!Fields = {"content", "description"}
    BY DEF Chunking!Fields
  <1>3. field \in {"content", "description", "done", "refused"}
    BY DEF ChunkInv, ChunkTypes
  <1>4. ASSUME NEW i \in DOMAIN slices
        PROVE  /\ field \in {"content", "description"}
               /\ AText(block[field]) /\ Sliced(block[field], slices, start, budget[1], budget[2])
               /\ slices[i].from \in Nat /\ slices[i].from < slices[i].to
               /\ slices[i].to \in Nat /\ slices[i].to <= Len(block[field])
    <2>1. slices # <<>>
      OBVIOUS
    <2>2. field \in {"content", "description"}
      BY <2>1 DEF ChunkInv, FieldSliced
    <2>3. AText(block[field]) /\ Sliced(block[field], slices, start, budget[1], budget[2])
      BY <2>2, ChunkTexts DEF ChunkInv, FieldSliced
    <2>4. PICK text : text = block[field]
      OBVIOUS
    <2>5. /\ slices[i].from \in Nat
          /\ slices[i].to \in (slices[i].from + 1) .. FullEndAt(text, slices[i].from, budget[1])
          /\ FullEndAt(text, slices[i].from, budget[1]) \in (slices[i].from + 1) .. Len(text)
          /\ slices[i].to \in Nat /\ slices[i].to <= Len(text)
      BY <1>1, <2>3, <2>4, SlicesLie
    <2>6. slices[i].from < slices[i].to
      BY <2>5
    <2> QED
      BY <2>2, <2>3, <2>4, <2>5, <2>6
  <1>5. Chunking!TypeOK
    <2>1. \A i \in DOMAIN slices : 0 <= slices[i].from /\ slices[i].from < slices[i].to
                                   /\ slices[i].to <= Len(block[field])
      BY <1>4
    <2>2. field \in {"content", "description"} => start \in 0 .. Len(block[field])
      <3>1. ASSUME field \in {"content", "description"}
            PROVE  start \in 0 .. Len(block[field])
        <4>1. start \in Nat /\ start <= Len(block[field])
          BY <3>1 DEF ChunkInv, FieldSliced
        <4>2. Len(block[field]) \in Nat
          BY <3>1, ChunkTexts DEF ChunkInv, AText
        <4> QED
          BY <4>1, <4>2
      <3> QED
        BY <3>1
    <2>3. field \notin {"content", "description"} => slices = <<>>
      BY DEF ChunkInv, FieldSliced
    <2> QED
      BY <1>2, <1>3, <2>1, <2>2, <2>3 DEF Chunking!TypeOK, Chunking!TextOf
  <1>6. Chunking!PublicationAccepts
    BY StoredIsComplete DEF ChunkInv, ChunksStored, Chunking!PublicationAccepts
  <1>7. Chunking!ExcludedIsNotFound
    BY DEF ChunkInv, ChunksStored, Chunking!Indexed, Chunking!ExcludedIsNotFound
  <1>8. Chunking!SlicesFit
    <2>1. ASSUME NEW i \in DOMAIN slices
          PROVE  \/ Chunking!Bytes(block[field], slices[i].from, slices[i].to) <= budget[1]
                 \/ /\ Chunking!Bytes(block[field], slices[i].from, slices[i].to) <= budget[2]
                    /\ slices[i].to = slices[i].from + 1
      BY <1>1, <1>4, SlicesFitTheTarget
    <2> QED
      BY <2>1 DEF Chunking!SlicesFit, Chunking!TextOf, Chunking!TargetBytes, Chunking!HardBytes
  <1>9. Chunking!SlicesFillTheTarget
    <2>1. ASSUME NEW i \in DOMAIN slices, i # 1, slices[i].to < Len(block[field])
          PROVE  Chunking!Bytes(block[field], slices[i - 1].from, slices[i].to + 1) > budget[1]
      BY <1>1, <1>4, <2>1, SlicesFillIt
    <2> QED
      BY <2>1 DEF Chunking!SlicesFillTheTarget, Chunking!TextOf, Chunking!TargetBytes
  <1>10. Chunking!RefusedForACharacter
    BY DEF ChunkInv, ChunksStored, Chunking!RefusedForACharacter, Chunking!Fields, Chunking!TextOf,
           Chunking!HardBytes
  <1> QED
    BY <1>5, <1>6, <1>7, <1>8, <1>9, <1>10

\* What the worker stores can be published and found, whatever the texts and the
\* budgets.
THEOREM ChunksAreServed == Spec => []ChunksServe
  <1> DEFINE Inv == part = "chunking" => ChunkInv
  <1>1. Init => Inv
    BY ChunksBegin DEF Init
  <1>2. Inv /\ [Next]_<<part, files, revisions, chunking, reading, tx>> => Inv'
    <2> SUFFICES ASSUME Inv, [Next]_<<part, files, revisions, chunking, reading, tx>>, part' = "chunking"
                 PROVE  ChunkInv'
      OBVIOUS
    <2>1. part' = part
      BY DEF Next, FilesMove, BlocksMove, ChunksMove, ReadingMoves, LocksMove
    <2>2. ChunkInv
      BY <2>1
    <2>3. CASE ChunksMove
      BY <2>2, <2>3, CutKeeps, RefuseKeeps, PrepareKeeps DEF ChunksMove, Chunking!Next
    <2>4. CASE ~ChunksMove
      <3>1. UNCHANGED chunking
        BY <2>4 DEF Next, FilesMove, BlocksMove, ReadingMoves, LocksMove
      <3> QED
        BY <2>2, <3>1 DEF ChunkInv, ChunkTypes, FieldSliced, ChunksStored, chunking,
                          Chunking!Indexed, Chunking!ChunkFits
    <2> QED
      BY <2>3, <2>4
  <1>3. Inv => ChunksServe
    BY ChunksServeAsCut DEF ChunksServe
  <1> QED
    BY <1>1, <1>2, <1>3, PTL DEF Spec

-----------------------------------------------------------------------------
(* Reading: lists of blocks and pages                                      *)

LEMMA ReadingBounds ==
    /\ PageOf \in Seq(DOMAIN DocumentOf) /\ DocumentOf \in Seq(Nat)
    /\ \A b, c \in DOMAIN PageOf : b < c => PageOf[b] <= PageOf[c]
    /\ \A p, q \in DOMAIN DocumentOf : p < q => DocumentOf[p] <= DocumentOf[q]
    /\ Patterns \subseteq Seq(Letters) \ {<<>>}
    /\ MaxBudget \in Nat \ {0} /\ OpenBatch \in Nat \ {0} /\ GrepBatch \in Nat \ {0}
    /\ GrepAllMatches \in Nat \ {0} /\ GrepAllMatches <= GrepBatch
    /\ BlockLength \in Nat /\ MaxEdits \in Nat
    /\ None \notin Nat /\ None \notin {"open", "read", "grep", "grep all"}
    /\ None \notin Reading!Positions /\ None \notin Reading!Cursors /\ None \notin Reading!Requests
  BY ReadingAssumption DEF Reading!ReadingConstants, Reading!Blocks, Reading!Pages

LEMMA PlacesAreNumbers ==
    /\ Reading!Blocks = 1 .. Len(PageOf) /\ Len(PageOf) \in Nat
    /\ Reading!Pages = 1 .. Len(DocumentOf) /\ Len(DocumentOf) \in Nat
    /\ \A b \in Reading!Blocks : PageOf[b] \in Reading!Pages
    /\ \A p \in Reading!Pages : DocumentOf[p] \in Nat /\ DocumentOf[p] \in Reading!Documents
    /\ IsFiniteSet(Reading!Blocks) /\ IsFiniteSet(Reading!Pages)
  <1>0. PageOf \in Seq(DOMAIN DocumentOf) /\ DocumentOf \in Seq(Nat)
    BY ReadingBounds
  <1>1. /\ Reading!Blocks = 1 .. Len(PageOf) /\ Len(PageOf) \in Nat
        /\ Reading!Pages = 1 .. Len(DocumentOf) /\ Len(DocumentOf) \in Nat
        /\ \A b \in Reading!Blocks : PageOf[b] \in Reading!Pages
    BY ONLY <1>0 DEF Reading!Blocks, Reading!Pages
  <1>2. \A p \in Reading!Pages : DocumentOf[p] \in Nat /\ DocumentOf[p] \in Reading!Documents
    BY ONLY <1>0 DEF Reading!Documents, Reading!Pages, Reading!Range
  <1>3. IsFiniteSet(1 .. Len(PageOf)) /\ IsFiniteSet(1 .. Len(DocumentOf))
    BY <1>1, FS_Interval
  <1> QED
    BY <1>1, <1>2, <1>3

Ascending(S) == {x \in S \X S : x[1] < x[2]}

LEMMA AscendingOrders ==
    ASSUME NEW S \in SUBSET Nat
    PROVE  Orders(Ascending(S), S)
  <1>1. \A x, y \in S : <<x, y>> \in Ascending(S) <=> x < y
    BY DEF Ascending
  <1>2. \A x \in S : x \in Nat
    OBVIOUS
  <1> QED
    BY <1>1, <1>2 DEF Orders

LEMMA InOrderIsListed ==
    ASSUME NEW S \in SUBSET Nat, IsFiniteSet(S)
    PROVE  /\ Listed(Reading!InOrder(S), S, Ascending(S))
           /\ Reading!InOrder(S) = Counted(S, Ascending(S))
  <1>1. \A x \in S : {y \in S : y < x} = {y \in S : <<y, x>> \in Ascending(S)}
    BY DEF Ascending
  <1>2. Reading!InOrder(S) =
            [k \in 1 .. Cardinality(S) |-> CHOOSE x \in S : Cardinality({y \in S : y < x}) = k - 1]
    BY DEF Reading!InOrder, Reading!Sorted, Reading!Cardinality, Cardinality
  <1>3. \A k : (CHOOSE x \in S : Cardinality({y \in S : y < x}) = k - 1)
               = CHOOSE x \in S : Cardinality({y \in S : <<y, x>> \in Ascending(S)}) = k - 1
    BY <1>1
  <1>4. Reading!InOrder(S) = Counted(S, Ascending(S))
    BY <1>2, <1>3 DEF Counted
  <1> QED
    BY <1>4, AscendingOrders, CountedIsListed

\* A list of numbers in order, each of a set once.
InSequence(t, S) ==
    /\ S \subseteq Nat /\ t \in Seq(S) /\ Len(t) = Cardinality(S) /\ Range(t) = S
    /\ \A i, j \in DOMAIN t : i < j => t[i] < t[j]

LEMMA InOrderIs ==
    ASSUME NEW S \in SUBSET Nat, IsFiniteSet(S)
    PROVE  InSequence(Reading!InOrder(S), S)
  <1> DEFINE t == Reading!InOrder(S)
  <1>1. Listed(t, S, Ascending(S)) /\ Orders(Ascending(S), S)
    BY InOrderIsListed, AscendingOrders
  <1> HIDE DEF t
  <1>2. t \in Seq(S) /\ Len(t) = Cardinality(S)
    BY <1>1, ListedOnce
  <1>3. Range(t) = S
    BY <1>1 DEF Listed, Range
  <1>4. \A i, j \in DOMAIN t : i < j => t[i] < t[j]
    BY <1>1 DEF Listed, Ascending
  <1>5. InSequence(t, S)
    BY <1>2, <1>3, <1>4 DEF InSequence
  <1> QED
    BY <1>5 DEF t

\* Pieces, each at a place of its own.
Pieces == [block : Reading!Blocks, from : Nat, to : Nat]
Apart(S) == S \subseteq Pieces /\ \A x, y \in S : x.block = y.block /\ x.from = y.from => x = y
EarlierIn(S) == {x \in S \X S : Reading!Earlier(x[1], x[2])}

LEMMA EarlierOrders ==
    ASSUME NEW S, Apart(S)
    PROVE  Orders(EarlierIn(S), S)
  <1>1. \A x, y \in S : <<x, y>> \in EarlierIn(S) <=> Reading!Earlier(x, y)
    BY DEF EarlierIn
  <1>2. \A x \in S : x.block \in Nat /\ x.from \in Nat
    BY PlacesAreNumbers DEF Apart, Pieces
  <1>3. \A x, y \in S : x # y => x.block # y.block \/ x.from # y.from
    BY DEF Apart
  <1> QED
    BY <1>1, <1>2, <1>3 DEF Orders, Reading!Earlier

ByPlaceSequence(t, S) ==
    /\ t \in Seq(S) /\ Len(t) = Cardinality(S) /\ Range(t) = S
    /\ \A i, j \in DOMAIN t : i < j => Reading!Earlier(t[i], t[j])

LEMMA ByPlaceIs ==
    ASSUME NEW S, IsFiniteSet(S), Apart(S)
    PROVE  ByPlaceSequence(Reading!ByPlace(S), S)
  <1> DEFINE t == Reading!ByPlace(S)
  <1>1. \A x \in S : {y \in S : Reading!Earlier(y, x)} = {y \in S : <<y, x>> \in EarlierIn(S)}
    BY DEF EarlierIn
  <1>2. t = [k \in 1 .. Cardinality(S) |->
                 CHOOSE x \in S : Cardinality({y \in S : Reading!Earlier(y, x)}) = k - 1]
    BY DEF Reading!ByPlace, Reading!Sorted, Reading!Cardinality, Cardinality
  <1>3. \A k : (CHOOSE x \in S : Cardinality({y \in S : Reading!Earlier(y, x)}) = k - 1)
               = CHOOSE x \in S : Cardinality({y \in S : <<y, x>> \in EarlierIn(S)}) = k - 1
    BY <1>1
  <1>4. t = Counted(S, EarlierIn(S))
    BY <1>2, <1>3 DEF Counted
  <1> HIDE DEF t
  <1>5. Listed(t, S, EarlierIn(S)) /\ Orders(EarlierIn(S), S)
    BY <1>4, EarlierOrders, CountedIsListed
  <1>6. t \in Seq(S) /\ Len(t) = Cardinality(S)
    BY <1>5, ListedOnce
  <1>7. Range(t) = S
    BY <1>5 DEF Listed, Range
  <1>8. \A i, j \in DOMAIN t : i < j => Reading!Earlier(t[i], t[j])
    BY <1>5 DEF Listed, EarlierIn
  <1>9. ByPlaceSequence(t, S)
    BY <1>6, <1>7, <1>8 DEF ByPlaceSequence
  <1> QED
    BY <1>9 DEF t

LEMMA ListsAreInSequence ==
    /\ \A d : InSequence(Reading!PagesOf(d), {p \in Reading!Pages : DocumentOf[p] = d})
    /\ \A p : InSequence(Reading!BlocksOf(p), {b \in Reading!Blocks : PageOf[b] = p})
    /\ \A d : InSequence(Reading!TextsOf(d), {b \in Reading!Blocks : DocumentOf[PageOf[b]] = d})
  <1>1. \A S \in SUBSET Reading!Pages : S \in SUBSET Nat
    BY PlacesAreNumbers
  <1>2. \A S \in SUBSET Reading!Blocks : S \in SUBSET Nat
    BY PlacesAreNumbers
  <1>3. \A S \in SUBSET Reading!Pages : IsFiniteSet(S)
    BY PlacesAreNumbers, FS_Subset
  <1>4. \A S \in SUBSET Reading!Blocks : IsFiniteSet(S)
    BY PlacesAreNumbers, FS_Subset
  <1> QED
    BY <1>1, <1>2, <1>3, <1>4, InOrderIs DEF Reading!PagesOf, Reading!BlocksOf, Reading!TextsOf

LEMMA InSequenceHas ==
    ASSUME NEW t, NEW S, InSequence(t, S)
    PROVE  /\ DOMAIN t = 1 .. Len(t) /\ Len(t) \in Nat
           /\ \A i \in DOMAIN t : t[i] \in S
           /\ \A x \in S : \E i \in DOMAIN t : t[i] = x
           /\ \A i, j \in DOMAIN t : t[i] < t[j] => i < j
           /\ \A i, j \in DOMAIN t : t[i] = t[j] => i = j
  <1>1. DOMAIN t = 1 .. Len(t) /\ Len(t) \in Nat /\ \A i \in DOMAIN t : t[i] \in S
    BY DEF InSequence
  <1>2. \A x \in S : \E i \in DOMAIN t : t[i] = x
    BY DEF InSequence, Range
  <1>3. \A i, j \in DOMAIN t : i < j => t[i] < t[j]
    BY DEF InSequence
  <1>4. \A i \in DOMAIN t : t[i] \in Nat /\ i \in Nat
    <2>1. S \subseteq Nat
      BY DEF InSequence
    <2>2. \A i \in DOMAIN t : i \in Nat
      BY <1>1
    <2> QED
      BY <1>1, <2>1, <2>2
  <1>5. ASSUME NEW i \in DOMAIN t, NEW j \in DOMAIN t, ~(i < j)  PROVE j < i \/ i = j
    BY <1>4, <1>5
  <1>6. \A i, j \in DOMAIN t : t[i] < t[j] => i < j
    BY <1>3, <1>4, <1>5
  <1>7. \A i, j \in DOMAIN t : t[i] = t[j] => i = j
    BY <1>3, <1>4, <1>5
  <1> QED
    BY <1>1, <1>2, <1>6, <1>7

-----------------------------------------------------------------------------
(* Reading: requests and cursors                                           *)

\* A request is a record of these fields.
Shaped(r) ==
    r = [tool |-> r.tool, doc |-> r.doc, page |-> r.page, block |-> r.block, start |-> r.start,
         end |-> r.end, pattern |-> r.pattern, cursor |-> r.cursor]

FirstOk(r) ==
    /\ Shaped(r) /\ r.cursor = None /\ r.doc \in Reading!Documents
    /\ r.tool \in {"open", "read", "grep"}
    /\ r.tool # "read" => r.block = None /\ r.start = None /\ r.end = None
    /\ r.tool = "grep" => r.page = None /\ r.pattern \in Patterns
    /\ r.tool # "grep" => r.pattern = None
    /\ r.page # None => r.page \in Reading!Pages /\ r.doc = DocumentOf[r.page]
    /\ r.block # None => r.block \in Reading!Blocks
    /\ r.tool = "read" =>
           /\ (r.page = None) # (r.block = None)
           /\ r.page # None => r.start = None /\ r.end = None
           /\ {r.start, r.end} \subseteq {None} \cup 0 .. BlockLength

LEMMA NoneIsNoPlace ==
    /\ None \notin Reading!Blocks /\ None \notin Reading!Pages
    /\ None # "open" /\ None # "read" /\ None # "grep" /\ None # "grep all"
  <1>1. None \notin Nat /\ None \notin {"open", "read", "grep", "grep all"}
    BY ReadingBounds
  <1>2. Reading!Blocks \subseteq Nat /\ Reading!Pages \subseteq Nat
    BY PlacesAreNumbers
  <1> QED
    BY ONLY <1>1, <1>2

LEMMA NoRequestIs ==
    /\ Shaped(Reading!NoRequest) /\ Reading!NoRequest.tool = None /\ Reading!NoRequest.cursor = None
    /\ Reading!NoRequest.doc = None /\ Reading!NoRequest.page = None /\ Reading!NoRequest.block = None
    /\ Reading!NoRequest.start = None /\ Reading!NoRequest.end = None /\ Reading!NoRequest.pattern = None
  BY DEF Reading!NoRequest, Shaped

LEMMA FirstRequestIs ==
    ASSUME NEW r \in Reading!FirstRequests
    PROVE  FirstOk(r)
  <1> USE NoneIsNoPlace, PlacesAreNumbers
  <1>1. CASE \E d \in Reading!Documents : r = Reading!Opening(d, None)
    <2>1. PICK d \in Reading!Documents : r = Reading!Opening(d, None)
      BY <1>1
    <2>2. r = [tool |-> "open", doc |-> d, page |-> None, block |-> None, start |-> None,
               end |-> None, pattern |-> None, cursor |-> None]
      BY <2>1 DEF Reading!Opening, Reading!NoRequest
    <2> QED
      BY <2>2 DEF FirstOk, Shaped
  <1>2. CASE \E p \in Reading!Pages : r = Reading!Opening(DocumentOf[p], p)
    <2>1. PICK p \in Reading!Pages : r = Reading!Opening(DocumentOf[p], p)
      BY <1>2
    <2>2. r = [tool |-> "open", doc |-> DocumentOf[p], page |-> p, block |-> None, start |-> None,
               end |-> None, pattern |-> None, cursor |-> None]
      BY <2>1 DEF Reading!Opening, Reading!NoRequest
    <2> QED
      BY <2>2 DEF FirstOk, Shaped
  <1>3. CASE \E p \in Reading!Pages : r = Reading!ReadingPage(p)
    <2>1. PICK p \in Reading!Pages : r = Reading!ReadingPage(p)
      BY <1>3
    <2>2. r = [tool |-> "read", doc |-> DocumentOf[p], page |-> p, block |-> None, start |-> None,
               end |-> None, pattern |-> None, cursor |-> None]
      BY <2>1 DEF Reading!ReadingPage, Reading!NoRequest
    <2> QED
      BY <2>2 DEF FirstOk, Shaped
  <1>4. CASE \E x \in Reading!Blocks \X Reading!Ends \X Reading!Ends : r = Reading!ReadingBlock(x[1], x[2], x[3])
    <2>1. PICK b \in Reading!Blocks, s \in Reading!Ends, e \in Reading!Ends : r = Reading!ReadingBlock(b, s, e)
      BY <1>4
    <2>2. r = [tool |-> "read", doc |-> DocumentOf[PageOf[b]], page |-> None, block |-> b, start |-> s,
               end |-> e, pattern |-> None, cursor |-> None]
      BY <2>1 DEF Reading!ReadingBlock, Reading!NoRequest
    <2>3. s \in {None} \cup 0 .. BlockLength /\ e \in {None} \cup 0 .. BlockLength
      BY DEF Reading!Ends
    <2> QED
      BY <2>2, <2>3 DEF FirstOk, Shaped
  <1>5. CASE \E x \in Reading!Documents \X Patterns : r = Reading!Searching(x[1], x[2])
    <2>1. PICK d \in Reading!Documents, w \in Patterns : r = Reading!Searching(d, w)
      BY <1>5
    <2>2. r = [tool |-> "grep", doc |-> d, page |-> None, block |-> None, start |-> None,
               end |-> None, pattern |-> w, cursor |-> None]
      BY <2>1 DEF Reading!Searching, Reading!NoRequest
    <2> QED
      BY <2>2 DEF FirstOk, Shaped
  <1> QED
    BY <1>1, <1>2, <1>3, <1>4, <1>5 DEF Reading!FirstRequests

PageBehind(r) == IF r.tool = "open" THEN None ELSE r.page

LEMMA HandleIs ==
    ASSUME NEW r, Shaped(r), NEW p, p # None
    PROVE  Reading!Handle(r, p) =
               [tool |-> r.tool, doc |-> r.doc, page |-> PageBehind(r), block |-> r.block, start |-> None,
                end |-> None, pattern |-> r.pattern, cursor |-> Reading!CursorOf(r, p)]
  <1>1. PICK t, d, g, b, s, e, w, c :
            r = [tool |-> t, doc |-> d, page |-> g, block |-> b, start |-> s, end |-> e, pattern |-> w, cursor |-> c]
    BY DEF Shaped
  <1>2. Reading!Handle(r, p) =
            [r EXCEPT !.page = IF r.tool = "open" THEN None ELSE @, !.start = None, !.end = None,
                      !.cursor = Reading!CursorOf(r, p)]
    BY DEF Reading!Handle
  <1> QED
    BY <1>1, <1>2 DEF PageBehind

\* The handle of an answer to a handle is that of an answer to the first request.
LEMMA HandleAgain ==
    ASSUME NEW r, Shaped(r), NEW p, p # None, NEW q
    PROVE  Reading!Handle(Reading!Handle(r, p), q) = Reading!Handle(r, q)
  <1>1. CASE q = None
    BY <1>1 DEF Reading!Handle
  <1>2. CASE q # None
    <2> DEFINE h == Reading!Handle(r, p)
    <2>1. h = [tool |-> r.tool, doc |-> r.doc, page |-> PageBehind(r), block |-> r.block, start |-> None,
                end |-> None, pattern |-> r.pattern, cursor |-> Reading!CursorOf(r, p)]
      BY HandleIs
    <2> HIDE DEF h
    <2>2. /\ Shaped(h) /\ h.tool = r.tool /\ h.doc = r.doc /\ h.page = PageBehind(r) /\ h.block = r.block
          /\ h.pattern = r.pattern
      BY <2>1 DEF Shaped
    <2>3. Reading!CursorOf(h, q) = Reading!CursorOf(r, q) /\ PageBehind(h) = PageBehind(r)
      BY <2>2 DEF Reading!CursorOf, Reading!Bound, PageBehind
    <2>4. Reading!Handle(h, q) = Reading!Handle(r, q)
      BY <1>2, <2>2, <2>3, HandleIs
    <2> QED
      BY <2>4 DEF h
  <1> QED
    BY <1>1, <1>2

-----------------------------------------------------------------------------
(* Reading: how an answer goes on                                          *)

ContentOk == content \in [Reading!Blocks -> Reading!Texts]

LEMMA TextsAreShort ==
    ASSUME ContentOk, NEW b \in Reading!Blocks
    PROVE  content[b] \in Seq(Letters) /\ Len(content[b]) \in 0 .. BlockLength
  <1>1. PICK n \in 0 .. BlockLength : content[b] \in [1 .. n -> Letters]
    BY DEF ContentOk, Reading!Texts
  <1>2. n \in Nat /\ BlockLength \in Nat /\ 0 <= n /\ n <= BlockLength
    <2>1. BlockLength \in Nat
      BY ReadingBounds
    <2> QED
      BY <2>1
  <1>3. content[b] \in Seq(Letters) /\ Len(content[b]) = n
    BY <1>1, <1>2
  <1> QED
    BY <1>2, <1>3

\* The place from which a reading goes on, as its cursor tells it.
Goes(r, p) ==
    /\ p \in Reading!Positions
    /\ r.tool = "open" => p.block = None /\ p.offset \in 1 .. Len(Reading!PagesOf(r.doc))
    /\ r.tool = "read" /\ r.block # None =>
           /\ p.block = None /\ p.end \in 0 .. BlockLength /\ p.offset < p.end
           /\ r.block \notin edited => p.end <= Len(content[r.block])
    /\ r.tool = "read" /\ r.block = None =>
           /\ p.block \in 1 .. Len(Reading!BlocksOf(r.page)) /\ p.offset <= BlockLength
    /\ r.tool = "grep" => p.block \in 1 .. Len(Reading!TextsOf(r.doc)) /\ p.offset <= BlockLength

\* c continues the reading that began with r, or is r.
Going(r, c) ==
    /\ FirstOk(r) /\ Shaped(c)
    /\ c.tool = r.tool /\ c.doc = r.doc /\ c.block = r.block /\ c.pattern = r.pattern
    /\ r.tool # "open" => c.page = r.page
    /\ c # r => /\ c.start = None /\ c.end = None /\ c.page = PageBehind(r)
                /\ \E p : Goes(r, p) /\ c.cursor = Reading!CursorOf(r, p)

LEMMA CursorsAreTyped ==
    ASSUME NEW r, FirstOk(r), NEW p \in Reading!Positions
    PROVE  /\ Reading!CursorOf(r, p) \in Reading!Cursors /\ Reading!CursorOf(r, p) # None
           /\ Reading!CursorOf(r, p).position = p
  <1>1. r.doc \in Nat /\ r.tool \in {"open", "read", "grep"}
    <2>1. PICK d \in Reading!Pages : r.doc = DocumentOf[d]
      BY DEF FirstOk, Reading!Documents, Reading!Range, Reading!Pages
    <2> QED
      BY <2>1, PlacesAreNumbers DEF FirstOk
  <1>2. r.page \in Reading!Pages \cup {None} /\ r.block \in Reading!Blocks \cup {None}
        /\ r.pattern \in Patterns \cup {None}
    BY DEF FirstOk
  <1>3. Reading!Bound(r) \in {<<>>} \cup (Reading!Pages \cup {None}) \X (Reading!Blocks \cup {None})
                                        \X (Patterns \cup {None})
    BY <1>2 DEF Reading!Bound
  <1>4. Reading!CursorOf(r, p) = [doc |-> r.doc, op |-> r.tool, args |-> Reading!Bound(r), position |-> p]
    BY DEF Reading!CursorOf
  <1>5. Reading!CursorOf(r, p) \in Reading!Cursors /\ Reading!CursorOf(r, p).position = p
    BY ONLY <1>1, <1>3, <1>4 DEF Reading!Cursors
  <1> QED
    BY <1>5, ReadingBounds

LEMMA CursorIs ==
    ASSUME NEW r, NEW c, Going(r, c)
    PROVE  /\ c.cursor = None <=> c = r
           /\ c.cursor # None => Goes(r, c.cursor.position) /\ c.cursor = Reading!CursorOf(r, c.cursor.position)
  <1>1. CASE c = r
    BY <1>1 DEF Going, FirstOk
  <1>2. CASE c # r
    <2>1. PICK p : Goes(r, p) /\ c.cursor = Reading!CursorOf(r, p)
      BY <1>2 DEF Going
    <2>2. p \in Reading!Positions /\ FirstOk(r)
      BY <2>1 DEF Going, Goes
    <2>3. c.cursor # None /\ c.cursor.position = p
      BY <2>1, <2>2, CursorsAreTyped
    <2> QED
      BY <1>2, <2>1, <2>3
  <1> QED
    BY <1>1, <1>2

After(c, p) ==
    c.cursor # None =>
        \/ p.offset > c.cursor.position.offset /\ p.block = c.cursor.position.block
        \/ p.block # c.cursor.position.block /\ p.block > c.cursor.position.block

SomePieces == [block : Reading!Blocks, from : 0 .. BlockLength, to : 0 .. BlockLength]
ItemsOf(r) == IF r.tool = "open" THEN Seq(Reading!Pages) ELSE Seq(SomePieces)

\* What every answer is to which the reader goes on.
GoesOn(r, c, a) ==
    /\ a.items \in ItemsOf(r)
    /\ a.next # None => Goes(r, a.next) /\ After(c, a.next)

LEMMA PositionsAreTyped ==
    \A b \in Nat \cup {None}, o \in Nat, e \in Nat \cup {None} :
        /\ Reading!Position(b, o, e) \in Reading!Positions
        /\ Reading!Position(b, o, e) # None
  <1>1. \A b \in Nat \cup {None}, o \in Nat, e \in Nat \cup {None} :
            Reading!Position(b, o, e) \in Reading!Positions
    BY DEF Reading!Position, Reading!Positions
  <1>2. None \notin Reading!Positions
    BY ReadingBounds
  <1> QED
    BY <1>1, <1>2

\* Where an answer to open begins.
OpensAt(c) ==
    IF c.cursor # None THEN c.cursor.position.offset
    ELSE IF c.page = None THEN 1 ELSE CHOOSE i \in DOMAIN Reading!PagesOf(c.doc) : Reading!PagesOf(c.doc)[i] = c.page

LEMMA OpensInside ==
    ASSUME NEW r, NEW c, Going(r, c), r.tool = "open"
    PROVE  /\ OpensAt(c) \in 1 .. Len(Reading!PagesOf(c.doc))
           /\ c.cursor = None /\ c.page # None => Reading!PagesOf(c.doc)[OpensAt(c)] = c.page
  <1> DEFINE pages == Reading!PagesOf(c.doc)
             S == {p \in Reading!Pages : DocumentOf[p] = c.doc}
  <1>1. InSequence(pages, S)
    BY ListsAreInSequence
  <1>2. /\ DOMAIN pages = 1 .. Len(pages) /\ Len(pages) \in Nat
        /\ \A x \in S : \E i \in DOMAIN pages : pages[i] = x
    <2> HIDE DEF pages, S
    <2> QED
      BY <1>1, InSequenceHas
  <1>3. FirstOk(r) /\ c.doc = r.doc
    BY DEF Going
  <1>4. CASE c.cursor # None
    <2>1. Goes(r, c.cursor.position)
      BY <1>4, CursorIs
    <2> QED
      BY <1>3, <1>4, <2>1 DEF Goes, OpensAt
  <1>5. CASE c.cursor = None /\ c.page = None
    <2>1. PICK d \in Reading!Pages : DocumentOf[d] = c.doc
      BY <1>3 DEF FirstOk, Reading!Documents, Reading!Range, Reading!Pages
    <2>2. PICK i \in DOMAIN pages : pages[i] = d
      BY <1>2, <2>1
    <2>3. 1 \in 1 .. Len(pages)
      BY <1>2, <2>2
    <2> QED
      BY <1>5, <2>3 DEF OpensAt
  <1>6. CASE c.cursor = None /\ c.page # None
    <2>1. c = r
      BY <1>6, CursorIs
    <2>2. c.page \in S
      BY <1>3, <1>6, <2>1 DEF FirstOk
    <2>3. OpensAt(c) = CHOOSE i \in DOMAIN pages : pages[i] = c.page
      BY <1>6 DEF OpensAt
    <2>4. OpensAt(c) \in DOMAIN pages /\ pages[OpensAt(c)] = c.page
      BY <1>2, <2>2, <2>3
    <2> QED
      BY <1>2, <2>4
  <1> QED
    BY <1>4, <1>5, <1>6

LEMMA OpenGoesOn ==
    ASSUME NEW r, NEW c, Going(r, c), r.tool = "open"
    PROVE  GoesOn(r, c, Reading!Open(c))
  <1> DEFINE pages == Reading!PagesOf(c.doc)
             first == OpensAt(c)
             last == Reading!Min2(Len(pages), first + OpenBatch - 1)
             next == IF last < Len(pages) THEN Reading!Position(None, last + 1, None) ELSE None
             a == Reading!Open(c)
  <1>1. a.items = SubSeq(pages, first, last) /\ a.next = next
    <2>1. a = Reading!Answer(SubSeq(pages, first, last), next, 0)
      BY DEF Reading!Open, OpensAt
    <2> HIDE DEF a, next, last, first, pages
    <2> QED
      BY <2>1 DEF Reading!Answer
  <1>2. pages \in Seq(Reading!Pages) /\ Len(pages) \in Nat
    <2>1. InSequence(pages, {p \in Reading!Pages : DocumentOf[p] = c.doc})
      BY ListsAreInSequence
    <2> HIDE DEF pages
    <2> QED
      BY <2>1 DEF InSequence
  <1>3. first \in 1 .. Len(pages)
    BY OpensInside
  <1>4. c.doc = r.doc
    BY DEF Going
  <1> HIDE DEF pages, first, a
  <1>5. OpenBatch \in Nat \ {0}
    BY ReadingBounds
  <1>6. last \in first .. Len(pages) /\ (last < Len(pages) => last = first + OpenBatch - 1)
    BY <1>2, <1>3, <1>5 DEF Reading!Min2
  <1> HIDE DEF last
  <1>7. SubSeq(pages, first, last) \in Seq(Reading!Pages)
    BY <1>2, <1>3, <1>6
  <1>8. ASSUME next # None  PROVE Goes(r, next) /\ After(c, next)
    <2>1. next = Reading!Position(None, last + 1, None) /\ last < Len(pages)
      BY <1>8
    <2>2. last + 1 \in 1 .. Len(pages) /\ last + 1 > first /\ last + 1 \in Nat
      <3> HIDE DEF next
      <3>1. PICK n \in Nat : n = Len(pages)
        BY <1>2
      <3>2. first \in 1 .. n /\ last \in first .. n /\ last < n
        BY <1>3, <1>6, <2>1, <3>1
      <3>3. last + 1 \in 1 .. n /\ last + 1 > first /\ last + 1 \in Nat
        BY ONLY <3>1, <3>2
      <3> QED
        BY <3>1, <3>3
    <2>3. next \in Reading!Positions /\ next.block = None /\ next.offset = last + 1 /\ next.end = None
      BY <2>1, <2>2, PositionsAreTyped DEF Reading!Position
    <2>4. Goes(r, next)
      BY <1>4, <2>2, <2>3 DEF Goes, pages
    <2>5. ASSUME c.cursor # None  PROVE c.cursor.position.block = None /\ c.cursor.position.offset = first
      <3>1. Goes(r, c.cursor.position)
        BY <2>5, CursorIs
      <3> QED
        BY <2>5, <3>1 DEF Goes, first, OpensAt
    <2> QED
      BY <2>2, <2>3, <2>4, <2>5 DEF After
  <1> HIDE DEF next
  <1> QED
    BY <1>1, <1>7, <1>8 DEF GoesOn, ItemsOf, a

\* Where an answer to a read of a block begins and where the reading ends.
ReadsAt(c) ==
    IF c.cursor # None THEN c.cursor.position.offset ELSE IF c.start = None THEN 0 ELSE c.start
ReadsTo(c) ==
    IF c.cursor # None THEN c.cursor.position.end
    ELSE IF c.end = None THEN Len(content[c.block]) ELSE c.end

LEMMA ReadBlockIs ==
    ASSUME NEW c, NEW n \in Nat
    PROVE  Reading!ReadBlock(c, n) =
               IF ~(0 <= ReadsAt(c) /\ ReadsAt(c) <= ReadsTo(c) /\ ReadsTo(c) <= Len(content[c.block])) THEN Reading!Refusal
               ELSE Reading!Answer(<<Reading!Piece(c.block, ReadsAt(c), Reading!Stop(ReadsTo(c), ReadsAt(c), n))>>,
                        IF Reading!Stop(ReadsTo(c), ReadsAt(c), n) < ReadsTo(c)
                        THEN Reading!Position(None, Reading!Stop(ReadsTo(c), ReadsAt(c), n), ReadsTo(c)) ELSE None,
                        Reading!Stop(ReadsTo(c), ReadsAt(c), n) - ReadsAt(c))
  BY DEF Reading!ReadBlock, ReadsAt, ReadsTo

LEMMA ReadsInside ==
    ASSUME ContentOk, NEW r, NEW c, Going(r, c), r.tool = "read", r.block # None
    PROVE  /\ ReadsAt(c) \in Nat /\ ReadsTo(c) \in 0 .. BlockLength /\ c.block \in Reading!Blocks
           /\ c.cursor # None => ReadsAt(c) < ReadsTo(c)
  <1>1. FirstOk(r) /\ c.block = r.block /\ c.block \in Reading!Blocks /\ BlockLength \in Nat
    BY ReadingBounds DEF Going, FirstOk
  <1>2. Len(content[c.block]) \in 0 .. BlockLength
    BY <1>1, TextsAreShort
  <1>3. CASE c.cursor # None
    <2>1. Goes(r, c.cursor.position)
      BY <1>3, CursorIs
    <2>2. ReadsAt(c) = c.cursor.position.offset /\ ReadsTo(c) = c.cursor.position.end
      BY <1>3 DEF ReadsAt, ReadsTo
    <2>3. c.cursor.position.offset \in Nat
      BY <2>1 DEF Goes, Reading!Positions
    <2> QED
      BY <1>1, <2>1, <2>2, <2>3 DEF Goes
  <1>4. CASE c.cursor = None
    <2>1. c = r
      BY <1>4, CursorIs
    <2>2. c.start \in {None} \cup 0 .. BlockLength /\ c.end \in {None} \cup 0 .. BlockLength
      BY <1>1, <2>1 DEF FirstOk
    <2>3. ReadsAt(c) \in Nat
      BY <1>4, <2>2 DEF ReadsAt
    <2>4. ReadsTo(c) \in 0 .. BlockLength
      BY <1>2, <1>4, <2>2 DEF ReadsTo
    <2> QED
      BY <1>1, <1>4, <2>3, <2>4
  <1> QED
    BY <1>3, <1>4

LEMMA ReadBlockGoesOn ==
    ASSUME ContentOk, NEW r, NEW c, Going(r, c), r.tool = "read", r.block # None,
           NEW n \in Nat \ {0}, Reading!ReadBlock(c, n).ok
    PROVE  GoesOn(r, c, Reading!ReadBlock(c, n))
  <1> DEFINE a == Reading!ReadBlock(c, n)
             next == IF Reading!Stop(ReadsTo(c), ReadsAt(c), n) < ReadsTo(c)
                     THEN Reading!Position(None, Reading!Stop(ReadsTo(c), ReadsAt(c), n), ReadsTo(c)) ELSE None
  <1>1. PICK begin, end, stop :
            begin = ReadsAt(c) /\ end = ReadsTo(c) /\ stop = Reading!Stop(ReadsTo(c), ReadsAt(c), n)
    OBVIOUS
  <1>2. Reading!Refusal.ok = FALSE
    BY DEF Reading!Refusal, Reading!Answer
  <1>3. /\ 0 <= begin /\ begin <= end /\ end <= Len(content[c.block])
        /\ a = Reading!Answer(<<Reading!Piece(c.block, begin, stop)>>, next, stop - begin)
    <2> HIDE DEF next
    <2> QED
      BY <1>1, <1>2, ReadBlockIs DEF next
  <1>4. /\ begin \in Nat /\ end \in 0 .. BlockLength /\ c.block \in Reading!Blocks
        /\ c.cursor # None => begin < end
    BY <1>1, ReadsInside
  <1>5. BlockLength \in Nat /\ c.block = r.block
    BY ReadingBounds DEF Going
  <1>6. /\ begin \in 0 .. BlockLength /\ stop \in 0 .. BlockLength
        /\ stop < end => stop > begin
    <2>1. stop = IF end <= begin + n THEN end ELSE begin + n
      BY <1>1 DEF Reading!Stop, Reading!Min2
    <2>2. end \in Nat /\ end <= BlockLength
      BY <1>4, <1>5
    <2>3. begin <= end
      BY <1>3
    <2>4. begin \in Nat
      BY <1>4
    <2>5. BlockLength \in Nat
      BY <1>5
    <2> QED
      BY ONLY <2>1, <2>2, <2>3, <2>4, <2>5, n \in Nat \ {0}
  <1>7. a.items = <<Reading!Piece(c.block, begin, stop)>> /\ a.next = next
    <2> HIDE DEF next, a
    <2> QED
      BY <1>3 DEF Reading!Answer
  <1>8. a.items \in Seq(SomePieces)
    <2>1. Reading!Piece(c.block, begin, stop) \in SomePieces
      BY <1>4, <1>6 DEF SomePieces, Reading!Piece
    <2> HIDE DEF a
    <2> QED
      BY <1>7, <2>1
  <1>9. ASSUME next # None  PROVE Goes(r, next) /\ After(c, next)
    <2>1. next = Reading!Position(None, stop, end) /\ stop < end
      BY <1>1, <1>9
    <2> HIDE DEF next
    <2>2. next \in Reading!Positions /\ next.block = None /\ next.offset = stop /\ next.end = end
      <3>1. stop \in Nat /\ end \in Nat
        BY <1>4, <1>5, <1>6
      <3> QED
        BY <2>1, <3>1, PositionsAreTyped DEF Reading!Position
    <2>3. Goes(r, next)
      BY <1>3, <1>4, <1>5, <2>1, <2>2 DEF Goes
    <2>4. ASSUME c.cursor # None  PROVE c.cursor.position.block = None /\ c.cursor.position.offset = begin
      <3>1. Goes(r, c.cursor.position)
        BY <2>4, CursorIs
      <3> QED
        BY <1>1, <2>4, <3>1 DEF Goes, ReadsAt
    <2> QED
      BY <1>6, <2>1, <2>2, <2>3, <2>4 DEF After
  <1> HIDE DEF next
  <1> QED
    BY <1>7, <1>8, <1>9 DEF GoesOn, ItemsOf, a

-----------------------------------------------------------------------------
(* Reading a page, block by block                                          *)

PageAt(c) == IF c.cursor = None THEN 1 ELSE c.cursor.position.block
Begins(c, k) == IF c.cursor # None /\ k = PageAt(c) THEN c.cursor.position.offset ELSE 0
PageReads(c, n, a, k) ==
    LET length == Len(content[Reading!BlocksOf(c.page)[k]])
        stop == Reading!Stop(length, Begins(c, k), Reading!Room(n, a.used))
    IN CASE a.next # None -> a
         [] a.next = None /\ Reading!Room(n, a.used) <= 0 -> [a EXCEPT !.next = Reading!Position(k, Begins(c, k), None)]
         [] OTHER -> Reading!Answer(Append(a.items, Reading!Piece(Reading!BlocksOf(c.page)[k], Begins(c, k), stop)),
                                    IF stop < length THEN Reading!Position(k, stop, None) ELSE None,
                                    a.used + stop - Begins(c, k))
ToRead(c) == Len(Reading!BlocksOf(c.page)) - PageAt(c) + 1
PageResults == [ok : {TRUE}, items : Seq(SomePieces), next : Reading!Positions \cup {None}, used : Int,
                budget : Nat, more : {{}}]
NothingRead == Reading!Answer(<<>>, None, 0)

PageWalks(h, c, n) ==
    /\ h \in [0 .. ToRead(c) -> PageResults] /\ h[0] = NothingRead
    /\ \A k \in 1 .. ToRead(c) : h[k] = PageReads(c, n, h[k - 1], PageAt(c) + k - 1)

LEMMA PageInside ==
    ASSUME NEW r, NEW c, Going(r, c), r.tool = "read", r.block = None
    PROVE  /\ c.page \in Reading!Pages /\ c.page = r.page /\ c.block = None
           /\ Len(Reading!BlocksOf(c.page)) \in Nat
           /\ \A k \in 1 .. Len(Reading!BlocksOf(c.page)) : Reading!BlocksOf(c.page)[k] \in Reading!Blocks
           /\ PageAt(c) \in Nat \ {0} /\ ToRead(c) \in Nat
           /\ \A k \in Nat : Begins(c, k) \in 0 .. BlockLength
           /\ c.cursor # None => /\ PageAt(c) \in 1 .. Len(Reading!BlocksOf(c.page))
                                 /\ c.cursor.position.offset = Begins(c, PageAt(c))
  <1>1. FirstOk(r) /\ c.block = None /\ c.page = r.page /\ BlockLength \in Nat
    BY ReadingBounds DEF Going
  <1>2. c.page \in Reading!Pages
    BY <1>1 DEF FirstOk
  <1> DEFINE blocks == Reading!BlocksOf(c.page)
             S == {b \in Reading!Blocks : PageOf[b] = c.page}
  <1>3. InSequence(blocks, S) /\ S \subseteq Reading!Blocks
    BY ListsAreInSequence
  <1> HIDE DEF blocks, S
  <1>4. Len(blocks) \in Nat /\ \A k \in 1 .. Len(blocks) : blocks[k] \in Reading!Blocks
    BY <1>3, InSequenceHas
  <1>5. CASE c.cursor # None
    <2>1. Goes(r, c.cursor.position)
      BY <1>5, CursorIs
    <2>2. PageAt(c) = c.cursor.position.block /\ PageAt(c) \in 1 .. Len(blocks)
      BY <1>1, <1>5, <2>1 DEF PageAt, Goes, blocks
    <2>3. c.cursor.position.offset \in 0 .. BlockLength
      <3>1. c.cursor.position.offset \in Nat /\ c.cursor.position.offset <= BlockLength
        BY <2>1 DEF Goes, Reading!Positions
      <3> QED
        BY <1>1, <3>1
    <2>4. \A k \in Nat : Begins(c, k) \in 0 .. BlockLength
      BY <1>1, <2>3 DEF Begins
    <2>5. ToRead(c) \in Nat
      BY <1>4, <2>2 DEF ToRead, blocks
    <2>6. Begins(c, PageAt(c)) = c.cursor.position.offset
      BY <1>5 DEF Begins
    <2>7. PageAt(c) \in Nat \ {0}
      BY <1>4, <2>2
    <2> QED
      BY ONLY <1>1, <1>2, <1>4, <2>2, <2>4, <2>5, <2>6, <2>7 DEF blocks
  <1>6. CASE c.cursor = None
    <2>1. PageAt(c) = 1 /\ \A k : Begins(c, k) = 0
      BY <1>6 DEF PageAt, Begins
    <2>2. ToRead(c) \in Nat
      BY <1>4, <2>1 DEF ToRead, blocks
    <2> QED
      BY <1>1, <1>2, <1>4, <1>6, <2>1, <2>2 DEF blocks
  <1> QED
    BY <1>5, <1>6

\* One block more.
OneBlockMore(c, n, a, k, b) ==
    \/ a.next # None /\ b = a
    \/ /\ a.next = None /\ n - a.used <= 0
       /\ b = [a EXCEPT !.next = Reading!Position(k, Begins(c, k), None)]
    \/ /\ a.next = None /\ n - a.used > 0
       /\ \E length, stop :
              /\ length = Len(content[Reading!BlocksOf(c.page)[k]])
              /\ stop = IF length <= Begins(c, k) + (n - a.used) THEN length ELSE Begins(c, k) + (n - a.used)
              /\ b.items = Append(a.items, Reading!Piece(Reading!BlocksOf(c.page)[k], Begins(c, k), stop))
              /\ b.next = IF stop < length THEN Reading!Position(k, stop, None) ELSE None
              /\ b.used = a.used + stop - Begins(c, k)
              /\ b.ok = TRUE /\ b.budget = MaxBudget /\ b.more = {}
              /\ b = Reading!Answer(b.items, b.next, b.used)

LEMMA PageReadsIs ==
    ASSUME NEW c, NEW n \in Nat, NEW a \in PageResults, NEW k
    PROVE  OneBlockMore(c, n, a, k, PageReads(c, n, a, k))
  <1>1. a.used \in Int
    BY DEF PageResults
  <1>2. CASE a.next # None
    BY <1>2 DEF PageReads, OneBlockMore
  <1>3. CASE a.next = None /\ n - a.used <= 0
    BY <1>3 DEF PageReads, OneBlockMore, Reading!Room
  <1>4. CASE a.next = None /\ n - a.used > 0
    <2>1. PICK length, stop :
              /\ length = Len(content[Reading!BlocksOf(c.page)[k]])
              /\ stop = IF length <= Begins(c, k) + (n - a.used) THEN length ELSE Begins(c, k) + (n - a.used)
      OBVIOUS
    <2>2. stop = Reading!Stop(length, Begins(c, k), Reading!Room(n, a.used)) /\ ~(Reading!Room(n, a.used) <= 0)
      BY <1>1, <1>4, <2>1 DEF Reading!Stop, Reading!Room, Reading!Min2
    <2>3. PICK items, next, used :
              /\ items = Append(a.items, Reading!Piece(Reading!BlocksOf(c.page)[k], Begins(c, k), stop))
              /\ next = IF stop < length THEN Reading!Position(k, stop, None) ELSE None
              /\ used = a.used + stop - Begins(c, k)
      OBVIOUS
    <2>4. PageReads(c, n, a, k) = Reading!Answer(items, next, used)
      BY <1>4, <2>1, <2>2, <2>3 DEF PageReads
    <2>5. PICK b : b = PageReads(c, n, a, k)
      OBVIOUS
    <2>6. /\ b.items = items /\ b.next = next /\ b.used = used
          /\ b.ok = TRUE /\ b.budget = MaxBudget /\ b.more = {}
      BY <2>4, <2>5 DEF Reading!Answer
    <2>7. b = Reading!Answer(b.items, b.next, b.used)
      BY <2>4, <2>5, <2>6
    <2>8. OneBlockMore(c, n, a, k, b)
      BY <1>4, <2>1, <2>3, <2>6, <2>7 DEF OneBlockMore
    <2> QED
      BY <2>5, <2>8
  <1> QED
    BY <1>1, <1>2, <1>3, <1>4


LEMMA OneBlockMoreIsTyped ==
    ASSUME ContentOk, NEW r, NEW c, Going(r, c), r.tool = "read", r.block = None,
           NEW n \in Nat, NEW a \in PageResults, NEW b,
           NEW k \in 1 .. Len(Reading!BlocksOf(c.page)), OneBlockMore(c, n, a, k, b)
    PROVE  b \in PageResults
  <1>1. Reading!BlocksOf(c.page)[k] \in Reading!Blocks /\ k \in Nat /\ Begins(c, k) \in 0 .. BlockLength
    BY PageInside
  <1>0. BlockLength \in Nat /\ MaxBudget \in Nat /\ a.used \in Int /\ a.items \in Seq(SomePieces)
    BY ReadingBounds DEF PageResults
  <1>7. Begins(c, k) \in Nat
    BY <1>0, <1>1
  <1>2. CASE a.next # None
    BY <1>2 DEF OneBlockMore
  <1>3. CASE a.next = None /\ n - a.used <= 0 /\ b = [a EXCEPT !.next = Reading!Position(k, Begins(c, k), None)]
    <2>1. Reading!Position(k, Begins(c, k), None) \in Reading!Positions
      BY <1>1, <1>7, PositionsAreTyped
    <2> QED
      BY <1>3, <2>1 DEF PageResults
  <1>4. ASSUME NEW length, NEW stop,
               a.next = None, n - a.used > 0,
               length = Len(content[Reading!BlocksOf(c.page)[k]]),
               stop = IF length <= Begins(c, k) + (n - a.used) THEN length ELSE Begins(c, k) + (n - a.used),
               b.items = Append(a.items, Reading!Piece(Reading!BlocksOf(c.page)[k], Begins(c, k), stop)),
               b.next = IF stop < length THEN Reading!Position(k, stop, None) ELSE None,
               b.used = a.used + stop - Begins(c, k),
               b = Reading!Answer(b.items, b.next, b.used)
        PROVE  b \in PageResults
    <2>1. length \in 0 .. BlockLength
      BY <1>1, <1>4, TextsAreShort
    <2>2. stop \in 0 .. BlockLength /\ b.used \in Int
      <3>1. PICK u \in Int : u = a.used
        BY <1>0
      <3>2. PICK f \in Nat : f = Begins(c, k)
        BY <1>7
      <3>3. n - u > 0
        BY <1>4, <3>1
      <3>4. stop = IF length <= f + (n - u) THEN length ELSE f + (n - u)
        BY <1>4, <3>1, <3>2
      <3>5. n \in Nat /\ length \in 0 .. BlockLength /\ BlockLength \in Nat
        BY <1>0, <2>1
      <3>6. stop \in 0 .. BlockLength /\ u + stop - f \in Int
        BY ONLY <3>1, <3>2, <3>3, <3>4, <3>5
      <3> QED
        BY <1>4, <3>1, <3>2, <3>6
    <2>3. Reading!Piece(Reading!BlocksOf(c.page)[k], Begins(c, k), stop) \in SomePieces
      BY <1>1, <2>2 DEF Reading!Piece, SomePieces
    <2>4. b.items \in Seq(SomePieces)
      <3> DEFINE piece == Reading!Piece(Reading!BlocksOf(c.page)[k], Begins(c, k), stop)
      <3>1. b.items = Append(a.items, piece)
        BY <1>4
      <3> HIDE DEF piece
      <3> QED
        BY <1>0, <2>3, <3>1 DEF piece
    <2>5. b.next \in Reading!Positions \cup {None}
      <3>1. stop \in Nat
        BY <1>0, <2>2
      <3> QED
        BY <1>1, <1>4, <3>1, PositionsAreTyped
    <2>6. PICK i, x, u : i = b.items /\ x = b.next /\ u = b.used
      OBVIOUS
    <2>7. b = [ok |-> TRUE, items |-> i, next |-> x, used |-> u, budget |-> MaxBudget, more |-> {}]
      BY <1>4, <2>6 DEF Reading!Answer
    <2> QED
      BY <1>0, <2>2, <2>4, <2>5, <2>6, <2>7 DEF PageResults
  <1> QED
    BY <1>2, <1>3, <1>4 DEF OneBlockMore

LEMMA PageWalk ==
    ASSUME ContentOk, NEW r, NEW c, Going(r, c), r.tool = "read", r.block = None, NEW n \in Nat
    PROVE  \E h : PageWalks(h, c, n) /\ Reading!ReadPage(c, n) = h[ToRead(c)]
  <1> DEFINE seq == [k \in 1 .. ToRead(c) |-> PageAt(c) + k - 1]
             X == 1 .. Len(Reading!BlocksOf(c.page))
             R == PageResults
             step == [x \in R \X X |-> PageReads(c, n, x[1], x[2])]
             Turns(g) == g = [s \in SUBSET (DOMAIN seq) |->
                                  IF s = {} THEN NothingRead
                                  ELSE PageReads(c, n, g[s \ {Max(s)}], seq[Max(s)])]
  <1>1. Reading!ReadPage(c, n) = (CHOOSE g : Turns(g))[DOMAIN seq]
    BY DEF Reading!ReadPage, Reading!FoldLeft, Reading!MapThenFoldSet, Reading!Max, Max, PageReads, NothingRead,
           PageAt, Begins, ToRead
  <1>2. /\ Len(Reading!BlocksOf(c.page)) \in Nat /\ PageAt(c) \in Nat \ {0} /\ ToRead(c) \in Nat
        /\ ToRead(c) = Len(Reading!BlocksOf(c.page)) - PageAt(c) + 1
    BY PageInside DEF ToRead
  <1>3. /\ seq \in Seq(X) /\ Len(seq) = ToRead(c) /\ DOMAIN seq = 1 .. ToRead(c)
        /\ \A i \in 1 .. ToRead(c) : seq[i] = PageAt(c) + i - 1 /\ seq[i] \in X
    <2>1. \A i \in 1 .. ToRead(c) : PageAt(c) + i - 1 \in X
      BY <1>2
    <2> QED
      BY <1>2, <2>1
  <1>4. NothingRead \in R
    <2>1. MaxBudget \in Nat
      BY ReadingBounds
    <2>3. <<>> \in Seq(SomePieces)
      OBVIOUS
    <2>2. NothingRead = [ok |-> TRUE, items |-> <<>>, next |-> None, used |-> 0, budget |-> MaxBudget, more |-> {}]
      BY DEF NothingRead, Reading!Answer
    <2> QED
      BY <2>1, <2>2, <2>3 DEF PageResults
  <1>5. ASSUME NEW a \in R, NEW k \in X  PROVE PageReads(c, n, a, k) \in R
    <2> HIDE DEF R
    <2>1. a \in PageResults
      BY DEF R
    <2>2. OneBlockMore(c, n, a, k, PageReads(c, n, a, k))
      BY <2>1, PageReadsIs
    <2>3. PageReads(c, n, a, k) \in PageResults
      BY <2>1, <2>2, OneBlockMoreIsTyped
    <2> QED
      BY <2>3 DEF R
  <1>6. step \in [R \X X -> R] /\ \A a \in R, k \in X : step[<<a, k>>] = PageReads(c, n, a, k)
    <2> HIDE DEF R, X
    <2> QED
      BY <1>5
  <1> HIDE DEF seq, X, R, step
  <1>7. \E g : Turns(g)
    <2>1. PICK g \in [SUBSET (DOMAIN seq) -> R] : Folds(g, NothingRead, seq, step, SUBSET (DOMAIN seq))
      BY <1>3, <1>4, <1>6, FoldExists
    <2>2. ASSUME NEW s \in SUBSET (DOMAIN seq), s # {}
          PROVE  g[s] = PageReads(c, n, g[s \ {Max(s)}], seq[Max(s)])
      <3>1. Max(s) \in DOMAIN seq
        BY <1>3, <2>2, LastPlaceOf
      <3>2. g[s \ {Max(s)}] \in R /\ seq[Max(s)] \in X
        BY <1>3, <2>1, <3>1
      <3>3. g[s] = step[<<g[s \ {Max(s)}], seq[Max(s)]>>]
        BY <2>1, <2>2 DEF Folds
      <3> QED
        BY <1>6, <3>2, <3>3
    <2>3. g[{}] = NothingRead
      BY <2>1 DEF Folds
    <2>4. Turns(g)
      <3>1. g = [s \in SUBSET (DOMAIN seq) |-> g[s]]
        BY <2>1
      <3> QED
        BY <2>2, <2>3, <3>1
    <2> QED
      BY <2>4
  <1>8. PICK g : Turns(g) /\ Reading!ReadPage(c, n) = g[DOMAIN seq]
    BY <1>1, <1>7
  <1>9. Follows(g, NothingRead, seq, step, R, X)
    <2>1. g[{}] = NothingRead
      BY <1>8
    <2>2. ASSUME NEW s \in SUBSET (DOMAIN seq), s # {}, g[s \ {Max(s)}] \in R
          PROVE  g[s] = step[<<g[s \ {Max(s)}], seq[Max(s)]>>]
      <3>1. Max(s) \in DOMAIN seq
        BY <1>3, <2>2, LastPlaceOf
      <3>2. seq[Max(s)] \in X
        BY <1>3, <3>1
      <3>3. g[s] = PageReads(c, n, g[s \ {Max(s)}], seq[Max(s)])
        BY <1>8, <2>2
      <3> QED
        BY <1>6, <2>2, <3>2, <3>3
    <2> QED
      BY <1>3, <1>4, <1>6, <2>1, <2>2 DEF Follows
  <1>10. PICK h : FoldSteps(h, NothingRead, seq, step, R) /\ g[DOMAIN seq] = h[Len(seq)]
    BY <1>9, FoldWalks
  <1>11. PageWalks(h, c, n)
    <2>1. /\ h \in [0 .. ToRead(c) -> R] /\ h[0] = NothingRead
          /\ \A k \in 1 .. ToRead(c) : h[k] = step[<<h[k - 1], seq[k]>>]
      BY <1>3, <1>10 DEF FoldSteps
    <2>2. ASSUME NEW k \in 1 .. ToRead(c)  PROVE h[k] = PageReads(c, n, h[k - 1], PageAt(c) + k - 1)
      <3>1. k - 1 \in 0 .. ToRead(c)
        BY <1>2
      <3>2. h[k - 1] \in R /\ seq[k] \in X /\ seq[k] = PageAt(c) + k - 1
        BY <1>3, <2>1, <3>1
      <3>3. h[k] = step[<<h[k - 1], seq[k]>>]
        BY <2>1
      <3> QED
        BY <1>6, <3>2, <3>3
    <2> QED
      BY <2>1, <2>2 DEF PageWalks, R
  <1> QED
    BY <1>3, <1>8, <1>10, <1>11

\* What is left when k blocks were tried: the cursor is at one of them, behind the place
\* where the answer began.
PageLeft(r, c, k, a) ==
    /\ k = 0 => a.next = None /\ a.used = 0
    /\ a.next # None =>
           /\ a.next.block \in PageAt(c) .. (PageAt(c) + k - 1) /\ a.next.offset \in 0 .. BlockLength
           /\ a.next \in Reading!Positions
           /\ c.cursor # None /\ a.next.block = PageAt(c) => a.next.offset > Begins(c, PageAt(c))

LEMMA PageLeftStep ==
    ASSUME ContentOk, NEW r, NEW c, Going(r, c), r.tool = "read", r.block = None, NEW n \in Nat \ {0},
           NEW k \in 1 .. ToRead(c), NEW a \in PageResults, NEW b,
           PageLeft(r, c, k - 1, a), OneBlockMore(c, n, a, PageAt(c) + k - 1, b)
    PROVE  PageLeft(r, c, k, b)
  <1>1. PICK m : m = PageAt(c) + k - 1
    OBVIOUS
  <1>2. /\ m \in 1 .. Len(Reading!BlocksOf(c.page)) /\ m \in Nat /\ m \in PageAt(c) .. (PageAt(c) + k - 1)
        /\ PageAt(c) \in Nat /\ k # 0 /\ (m = PageAt(c) <=> k = 1)
    <2>1. /\ Len(Reading!BlocksOf(c.page)) \in Nat /\ PageAt(c) \in Nat \ {0}
          /\ ToRead(c) = Len(Reading!BlocksOf(c.page)) - PageAt(c) + 1
      BY PageInside DEF ToRead
    <2> QED
      BY <1>1, <2>1
  <1>3. Begins(c, m) \in 0 .. BlockLength /\ BlockLength \in Nat
    BY <1>2, PageInside, ReadingBounds
  <1>4. CASE a.next # None
    <2>1. b = a
      BY <1>4 DEF OneBlockMore
    <2>2. a.next.block \in PageAt(c) .. (PageAt(c) + (k - 1) - 1)
      BY <1>4 DEF PageLeft
    <2>3. a.next.block \in PageAt(c) .. (PageAt(c) + k - 1)
      BY <1>2, <2>2
    <2> QED
      BY <1>2, <1>4, <2>1, <2>3 DEF PageLeft
  <1>5. CASE a.next = None /\ n - a.used <= 0 /\ b = [a EXCEPT !.next = Reading!Position(m, Begins(c, m), None)]
    <2>1. k # 1
      <3>1. k = 1 => a.used = 0
        BY DEF PageLeft
      <3> QED
        BY <1>5, <3>1
    <2>2. b.next = Reading!Position(m, Begins(c, m), None)
      BY <1>5 DEF PageResults
    <2>4. Begins(c, m) \in Nat
      <3>1. PICK f : f = Begins(c, m)
        OBVIOUS
      <3>2. f \in 0 .. BlockLength /\ BlockLength \in Nat
        BY <1>3, <3>1
      <3>3. f \in Nat
        BY ONLY <3>2
      <3> QED
        BY <3>1, <3>3
    <2>3. b.next.block = m /\ b.next.offset = Begins(c, m) /\ b.next \in Reading!Positions
      <3>1. Reading!Position(m, Begins(c, m), None) \in Reading!Positions
        BY <1>2, <2>4, PositionsAreTyped
      <3>2. b.next.block = m /\ b.next.offset = Begins(c, m)
        BY <2>2 DEF Reading!Position
      <3> QED
        BY <2>2, <3>1, <3>2
    <2> QED
      BY <1>1, <1>2, <1>3, <2>1, <2>3 DEF PageLeft
  <1>6. ASSUME NEW length, NEW stop, a.next = None, n - a.used > 0,
               length = Len(content[Reading!BlocksOf(c.page)[m]]),
               stop = IF length <= Begins(c, m) + (n - a.used) THEN length ELSE Begins(c, m) + (n - a.used),
               b.next = IF stop < length THEN Reading!Position(m, stop, None) ELSE None
        PROVE  PageLeft(r, c, k, b)
    <2>1. length \in 0 .. BlockLength
      <3>1. Reading!BlocksOf(c.page)[m] \in Reading!Blocks
        BY <1>2, PageInside
      <3> QED
        BY <1>6, <3>1, TextsAreShort
    <2>2. a.used \in Int
      BY DEF PageResults
    <2>3. stop \in 0 .. BlockLength /\ stop \in Nat /\ (stop < length => stop > Begins(c, m))
      BY <1>3, <1>6, <2>1, <2>2
    <2>4. ASSUME b.next # None
          PROVE  b.next.block = m /\ b.next.offset = stop /\ b.next \in Reading!Positions /\ stop < length
      BY <1>2, <1>6, <2>3, <2>4, PositionsAreTyped DEF Reading!Position
    <2> QED
      BY <1>1, <1>2, <2>3, <2>4 DEF PageLeft
  <1> QED
    BY <1>1, <1>4, <1>5, <1>6 DEF OneBlockMore

LEMMA ReadPageGoesOn ==
    ASSUME ContentOk, NEW r, NEW c, Going(r, c), r.tool = "read", r.block = None, NEW n \in Nat \ {0}
    PROVE  GoesOn(r, c, Reading!ReadPage(c, n))
  <1> DEFINE m == ToRead(c)
  <1>1. PICK h : PageWalks(h, c, n) /\ Reading!ReadPage(c, n) = h[m]
    BY PageWalk
  <1>2. m \in Nat /\ Len(Reading!BlocksOf(c.page)) \in Nat /\ PageAt(c) \in Nat \ {0}
        /\ m = Len(Reading!BlocksOf(c.page)) - PageAt(c) + 1 /\ c.page = r.page
    BY PageInside DEF ToRead
  <1> HIDE DEF m
  <1>3. /\ h \in [0 .. m -> PageResults] /\ h[0] = NothingRead
        /\ \A k \in 1 .. m : h[k] = PageReads(c, n, h[k - 1], PageAt(c) + k - 1)
    BY <1>1 DEF PageWalks, m
  <1> DEFINE good == {k \in 0 .. m : PageLeft(r, c, k, h[k])}
  <1>4. 0 \in good
    BY <1>2, <1>3 DEF PageLeft, NothingRead, Reading!Answer
  <1>5. ASSUME NEW k \in 1 .. m, k - 1 \in good  PROVE k \in good
    <2>1. k \in 0 .. m /\ k - 1 \in 0 .. m
      BY <1>2
    <2>2. h[k - 1] \in PageResults /\ PageLeft(r, c, k - 1, h[k - 1])
      BY <1>3, <1>5, <2>1
    <2>3. OneBlockMore(c, n, h[k - 1], PageAt(c) + k - 1, h[k])
      <3>1. h[k] = PageReads(c, n, h[k - 1], PageAt(c) + k - 1)
        BY <1>3
      <3> QED
        BY <2>2, <3>1, PageReadsIs
    <2>4. PageLeft(r, c, k, h[k])
      BY <2>2, <2>3, PageLeftStep DEF m
    <2> QED
      BY <2>1, <2>4
  <1>6. \A k \in 0 .. m : k \in good
    <2> HIDE DEF good
    <2> QED
      BY <1>2, <1>4, <1>5, CountUp
  <1>7. PICK a : a = h[m] /\ PageLeft(r, c, m, a) /\ a \in PageResults
    BY <1>2, <1>3, <1>6
  <1>8. a.items \in ItemsOf(r)
    BY <1>7 DEF ItemsOf, PageResults
  <1>9. ASSUME a.next # None  PROVE Goes(r, a.next) /\ After(c, a.next)
    <2>1. /\ a.next.block \in PageAt(c) .. (PageAt(c) + m - 1) /\ a.next.offset \in 0 .. BlockLength
          /\ a.next \in Reading!Positions
          /\ c.cursor # None /\ a.next.block = PageAt(c) => a.next.offset > Begins(c, PageAt(c))
      BY <1>7, <1>9 DEF PageLeft
    <2>2. a.next.block \in 1 .. Len(Reading!BlocksOf(r.page)) /\ a.next.block >= PageAt(c)
      <3>1. PICK l \in Nat : l = Len(Reading!BlocksOf(c.page))
        BY <1>2
      <3>2. PICK b : b = a.next.block
        OBVIOUS
      <3>3. b \in PageAt(c) .. l
        BY <1>2, <2>1, <3>1, <3>2
      <3>4. PageAt(c) \in Nat \ {0}
        BY <1>2
      <3>5. b \in 1 .. l /\ b >= PageAt(c)
        BY ONLY <3>1, <3>3, <3>4
      <3>6. Len(Reading!BlocksOf(r.page)) = l
        BY <1>2, <3>1
      <3> QED
        BY ONLY <3>2, <3>5, <3>6
    <2>3. a.next.offset <= BlockLength
      <3>1. BlockLength \in Nat
        BY ReadingBounds
      <3> QED
        BY <2>1, <3>1
    <2>4. Goes(r, a.next)
      BY <2>1, <2>2, <2>3 DEF Goes
    <2>5. ASSUME c.cursor # None
          PROVE  c.cursor.position.block = PageAt(c) /\ c.cursor.position.offset = Begins(c, PageAt(c))
      BY <2>5, PageInside DEF PageAt
    <2>6. After(c, a.next)
      <3>1. a.next.block = PageAt(c) \/ (a.next.block # PageAt(c) /\ a.next.block > PageAt(c))
        BY <1>2, <2>2
      <3> QED
        BY <2>1, <2>5, <3>1 DEF After
    <2> QED
      BY <2>4, <2>6
  <1> QED
    BY <1>1, <1>7, <1>8, <1>9 DEF GoesOn

-----------------------------------------------------------------------------
(* Searching: the occurrences that count                                   *)

\* S are the numbers of H that count: each that is not within l after one before it.
Counts(S, H, l) == S \subseteq H /\ \A i \in H : i \in S <=> \A j \in S : j < i => j + l <= i

LEMMA LargestNumber ==
    ASSUME NEW T, T \subseteq Nat, IsFiniteSet(T), T # {}
    PROVE  \E m \in T : \A j \in T : j <= m
  <1>1. Max(T) \in T /\ \A y \in T : y <= Max(T)
    BY MaxOfNumbers
  <1> QED
    BY <1>1

LEMMA ValuesAreFinite ==
    ASSUME NEW S, IsFiniteSet(S), NEW f, DOMAIN f = S, f = [x \in S |-> f[x]]
    PROVE  IsFiniteSet({f[x] : x \in S})
  <1> DEFINE T == {f[x] : x \in S}
  <1>1. f \in Surjection(S, T)
    BY DEF Surjection
  <1> HIDE DEF T
  <1>2. IsFiniteSet(T)
    BY <1>1, FS_Surjection
  <1> QED
    BY <1>2 DEF T

LEMMA SomeCount ==
    ASSUME NEW H, H \subseteq Nat, IsFiniteSet(H), NEW l \in Nat
    PROVE  \E S \in SUBSET H : Counts(S, H, l)
  <1> DEFINE good == {T \in SUBSET H : \E S \in SUBSET T : Counts(S, T, l)}
  <1>1. ASSUME NEW T \in SUBSET H, \A U \in SUBSET T : U # T => U \in good
        PROVE  \E S \in SUBSET T : Counts(S, T, l)
    <2>1. CASE T = {}
      BY <2>1 DEF Counts
    <2>2. CASE T # {}
      <3>1. IsFiniteSet(T) /\ T \subseteq Nat
        BY FS_Subset
      <3>2. PICK m \in T : \A j \in T : j <= m
        BY <2>2, <3>1, LargestNumber
      <3>3. PICK S \in SUBSET (T \ {m}) : Counts(S, T \ {m}, l)
        BY <1>1, <3>2
      <3>4. m \in Nat /\ \A j \in T \ {m} : j \in Nat /\ j < m
        BY <3>1, <3>2
      <3>5. CASE \A j \in S : j + l <= m
        <4>1. \A i \in T : i \in S \cup {m} <=> \A j \in S \cup {m} : j < i => j + l <= i
          <5>1. ASSUME NEW i \in T \ {m}
                PROVE  i \in S \cup {m} <=> \A j \in S \cup {m} : j < i => j + l <= i
            <6>1. i \in S <=> \A j \in S : j < i => j + l <= i
              BY <3>3 DEF Counts
            <6>2. ~(m < i) /\ i # m
              BY <3>4
            <6> QED
              BY <6>1, <6>2
          <5>2. \A j \in S \cup {m} : j < m => j + l <= m
            BY <3>4, <3>5
          <5> QED
            BY <5>1, <5>2
        <4>2. Counts(S \cup {m}, T, l)
          BY <3>2, <4>1 DEF Counts
        <4> QED
          BY <3>2, <4>2
      <3>6. CASE ~(\A j \in S : j + l <= m)
        <4>1. \A i \in T : i \in S <=> \A j \in S : j < i => j + l <= i
          <5>1. \A i \in T \ {m} : i \in S <=> \A j \in S : j < i => j + l <= i
            BY <3>3 DEF Counts
          <5>2. m \notin S /\ ~(\A j \in S : j < m => j + l <= m)
            BY <3>4, <3>6
          <5> QED
            BY <5>1, <5>2
        <4>2. Counts(S, T, l)
          BY <4>1 DEF Counts
        <4> QED
          BY <4>2
      <3> QED
        BY <3>5, <3>6
    <2> QED
      BY <2>1, <2>2
  <1>2. \A T \in SUBSET H : (\A U \in SUBSET T : U # T => U \in good) => T \in good
    BY <1>1
  <1>3. H \in good
    <2> HIDE DEF good
    <2> QED
      BY <1>2, SubsetInduction
  <1> QED
    BY <1>3

LEMMA CountOnce ==
    ASSUME NEW H, H \subseteq Nat, NEW l \in Nat, NEW S, NEW R, Counts(S, H, l), Counts(R, H, l)
    PROVE  S = R
  <1> DEFINE bad == {i \in H : (i \in S) # (i \in R)}
  <1>1. SUFFICES ASSUME bad # {}  PROVE FALSE
    BY DEF Counts
  <1>2. bad \subseteq Nat /\ \A i \in bad : i \in H /\ (i \in S) # (i \in R)
    OBVIOUS
  <1>3. \A i \in H : i \notin bad => (i \in S <=> i \in R)
    OBVIOUS
  <1> HIDE DEF bad
  <1>4. PICK i \in bad : \A j \in bad : ~(j < i)
    BY <1>1, <1>2, SmallestNumber
  <1>5. \A j \in H : j < i => (j \in S <=> j \in R)
    BY <1>3, <1>4
  <1>6. (\A j \in S : j < i => j + l <= i) <=> (\A j \in R : j < i => j + l <= i)
    BY <1>5 DEF Counts
  <1>7. i \in S <=> i \in R
    BY <1>2, <1>6 DEF Counts
  <1> QED
    BY <1>2, <1>7

\* From one that counts on, the same count.
LEMMA CountOn ==
    ASSUME NEW H, H \subseteq Nat, NEW l \in Nat, NEW S, Counts(S, H, l), NEW o \in S
    PROVE  Counts({i \in S : i >= o}, {i \in H : i >= o}, l)
  <1> DEFINE T == {i \in S : i >= o}
  <1>1. S \subseteq H /\ o \in Nat /\ \A i \in H : i \in Nat
    BY DEF Counts
  <1>2. ASSUME NEW i \in H, i >= o
        PROVE  i \in T <=> \A j \in T : j < i => j + l <= i
    <2>1. i \in S <=> \A j \in S : j < i => j + l <= i
      BY DEF Counts
    <2>2. i \in S => \A j \in T : j < i => j + l <= i
      BY <2>1
    <2>3. ASSUME \A j \in T : j < i => j + l <= i, NEW j \in S, j < i  PROVE j + l <= i
      <3>1. CASE j >= o
        BY <2>3, <3>1
      <3>2. CASE j < o
        <4>1. j + l <= o
          BY <1>1, <3>2 DEF Counts
        <4> QED
          BY <1>1, <1>2, <4>1
      <3> QED
        BY <1>1, <3>1, <3>2
    <2>4. i \in T <=> i \in S
      BY <1>2
    <2> QED
      BY <2>1, <2>2, <2>3, <2>4
  <1> QED
    BY <1>1, <1>2 DEF Counts

HitsFrom(b, pattern, o) ==
    {i \in o .. (Len(content[b]) - Len(pattern)) : Reading!Occurs(pattern, content[b], i)}
StartsFrom(b, pattern, o) ==
    CHOOSE S \in SUBSET HitsFrom(b, pattern, o) :
        \A i \in HitsFrom(b, pattern, o) : i \in S <=> \A j \in S : j < i => j + Len(pattern) <= i

LEMMA MatchesIs ==
    ASSUME NEW b, NEW pattern, NEW o
    PROVE  Reading!Matches(b, pattern, o) =
               {Reading!Piece(b, i, i + Len(pattern)) : i \in StartsFrom(b, pattern, o)}
  BY DEF Reading!Matches, StartsFrom, HitsFrom

LEMMA StartsCount ==
    ASSUME ContentOk, NEW b \in Reading!Blocks, NEW pattern \in Patterns, NEW o \in Nat
    PROVE  /\ Counts(StartsFrom(b, pattern, o), HitsFrom(b, pattern, o), Len(pattern))
           /\ HitsFrom(b, pattern, o) \subseteq Nat /\ IsFiniteSet(HitsFrom(b, pattern, o))
           /\ Len(pattern) \in Nat \ {0}
           /\ \A i \in HitsFrom(b, pattern, o) : i >= o /\ i + Len(pattern) <= Len(content[b])
  <1> DEFINE H == HitsFrom(b, pattern, o)
  <1>1. Len(content[b]) \in Nat /\ Len(pattern) \in Nat \ {0}
    <2>1. pattern \in Seq(Letters) /\ pattern # <<>>
      BY ReadingBounds
    <2>2. BlockLength \in Nat /\ Len(content[b]) \in 0 .. BlockLength
      BY TextsAreShort, ReadingBounds
    <2> QED
      BY <2>1, <2>2
  <1>2. H \subseteq o .. (Len(content[b]) - Len(pattern))
    BY DEF HitsFrom
  <1>3. H \subseteq Nat /\ \A i \in H : i >= o /\ i + Len(pattern) <= Len(content[b])
    <2> HIDE DEF H
    <2> QED
      BY <1>1, <1>2
  <1>4. IsFiniteSet(H)
    <2>1. o \in Int /\ Len(content[b]) - Len(pattern) \in Int
      BY <1>1
    <2>3. IsFiniteSet(o .. (Len(content[b]) - Len(pattern)))
      BY <2>1, FS_Interval
    <2> HIDE DEF H
    <2> QED
      BY <1>2, <2>3, FS_Subset
  <1>5. Counts(StartsFrom(b, pattern, o), H, Len(pattern))
    <2>1. \E S \in SUBSET H : Counts(S, H, Len(pattern))
      <3> HIDE DEF H
      <3> QED
        BY <1>1, <1>3, <1>4, SomeCount
    <2>2. \E S \in SUBSET H : \A i \in H : i \in S <=> \A j \in S : j < i => j + Len(pattern) <= i
      BY <2>1 DEF Counts
    <2> HIDE DEF H
    <2>3. StartsFrom(b, pattern, o) =
              CHOOSE S \in SUBSET H : \A i \in H : i \in S <=> \A j \in S : j < i => j + Len(pattern) <= i
      BY DEF StartsFrom, H
    <2> QED
      BY <2>2, <2>3 DEF Counts
  <1> QED
    BY <1>1, <1>3, <1>4, <1>5

LEMMA MatchesAre ==
    ASSUME ContentOk, NEW b \in Reading!Blocks, NEW pattern \in Patterns, NEW o \in Nat
    PROVE  /\ IsFiniteSet(Reading!Matches(b, pattern, o))
           /\ \A m \in Reading!Matches(b, pattern, o) :
                  /\ m \in Pieces /\ m \in SomePieces /\ m.block = b /\ m.from \in StartsFrom(b, pattern, o)
                  /\ m.from >= o /\ m.to = m.from + Len(pattern)
           /\ \A i \in StartsFrom(b, pattern, o) :
                  Reading!Piece(b, i, i + Len(pattern)) \in Reading!Matches(b, pattern, o)
  <1> DEFINE S == StartsFrom(b, pattern, o)
             M == Reading!Matches(b, pattern, o)
  <1>1. M = {Reading!Piece(b, i, i + Len(pattern)) : i \in S}
    BY MatchesIs
  <1>2. /\ S \subseteq HitsFrom(b, pattern, o) /\ IsFiniteSet(HitsFrom(b, pattern, o))
        /\ Len(pattern) \in Nat \ {0} /\ HitsFrom(b, pattern, o) \subseteq Nat
        /\ \A i \in S : i >= o /\ i + Len(pattern) <= Len(content[b])
    BY StartsCount DEF Counts
  <1>3. BlockLength \in Nat /\ Len(content[b]) \in 0 .. BlockLength
    BY TextsAreShort, ReadingBounds
  <1> HIDE DEF S, M
  <1>4. IsFiniteSet(S)
    BY <1>2, FS_Subset
  <1>5. IsFiniteSet(M)
    <2> DEFINE f == [i \in S |-> Reading!Piece(b, i, i + Len(pattern))]
    <2>1. IsFiniteSet({f[i] : i \in S})
      BY <1>4, ValuesAreFinite
    <2>2. M = {f[i] : i \in S}
      BY <1>1
    <2> QED
      BY <2>1, <2>2
  <1>6. ASSUME NEW i \in S
        PROVE  /\ Reading!Piece(b, i, i + Len(pattern)) \in Pieces
               /\ Reading!Piece(b, i, i + Len(pattern)) \in SomePieces
    <2>1. i \in Nat /\ i + Len(pattern) <= Len(content[b])
      BY <1>2
    <2>2. i + Len(pattern) \in 0 .. BlockLength /\ i \in 0 .. BlockLength /\ i + Len(pattern) \in Nat
      BY <1>2, <1>3, <2>1
    <2> QED
      BY <2>1, <2>2 DEF Reading!Piece, Pieces, SomePieces
  <1>7. ASSUME NEW m \in M
        PROVE  /\ m \in Pieces /\ m \in SomePieces /\ m.block = b /\ m.from \in S
               /\ m.from >= o /\ m.to = m.from + Len(pattern)
    <2>1. PICK i \in S : m = Reading!Piece(b, i, i + Len(pattern))
      BY <1>1
    <2>2. m.block = b /\ m.from = i /\ m.to = i + Len(pattern)
      BY <2>1 DEF Reading!Piece
    <2> QED
      BY <1>2, <1>6, <2>1, <2>2
  <1>8. \A i \in S : Reading!Piece(b, i, i + Len(pattern)) \in M
    BY <1>1
  <1> QED
    BY <1>5, <1>7, <1>8 DEF S, M

\* What an answer finds: the matches of the blocks from a place on.
SearchFrom(c, n) ==
    IF n = PageAt(c) THEN IF c.cursor = None THEN 0 ELSE c.cursor.position.offset ELSE 0
FoundBy(c) ==
    UNION {Reading!Matches(Reading!TextsOf(c.doc)[n], c.pattern, SearchFrom(c, n)) :
               n \in PageAt(c) .. Len(Reading!TextsOf(c.doc))}

LEMMA GrepIs ==
    ASSUME NEW c
    PROVE  LET found == Reading!ByPlace(FoundBy(c)) IN
           Reading!Grep(c) =
               Reading!Answer(SubSeq(found, 1, Reading!Min2(GrepBatch, Len(found))),
                   IF Len(found) <= GrepBatch THEN None
                   ELSE Reading!Position(CHOOSE n \in DOMAIN Reading!TextsOf(c.doc) :
                                             Reading!TextsOf(c.doc)[n] = found[GrepBatch + 1].block,
                                         found[GrepBatch + 1].from, None), 0)
  BY DEF Reading!Grep, Reading!Resume, FoundBy, PageAt, SearchFrom

\* What an answer to a search can find.
LEMMA SearchInside ==
    ASSUME NEW r, NEW c, Going(r, c), r.tool = "grep"
    PROVE  /\ c.pattern \in Patterns /\ c.doc = r.doc /\ PageAt(c) \in Nat \ {0} /\ BlockLength \in Nat
           /\ InSequence(Reading!TextsOf(c.doc), {b \in Reading!Blocks : DocumentOf[PageOf[b]] = c.doc})
           /\ \A n : SearchFrom(c, n) \in 0 .. BlockLength
           /\ c.cursor # None => /\ PageAt(c) \in 1 .. Len(Reading!TextsOf(c.doc))
                                 /\ PageAt(c) = c.cursor.position.block
                                 /\ c.cursor.position.offset = SearchFrom(c, PageAt(c))
  <1>1. FirstOk(r) /\ c.pattern = r.pattern /\ c.doc = r.doc /\ BlockLength \in Nat
    BY ReadingBounds DEF Going
  <1>2. c.pattern \in Patterns
    BY <1>1 DEF FirstOk
  <1>3. InSequence(Reading!TextsOf(c.doc), {b \in Reading!Blocks : DocumentOf[PageOf[b]] = c.doc})
    BY ListsAreInSequence
  <1>4. CASE c.cursor = None
    <2>1. PageAt(c) = 1 /\ \A n : SearchFrom(c, n) = 0
      BY <1>4 DEF PageAt, SearchFrom
    <2> QED
      BY <1>1, <1>2, <1>3, <1>4, <2>1
  <1>5. CASE c.cursor # None
    <2>1. Goes(r, c.cursor.position)
      BY <1>5, CursorIs
    <2>2. PageAt(c) = c.cursor.position.block /\ PageAt(c) \in 1 .. Len(Reading!TextsOf(c.doc))
      BY <1>1, <1>5, <2>1 DEF PageAt, Goes
    <2>3. c.cursor.position.offset \in 0 .. BlockLength
      <3>1. c.cursor.position.offset \in Nat /\ c.cursor.position.offset <= BlockLength
        BY <2>1 DEF Goes, Reading!Positions
      <3> QED
        BY <1>1, <3>1
    <2>4. /\ \A n : SearchFrom(c, n) \in 0 .. BlockLength
          /\ c.cursor.position.offset = SearchFrom(c, PageAt(c))
      BY <1>1, <1>5, <2>3 DEF SearchFrom
    <2>5. PageAt(c) \in Nat \ {0}
      <3>1. Len(Reading!TextsOf(c.doc)) \in Nat
        BY <1>3, InSequenceHas
      <3> QED
        BY <2>2, <3>1
    <2> QED
      BY <1>1, <1>2, <1>3, <2>2, <2>4, <2>5
  <1> QED
    BY <1>4, <1>5

LEMMA FoundIs ==
    ASSUME ContentOk, NEW r, NEW c, Going(r, c), r.tool = "grep"
    PROVE  /\ IsFiniteSet(FoundBy(c)) /\ Apart(FoundBy(c)) /\ FoundBy(c) \subseteq SomePieces
           /\ \A m : m \in FoundBy(c) <=>
                  \E n \in PageAt(c) .. Len(Reading!TextsOf(c.doc)) :
                      /\ m.block = Reading!TextsOf(c.doc)[n]
                      /\ m \in Reading!Matches(m.block, c.pattern, SearchFrom(c, n))
  <1> DEFINE texts == Reading!TextsOf(c.doc)
             N == PageAt(c) .. Len(texts)
             f == [n \in N |-> Reading!Matches(texts[n], c.pattern, SearchFrom(c, n))]
  <1>1. /\ c.pattern \in Patterns /\ PageAt(c) \in Nat \ {0} /\ \A n : SearchFrom(c, n) \in Nat
        /\ DOMAIN texts = 1 .. Len(texts) /\ Len(texts) \in Nat
        /\ \A n \in DOMAIN texts : texts[n] \in Reading!Blocks
        /\ \A i, j \in DOMAIN texts : texts[i] = texts[j] => i = j
    <2>1. InSequence(texts, {b \in Reading!Blocks : DocumentOf[PageOf[b]] = c.doc})
      BY SearchInside
    <2>2. c.pattern \in Patterns /\ PageAt(c) \in Nat \ {0}
      BY SearchInside
    <2>3. \A n : SearchFrom(c, n) \in Nat
      <3>1. BlockLength \in Nat /\ \A n : SearchFrom(c, n) \in 0 .. BlockLength
        BY SearchInside
      <3> QED
        BY <3>1
    <2> HIDE DEF texts
    <2> QED
      BY <2>1, <2>2, <2>3, InSequenceHas
  <1>2. FoundBy(c) = UNION {f[n] : n \in N}
    BY DEF FoundBy
  <1>3. ASSUME NEW n \in N  PROVE f[n] = Reading!Matches(texts[n], c.pattern, SearchFrom(c, n))
    OBVIOUS
  <1> HIDE DEF texts, N, f
  <1>4. ASSUME NEW n \in N
        PROVE  /\ IsFiniteSet(f[n])
               /\ \A m \in f[n] : m \in Pieces /\ m \in SomePieces /\ m.block = texts[n]
                                  /\ m.to = m.from + Len(c.pattern)
    <2>1. n \in DOMAIN texts
      BY <1>1 DEF N
    <2>2. texts[n] \in Reading!Blocks /\ SearchFrom(c, n) \in Nat
      BY <1>1, <2>1
    <2> QED
      BY <1>1, <1>3, <2>2, MatchesAre
  <1>5. \A m : m \in FoundBy(c) <=> \E n \in N : m.block = texts[n] /\ m \in Reading!Matches(m.block, c.pattern, SearchFrom(c, n))
    BY <1>2, <1>3, <1>4
  <1>6. IsFiniteSet(FoundBy(c))
    <2>1. IsFiniteSet(N)
      BY <1>1, FS_Interval DEF N
    <2>2. IsFiniteSet({f[n] : n \in N})
      BY <2>1, ValuesAreFinite DEF f
    <2>3. \A T \in {f[n] : n \in N} : IsFiniteSet(T)
      BY <1>4
    <2>4. PICK F : F = {f[n] : n \in N}
      OBVIOUS
    <2> QED
      BY ONLY <1>2, <2>2, <2>3, <2>4, FS_UNION
  <1>7. FoundBy(c) \subseteq Pieces /\ FoundBy(c) \subseteq SomePieces
    BY <1>2, <1>4
  <1>8. ASSUME NEW x \in FoundBy(c), NEW y \in FoundBy(c), x.block = y.block, x.from = y.from
        PROVE  x = y
    <2>1. x \in Pieces /\ y \in Pieces /\ x.to = x.from + Len(c.pattern) /\ y.to = y.from + Len(c.pattern)
      BY <1>2, <1>4
    <2> QED
      BY <1>8, <2>1 DEF Pieces
  <1> QED
    BY <1>5, <1>6, <1>7, <1>8 DEF Apart, texts, N

LEMMA GrepGoesOn ==
    ASSUME ContentOk, NEW r, NEW c, Going(r, c), r.tool = "grep"
    PROVE  GoesOn(r, c, Reading!Grep(c))
  <1> DEFINE texts == Reading!TextsOf(c.doc)
             found == Reading!ByPlace(FoundBy(c))
             place == CHOOSE n \in DOMAIN texts : texts[n] = found[GrepBatch + 1].block
             next == IF Len(found) <= GrepBatch THEN None
                     ELSE Reading!Position(place, found[GrepBatch + 1].from, None)
             a == Reading!Grep(c)
  <1>1. a.items = SubSeq(found, 1, Reading!Min2(GrepBatch, Len(found))) /\ a.next = next
    <2>1. a = Reading!Answer(SubSeq(found, 1, Reading!Min2(GrepBatch, Len(found))), next, 0)
      BY GrepIs
    <2> HIDE DEF a, next, found
    <2> QED
      BY <2>1 DEF Reading!Answer
  <1>2. /\ found \in Seq(FoundBy(c)) /\ Len(found) \in Nat /\ DOMAIN found = 1 .. Len(found)
        /\ \A i \in DOMAIN found : found[i] \in FoundBy(c)
        /\ \A i, j \in DOMAIN found : i < j => Reading!Earlier(found[i], found[j])
    <2>1. ByPlaceSequence(found, FoundBy(c))
      BY FoundIs, ByPlaceIs
    <2> HIDE DEF found
    <2> QED
      BY <2>1 DEF ByPlaceSequence
  <1>3. FoundBy(c) \subseteq SomePieces
    BY FoundIs
  <1>4. /\ c.doc = r.doc /\ DOMAIN texts = 1 .. Len(texts) /\ Len(texts) \in Nat
        /\ \A n \in DOMAIN texts : texts[n] \in Nat
        /\ \A i, j \in DOMAIN texts : texts[i] < texts[j] => i < j
        /\ \A i, j \in DOMAIN texts : texts[i] = texts[j] => i = j
        /\ PageAt(c) \in Nat \ {0} /\ BlockLength \in Nat /\ c.pattern \in Patterns
    <2>1. InSequence(texts, {b \in Reading!Blocks : DocumentOf[PageOf[b]] = c.doc})
      BY SearchInside
    <2>2. c.doc = r.doc /\ PageAt(c) \in Nat \ {0} /\ BlockLength \in Nat /\ c.pattern \in Patterns
      BY SearchInside
    <2>3. \A b \in Reading!Blocks : b \in Nat
      BY PlacesAreNumbers
    <2> HIDE DEF texts
    <2> QED
      BY <2>1, <2>2, <2>3, InSequenceHas
  <1>5. GrepBatch \in Nat \ {0}
    BY ReadingBounds
  <1>6. ASSUME NEW m \in FoundBy(c)
        PROVE  \E n \in PageAt(c) .. Len(texts) :
                   m.block = texts[n] /\ m.from \in 0 .. BlockLength /\ m.from >= SearchFrom(c, n)
    <2>1. PICK n \in PageAt(c) .. Len(texts) :
              m.block = texts[n] /\ m \in Reading!Matches(m.block, c.pattern, SearchFrom(c, n))
      BY FoundIs
    <2>2. n \in DOMAIN texts
      BY <1>4
    <2>3. SearchFrom(c, n) \in 0 .. BlockLength
      BY SearchInside
    <2>4. texts[n] \in Reading!Blocks
      <3>1. InSequence(texts, {b \in Reading!Blocks : DocumentOf[PageOf[b]] = c.doc})
        BY SearchInside
      <3> HIDE DEF texts
      <3> QED
        BY <2>2, <3>1, InSequenceHas
    <2>5. SearchFrom(c, n) \in Nat
      BY <1>4, <2>3
    <2> HIDE DEF texts
    <2>6. m.from >= SearchFrom(c, n)
      BY <1>4, <2>1, <2>4, <2>5, MatchesAre
    <2>7. m.from \in 0 .. BlockLength
      BY <1>3 DEF SomePieces
    <2> QED
      BY <2>1, <2>6, <2>7
  <1> HIDE DEF found, texts, place, next, a
  <1>7. a.items \in Seq(SomePieces)
    <2>1. Reading!Min2(GrepBatch, Len(found)) \in 0 .. Len(found)
      BY <1>2, <1>5 DEF Reading!Min2
    <2>2. found \in Seq(SomePieces)
      BY <1>2, <1>3
    <2> QED
      BY <1>1, <1>2, <2>1, <2>2
  <1>8. ASSUME next # None  PROVE Goes(r, next) /\ After(c, next)
    <2>1. Len(found) > GrepBatch /\ next = Reading!Position(place, found[GrepBatch + 1].from, None)
      BY <1>2, <1>5, <1>8 DEF next
    <2>2. 1 \in DOMAIN found /\ GrepBatch + 1 \in DOMAIN found /\ 1 < GrepBatch + 1
      BY <1>2, <1>5, <2>1
    <2>3. PICK m \in FoundBy(c) : m = found[GrepBatch + 1]
      BY <1>2, <2>2
    <2>4. PICK f \in FoundBy(c) : f = found[1] /\ Reading!Earlier(f, m)
      BY <1>2, <2>2, <2>3
    <2>5. PICK n \in PageAt(c) .. Len(texts) : m.block = texts[n] /\ m.from \in 0 .. BlockLength
      BY <1>6
    <2>6. PICK k \in PageAt(c) .. Len(texts) :
              f.block = texts[k] /\ f.from \in 0 .. BlockLength /\ f.from >= SearchFrom(c, k)
      BY <1>6
    <2>7. n \in DOMAIN texts /\ k \in DOMAIN texts /\ n \in Nat /\ k \in Nat /\ n >= PageAt(c) /\ k >= PageAt(c)
      BY <1>4
    <2>8. place = n
      <3>1. place \in DOMAIN texts /\ texts[place] = texts[n]
        BY <2>3, <2>5, <2>7 DEF place
      <3> QED
        BY <1>4, <2>7, <3>1
    <2>9. /\ next \in Reading!Positions /\ next.block = n /\ next.offset = m.from
          /\ m.from \in Nat /\ m.from <= BlockLength
      <3>1. m.from \in Nat /\ m.from <= BlockLength
        BY <1>4, <2>5
      <3>2. next = Reading!Position(n, m.from, None)
        BY <2>1, <2>3, <2>8
      <3>3. Reading!Position(n, m.from, None) \in Reading!Positions
        BY <2>7, <3>1, PositionsAreTyped
      <3>4. next.block = n /\ next.offset = m.from
        BY <3>2 DEF Reading!Position
      <3> QED
        BY <3>1, <3>2, <3>3, <3>4
    <2>10. Goes(r, next)
      <3>1. n \in 1 .. Len(texts)
        BY <1>4, <2>7
      <3> QED
        BY <1>4, <2>9, <3>1 DEF Goes, texts
    <2>11. ASSUME c.cursor # None, n = PageAt(c)  PROVE m.from > c.cursor.position.offset
      <3>1. f.block < m.block \/ (f.block = m.block /\ f.from < m.from)
        BY <2>4 DEF Reading!Earlier
      <3>2. ~(texts[k] < texts[n])
        BY <1>4, <2>7, <2>11
      <3>3. f.from < m.from /\ k = n
        BY <1>4, <2>5, <2>6, <2>7, <3>1, <3>2
      <3>4. c.cursor.position.offset = SearchFrom(c, k)
        BY <2>11, <3>3, SearchInside
      <3>5. SearchFrom(c, k) \in 0 .. BlockLength
        BY SearchInside
      <3> QED
        BY <1>4, <2>5, <2>6, <3>3, <3>4, <3>5
    <2>12. ASSUME c.cursor # None  PROVE c.cursor.position.block = PageAt(c)
      BY <2>12, SearchInside
    <2>13. After(c, next)
      BY <1>4, <2>7, <2>9, <2>11, <2>12 DEF After
    <2> QED
      BY <2>10, <2>13
  <1> QED
    BY <1>1, <1>7, <1>8 DEF GoesOn, ItemsOf, a

-----------------------------------------------------------------------------
(* Reading: answers and handles                                            *)

AnswerShaped(a) ==
    a = [ok |-> a.ok, items |-> a.items, next |-> a.next, used |-> a.used, budget |-> a.budget, more |-> a.more]

\* What the tool returns when its request passed the checks.
OfTool(c, n) ==
    CASE c.tool = "open" -> Reading!Open(c)
      [] c.tool = "grep" -> Reading!Grep(c)
      [] c.block # None -> Reading!ReadBlock(c, n)
      [] OTHER -> Reading!ReadPage(c, n)

LEMMA AnswerIsShaped == \A items, next, used : AnswerShaped(Reading!Answer(items, next, used))
  BY DEF AnswerShaped, Reading!Answer

LEMMA RefusalIs ==
    /\ AnswerShaped(Reading!Refusal) /\ Reading!Refusal.ok = FALSE /\ Reading!Refusal.items = <<>>
    /\ Reading!Refusal.next = None /\ Reading!Refusal.more = {} /\ Reading!Refusal.used = 0
    /\ Reading!Refusal.budget = MaxBudget
  BY DEF AnswerShaped, Reading!Refusal

\* The tools of a reading, one by one.
LEMMA ToolsAre ==
    ASSUME NEW r, NEW c, Going(r, c), NEW n
    PROVE  \/ r.tool = "open" /\ OfTool(c, n) = Reading!Open(c)
           \/ r.tool = "grep" /\ OfTool(c, n) = Reading!Grep(c)
           \/ r.tool = "read" /\ r.block # None /\ OfTool(c, n) = Reading!ReadBlock(c, n)
           \/ r.tool = "read" /\ r.block = None /\ OfTool(c, n) = Reading!ReadPage(c, n)
  <1>1. r.tool \in {"open", "read", "grep"} /\ c.tool = r.tool /\ c.block = r.block
        /\ (c.tool # "read" => c.block = None)
    BY DEF Going, FirstOk
  <1>2. c.tool = "open" => OfTool(c, n) = Reading!Open(c)
    BY <1>1 DEF OfTool
  <1>3. c.tool = "grep" => OfTool(c, n) = Reading!Grep(c)
    BY <1>1 DEF OfTool
  <1>4. CASE r.tool = "read" /\ r.block # None
    BY <1>1, <1>4 DEF OfTool
  <1>5. CASE r.tool = "read" /\ r.block = None
    BY <1>1, <1>5 DEF OfTool
  <1> QED
    BY <1>1, <1>2, <1>3, <1>4, <1>5

LEMMA ToolAnswers ==
    ASSUME ContentOk, NEW r, NEW c, Going(r, c), NEW n \in Nat \ {0}
    PROVE  /\ AnswerShaped(OfTool(c, n)) /\ OfTool(c, n).ok \in BOOLEAN
           /\ OfTool(c, n).more = {}
           /\ OfTool(c, n).ok => GoesOn(r, c, OfTool(c, n))
           /\ ~OfTool(c, n).ok => /\ OfTool(c, n) = Reading!Refusal
                                  /\ r.tool = "read" /\ r.block # None
  <1>1. CASE r.tool = "open" /\ OfTool(c, n) = Reading!Open(c)
    <2>1. GoesOn(r, c, Reading!Open(c))
      BY <1>1, OpenGoesOn
    <2>2. \E items, next : Reading!Open(c) = Reading!Answer(items, next, 0)
      BY DEF Reading!Open
    <2>3. AnswerShaped(Reading!Open(c)) /\ Reading!Open(c).ok = TRUE /\ Reading!Open(c).more = {}
      BY <2>2, AnswerIsShaped DEF Reading!Answer
    <2> QED
      BY <1>1, <2>1, <2>3
  <1>2. CASE r.tool = "grep" /\ OfTool(c, n) = Reading!Grep(c)
    <2>1. GoesOn(r, c, Reading!Grep(c))
      BY <1>2, GrepGoesOn
    <2>2. \E items, next : Reading!Grep(c) = Reading!Answer(items, next, 0)
      BY GrepIs
    <2>3. AnswerShaped(Reading!Grep(c)) /\ Reading!Grep(c).ok = TRUE /\ Reading!Grep(c).more = {}
      BY <2>2, AnswerIsShaped DEF Reading!Answer
    <2> QED
      BY <1>2, <2>1, <2>3
  <1>3. CASE r.tool = "read" /\ r.block # None /\ OfTool(c, n) = Reading!ReadBlock(c, n)
    <2>1. Reading!ReadBlock(c, n).ok => GoesOn(r, c, Reading!ReadBlock(c, n))
      BY <1>3, ReadBlockGoesOn
    <2>2. \/ Reading!ReadBlock(c, n) = Reading!Refusal
          \/ \E items, next, used : Reading!ReadBlock(c, n) = Reading!Answer(items, next, used)
      <3>1. n \in Nat
        OBVIOUS
      <3>2. CASE 0 <= ReadsAt(c) /\ ReadsAt(c) <= ReadsTo(c) /\ ReadsTo(c) <= Len(content[c.block])
        <4>1. PICK items, next, used :
                  /\ items = <<Reading!Piece(c.block, ReadsAt(c), Reading!Stop(ReadsTo(c), ReadsAt(c), n))>>
                  /\ next = IF Reading!Stop(ReadsTo(c), ReadsAt(c), n) < ReadsTo(c)
                            THEN Reading!Position(None, Reading!Stop(ReadsTo(c), ReadsAt(c), n), ReadsTo(c)) ELSE None
                  /\ used = Reading!Stop(ReadsTo(c), ReadsAt(c), n) - ReadsAt(c)
          OBVIOUS
        <4>2. Reading!ReadBlock(c, n) = Reading!Answer(items, next, used)
          BY <3>1, <3>2, <4>1, ReadBlockIs
        <4> QED
          BY <4>2
      <3>3. CASE ~(0 <= ReadsAt(c) /\ ReadsAt(c) <= ReadsTo(c) /\ ReadsTo(c) <= Len(content[c.block]))
        BY <3>1, <3>3, ReadBlockIs
      <3> QED
        BY <3>2, <3>3
    <2>3. CASE Reading!ReadBlock(c, n) = Reading!Refusal
      BY <1>3, <2>3, RefusalIs
    <2>4. CASE \E items, next, used : Reading!ReadBlock(c, n) = Reading!Answer(items, next, used)
      <3>1. AnswerShaped(Reading!ReadBlock(c, n)) /\ Reading!ReadBlock(c, n).ok = TRUE /\ Reading!ReadBlock(c, n).more = {}
        BY <2>4, AnswerIsShaped DEF Reading!Answer
      <3> QED
        BY <1>3, <2>1, <3>1
    <2> QED
      BY <2>2, <2>3, <2>4
  <1>4. CASE r.tool = "read" /\ r.block = None /\ OfTool(c, n) = Reading!ReadPage(c, n)
    <2>1. GoesOn(r, c, Reading!ReadPage(c, n))
      BY <1>4, ReadPageGoesOn
    <2>2. PICK h : PageWalks(h, c, n) /\ Reading!ReadPage(c, n) = h[ToRead(c)]
      BY <1>4, PageWalk
    <2>3. ToRead(c) \in 0 .. ToRead(c)
      <3>1. ToRead(c) \in Nat
        BY <1>4, PageInside
      <3> QED
        BY <3>1
    <2>4. Reading!ReadPage(c, n) \in PageResults
      BY <2>2, <2>3 DEF PageWalks
    <2>5. AnswerShaped(Reading!ReadPage(c, n)) /\ Reading!ReadPage(c, n).ok = TRUE /\ Reading!ReadPage(c, n).more = {}
      BY <2>4 DEF PageResults, AnswerShaped
    <2> QED
      BY <1>4, <2>1, <2>5
  <1> QED
    BY <1>1, <1>2, <1>3, <1>4, ToolsAre

\* An answer is a refusal, or what the tool returns, with its budget.
LEMMA AnsweredIs ==
    ASSUME ContentOk, NEW r, NEW c, Going(r, c), NEW n \in Nat \ {0}, NEW a, a = Reading!Answered(c, n)
    PROVE  \/ a = Reading!Refusal /\ (~Reading!Valid(c) \/ ~Reading!Decodes(c))
           \/ /\ Reading!Valid(c) /\ Reading!Decodes(c)
              /\ a.ok = OfTool(c, n).ok /\ a.items = OfTool(c, n).items /\ a.next = OfTool(c, n).next
              /\ a.used = OfTool(c, n).used /\ a.more = OfTool(c, n).more
              /\ c.tool = "read" => a.budget = n
  <1>1. CASE ~Reading!Valid(c) \/ ~Reading!Decodes(c)
    BY <1>1 DEF Reading!Answered
  <1>2. CASE Reading!Valid(c) /\ Reading!Decodes(c)
    <2>1. PICK t : t = OfTool(c, n)
      OBVIOUS
    <2>2. t = [ok |-> t.ok, items |-> t.items, next |-> t.next, used |-> t.used, budget |-> t.budget, more |-> t.more]
      BY <2>1, ToolAnswers DEF AnswerShaped
    <2>3. a = [t EXCEPT !.budget = IF c.tool = "read" THEN n ELSE @]
      BY <1>2, <2>1 DEF Reading!Answered, OfTool
    <2>4. PICK o, i, x, u, b, m : t = [ok |-> o, items |-> i, next |-> x, used |-> u, budget |-> b, more |-> m]
      BY <2>2
    <2>5. /\ a.ok = o /\ a.items = i /\ a.next = x /\ a.used = u /\ a.more = m
          /\ c.tool = "read" => a.budget = n
      BY <2>3, <2>4
    <2>6. t.ok = o /\ t.items = i /\ t.next = x /\ t.used = u /\ t.more = m
      BY <2>4
    <2> QED
      BY <1>2, <2>1, <2>5, <2>6
  <1> QED
    BY <1>1, <1>2

LEMMA AnswersGoOn ==
    ASSUME ContentOk, NEW r, NEW c, Going(r, c), NEW n \in Nat \ {0}, NEW a, a = Reading!Answered(c, n)
    PROVE  /\ a.ok \in BOOLEAN /\ a.more = {}
           /\ a.ok => GoesOn(r, c, a) /\ Reading!Valid(c) /\ Reading!Decodes(c)
           /\ ~a.ok => a.items = <<>> /\ a.next = None
  <1>1. CASE a = Reading!Refusal
    BY <1>1, RefusalIs
  <1>2. CASE /\ Reading!Valid(c) /\ Reading!Decodes(c)
             /\ a.ok = OfTool(c, n).ok /\ a.items = OfTool(c, n).items /\ a.next = OfTool(c, n).next
             /\ a.more = OfTool(c, n).more
    <2>1. a.ok => GoesOn(r, c, a)
      BY <1>2, ToolAnswers DEF GoesOn
    <2>2. ~a.ok => a.items = <<>> /\ a.next = None
      BY <1>2, ToolAnswers, RefusalIs
    <2> QED
      BY <1>2, <2>1, <2>2, ToolAnswers
  <1> QED
    BY <1>1, <1>2, AnsweredIs

LEMMA HandleGoes ==
    ASSUME NEW r, FirstOk(r), NEW p, Goes(r, p), NEW h, h = Reading!Handle(r, p)
    PROVE  /\ Going(r, h) /\ h # None /\ h # r /\ h.cursor # None /\ h.cursor.position = p
           /\ h \in Reading!Requests /\ h.cursor \in Reading!Cursors
           /\ h.cursor = Reading!CursorOf(r, p) /\ h.page = PageBehind(r)
           /\ Reading!Bound(h) = Reading!Bound(r)
           /\ Reading!Valid(h) /\ Reading!Decodes(h)
  <1>1. p \in Reading!Positions /\ p # None
    BY ReadingBounds DEF Goes
  <1>2. Shaped(r) /\ r.cursor = None
    BY DEF FirstOk
  <1>3. h = [tool |-> r.tool, doc |-> r.doc, page |-> PageBehind(r), block |-> r.block, start |-> None,
             end |-> None, pattern |-> r.pattern, cursor |-> Reading!CursorOf(r, p)]
    BY <1>1, <1>2, HandleIs
  <1>4. /\ Reading!CursorOf(r, p) \in Reading!Cursors /\ Reading!CursorOf(r, p) # None
        /\ Reading!CursorOf(r, p).position = p
    BY <1>1, CursorsAreTyped
  <1>5. /\ Shaped(h) /\ h.tool = r.tool /\ h.doc = r.doc /\ h.page = PageBehind(r) /\ h.block = r.block
        /\ h.start = None /\ h.end = None /\ h.pattern = r.pattern /\ h.cursor = Reading!CursorOf(r, p)
    BY <1>3 DEF Shaped
  <1>6. h \in Reading!Requests
    <2>1. r.tool \in {"open", "read", "grep"} /\ PageBehind(r) \in Reading!Pages \cup {None}
          /\ r.block \in Reading!Blocks \cup {None} /\ r.pattern \in Patterns \cup {None}
      BY DEF FirstOk, PageBehind
    <2>2. r.doc \in Nat
      <3>1. PICK d \in Reading!Pages : r.doc = DocumentOf[d]
        BY DEF FirstOk, Reading!Documents, Reading!Range, Reading!Pages
      <3> QED
        BY <3>1, PlacesAreNumbers
    <2> QED
      BY <1>3, <1>4, <2>1, <2>2 DEF Reading!Requests
  <1>7. h # None
    BY <1>6, ReadingBounds
  <1>8. r.tool # "open" => h.page = r.page
    BY <1>5 DEF PageBehind
  <1>9. Going(r, h)
    BY <1>5, <1>8 DEF Going
  <1>10. Reading!Bound(h) = Reading!Bound(r)
    BY <1>5, <1>8 DEF Reading!Bound
  <1>11. Reading!Decodes(h)
    BY <1>5, <1>10 DEF Reading!Decodes, Reading!CursorOf
  <1>12. Reading!Valid(h)
    BY <1>5, <1>8 DEF Reading!Valid, PageBehind, FirstOk
  <1> QED
    BY <1>2, <1>4, <1>5, <1>6, <1>7, <1>9, <1>10, <1>11, <1>12

-----------------------------------------------------------------------------
(* Reading: each answer goes on                                            *)

\* A handle stands for the request of the reading, at a place of it.
HandleOk ==
    /\ ContentOk /\ edited \in SUBSET Reading!Blocks
    /\ asked = Reading!NoRequest \/ FirstOk(asked) \/ asked.tool = "grep all"
    /\ asked = Reading!NoRequest => handle = None
    /\ handle # None => FirstOk(asked) /\ \E p : Goes(asked, p) /\ handle = Reading!Handle(asked, p)

LEMMA FirstIsNotNone ==
    ASSUME NEW r, FirstOk(r)
    PROVE  r # Reading!NoRequest /\ r.tool # "grep all"
  <1>1. r.tool \in {"open", "read", "grep"} /\ None # "open" /\ None # "read" /\ None # "grep"
    BY NoneIsNoPlace DEF FirstOk
  <1> QED
    BY <1>1, NoRequestIs

LEMMA GoesStays ==
    ASSUME UNCHANGED <<content, edited, asked>>, NEW p, Goes(asked, p)
    PROVE  Goes(asked, p)'
  BY DEF Goes

LEMMA ContinueGoesOn ==
    ASSUME HandleOk, NEW n \in 1 .. MaxBudget, Reading!Continue(n)
    PROVE  HandleOk' /\ Reading!Advances
  <1>1. PICK a : a = Reading!Answered(handle, n)
    OBVIOUS
  <1>2. /\ handle # None /\ answer' = a /\ UNCHANGED <<content, edited, asked>>
        /\ handle' = IF a.ok THEN Reading!Handle(handle, a.next) ELSE handle
    BY <1>1 DEF Reading!Continue
  <1>3. PICK r, h, p : r = asked /\ h = handle /\ FirstOk(r) /\ Goes(r, p) /\ h = Reading!Handle(r, p) /\ ContentOk
    BY <1>2 DEF HandleOk
  <1>4. /\ Going(r, h) /\ h # None /\ h.cursor # None /\ h.cursor.position = p
        /\ Shaped(r) /\ p # None
    <2>1. p \in Reading!Positions /\ None \notin Reading!Positions
      BY <1>3, ReadingBounds DEF Goes
    <2>2. Shaped(r)
      BY <1>3 DEF FirstOk
    <2> QED
      BY <1>3, <2>1, <2>2, HandleGoes
  <1>5. a.ok => GoesOn(r, h, a)
    <2>1. n \in Nat \ {0}
      <3>1. MaxBudget \in Nat
        BY ReadingBounds
      <3> QED
        BY <3>1
    <2> QED
      BY <1>1, <1>3, <1>4, <2>1, AnswersGoOn
  <1>6. Reading!Handle(h, a.next) = Reading!Handle(r, a.next)
    BY <1>3, <1>4, HandleAgain
  <1>7. handle' # None => \E q : Goes(r, q) /\ handle' = Reading!Handle(r, q)
    <2>1. CASE a.ok
      <3>1. handle' = Reading!Handle(r, a.next)
        BY <1>2, <1>3, <1>6, <2>1
      <3>2. a.next # None => Goes(r, a.next)
        BY <1>5, <2>1 DEF GoesOn
      <3>3. a.next = None => handle' = None
        BY <3>1 DEF Reading!Handle
      <3> QED
        BY <3>1, <3>2, <3>3
    <2>2. CASE ~a.ok
      BY <1>2, <1>3, <2>2
    <2> QED
      BY <2>1, <2>2
  <1>8. HandleOk'
    <2>1. ContentOk' /\ (edited \in SUBSET Reading!Blocks)' /\ FirstOk(asked)'
      BY <1>2, <1>3 DEF ContentOk, HandleOk, FirstOk, Shaped
    <2>2. asked' # Reading!NoRequest
      BY <1>2, <1>3, FirstIsNotNone
    <2>3. handle' # None => \E q : Goes(asked, q)' /\ handle' = Reading!Handle(asked', q)
      BY <1>2, <1>3, <1>7, GoesStays
    <2> QED
      BY <2>1, <2>2, <2>3 DEF HandleOk
  <1>9. Reading!Advances
    <2> SUFFICES ASSUME handle' # None, answer'.ok
                 PROVE  LET was == handle.cursor.position
                            now == handle'.cursor.position
                        IN \/ now.offset > was.offset /\ now.block = was.block
                           \/ now.block # was.block /\ now.block > was.block
      BY DEF Reading!Advances
    <2>1. a.ok /\ handle' = Reading!Handle(r, a.next)
      BY <1>2, <1>3, <1>6
    <2>2. a.next # None
      BY <2>1 DEF Reading!Handle
    <2>3. Goes(r, a.next) /\ After(h, a.next)
      BY <1>5, <2>1, <2>2 DEF GoesOn
    <2>4. handle'.cursor.position = a.next
      BY <1>3, <2>1, <2>3, HandleGoes
    <2> QED
      BY <1>3, <1>4, <2>3, <2>4 DEF After
  <1> QED
    BY <1>8, <1>9

LEMMA AskGoesOn ==
    ASSUME HandleOk, NEW n \in 1 .. MaxBudget, NEW r \in Reading!FirstRequests, Reading!Ask(r, n)
    PROVE  HandleOk' /\ Reading!Advances
  <1>1. PICK a : a = Reading!Answered(r, n)
    OBVIOUS
  <1>2. /\ asked = Reading!NoRequest /\ a.ok /\ asked' = r /\ handle' = Reading!Handle(r, a.next)
        /\ UNCHANGED <<content, edited>>
    BY <1>1 DEF Reading!Ask
  <1>3. FirstOk(r) /\ Going(r, r)
    BY FirstRequestIs DEF Going, FirstOk
  <1>4. GoesOn(r, r, a)
    <2>1. n \in Nat \ {0}
      <3>1. MaxBudget \in Nat
        BY ReadingBounds
      <3> QED
        BY <3>1
    <2> QED
      BY <1>1, <1>2, <1>3, <2>1, AnswersGoOn DEF HandleOk
  <1>5. handle' # None => Goes(r, a.next) /\ a.next # None
    <2>1. a.next = None => handle' = None
      BY <1>2 DEF Reading!Handle
    <2> QED
      BY <1>4, <2>1 DEF GoesOn
  <1>6. HandleOk'
    <2>1. ContentOk' /\ (edited \in SUBSET Reading!Blocks)'
      BY <1>2 DEF ContentOk, HandleOk
    <2>2. FirstOk(asked') /\ asked' # Reading!NoRequest
      BY <1>2, <1>3, FirstIsNotNone
    <2>3. ASSUME handle' # None  PROVE Goes(asked, a.next)' /\ handle' = Reading!Handle(asked', a.next)
      <3>1. Goes(r, a.next)
        BY <1>5, <2>3
      <3>2. PICK p : p = a.next
        OBVIOUS
      <3>3. Goes(asked, p)'
        BY <1>2, <3>1, <3>2 DEF Goes
      <3> QED
        BY <1>2, <3>2, <3>3
    <2> QED
      BY <2>1, <2>2, <2>3 DEF HandleOk
  <1>7. handle = None
    BY <1>2 DEF HandleOk
  <1> QED
    BY <1>6, <1>7 DEF Reading!Advances

\* A cursor in a request it was not made for is refused.
LEMMA StrayIsRefused ==
    ASSUME HandleOk, NEW n \in 1 .. MaxBudget, NEW r \in Reading!FirstRequests, Reading!Stray(r, n)
    PROVE  /\ UNCHANGED <<content, edited, asked, taken, handle>> /\ answer' = Reading!Refusal
  <1>1. PICK s, a : s = [r EXCEPT !.cursor = handle.cursor, !.start = None, !.end = None]
                    /\ a = Reading!Answered(s, n)
    OBVIOUS
  <1>2. /\ handle # None /\ <<s.doc, s.tool, Reading!Bound(s)>> # <<handle.doc, handle.tool, Reading!Bound(handle)>>
        /\ answer' = a /\ UNCHANGED <<content, edited>>
        /\ ~a.ok => UNCHANGED <<asked, taken, handle>>
    BY <1>1 DEF Reading!Stray
  <1>3. PICK p : FirstOk(asked) /\ Goes(asked, p) /\ handle = Reading!Handle(asked, p)
    BY <1>2 DEF HandleOk
  <1>4. /\ handle.cursor = Reading!CursorOf(asked, p) /\ Reading!Bound(handle) = Reading!Bound(asked)
        /\ handle.cursor # None
    BY <1>3, HandleGoes
  <1>5. handle.doc = asked.doc /\ handle.tool = asked.tool
    <2>1. Going(asked, handle)
      BY <1>3, HandleGoes
    <2> QED
      BY <2>1 DEF Going
  <1>6. s.cursor = handle.cursor
    <2>1. Shaped(r)
      BY FirstRequestIs DEF FirstOk
    <2>2. PICK t, d, g, b, e, f, w, c :
              r = [tool |-> t, doc |-> d, page |-> g, block |-> b, start |-> e, end |-> f, pattern |-> w, cursor |-> c]
      BY <2>1 DEF Shaped
    <2> QED
      BY <1>1, <2>2
  <1>7. ~Reading!Decodes(s)
    <2>1. /\ s.cursor # None /\ s.cursor.doc = handle.doc /\ s.cursor.op = handle.tool
          /\ s.cursor.args = Reading!Bound(handle)
      BY <1>4, <1>5, <1>6 DEF Reading!CursorOf
    <2> QED
      BY <1>2, <2>1 DEF Reading!Decodes
  <1>8. a = Reading!Refusal
    BY <1>1, <1>7 DEF Reading!Answered
  <1> QED
    BY <1>2, <1>8, RefusalIs

LEMMA StrayGoesOn ==
    ASSUME HandleOk, NEW n \in 1 .. MaxBudget, NEW r \in Reading!FirstRequests, Reading!Stray(r, n)
    PROVE  HandleOk' /\ Reading!Advances
  <1>1. UNCHANGED <<content, edited, asked, handle>> /\ ~answer'.ok
    BY StrayIsRefused, RefusalIs
  <1>2. HandleOk'
    <2>1. \A p : Goes(asked, p) => Goes(asked, p)'
      BY <1>1, GoesStays
    <2> QED
      BY <1>1, <2>1 DEF HandleOk, ContentOk, FirstOk, Shaped
  <1> QED
    BY <1>1, <1>2 DEF Reading!Advances

LEMMA AskAllGoesOn ==
    ASSUME HandleOk, NEW w, NEW d, Reading!AskAll(w, d)
    PROVE  HandleOk' /\ Reading!Advances
  <1>1. asked = Reading!NoRequest /\ handle = None /\ UNCHANGED <<content, edited, handle>>
    BY DEF Reading!AskAll, HandleOk
  <1>2. asked' = [Reading!NoRequest EXCEPT !.tool = "grep all", !.pattern = w, !.doc = d]
    BY DEF Reading!AskAll
  <1>3. asked'.tool = "grep all"
    BY <1>2 DEF Reading!NoRequest
  <1>4. asked' # Reading!NoRequest
    BY <1>3, NoRequestIs, NoneIsNoPlace
  <1>5. HandleOk'
    BY <1>1, <1>3, <1>4 DEF HandleOk, ContentOk
  <1> QED
    BY <1>1, <1>5 DEF Reading!Advances

LEMMA EditGoesOn ==
    ASSUME HandleOk, NEW b \in Reading!Blocks, NEW text \in Reading!Texts, Reading!EditInPlace(b, text)
    PROVE  HandleOk' /\ Reading!Advances
  <1>1. /\ handle # None /\ text # content[b] /\ content' = [content EXCEPT ![b] = text]
        /\ edited' = edited \cup {b} /\ UNCHANGED <<asked, handle>>
    BY DEF Reading!EditInPlace
  <1>2. content \in [Reading!Blocks -> Reading!Texts]
    BY DEF HandleOk, ContentOk
  <1>3. content' # content /\ content' \in [Reading!Blocks -> Reading!Texts]
        /\ \A x \in Reading!Blocks : x # b => content'[x] = content[x]
    BY <1>1, <1>2
  <1>4. PICK p : FirstOk(asked) /\ Goes(asked, p) /\ handle = Reading!Handle(asked, p)
    BY <1>1 DEF HandleOk
  <1>5. Goes(asked, p)'
    <2>1. asked.tool = "read" /\ asked.block # None => asked.block \in Reading!Blocks
      BY <1>4 DEF FirstOk
    <2> QED
      BY <1>1, <1>3, <1>4, <2>1 DEF Goes
  <1>6. HandleOk'
    <2>1. ContentOk' /\ (edited \in SUBSET Reading!Blocks)'
      BY <1>1, <1>3 DEF HandleOk, ContentOk
    <2>2. FirstOk(asked') /\ asked' # Reading!NoRequest
      BY <1>1, <1>4, FirstIsNotNone
    <2> QED
      BY <1>1, <1>4, <1>5, <2>1, <2>2 DEF HandleOk
  <1> QED
    BY <1>3, <1>6 DEF Reading!Advances

LEMMA ReadingGoesOn ==
    ASSUME HandleOk, Reading!Next
    PROVE  HandleOk' /\ Reading!Advances
  <1>1. CASE \E n \in 1 .. MaxBudget : \E r \in Reading!FirstRequests : Reading!Ask(r, n)
    BY <1>1, AskGoesOn
  <1>2. CASE \E n \in 1 .. MaxBudget : \E r \in Reading!FirstRequests : Reading!Stray(r, n)
    BY <1>2, StrayGoesOn
  <1>3. CASE \E n \in 1 .. MaxBudget : Reading!Continue(n)
    BY <1>3, ContinueGoesOn
  <1>4. CASE \E w \in Patterns, d \in SUBSET Reading!Documents : Reading!AskAll(w, d)
    BY <1>4, AskAllGoesOn
  <1>5. CASE \E b \in Reading!Blocks, text \in Reading!Texts : Reading!EditInPlace(b, text)
    BY <1>5, EditGoesOn
  <1> QED
    BY <1>1, <1>2, <1>3, <1>4, <1>5 DEF Reading!Next

LEMMA HandleInit == Reading!Init => HandleOk
  BY DEF Reading!Init, HandleOk, ContentOk

LEMMA HandleStays ==
    ASSUME HandleOk, UNCHANGED reading
    PROVE  HandleOk'
  <1>1. UNCHANGED <<content, edited, asked, handle>>
    BY DEF reading
  <1>2. \A p : Goes(asked, p) => Goes(asked, p)'
    BY <1>1, GoesStays
  <1> QED
    BY <1>1, <1>2 DEF HandleOk, ContentOk, FirstOk, Shaped

ReadingInv == part \in {"pages", "words"} => HandleOk

LEMMA ReadingInit == Init => ReadingInv
  BY HandleInit DEF Init, ReadingInv

LEMMA ReadingStep ==
    ReadingInv /\ [Next]_<<part, files, revisions, chunking, reading, tx>> =>
        ReadingInv' /\ [(part \in {"pages", "words"}) => Reading!Advances]_reading
  <1> SUFFICES ASSUME ReadingInv, [Next]_<<part, files, revisions, chunking, reading, tx>>
               PROVE  ReadingInv' /\ [(part \in {"pages", "words"}) => Reading!Advances]_reading
    OBVIOUS
  <1>1. part' = part
    BY DEF Next, FilesMove, BlocksMove, ChunksMove, ReadingMoves, LocksMove
  <1>2. CASE ReadingMoves
    <2>1. HandleOk /\ Reading!Next
      BY <1>2 DEF ReadingMoves, ReadingInv
    <2> QED
      BY <1>1, <2>1, ReadingGoesOn DEF ReadingInv
  <1>3. CASE UNCHANGED reading
    <2>1. HandleOk => HandleOk'
      BY <1>3, HandleStays
    <2> QED
      BY <1>1, <1>3, <2>1 DEF ReadingInv
  <1> QED
    BY <1>2, <1>3 DEF Next, FilesMove, BlocksMove, ChunksMove, LocksMove

\* Of any blocks, texts, cursors and budgets: a new reading of a file carries over what
\* a teacher changed or makes a review of it (carry_forward), and each answer of open,
\* read and grep goes on from a later place than the one before it, so that following
\* the handles of ToolView comes to an end (document_reader.py).
THEOREM NothingIsLost == Spec => StepsLoseNothing
  <1> DEFINE Inv == BlocksInv /\ ReadingInv
  <1>1. Init => Inv
    BY BlocksInit, ReadingInit
  <1>2. Inv /\ [Next]_<<part, files, revisions, chunking, reading, tx>> => Inv'
    BY BlocksStep, ReadingStep
  <1>3. Inv /\ [Next]_<<part, files, revisions, chunking, reading, tx>> =>
            /\ [(part \in EditedBlocks) => Edits!LosesNoChange]_revisions
            /\ [(part \in {"pages", "words"}) => Reading!Advances]_reading
    <2> SUFFICES ASSUME BlocksInv, ReadingInv,
                        [Next]_<<part, files, revisions, chunking, reading, tx>>
                 PROVE  /\ [(part \in EditedBlocks) => Edits!LosesNoChange]_revisions
                        /\ [(part \in {"pages", "words"}) => Reading!Advances]_reading
      OBVIOUS
    <2>1. [(part \in EditedBlocks) => Edits!LosesNoChange]_revisions
      <3>1. CASE BlocksMove
        BY <3>1, ReadingLosesNothing DEF BlocksMove, BlocksInv
      <3>2. CASE UNCHANGED revisions
        BY <3>2
      <3> QED
        BY <3>1, <3>2 DEF Next, FilesMove, ChunksMove, ReadingMoves, LocksMove
    <2> QED
      BY <2>1, ReadingStep
  <1> QED
    BY <1>1, <1>2, <1>3, PTL DEF Spec, StepsLoseNothing

=============================================================================
