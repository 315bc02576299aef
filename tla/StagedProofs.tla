----------------------------- MODULE StagedProofs -----------------------------
(***************************************************************************)
(* Theorems about StagedFiles, for any number of uploads, of attempts to   *)
(* parse, of changes and of overrun leases: until a lease passes under the *)
(* hands of its writer, every row has its whole file and no file is lost.  *)
(***************************************************************************)
EXTENDS StagedFiles, TLAPS

-----------------------------------------------------------------------------
(* The inductive invariant, as long as no lease was overrun *)

\* A key is in the ledger from the staging of its file until a row owns the file or
\* the file is gone, whoever removes it.
KeyInv(k) ==
    /\ at[k] \in {"idle", "begun"} => k \notin ledger /\ k \notin row /\ file[k] = "none"
    /\ at[k] = "staged" => k \notin row /\ file[k] = "none" /\ (k \notin passed => k \in ledger)
    /\ at[k] = "writing" => k \notin row /\ k \notin passed /\ k \in ledger /\ file[k] = "part"
    /\ k \in row => k \notin ledger /\ at[k] \in {"discarding", "done"}
    /\ file[k] # "none" => k \in ledger \/ k \in row
    /\ seen[k] <= generation

\* What is on disk once an upload has written it; its lease passes when it is done, and
\* it locks the document no longer than a step.
UploadInv(u) ==
    /\ at[u] # "checked"
    /\ u \in passed => at[u] = "done"
    /\ at[u] = "written" => u \in ledger /\ file[u] = "whole"

\* A worker that still holds its claim has its file, or uses an asset that is stored.
ParseInv(p) ==
    /\ (at[p] = "written" /\ HoldsClaim(p)) \/ at[p] = "checked" =>
           IF Reused(p) = {} THEN p \in ledger /\ file[p] = "whole" ELSE p \notin ledger
    /\ at[p] \in {"staged", "writing"} /\ HoldsClaim(p) => Reused(p) = {}
    /\ at[p] = "checked" => HoldsClaim(p)

\* The cleanup has the keys of all rows whose files are still there.
DeletedInv ==
    /\ life = "none" => row = {}
    /\ life # "deleted" => cleanup = NoCleanup
    /\ cleanup.remaining \subseteq row
    /\ life = "deleted" => \A k \in row : file[k] # "none" => k \in cleanup.remaining
    /\ life = "active" => \A k \in row : file[k] = "whole"

FilesInv ==
    /\ overruns = 0
    /\ \A k \in Keys : KeyInv(k)
    /\ \A u \in Uploads : UploadInv(u)
    /\ \A p \in Parses : ParseInv(p)
    /\ DeletedInv

LEMMA FilesInit ==
    ASSUME StagedAssumption, Init
    PROVE  TypeOK /\ FilesInv
  BY DEF Init, FilesInv, TypeOK, KeyInv, UploadInv, ParseInv, DeletedInv, Keys, Steps,
         NoCleanup,
         StagedAssumption

\* What every step below is looked at with.
USE DEF FilesInv, TypeOK, Keys, Steps, NoCleanup, document, disk, attempts, StagedAssumption

-----------------------------------------------------------------------------
(* Types *)

LEMMA TypesOfWriters ==
    ASSUME StagedAssumption, TypeOK, NEW k \in Keys, WriterStep(k)
    PROVE  TypeOK'
  <1>1. CASE StageUpload(k)
    BY <1>1 DEF StageUpload, Goes
  <1>2. CASE CommitUpload(k)
    BY <1>2 DEF CommitUpload, Goes
  <1>3. CASE RefuseUpload(k)
    BY <1>3 DEF RefuseUpload, Goes
  <1>4. CASE WritePart(k)
    BY <1>4 DEF WritePart, Goes
  <1>5. CASE LinkFile(k)
    BY <1>5 DEF LinkFile, Goes
  <1>6. CASE FailWrite(k)
    BY <1>6 DEF FailWrite, Goes
  <1>7. CASE Discard(k)
    BY <1>7 DEF Discard, Goes, Unowned
  <1>8. CASE StageParse(k)
    BY <1>8 DEF StageParse, Goes
  <1>9. CASE CheckClaim(k)
    BY <1>9 DEF CheckClaim, Goes
  <1>10. CASE CommitParse(k)
    BY <1>10 DEF CommitParse, Goes
  <1>11. CASE StopParse(k)
    BY <1>11 DEF StopParse
  <1> QED
    BY <1>1, <1>2, <1>3, <1>4, <1>5, <1>6, <1>7, <1>8, <1>9, <1>10, <1>11 DEF WriterStep

LEMMA TypesStep ==
    ASSUME StagedAssumption, TypeOK, [Next]_vars
    PROVE  TypeOK'
  <1>1. ASSUME NEW k \in Keys, BeginReplace(k) PROVE TypeOK'
    BY <1>1 DEF BeginReplace, Goes, StartGeneration
  <1>2. ASSUME NEW k \in Keys, ClaimParse(k) PROVE TypeOK'
    BY <1>2 DEF ClaimParse, Goes, StartGeneration, Sources
  <1>3. ASSUME NEW k \in Keys, Sweep(k) PROVE TypeOK'
    BY <1>3 DEF Sweep, Removed, Due, Unowned
  <1>4. ASSUME NEW k \in Keys, LeasePasses(k) PROVE TypeOK'
    BY <1>4 DEF LeasePasses, Working
  <1>5. ASSUME NEW k \in Keys, Crash(k) PROVE TypeOK'
    BY <1>5 DEF Crash
  <1>6. CASE Change
    BY <1>6 DEF Change
  <1>7. CASE MarkDeleted
    BY <1>7 DEF MarkDeleted, OwnedKeys
  <1>8. CASE CleanupFails
    BY <1>8 DEF CleanupFails, Removed
  <1>9. CASE CleanupCrashes
    BY <1>9 DEF CleanupCrashes, Removed, Due
  <1>10. CASE RunCleanup
    BY <1>10 DEF RunCleanup, Removed, Due
  <1>11. CASE UNCHANGED vars
    BY <1>11 DEF vars
  <1> QED
    BY <1>1, <1>2, <1>3, <1>4, <1>5, <1>6, <1>7, <1>8, <1>9, <1>10, <1>11, TypesOfWriters DEF
       Next

-----------------------------------------------------------------------------
(* An upload request *)

LEMMA BeginReplaceKeeps ==
    ASSUME StagedAssumption, TypeOK, FilesInv, NEW k \in Keys, BeginReplace(k)
    PROVE  FilesInv'
  <1>1. overruns' = 0
    BY DEF BeginReplace
  <1>2. ASSUME NEW j \in Keys PROVE KeyInv(j)'
    BY DEF BeginReplace, Goes, StartGeneration, KeyInv, UploadInv, ParseInv, DeletedInv,
           HoldsClaim
  <1>3. ASSUME NEW u \in Uploads PROVE UploadInv(u)'
    BY DEF BeginReplace, Goes, StartGeneration, KeyInv, UploadInv
  <1>4. ASSUME NEW p \in Parses PROVE ParseInv(p)'
    BY DEF BeginReplace, Goes, StartGeneration, KeyInv, ParseInv, HoldsClaim, Reused
  <1>5. DeletedInv'
    BY DEF BeginReplace, Goes, StartGeneration, KeyInv, UploadInv, ParseInv, DeletedInv
  <1> QED
    BY <1>1, <1>2, <1>3, <1>4, <1>5

LEMMA StageUploadKeeps ==
    ASSUME StagedAssumption, TypeOK, FilesInv, NEW k \in Keys, StageUpload(k)
    PROVE  FilesInv'
  <1>1. overruns' = 0
    BY DEF StageUpload
  <1>2. ASSUME NEW j \in Keys PROVE KeyInv(j)'
    BY DEF StageUpload, Goes, KeyInv, UploadInv, ParseInv, DeletedInv, HoldsClaim
  <1>3. ASSUME NEW u \in Uploads PROVE UploadInv(u)'
    BY DEF StageUpload, Goes, KeyInv, UploadInv
  <1>4. ASSUME NEW p \in Parses PROVE ParseInv(p)'
    BY DEF StageUpload, Goes, KeyInv, ParseInv, HoldsClaim, Reused
  <1>5. DeletedInv'
    BY DEF StageUpload, Goes, KeyInv, UploadInv, ParseInv, DeletedInv
  <1> QED
    BY <1>1, <1>2, <1>3, <1>4, <1>5

LEMMA CommitUploadKeeps ==
    ASSUME StagedAssumption, TypeOK, FilesInv, NEW k \in Keys, CommitUpload(k)
    PROVE  FilesInv'
  <1>1. overruns' = 0
    BY DEF CommitUpload
  <1>2. ASSUME NEW j \in Keys PROVE KeyInv(j)'
    BY DEF CommitUpload, Goes, UploadMayCommit, Unlocked, KeyInv, UploadInv, ParseInv,
           DeletedInv, HoldsClaim
  <1>3. ASSUME NEW u \in Uploads PROVE UploadInv(u)'
    BY DEF CommitUpload, Goes, UploadMayCommit, Unlocked, KeyInv, UploadInv
  <1>4. ASSUME NEW p \in Parses PROVE ParseInv(p)'
    BY DEF CommitUpload, Goes, UploadMayCommit, Unlocked, KeyInv, ParseInv, HoldsClaim, Reused
  <1>5. DeletedInv'
    BY DEF CommitUpload, Goes, UploadMayCommit, Unlocked, KeyInv, UploadInv, ParseInv,
           DeletedInv
  <1> QED
    BY <1>1, <1>2, <1>3, <1>4, <1>5

LEMMA RefuseUploadKeeps ==
    ASSUME StagedAssumption, TypeOK, FilesInv, NEW k \in Keys, RefuseUpload(k)
    PROVE  FilesInv'
  <1>1. overruns' = 0
    BY DEF RefuseUpload
  <1>2. ASSUME NEW j \in Keys PROVE KeyInv(j)'
    BY DEF RefuseUpload, Goes, KeyInv, UploadInv, ParseInv, DeletedInv, HoldsClaim
  <1>3. ASSUME NEW u \in Uploads PROVE UploadInv(u)'
    BY DEF RefuseUpload, Goes, KeyInv, UploadInv
  <1>4. ASSUME NEW p \in Parses PROVE ParseInv(p)'
    BY DEF RefuseUpload, Goes, KeyInv, ParseInv, HoldsClaim, Reused
  <1>5. DeletedInv'
    BY DEF RefuseUpload, Goes, KeyInv, UploadInv, ParseInv, DeletedInv
  <1> QED
    BY <1>1, <1>2, <1>3, <1>4, <1>5

-----------------------------------------------------------------------------
(* The writing of a file *)

LEMMA WritePartKeeps ==
    ASSUME StagedAssumption, TypeOK, FilesInv, NEW k \in Keys, WritePart(k)
    PROVE  FilesInv'
  <1>1. overruns' = 0
    BY DEF WritePart
  <1>2. ASSUME NEW j \in Keys PROVE KeyInv(j)'
    BY DEF WritePart, Goes, KeyInv, UploadInv, ParseInv, DeletedInv, HoldsClaim
  <1>3. ASSUME NEW u \in Uploads PROVE UploadInv(u)'
    BY DEF WritePart, Goes, KeyInv, UploadInv
  <1>4. ASSUME NEW p \in Parses PROVE ParseInv(p)'
    BY DEF WritePart, Goes, KeyInv, ParseInv, HoldsClaim, Reused
  <1>5. DeletedInv'
    BY DEF WritePart, Goes, KeyInv, UploadInv, ParseInv, DeletedInv
  <1> QED
    BY <1>1, <1>2, <1>3, <1>4, <1>5

LEMMA LinkFileKeeps ==
    ASSUME StagedAssumption, TypeOK, FilesInv, NEW k \in Keys, LinkFile(k)
    PROVE  FilesInv'
  <1>1. overruns' = 0
    BY DEF LinkFile
  <1>2. ASSUME NEW j \in Keys PROVE KeyInv(j)'
    BY DEF LinkFile, Goes, KeyInv, UploadInv, ParseInv, DeletedInv, HoldsClaim
  <1>3. ASSUME NEW u \in Uploads PROVE UploadInv(u)'
    BY DEF LinkFile, Goes, KeyInv, UploadInv
  <1>4. ASSUME NEW p \in Parses PROVE ParseInv(p)'
    BY DEF LinkFile, Goes, KeyInv, ParseInv, HoldsClaim, Reused
  <1>5. DeletedInv'
    BY DEF LinkFile, Goes, KeyInv, UploadInv, ParseInv, DeletedInv
  <1> QED
    BY <1>1, <1>2, <1>3, <1>4, <1>5

LEMMA FailWriteKeeps ==
    ASSUME StagedAssumption, TypeOK, FilesInv, NEW k \in Keys, FailWrite(k)
    PROVE  FilesInv'
  <1>1. overruns' = 0
    BY DEF FailWrite
  <1>2. ASSUME NEW j \in Keys PROVE KeyInv(j)'
    BY DEF FailWrite, Goes, KeyInv, UploadInv, ParseInv, DeletedInv, HoldsClaim
  <1>3. ASSUME NEW u \in Uploads PROVE UploadInv(u)'
    BY DEF FailWrite, Goes, KeyInv, UploadInv
  <1>4. ASSUME NEW p \in Parses PROVE ParseInv(p)'
    BY DEF FailWrite, Goes, KeyInv, ParseInv, HoldsClaim, Reused
  <1>5. DeletedInv'
    BY DEF FailWrite, Goes, KeyInv, UploadInv, ParseInv, DeletedInv
  <1> QED
    BY <1>1, <1>2, <1>3, <1>4, <1>5

LEMMA DiscardKeeps ==
    ASSUME StagedAssumption, TypeOK, FilesInv, NEW k \in Keys, Discard(k)
    PROVE  FilesInv'
  <1>1. overruns' = 0
    BY DEF Discard
  <1>2. ASSUME NEW j \in Keys PROVE KeyInv(j)'
    BY DEF Discard, Goes, Unowned, KeyInv, UploadInv, ParseInv, DeletedInv, HoldsClaim
  <1>3. ASSUME NEW u \in Uploads PROVE UploadInv(u)'
    BY DEF Discard, Goes, Unowned, KeyInv, UploadInv
  <1>4. ASSUME NEW p \in Parses PROVE ParseInv(p)'
    BY DEF Discard, Goes, Unowned, KeyInv, ParseInv, HoldsClaim, Reused
  <1>5. DeletedInv'
    BY DEF Discard, Goes, Unowned, KeyInv, UploadInv, ParseInv, DeletedInv
  <1> QED
    BY <1>1, <1>2, <1>3, <1>4, <1>5

-----------------------------------------------------------------------------
(* An attempt to parse *)

LEMMA ClaimParseKeeps ==
    ASSUME StagedAssumption, TypeOK, FilesInv, NEW k \in Keys, ClaimParse(k)
    PROVE  FilesInv'
  <1>1. overruns' = 0
    BY DEF ClaimParse
  <1>2. ASSUME NEW j \in Keys PROVE KeyInv(j)'
    BY DEF ClaimParse, Goes, StartGeneration, Unlocked, KeyInv, UploadInv, ParseInv,
           DeletedInv, HoldsClaim
  <1>3. ASSUME NEW u \in Uploads PROVE UploadInv(u)'
    BY DEF ClaimParse, Goes, StartGeneration, Unlocked, KeyInv, UploadInv
  <1>4. ASSUME NEW p \in Parses PROVE ParseInv(p)'
    BY DEF ClaimParse, Goes, StartGeneration, Unlocked, KeyInv, ParseInv, HoldsClaim, Reused
  <1>5. DeletedInv'
    BY DEF ClaimParse, Goes, StartGeneration, Unlocked, KeyInv, UploadInv, ParseInv, DeletedInv
  <1> QED
    BY <1>1, <1>2, <1>3, <1>4, <1>5

LEMMA StageParseKeeps ==
    ASSUME StagedAssumption, TypeOK, FilesInv, NEW k \in Keys, StageParse(k)
    PROVE  FilesInv'
  <1>1. overruns' = 0
    BY DEF StageParse
  <1>2. ASSUME NEW j \in Keys PROVE KeyInv(j)'
    BY DEF StageParse, Goes, KeyInv, UploadInv, ParseInv, DeletedInv, HoldsClaim
  <1>3. ASSUME NEW u \in Uploads PROVE UploadInv(u)'
    BY DEF StageParse, Goes, KeyInv, UploadInv
  <1>4. ASSUME NEW p \in Parses PROVE ParseInv(p)'
    BY DEF StageParse, Goes, KeyInv, ParseInv, HoldsClaim, Reused
  <1>5. DeletedInv'
    BY DEF StageParse, Goes, KeyInv, UploadInv, ParseInv, DeletedInv
  <1> QED
    BY <1>1, <1>2, <1>3, <1>4, <1>5

LEMMA CheckClaimKeeps ==
    ASSUME StagedAssumption, TypeOK, FilesInv, NEW k \in Keys, CheckClaim(k)
    PROVE  FilesInv'
  <1>1. overruns' = 0
    BY DEF CheckClaim
  <1>2. ASSUME NEW j \in Keys PROVE KeyInv(j)'
    BY DEF CheckClaim, Goes, KeyInv, UploadInv, ParseInv, DeletedInv, HoldsClaim
  <1>3. ASSUME NEW u \in Uploads PROVE UploadInv(u)'
    BY DEF CheckClaim, Goes, KeyInv, UploadInv
  <1>4. ASSUME NEW p \in Parses PROVE ParseInv(p)'
    BY DEF CheckClaim, Goes, KeyInv, ParseInv, HoldsClaim, Reused
  <1>5. DeletedInv'
    BY DEF CheckClaim, Goes, KeyInv, UploadInv, ParseInv, DeletedInv
  <1> QED
    BY <1>1, <1>2, <1>3, <1>4, <1>5

LEMMA CommitParseKeeps ==
    ASSUME StagedAssumption, TypeOK, FilesInv, NEW k \in Keys, CommitParse(k)
    PROVE  FilesInv'
  <1>1. overruns' = 0
    BY DEF CommitParse
  <1>2. ASSUME NEW j \in Keys PROVE KeyInv(j)'
    BY DEF CommitParse, Goes, KeyInv, UploadInv, ParseInv, DeletedInv, HoldsClaim
  <1>3. ASSUME NEW u \in Uploads PROVE UploadInv(u)'
    BY DEF CommitParse, Goes, KeyInv, UploadInv
  <1>4. ASSUME NEW p \in Parses PROVE ParseInv(p)'
    BY DEF CommitParse, Goes, KeyInv, ParseInv, HoldsClaim, Reused
  <1>5. DeletedInv'
    BY DEF CommitParse, Goes, KeyInv, UploadInv, ParseInv, DeletedInv, HoldsClaim, Reused
  <1> QED
    BY <1>1, <1>2, <1>3, <1>4, <1>5

LEMMA StopParseKeeps ==
    ASSUME StagedAssumption, TypeOK, FilesInv, NEW k \in Keys, StopParse(k)
    PROVE  FilesInv'
  <1>1. overruns' = 0
    BY DEF StopParse
  <1>2. ASSUME NEW j \in Keys PROVE KeyInv(j)'
    BY DEF StopParse, KeyInv, UploadInv, ParseInv, DeletedInv, HoldsClaim
  <1>3. ASSUME NEW u \in Uploads PROVE UploadInv(u)'
    BY DEF StopParse, KeyInv, UploadInv
  <1>4. ASSUME NEW p \in Parses PROVE ParseInv(p)'
    BY DEF StopParse, KeyInv, ParseInv, HoldsClaim, Reused
  <1>5. DeletedInv'
    BY DEF StopParse, KeyInv, UploadInv, ParseInv, DeletedInv
  <1> QED
    BY <1>1, <1>2, <1>3, <1>4, <1>5

-----------------------------------------------------------------------------
(* The document, the cleanup and the sweep *)

LEMMA ChangeKeeps ==
    ASSUME StagedAssumption, TypeOK, FilesInv, Change
    PROVE  FilesInv'
  <1>1. overruns' = 0
    BY DEF Change
  <1>2. ASSUME NEW j \in Keys PROVE KeyInv(j)'
    BY DEF Change, Unlocked, KeyInv, UploadInv, ParseInv, DeletedInv, HoldsClaim
  <1>3. ASSUME NEW u \in Uploads PROVE UploadInv(u)'
    BY DEF Change, Unlocked, KeyInv, UploadInv
  <1>4. ASSUME NEW p \in Parses PROVE ParseInv(p)'
    BY DEF Change, Unlocked, KeyInv, ParseInv, HoldsClaim, Reused
  <1>5. DeletedInv'
    BY DEF Change, Unlocked, KeyInv, UploadInv, ParseInv, DeletedInv
  <1> QED
    BY <1>1, <1>2, <1>3, <1>4, <1>5

LEMMA MarkDeletedKeeps ==
    ASSUME StagedAssumption, TypeOK, FilesInv, MarkDeleted
    PROVE  FilesInv'
  <1>1. overruns' = 0
    BY DEF MarkDeleted
  <1>2. ASSUME NEW j \in Keys PROVE KeyInv(j)'
    BY DEF MarkDeleted, Unlocked, OwnedKeys, KeyInv, UploadInv, ParseInv, DeletedInv, HoldsClaim
  <1>3. ASSUME NEW u \in Uploads PROVE UploadInv(u)'
    BY DEF MarkDeleted, Unlocked, OwnedKeys, KeyInv, UploadInv
  <1>4. ASSUME NEW p \in Parses PROVE ParseInv(p)'
    BY DEF MarkDeleted, Unlocked, OwnedKeys, KeyInv, ParseInv, HoldsClaim, Reused
  <1>5. DeletedInv'
    BY DEF MarkDeleted, Unlocked, OwnedKeys, KeyInv, UploadInv, ParseInv, DeletedInv
  <1> QED
    BY <1>1, <1>2, <1>3, <1>4, <1>5

LEMMA CleanupFailsKeeps ==
    ASSUME StagedAssumption, TypeOK, FilesInv, CleanupFails
    PROVE  FilesInv'
  <1>1. overruns' = 0
    BY DEF CleanupFails
  <1>2. ASSUME NEW j \in Keys PROVE KeyInv(j)'
    BY DEF CleanupFails, Removed, KeyInv, UploadInv, ParseInv, DeletedInv, HoldsClaim
  <1>3. ASSUME NEW u \in Uploads PROVE UploadInv(u)'
    BY DEF CleanupFails, Removed, KeyInv, UploadInv, DeletedInv
  <1>4. ASSUME NEW p \in Parses PROVE ParseInv(p)'
    BY DEF CleanupFails, Removed, KeyInv, ParseInv, HoldsClaim, Reused
  <1>5. DeletedInv'
    BY DEF CleanupFails, Removed, KeyInv, UploadInv, ParseInv, DeletedInv
  <1> QED
    BY <1>1, <1>2, <1>3, <1>4, <1>5

LEMMA CleanupCrashesKeeps ==
    ASSUME StagedAssumption, TypeOK, FilesInv, CleanupCrashes
    PROVE  FilesInv'
  <1>1. overruns' = 0
    BY DEF CleanupCrashes
  <1>2. ASSUME NEW j \in Keys PROVE KeyInv(j)'
    BY DEF CleanupCrashes, Removed, Due, KeyInv, UploadInv, ParseInv, DeletedInv, HoldsClaim
  <1>3. ASSUME NEW u \in Uploads PROVE UploadInv(u)'
    BY DEF CleanupCrashes, Removed, Due, KeyInv, UploadInv, DeletedInv
  <1>4. ASSUME NEW p \in Parses PROVE ParseInv(p)'
    BY DEF CleanupCrashes, Removed, Due, KeyInv, ParseInv, HoldsClaim, Reused
  <1>5. DeletedInv'
    BY DEF CleanupCrashes, Removed, Due, KeyInv, UploadInv, ParseInv, DeletedInv
  <1> QED
    BY <1>1, <1>2, <1>3, <1>4, <1>5

LEMMA RunCleanupKeeps ==
    ASSUME StagedAssumption, TypeOK, FilesInv, RunCleanup
    PROVE  FilesInv'
  <1>1. overruns' = 0
    BY DEF RunCleanup
  <1>2. ASSUME NEW j \in Keys PROVE KeyInv(j)'
    BY DEF RunCleanup, Removed, Due, KeyInv, UploadInv, ParseInv, DeletedInv, HoldsClaim
  <1>3. ASSUME NEW u \in Uploads PROVE UploadInv(u)'
    BY DEF RunCleanup, Removed, Due, KeyInv, UploadInv, DeletedInv
  <1>4. ASSUME NEW p \in Parses PROVE ParseInv(p)'
    BY DEF RunCleanup, Removed, Due, KeyInv, ParseInv, HoldsClaim, Reused
  <1>5. DeletedInv'
    BY DEF RunCleanup, Removed, Due, KeyInv, UploadInv, ParseInv, DeletedInv
  <1> QED
    BY <1>1, <1>2, <1>3, <1>4, <1>5

LEMMA SweepKeeps ==
    ASSUME StagedAssumption, TypeOK, FilesInv, NEW k \in Keys, Sweep(k)
    PROVE  FilesInv'
  <1>1. overruns' = 0
    BY DEF Sweep
  <1>2. ASSUME NEW j \in Keys PROVE KeyInv(j)'
    BY DEF Sweep, Removed, Due, Unowned, KeyInv, UploadInv, ParseInv, DeletedInv, HoldsClaim
  <1>3. ASSUME NEW u \in Uploads PROVE UploadInv(u)'
    BY DEF Sweep, Removed, Due, Unowned, KeyInv, UploadInv
  <1>4. ASSUME NEW p \in Parses PROVE ParseInv(p)'
    BY DEF Sweep, Removed, Due, Unowned, KeyInv, ParseInv, HoldsClaim, Reused
  <1>5. DeletedInv'
    BY DEF Sweep, Removed, Due, Unowned, KeyInv, UploadInv, ParseInv, DeletedInv
  <1> QED
    BY <1>1, <1>2, <1>3, <1>4, <1>5

LEMMA LeasePassesKeeps ==
    ASSUME StagedAssumption, TypeOK, FilesInv, NEW k \in Keys, LeasePasses(k), overruns' = 0
    PROVE  FilesInv'
  <1>1. overruns' = 0
    BY DEF LeasePasses
  <1>2. ASSUME NEW j \in Keys PROVE KeyInv(j)'
    BY DEF LeasePasses, Working, KeyInv, UploadInv, ParseInv, DeletedInv, HoldsClaim
  <1>3. ASSUME NEW u \in Uploads PROVE UploadInv(u)'
    <2>1. k = u => k \in ledger /\ ~Working(k)
      BY DEF LeasePasses
    <2>2. k = u => at[u] = "done"
      BY <2>1 DEF Working, KeyInv, UploadInv
    <2> QED
      BY <2>2 DEF LeasePasses, UploadInv
  <1>4. ASSUME NEW p \in Parses PROVE ParseInv(p)'
    BY DEF LeasePasses, Working, KeyInv, ParseInv, HoldsClaim, Reused
  <1>5. DeletedInv'
    BY DEF LeasePasses, Working, KeyInv, UploadInv, ParseInv, DeletedInv
  <1> QED
    BY <1>1, <1>2, <1>3, <1>4, <1>5

LEMMA CrashKeeps ==
    ASSUME StagedAssumption, TypeOK, FilesInv, NEW k \in Keys, Crash(k)
    PROVE  FilesInv'
  <1>1. overruns' = 0
    BY DEF Crash
  <1>2. ASSUME NEW j \in Keys PROVE KeyInv(j)'
    BY DEF Crash, KeyInv, UploadInv, ParseInv, DeletedInv, HoldsClaim
  <1>3. ASSUME NEW u \in Uploads PROVE UploadInv(u)'
    BY DEF Crash, KeyInv, UploadInv
  <1>4. ASSUME NEW p \in Parses PROVE ParseInv(p)'
    BY DEF Crash, KeyInv, ParseInv, HoldsClaim, Reused
  <1>5. DeletedInv'
    BY DEF Crash, KeyInv, UploadInv, ParseInv, DeletedInv
  <1> QED
    BY <1>1, <1>2, <1>3, <1>4, <1>5

-----------------------------------------------------------------------------
(* All of them *)

LEMMA FilesStep ==
    ASSUME StagedAssumption, TypeOK, FilesInv, [Next]_vars, overruns' = 0
    PROVE  FilesInv'
  <1>1. CASE UNCHANGED vars
    BY <1>1 DEF vars, KeyInv, UploadInv, ParseInv, DeletedInv, HoldsClaim, Reused
  <1>2. ASSUME NEW k \in Keys, WriterStep(k)
        PROVE  FilesInv'
    BY <1>2, StageUploadKeeps, CommitUploadKeeps, RefuseUploadKeeps, WritePartKeeps,
       LinkFileKeeps,
       FailWriteKeeps, DiscardKeeps, StageParseKeeps, CheckClaimKeeps, CommitParseKeeps,
       StopParseKeeps DEF WriterStep
  <1>3. ASSUME NEW k \in Keys,
               BeginReplace(k) \/ ClaimParse(k) \/ Sweep(k) \/ LeasePasses(k) \/ Crash(k)
        PROVE  FilesInv'
    BY <1>3, BeginReplaceKeeps, ClaimParseKeeps, SweepKeeps, LeasePassesKeeps, CrashKeeps
  <1> QED
    BY <1>1, <1>2, <1>3, ChangeKeeps, MarkDeletedKeeps, CleanupFailsKeeps, CleanupCrashesKeeps,
       RunCleanupKeeps DEF Next

\* What the invariant says of rows, files and the cleanup.
LEMMA FilesMatch ==
    TypeOK /\ FilesInv => OwnedFilesExist /\ NoLostFiles
  BY DEF OwnedFilesExist, NoLostFiles, KeyInv, DeletedInv

LEMMA OverrunsCount ==
    ASSUME TypeOK, [Next]_vars
    PROVE  overruns' = 0 => overruns = 0
  <1>1. ASSUME NEW k \in Keys, LeasePasses(k)
        PROVE  overruns' = 0 => overruns = 0
    BY <1>1 DEF LeasePasses
  <1>2. ASSUME NEW k \in Keys,
               WriterStep(k) \/ BeginReplace(k) \/ ClaimParse(k) \/ Sweep(k) \/ Crash(k)
        PROVE  overruns' = overruns
    BY <1>2 DEF WriterStep, StageUpload, CommitUpload, RefuseUpload, WritePart, LinkFile,
       FailWrite, Discard, StageParse, CheckClaim, CommitParse, StopParse, BeginReplace,
       ClaimParse, Sweep, Crash
  <1> QED
    BY <1>1, <1>2 DEF Next, vars, Change, MarkDeleted, CleanupFails, CleanupCrashes, RunCleanup

StagedInv == TypeOK /\ (overruns = 0 => FilesInv)

LEMMA StagedInit == ASSUME StagedAssumption, Init PROVE StagedInv
  BY FilesInit DEF StagedInv

LEMMA StagedStep == ASSUME StagedAssumption, StagedInv, [Next]_vars PROVE StagedInv'
  BY FilesStep, TypesStep, OverrunsCount DEF StagedInv

\* Until a lease was overrun every row of a document that is not deleted has its whole
\* file, and every file is known to a row, the ledger or the cleanup, however uploads,
\* attempts to parse, sweeps, cleanups and crashes are cut.
THEOREM RowsHaveFiles ==
    ASSUME StagedAssumption
    PROVE  Spec => [](overruns = 0 => OwnedFilesExist /\ NoLostFiles)
  <1>1. StagedInv => (overruns = 0 => OwnedFilesExist /\ NoLostFiles)
    BY FilesMatch DEF StagedInv
  <1> QED
    BY <1>1, StagedInit, StagedStep, PTL DEF Spec
=============================================================================
