------------------------ MODULE UploadPipelineProofs ------------------------
(***************************************************************************)
(* What is proved of UploadPipeline, for every tree of entries, every page *)
(* and batch size and any number of edits, crashes and faults: the types,  *)
(* that the loop stores what it takes for stored and makes each folder     *)
(* once, and that the pipeline implements TransferQueue.                   *)
(*                                                                         *)
(* The inductive invariant IInv has one part for the queue, taken over     *)
(* from TransferQueueProofs, one for where the loop is and what it holds   *)
(* there, and one for each of the two properties.  Every part has a lemma  *)
(* of its own.                                                             *)
(***************************************************************************)
EXTENDS UploadPipeline, FiniteSetTheorems, TLAPS

QP == INSTANCE TransferQueueProofs

-----------------------------------------------------------------------------
(***************************************************************************)
(* The inductive invariant, in parts.                                      *)
(***************************************************************************)

\* Where the loop is, which jobs it has claimed there and what is known of
\* them; folder jobs are claimed one at a time.
Claims ==
  /\ pc = "down" <=> daemon = "down"
  /\ pc \in {"down", "first", "look", "scan", "scanned", "page", "built", "dirty"} =>
       claimed = {}
  /\ \A j \in claimed : rows[j].entry \in Dirs <=> pc = "folders"
  /\ pc = "folders" => \A i, j \in claimed : i = j
  /\ \A j \in Jobs \ claimed : work[j] = Idle
  /\ \A j \in Jobs : work[j].step = "created" => pc = "folders"
  /\ \A j \in Jobs : work[j].step = "uploaded" => pc \in {"upload", "save"}

\* Pages are in memory only while their builder works on them.
Pages ==
  /\ ~Built("loop") => pc \in {"look", "built", "dirty"}
  /\ ~Built("ipc") => daemon = "up"
  /\ ipc # "idle" => daemon = "up"
  /\ runs = 0 => ipc = "idle" /\ Built("ipc")

\* A row never knows a version that was not on disk.
Versions ==
  /\ \A f \in Files : disk[f] <= 1 + edits
  /\ \A f \in Files : entry[f].contentHash <= disk[f]

\* What an upload has read is not older than the row, as long as only the
\* loop scans; so a synced hash is never ahead of what was stored.
Uploads ==
  runs = 0 =>
    /\ \A j \in claimed : work[j].step = "uploaded" =>
         /\ entry[rows[j].entry].contentHash <= work[j].content
         /\ work[j].content <= disk[rows[j].entry]
    /\ \A f \in Files :
         /\ entry[f].syncedContentHash <= disk[f]
         /\ entry[f].syncedContentHash = disk[f] => entry[f].remoteId = disk[f]

\* A job has had the folder made and is not marked done.
Making(d) ==
  \E j \in claimed : work[j].step \in {"created", "done"} /\ rows[j].entry = d

\* The page the loop works on knows which directories have folders.
PageFresh ==
  \A i \in DOMAIN page["loop"] :
    PathOrder[i] \in Dirs => page["loop"][i].remoteId = entry[PathOrder[i]].remoteId

\* The directory has a job, queued or running.
Busy(d) == Q!HasActiveJob(rows, d)

\* A job whose folder is made has a number for it, and the row has it once
\* it is saved.
FolderIds(d) ==
  \A j \in claimed : rows[j].entry = d =>
    /\ work[j].step = "created" => made[d] # 0
    /\ work[j].step = "done" => entry[d].remoteId # NULL

\* As long as only the loop builds pages: where another folder may be made,
\* for want of an id or because a job is there to make it, every folder so
\* far is counted in `unsaved'.
FoldersOf(d) ==
  /\ made[d] <= unsaved[d] + 1
  /\ (Busy(d) \/ entry[d].remoteId = NULL) /\ ~Making(d) => made[d] <= unsaved[d]
  /\ FolderIds(d)

Folders == runs = 0 => \A d \in Dirs : FoldersOf(d)

-----------------------------------------------------------------------------
(***************************************************************************)
(* The steps on the queue.                                                 *)
(***************************************************************************)

\* The queue's part of the state, as TransferQueueProofs has it.
QueueInv == QP!IInv

\* enqueueEntry inserts one row for the entry or leaves the table alone.
LEMMA EnqueueEntryRows ==
  ASSUME Q!TypeOK, NEW e \in Entries, NEW snap, EnqueueEntry(e, snap)
  PROVE  \/ UNCHANGED rows
         \/ WantsJob(e, snap) /\ \E j \in Jobs : Q!EnqueueRow(j, e)
<1>1. CASE ~WantsJob(e, snap)
      BY <1>1 DEF EnqueueEntry
<1>2. CASE WantsJob(e, snap) /\ Q!EnqueueRow(FreshJob, e) /\ FreshJob \in Jobs
      BY <1>2
<1>3. CASE WantsJob(e, snap) /\ Q!EnqueueRow(FreshJob, e) /\ FreshJob \notin Jobs
      <2>1. rows' = [rows EXCEPT ![FreshJob] = [entry |-> e, status |-> "queued"]]
            BY <1>3 DEF Q!EnqueueRow, Q!Inserted
      <2> QED BY <1>3, <2>1 DEF Q!TypeOK
<1> QED BY <1>1, <1>2, <1>3 DEF EnqueueEntry

\* The two instances of TransferQueue have the same steps.
LEMMA SameQueue ==
  /\ Q!Init <=> QP!Init
  /\ Q!TypeOK <=> QP!TypeOK
  /\ Q!DaemonNext <=> QP!DaemonNext
<1>1. Q!Init <=> QP!Init
      BY DEF Q!Init, QP!Init, Q!NoRow, QP!NoRow
<1>2. Q!TypeOK <=> QP!TypeOK
      BY DEF Q!TypeOK, QP!TypeOK, Q!NoRow, QP!NoRow, Q!Row, QP!Row, Q!Status, QP!Status
<1>3. ASSUME NEW e, NEW j PROVE Q!EnqueueRow(j, e) <=> QP!EnqueueRow(j, e)
      BY DEF Q!EnqueueRow, QP!EnqueueRow, Q!NoRow, QP!NoRow, Q!Inserted, QP!Inserted,
             Q!UniqueActive, QP!UniqueActive, Q!HasStatus, QP!HasStatus, Q!Active, QP!Active
<1>4. ASSUME NEW j, NEW s PROVE Q!Mark(j, s) <=> QP!Mark(j, s)
      BY DEF Q!Mark, QP!Mark, Q!WithStatus, QP!WithStatus
<1>5. ASSUME NEW j PROVE Q!Claim(j) <=> QP!Claim(j)
      BY DEF Q!Claim, QP!Claim, Q!WithStatus, QP!WithStatus, Q!HasStatus, QP!HasStatus
<1>6. (Q!Start <=> QP!Start) /\ (Q!Crash <=> QP!Crash)
      BY DEF Q!Start, QP!Start, Q!Crash, QP!Crash, Q!Requeued, QP!Requeued
<1>7. Q!DaemonNext <=> QP!DaemonNext
      BY <1>3, <1>4, <1>5, <1>6
      DEF Q!DaemonNext, QP!DaemonNext, Q!Enqueue, QP!Enqueue,
          Q!MarkDone, QP!MarkDone, Q!MarkFailed, QP!MarkFailed
<1> QED BY <1>1, <1>2, <1>7

LEMMA QueueStep == QueueInv /\ [Q!DaemonNext]_queue => QueueInv'
<1> SUFFICES ASSUME QueueInv, [Q!DaemonNext]_queue PROVE QueueInv'
    OBVIOUS
<1>1. [QP!Next]_QP!queueVars
      BY SameQueue DEF QP!Next, queue, QP!queueVars
<1> QED BY <1>1, QP!NextIInv, DirsAssumption DEF QueueInv

\* A page holds rows, and positions of entries.
LEMMA PageRows ==
  ASSUME TypeOK, NEW b \in Builder
  PROVE  /\ DOMAIN page[b] \subseteq 1..Len(PathOrder)
         /\ page[b] \in [DOMAIN page[b] -> PipelineRow]
         /\ \A i \in DOMAIN page[b] : PathOrder[i] \in Entries
<1>1. IsPage(page[b])
      BY DEF TypeOK
<1> QED BY <1>1, PathOrderAssumption DEF IsPage

\* Every step of the pipeline is a step of the queue or leaves it alone.
LEMMA StepIsQueueStep ==
  TypeOK /\ Claims /\ Pages /\ [Next]_vars => [Q!DaemonNext]_queue
<1> SUFFICES ASSUME TypeOK, Claims, Pages, [Next]_vars PROVE [Q!DaemonNext]_queue
    OBVIOUS
<1>0. Q!TypeOK
      BY DEF TypeOK
<1>1. ASSUME NEW e \in Entries, NEW snap, EnqueueEntry(e, snap), daemon = "up",
             UNCHANGED <<claimed, daemon>>
      PROVE  [Q!DaemonNext]_queue
      <2>1. CASE UNCHANGED rows
            BY <1>1, <2>1 DEF queue
      <2>2. CASE \E j \in Jobs : Q!EnqueueRow(j, e)
            BY <1>1, <2>2 DEF Q!DaemonNext, Q!Enqueue
      <2> QED BY <1>0, <1>1, <2>1, <2>2, EnqueueEntryRows
<1>2. ASSUME NEW b \in Builder, BuildStep(b) PROVE [Q!DaemonNext]_queue
      <2>1. daemon = "up"
            BY <1>0, <1>2 DEF BuildStep, Builder, Built, Pages, Claims, Q!TypeOK
      <2>2. PICK i \in DOMAIN page[b] : EnqueueEntry(PathOrder[i], page[b][i])
            BY <1>2 DEF BuildStep
      <2>3. PathOrder[i] \in Entries /\ UNCHANGED <<claimed, daemon>>
            BY <1>2, <2>2, PageRows DEF BuildStep
      <2> QED BY <1>1, <2>1, <2>2, <2>3
<1>3. ASSUME NEW f \in Files, ScanDirty(f) PROVE [Q!DaemonNext]_queue
      <2>1. daemon = "up"
            BY <1>0, <1>3 DEF ScanDirty, Claims, Q!TypeOK
      <2>2. /\ f \in Entries
            /\ EnqueueEntry(f, entry'[f])
            /\ UNCHANGED <<claimed, daemon>>
            BY <1>3 DEF ScanDirty, Files
      <2> QED BY <1>1, <2>1, <2>2
<1>4. CASE Start \/ Crash
      BY <1>4 DEF Start, Crash, Q!DaemonNext
<1>5. ASSUME NEW j \in Jobs, ClaimFolder(j) \/ ClaimUpload(j)
      PROVE  [Q!DaemonNext]_queue
      BY <1>5 DEF ClaimFolder, ClaimUpload, Q!DaemonNext
<1>6. ASSUME NEW j \in Jobs,
             \/ FolderDone(j) \/ CreateFolderFails(j) \/ CreateFolderReplyLost(j)
             \/ MarkUpload(j)
      PROVE  [Q!DaemonNext]_queue
      BY <1>6 DEF FolderDone, CreateFolderFails, CreateFolderReplyLost, MarkUpload,
                  Q!DaemonNext
<1>7. ASSUME NEW j \in Jobs,
             \/ CreateFolder(j) \/ FolderCreated(j) \/ PrepareUpload(j) \/ Upload(j)
             \/ UploadFails(j) \/ SaveUpload(j)
      PROVE  [Q!DaemonNext]_queue
      BY <1>7 DEF CreateFolder, FolderCreated, PrepareUpload, Upload, UploadFails, SaveUpload
<1>8. CASE \/ Look \/ LoopScan \/ LoopPage \/ LeaveDirty \/ FoldersDone \/ BatchClaimed
           \/ BatchFails \/ StageDone \/ BatchDone \/ SyncRun \/ SyncRunScan
           \/ SyncRunLook \/ SyncRunPage \/ SyncRunReply \/ \E f \in Files : Edit(f)
      BY <1>8 DEF Look, LoopScan, LoopPage, LeaveDirty, FoldersDone, BatchClaimed, BatchFails,
                  StageDone, BatchDone, SyncRun, SyncRunScan, SyncRunLook, SyncRunPage,
                  SyncRunReply, Edit
<1>9. CASE UNCHANGED vars
      BY <1>9 DEF vars
<1> QED BY <1>2, <1>3, <1>4, <1>5, <1>6, <1>7, <1>8, <1>9
        DEF Next, Loop, LoopBuild, FolderTick, UploadTick, Ipc, Builder

-----------------------------------------------------------------------------
(***************************************************************************)
(* The rows of the entries, the pages and the work in progress.            *)
(***************************************************************************)

\* What a scan does to a row.
LEMMA RowScanned ==
  ASSUME NEW r \in PipelineRow, NEW h \in 0..(1 + MaxEdits)
  PROVE  /\ [r EXCEPT !.contentHash = h] \in PipelineRow
         /\ [r EXCEPT !.contentHash = h].contentHash = h
         /\ [r EXCEPT !.contentHash = h].syncedContentHash = r.syncedContentHash
         /\ [r EXCEPT !.contentHash = h].remoteId = r.remoteId
BY DEF PipelineRow, EntryRow

\* What markFolderCreated does to a row.
LEMMA RowCreated ==
  ASSUME NEW r \in PipelineRow, NEW id \in Nat
  PROVE  /\ [r EXCEPT !.remoteId = id] \in PipelineRow
         /\ [r EXCEPT !.remoteId = id].remoteId = id
         /\ [r EXCEPT !.remoteId = id].contentHash = r.contentHash
         /\ [r EXCEPT !.remoteId = id].syncedContentHash = r.syncedContentHash
BY DEF PipelineRow, EntryRow

\* What markEntryUploaded does to a row.
LEMMA RowUploaded ==
  ASSUME NEW r \in PipelineRow, NEW id \in Nat
  PROVE  /\ MarkEntryUploaded(r, id) \in PipelineRow
         /\ MarkEntryUploaded(r, id).remoteId = id
         /\ MarkEntryUploaded(r, id).contentHash = r.contentHash
         /\ MarkEntryUploaded(r, id).syncedContentHash = r.contentHash
BY DEF MarkEntryUploaded, PipelineRow, EntryRow

\* The columns hold numbers.
LEMMA RowColumns ==
  ASSUME NEW r \in PipelineRow
  PROVE  r.contentHash \in 0..(1 + MaxEdits) /\ r.syncedContentHash \in 0..(1 + MaxEdits)
         /\ r.remoteId \in Nat
BY DEF PipelineRow, EntryRow

\* The next page holds the rows of the entries as they are.
LEMMA PageIsCurrent ==
  ASSUME entry \in [Entries -> PipelineRow], NEW c \in 0..Len(PathOrder)
  PROVE  /\ IsPage(PageAfter(c))
         /\ \A i \in DOMAIN PageAfter(c) : PageAfter(c)[i] = entry[PathOrder[i]]
<1> DEFINE listed == {i \in (c + 1)..Len(PathOrder) : PathOrder[i] \in known}
           D == {k \in listed : Cardinality({l \in listed : l <= k}) <= PageSize}
           P == [i \in D |-> entry[PathOrder[i]]]
<1>1. PageAfter(c) = P
      BY DEF PageAfter
<1>2. D \subseteq listed
      OBVIOUS
<1>3. listed \subseteq 1..Len(PathOrder)
      BY PathOrderAssumption
<1> HIDE DEF D, listed
<1>4. \A i \in D : PathOrder[i] \in Entries
      BY <1>2, <1>3, PathOrderAssumption
<1>5. P \in [D -> PipelineRow]
      BY <1>4
<1>6. IsPage(P)
      BY <1>2, <1>3, <1>5 DEF IsPage
<1> QED BY <1>1, <1>6

\* At most one folder is on its way when the daemon dies.
LEMMA MakingCount ==
  ASSUME TypeOK, Claims, NEW d \in Dirs
  PROVE  LET S == {j \in claimed : work[j].step \in {"created", "done"} /\ rows[j].entry = d}
         IN  /\ Making(d) => Cardinality(S) = 1
             /\ ~Making(d) => Cardinality(S) = 0
<1> DEFINE S == {j \in claimed : work[j].step \in {"created", "done"} /\ rows[j].entry = d}
<1>1. CASE Making(d)
      <2>1. PICK j \in claimed : work[j].step \in {"created", "done"} /\ rows[j].entry = d
            BY <1>1 DEF Making
      <2>2. pc = "folders"
            BY <2>1 DEF Claims
      <2>3. S = {j}
            BY <2>1, <2>2 DEF Claims
      <2> QED BY <1>1, <2>3, FS_Singleton
<1>2. CASE ~Making(d)
      <2>1. S = {}
            BY <1>2 DEF Making
      <2> QED BY <1>2, <2>1, FS_EmptySet
<1> QED BY <1>1, <1>2

\* The states of a job that have no content.
LEMMA WorkStates ==
  /\ Idle \in WorkState
  /\ \A s \in {"idle", "created", "prepared", "done", "failed"} :
       [step |-> s] \in WorkState /\ [step |-> s].step = s
  /\ \A n \in Nat : [step |-> "uploaded", content |-> n] \in WorkState
  /\ \A w \in WorkState : w.step = "uploaded" => w.content \in Nat
  /\ \A w \in WorkState : w.step = "idle" => w = Idle
  /\ Idle.step = "idle"
BY DEF Idle, WorkState

\* A claimed job is one of an entry; a file's, unless folders are made.
LEMMA ClaimedJob ==
  ASSUME QueueInv, TypeOK, Claims, NEW j \in claimed
  PROVE  /\ j \in Jobs /\ daemon = "up"
         /\ rows[j].status = "running"
         /\ rows[j].entry \in Entries
         /\ IF pc = "folders" THEN rows[j].entry \in Dirs ELSE rows[j].entry \in Files
<1>1. j \in Jobs /\ rows[j] \in Q!Row \cup {Q!NoRow} /\ daemon \in {"down", "up"}
      BY DEF TypeOK, Q!TypeOK
<1>2. daemon = "up"
      BY <1>1 DEF QueueInv, QP!IInv, QP!DownHoldsNothing
<1>3. rows[j].status = "running"
      BY <1>1, <1>2 DEF QueueInv, QP!IInv, QP!RunningIffClaimed
<1>4. rows[j].entry \in Entries
      BY <1>1, <1>3 DEF Q!Row, Q!NoRow
<1> QED BY <1>1, <1>2, <1>3, <1>4 DEF Claims, Files

-----------------------------------------------------------------------------
(***************************************************************************)
(* Which actions change what.                                              *)
(***************************************************************************)

\* Only the user writes to the disk.
LEMMA DiskChanges == [Next]_vars => UNCHANGED diskVars \/ \E f \in Files : Edit(f)
BY DEF Next, vars, Loop, LoopBuild, FolderTick, UploadTick, Ipc, Aside, diskVars,
       Start, Crash, Look, LoopScan, LoopPage, BuildStep, LeaveDirty, ScanDirty, FoldersDone,
       ClaimFolder, CreateFolder, FolderCreated, FolderDone, CreateFolderFails,
       CreateFolderReplyLost,
       BatchClaimed, BatchFails, StageDone, BatchDone, ClaimUpload, PrepareUpload, Upload,
       UploadFails, SaveUpload, MarkUpload, SyncRun, SyncRunScan, SyncRunLook, SyncRunPage,
       SyncRunReply

\* The table of entries is written by scans, by the folder worker and by the
\* runner of uploads.
LEMMA EntryChanges ==
  [Next]_vars => \/ UNCHANGED entry
                 \/ Start \/ LoopScan \/ SyncRunScan \/ \E f \in Files : ScanDirty(f)
                 \/ \E j \in Jobs : FolderCreated(j) \/ SaveUpload(j)
BY DEF Next, vars, Loop, LoopBuild, FolderTick, UploadTick, Ipc, Aside,
       Edit, Crash, Look, LoopPage, BuildStep, LeaveDirty, FoldersDone,
       ClaimFolder, CreateFolder, FolderDone, CreateFolderFails, CreateFolderReplyLost,
       BatchClaimed, BatchFails, StageDone, BatchDone, ClaimUpload, PrepareUpload, Upload,
       UploadFails, MarkUpload, SyncRun, SyncRunLook, SyncRunPage, SyncRunReply

\* The server makes folders for the folder worker only; ids are lost by
\* crashes and lost replies.
LEMMA FolderChanges ==
  [Next]_vars => /\ UNCHANGED made \/ \E j \in Jobs : CreateFolder(j)
                 /\ UNCHANGED unsaved \/ Crash \/ \E j \in Jobs : CreateFolderReplyLost(j)
BY DEF Next, vars, Loop, LoopBuild, FolderTick, UploadTick, Ipc, Aside,
       Start, Crash, Edit, Look, LoopScan, LoopPage, BuildStep, LeaveDirty, ScanDirty,
       FoldersDone,
       ClaimFolder, CreateFolder, FolderCreated, FolderDone, CreateFolderFails,
       CreateFolderReplyLost,
       BatchClaimed, BatchFails, StageDone, BatchDone, ClaimUpload, PrepareUpload, Upload,
       UploadFails, SaveUpload, MarkUpload, SyncRun, SyncRunScan, SyncRunLook, SyncRunPage,
       SyncRunReply

\* Pages are read by the two builders, consumed entry by entry and lost in a
\* crash.
LEMMA PageChanges ==
  [Next]_vars => \/ UNCHANGED page
                 \/ Crash \/ LoopPage \/ SyncRunPage \/ \E b \in Builder : BuildStep(b)
BY DEF Next, vars, Loop, LoopBuild, FolderTick, UploadTick, Ipc, Aside, Builder,
       Start, Edit, Look, LoopScan, LeaveDirty, ScanDirty, FoldersDone,
       ClaimFolder, CreateFolder, FolderCreated, FolderDone, CreateFolderFails,
       CreateFolderReplyLost,
       BatchClaimed, BatchFails, StageDone, BatchDone, ClaimUpload, PrepareUpload, Upload,
       UploadFails, SaveUpload, MarkUpload, SyncRun, SyncRunScan, SyncRunLook, SyncRunReply

\* The loop works on one claimed job at a time, except where a batch fails.
LEMMA WorkChanges ==
  [Next]_vars => \/ UNCHANGED work
                 \/ Crash \/ BatchFails
                 \/ \E j \in Jobs :
                      \/ CreateFolder(j) \/ FolderCreated(j) \/ FolderDone(j)
                      \/ CreateFolderReplyLost(j) \/ PrepareUpload(j) \/ Upload(j)
                      \/ UploadFails(j) \/ SaveUpload(j) \/ MarkUpload(j)
BY DEF Next, vars, Loop, LoopBuild, FolderTick, UploadTick, Ipc, Aside, loopVars,
       Start, Edit, Look, LoopScan, LoopPage, BuildStep, LeaveDirty, ScanDirty, FoldersDone,
       ClaimFolder, CreateFolderFails, BatchClaimed, StageDone, BatchDone, ClaimUpload,
       SyncRun, SyncRunScan, SyncRunLook, SyncRunPage, SyncRunReply

\* The number of `sync run's never falls.
LEMMA RunsGrow == [Next]_vars => runs' \in {runs, runs + 1}
BY DEF Next, vars, Loop, LoopBuild, FolderTick, UploadTick, Ipc, Aside, ipcVars,
       Start, Crash, Edit, Look, LoopScan, LoopPage, BuildStep, LeaveDirty, ScanDirty,
       FoldersDone,
       ClaimFolder, CreateFolder, FolderCreated, FolderDone, CreateFolderFails,
       CreateFolderReplyLost,
       BatchClaimed, BatchFails, StageDone, BatchDone, ClaimUpload, PrepareUpload, Upload,
       UploadFails, SaveUpload, MarkUpload, SyncRun, SyncRunScan, SyncRunLook, SyncRunPage,
       SyncRunReply

-----------------------------------------------------------------------------
(***************************************************************************)
(* Types.                                                                  *)
(***************************************************************************)

LEMMA NextTypeDisk ==
  ASSUME TypeOK, Versions, [Next]_vars
  PROVE  disk' \in [Files -> 1..(1 + MaxEdits)] /\ edits' \in 0..MaxEdits
<1>1. CASE UNCHANGED diskVars
      BY <1>1 DEF diskVars, TypeOK
<1>2. ASSUME NEW f \in Files, Edit(f)
      PROVE  disk' \in [Files -> 1..(1 + MaxEdits)] /\ edits' \in 0..MaxEdits
      <2>1. disk[f] + 1 \in 1..(1 + MaxEdits) /\ edits + 1 \in 0..MaxEdits
            BY <1>2, BoundsAssumption DEF Edit, TypeOK, Versions
      <2> QED BY <1>2, <2>1 DEF Edit, TypeOK
<1> QED BY <1>1, <1>2, DiskChanges

\* How each write of the table of entries leaves it.
LEMMA NextEntry ==
  ASSUME QueueInv, TypeOK, Claims, [Next]_vars
  PROVE  /\ entry' \in [Entries -> PipelineRow]
         /\ (Start \/ LoopScan \/ SyncRunScan) =>
              \A e \in Entries :
                /\ \/ entry'[e].contentHash = entry[e].contentHash
                   \/ e \in Files /\ entry'[e].contentHash = disk[e]
                /\ entry'[e].syncedContentHash = entry[e].syncedContentHash
                /\ entry'[e].remoteId = entry[e].remoteId
         /\ \A f \in Files : ScanDirty(f) =>
              /\ entry'[f].contentHash = disk[f]
              /\ entry'[f].syncedContentHash = entry[f].syncedContentHash
              /\ entry'[f].remoteId = entry[f].remoteId
              /\ \A e \in Entries \ {f} : entry'[e] = entry[e]
         /\ \A j \in Jobs : FolderCreated(j) =>
              /\ rows[j].entry \in Dirs
              /\ entry'[rows[j].entry].remoteId = made[rows[j].entry]
              /\ \A e \in Entries \ {rows[j].entry} : entry'[e] = entry[e]
         /\ \A j \in Jobs : SaveUpload(j) =>
              /\ rows[j].entry \in Files
              /\ work[j].content \in Nat
              /\ entry'[rows[j].entry].contentHash = entry[rows[j].entry].contentHash
              /\ entry'[rows[j].entry].syncedContentHash = entry[rows[j].entry].contentHash
              /\ entry'[rows[j].entry].remoteId = work[j].content
              /\ \A e \in Entries \ {rows[j].entry} : entry'[e] = entry[e]
<1>0. /\ entry \in [Entries -> PipelineRow] /\ made \in [Dirs -> Nat]
      /\ disk \in [Files -> 1..(1 + MaxEdits)] /\ work \in [Jobs -> WorkState]
      /\ \A f \in Files : f \in Entries /\ disk[f] \in 0..(1 + MaxEdits)
      BY BoundsAssumption DEF TypeOK, Files
<1>1. ASSUME Start \/ LoopScan \/ SyncRunScan
      PROVE  /\ entry' \in [Entries -> PipelineRow]
             /\ \A e \in Entries :
                  /\ \/ entry'[e].contentHash = entry[e].contentHash
                     \/ e \in Files /\ entry'[e].contentHash = disk[e]
                  /\ entry'[e].syncedContentHash = entry[e].syncedContentHash
                  /\ entry'[e].remoteId = entry[e].remoteId
      <2> DEFINE T == Visited \cap Files
      <2>1. entry' = [e \in Entries |-> IF e \in T
                                        THEN [entry[e] EXCEPT !.contentHash = disk[e]]
                                        ELSE entry[e]]
            BY <1>1 DEF Start, LoopScan, SyncRunScan, ScanRoot
      <2>2. T \subseteq Files
            OBVIOUS
      <2> HIDE DEF T
      <2>3. ASSUME NEW e \in Entries
            PROVE  /\ entry'[e] \in PipelineRow
                   /\ \/ entry'[e].contentHash = entry[e].contentHash
                      \/ e \in Files /\ entry'[e].contentHash = disk[e]
                   /\ entry'[e].syncedContentHash = entry[e].syncedContentHash
                   /\ entry'[e].remoteId = entry[e].remoteId
            <3>1. CASE e \in T
                  <4>1. entry'[e] = [entry[e] EXCEPT !.contentHash = disk[e]]
                        BY <2>1, <3>1
                  <4>2. /\ entry[e] \in PipelineRow /\ disk[e] \in 0..(1 + MaxEdits)
                        /\ e \in Files
                        BY <1>0, <2>2, <3>1
                  <4> QED BY <4>1, <4>2, RowScanned
            <3>2. CASE e \notin T
                  BY <1>0, <2>1, <3>2
            <3> QED BY <3>1, <3>2
      <2>4. entry' \in [Entries -> PipelineRow]
            BY <2>1, <2>3
      <2> QED BY <2>3, <2>4
<1>2. ASSUME NEW f \in Files, ScanDirty(f)
      PROVE  /\ entry' \in [Entries -> PipelineRow]
             /\ entry'[f].contentHash = disk[f]
             /\ entry'[f].syncedContentHash = entry[f].syncedContentHash
             /\ entry'[f].remoteId = entry[f].remoteId
             /\ \A e \in Entries \ {f} : entry'[e] = entry[e]
      <2>1. entry' = [entry EXCEPT ![f] = [entry[f] EXCEPT !.contentHash = disk[f]]]
            BY <1>2 DEF ScanDirty
      <2> QED BY <1>0, <2>1, RowScanned
<1>3. ASSUME NEW j \in Jobs, FolderCreated(j)
      PROVE  /\ entry' \in [Entries -> PipelineRow]
             /\ rows[j].entry \in Dirs
             /\ entry'[rows[j].entry].remoteId = made[rows[j].entry]
             /\ \A e \in Entries \ {rows[j].entry} : entry'[e] = entry[e]
      <2>1. rows[j].entry \in Dirs /\ rows[j].entry \in Entries
            BY <1>3, ClaimedJob DEF FolderCreated
      <2>2. entry' = [entry EXCEPT ![rows[j].entry] =
                        [entry[rows[j].entry] EXCEPT !.remoteId = made[rows[j].entry]]]
            BY <1>3 DEF FolderCreated
      <2> QED BY <1>0, <2>1, <2>2, RowCreated
<1>4. ASSUME NEW j \in Jobs, SaveUpload(j)
      PROVE  /\ entry' \in [Entries -> PipelineRow]
             /\ rows[j].entry \in Files
             /\ work[j].content \in Nat
             /\ entry'[rows[j].entry].contentHash = entry[rows[j].entry].contentHash
             /\ entry'[rows[j].entry].syncedContentHash = entry[rows[j].entry].contentHash
             /\ entry'[rows[j].entry].remoteId = work[j].content
             /\ \A e \in Entries \ {rows[j].entry} : entry'[e] = entry[e]
      <2>1. rows[j].entry \in Files /\ rows[j].entry \in Entries
            BY <1>4, ClaimedJob DEF SaveUpload
      <2>2. work[j].content \in Nat
            BY <1>0, <1>4, WorkStates DEF SaveUpload
      <2>3. entry' = [entry EXCEPT ![rows[j].entry] =
                        MarkEntryUploaded(entry[rows[j].entry], work[j].content)]
            BY <1>4 DEF SaveUpload
      <2> QED BY <1>0, <2>1, <2>2, <2>3, RowUploaded
<1>5. entry' \in [Entries -> PipelineRow]
      BY <1>0, <1>1, <1>2, <1>3, <1>4, EntryChanges
<1> QED BY <1>1, <1>2, <1>3, <1>4, <1>5

LEMMA NextTypeFolders ==
  ASSUME QueueInv, TypeOK, Claims, [Next]_vars
  PROVE  made' \in [Dirs -> Nat] /\ unsaved' \in [Dirs -> Nat]
<1>0. made \in [Dirs -> Nat] /\ unsaved \in [Dirs -> Nat]
      BY DEF TypeOK
<1>1. ASSUME NEW j \in Jobs, CreateFolder(j) PROVE made' \in [Dirs -> Nat]
      BY <1>0, <1>1, ClaimedJob DEF CreateFolder
<1>2. ASSUME NEW j \in Jobs, CreateFolderReplyLost(j) PROVE unsaved' \in [Dirs -> Nat]
      BY <1>0, <1>2, ClaimedJob DEF CreateFolderReplyLost
<1>3. ASSUME Crash PROVE unsaved' \in [Dirs -> Nat]
      <2> DEFINE S(d) == {j \in claimed : /\ work[j].step \in {"created", "done"}
                                          /\ rows[j].entry = d}
      <2>1. \A d \in Dirs : Cardinality(S(d)) \in Nat
            BY MakingCount
      <2>2. unsaved' = [d \in Dirs |-> unsaved[d] + Cardinality(S(d))]
            BY <1>3 DEF Crash
      <2> HIDE DEF S
      <2> QED BY <1>0, <2>1, <2>2
<1>4. made' \in [Dirs -> Nat]
      BY <1>0, <1>1, FolderChanges
<1>5. unsaved' \in [Dirs -> Nat]
      BY <1>0, <1>2, <1>3, FolderChanges
<1> QED BY <1>4, <1>5

LEMMA NextTypePage ==
  ASSUME TypeOK, [Next]_vars
  PROVE  page' = [b \in Builder |-> page'[b]] /\ \A b \in Builder : IsPage(page'[b])
<1> DEFINE G == page' = [b \in Builder |-> page'[b]] /\ \A b \in Builder : IsPage(page'[b])
<1>0. page = [b \in Builder |-> page[b]] /\ \A b \in Builder : IsPage(page[b])
      BY DEF TypeOK
<1>1. /\ entry \in [Entries -> PipelineRow]
      /\ cursor \in 0..Len(PathOrder) /\ ipcCursor \in 0..Len(PathOrder)
      BY DEF TypeOK
<1>2. IsPage(PageAfter(cursor)) /\ IsPage(PageAfter(ipcCursor)) /\ IsPage(NoPage)
      BY <1>1, PageIsCurrent DEF IsPage, NoPage
<1>3. ASSUME NEW b \in Builder, NEW i
      PROVE  IsPage([k \in DOMAIN page[b] \ {i} |-> page[b][k]])
      BY <1>0 DEF IsPage
<1>4. ASSUME NEW b \in Builder, NEW p, IsPage(p), page' = [page EXCEPT ![b] = p] PROVE G
      BY <1>0, <1>4
<1>5. CASE Crash
      BY <1>2, <1>5 DEF Crash
<1>6. CASE LoopPage
      <2>1. UNCHANGED page \/ page' = [page EXCEPT !["loop"] = PageAfter(cursor)]
            BY <1>6 DEF LoopPage
      <2> QED BY <1>0, <1>2, <1>4, <2>1 DEF Builder
<1>7. CASE SyncRunPage
      BY <1>2, <1>4, <1>7 DEF SyncRunPage, Builder
<1>8. ASSUME NEW b \in Builder, BuildStep(b) PROVE G
      <2>1. PICK i : page' = [page EXCEPT ![b] = [k \in DOMAIN page[b] \ {i} |-> page[b][k]]]
            BY <1>0, <1>8 DEF BuildStep
      <2> QED BY <1>3, <1>4, <2>1
<1>9. CASE UNCHANGED page
      BY <1>0, <1>9
<1> QED BY <1>5, <1>6, <1>7, <1>8, <1>9, PageChanges

LEMMA NextTypeWork ==
  ASSUME QueueInv, TypeOK, Claims, [Next]_vars
  PROVE  work' \in [Jobs -> WorkState]
<1>0. work \in [Jobs -> WorkState] /\ disk \in [Files -> 1..(1 + MaxEdits)]
      BY DEF TypeOK
<1>1. CASE Crash
      BY <1>1, WorkStates DEF Crash
<1>2. CASE BatchFails
      BY <1>0, <1>2, WorkStates DEF BatchFails
<1>3. ASSUME NEW j \in Jobs,
             \/ CreateFolder(j) \/ FolderCreated(j) \/ FolderDone(j)
             \/ CreateFolderReplyLost(j)
             \/ UploadFails(j) \/ SaveUpload(j) \/ MarkUpload(j)
      PROVE  work' \in [Jobs -> WorkState]
      <2>1. \E w \in WorkState : work' = [work EXCEPT ![j] = w]
            BY <1>3, WorkStates
            DEF CreateFolder, FolderCreated, FolderDone, CreateFolderReplyLost, UploadFails,
                SaveUpload, MarkUpload
      <2> QED BY <1>0, <2>1
<1>4. ASSUME NEW j \in Jobs, PrepareUpload(j) PROVE work' \in [Jobs -> WorkState]
      <2>1. Prepared(rows[j].entry) \in WorkState
            BY WorkStates DEF Prepared
      <2> QED BY <1>0, <1>4, <2>1 DEF PrepareUpload
<1>5. ASSUME NEW j \in Jobs, Upload(j) PROVE work' \in [Jobs -> WorkState]
      <2>1. rows[j].entry \in Files
            BY <1>5, ClaimedJob DEF Upload
      <2>2. disk[rows[j].entry] \in Nat
            BY <1>0, <2>1, BoundsAssumption
      <2>3. [step |-> "uploaded", content |-> disk[rows[j].entry]] \in WorkState
            BY <2>2, WorkStates
      <2> QED BY <1>0, <1>5, <2>3 DEF Upload
<1> QED BY <1>0, <1>1, <1>2, <1>3, <1>4, <1>5, WorkChanges

\* The stages of a batch.
LEMMA Stages ==
  /\ DOMAIN BatchStages = {"prepare", "upload", "save"}
  /\ BatchStages["prepare"].takes = "idle" /\ BatchStages["prepare"].next = "upload"
  /\ BatchStages["upload"].takes = "prepared" /\ BatchStages["upload"].next = "save"
  /\ BatchStages["save"].takes = "uploaded" /\ BatchStages["save"].next = "mark"
BY DEF BatchStages

\* The stages at which a page is built.
LEMMA PageStageNames ==
  /\ DOMAIN PageStages = {"first", "scanned", "page"}
  /\ PageStages["first"] = "look" /\ PageStages["scanned"] = "built"
  /\ PageStages["page"] = "dirty"
BY DEF PageStages

LEMMA NextTypeLoop ==
  ASSUME TypeOK, [Next]_vars
  PROVE  /\ dirty' \subseteq Files
         /\ pc' \in {"down", "first", "look", "scan", "scanned", "page", "built", "dirty",
                     "folders", "claim", "prepare", "upload", "save", "mark"}
         /\ ipc' \in {"idle", "scan", "look", "build", "last"}
<1> DEFINE D == dirty' \subseteq Files
           P == pc' \in {"down", "first", "look", "scan", "scanned", "page", "built", "dirty",
                         "folders", "claim", "prepare", "upload", "save", "mark"}
           I == ipc' \in {"idle", "scan", "look", "build", "last"}
<1>0. /\ dirty \subseteq Files
      /\ pc \in {"down", "first", "look", "scan", "scanned", "page", "built", "dirty",
                 "folders", "claim", "prepare", "upload", "save", "mark"}
      /\ ipc \in {"idle", "scan", "look", "build", "last"}
      BY DEF TypeOK
<1> SUFFICES D /\ P /\ I
    OBVIOUS
<1>1. ASSUME UNCHANGED <<pc, ipcVars>>, D PROVE D /\ P /\ I
      BY <1>0, <1>1 DEF ipcVars
<1>2. CASE \E f \in Files : Edit(f)
      BY <1>0, <1>1, <1>2 DEF Edit, loopVars
<1>3. CASE \/ Start \/ Crash \/ Look \/ LoopScan \/ LeaveDirty \/ FoldersDone
           \/ BatchClaimed \/ BatchFails \/ BatchDone
      BY <1>0, <1>3 DEF Start, Crash, Look, LoopScan, LeaveDirty, FoldersDone, BatchClaimed,
                        BatchFails, BatchDone, ipcVars, Aside
<1>10. CASE LoopPage
      <2>1. P
            BY <1>10, PageStageNames DEF LoopPage
      <2> QED BY <1>0, <1>10, <2>1 DEF LoopPage, ipcVars
<1>4. CASE StageDone
      <2>1. P
            BY <1>4, Stages DEF StageDone
      <2> QED BY <1>0, <1>4, <2>1 DEF StageDone, ipcVars, Aside
<1>5. ASSUME NEW b \in Builder, BuildStep(b) PROVE D /\ P /\ I
      BY <1>0, <1>1, <1>5 DEF BuildStep, loopVars
<1>6. ASSUME NEW f \in Files, ScanDirty(f) PROVE D /\ P /\ I
      BY <1>0, <1>1, <1>6 DEF ScanDirty, loopVars
<1>7. ASSUME NEW j \in Jobs,
             \/ ClaimFolder(j) \/ CreateFolder(j) \/ FolderCreated(j) \/ FolderDone(j)
             \/ CreateFolderFails(j) \/ CreateFolderReplyLost(j)
             \/ ClaimUpload(j) \/ PrepareUpload(j) \/ Upload(j)
             \/ UploadFails(j) \/ SaveUpload(j) \/ MarkUpload(j)
      PROVE  D /\ P /\ I
      BY <1>0, <1>1, <1>7
      DEF ClaimFolder, CreateFolder, FolderCreated, FolderDone, CreateFolderFails,
          CreateFolderReplyLost, ClaimUpload, PrepareUpload, Upload, UploadFails,
          SaveUpload, MarkUpload, Aside
<1>8. CASE SyncRun \/ SyncRunScan \/ SyncRunLook \/ SyncRunPage \/ SyncRunReply
      BY <1>0, <1>8 DEF SyncRun, SyncRunScan, SyncRunLook, SyncRunPage, SyncRunReply, loopVars
<1>9. CASE UNCHANGED vars
      BY <1>0, <1>1, <1>9 DEF vars, loopVars
<1> HIDE DEF D, P, I
<1> QED BY <1>2, <1>3, <1>4, <1>5, <1>6, <1>7, <1>8, <1>9, <1>10
        DEF Next, Loop, LoopBuild, FolderTick, UploadTick, Ipc, Builder

\* The cursors are moved by whoever reads a page, and reset at the start.
LEMMA CursorChanges ==
  [Next]_vars => /\ UNCHANGED <<cursor, complete>> \/ Start \/ LoopPage
                 /\ UNCHANGED ipcCursor \/ SyncRunLook \/ SyncRunPage
BY DEF Next, vars, Loop, LoopBuild, FolderTick, UploadTick, Ipc, Aside, loopVars, ipcVars,
       Start, Crash, Edit, Look, LoopScan, LoopPage, BuildStep, LeaveDirty, ScanDirty,
       FoldersDone,
       ClaimFolder, CreateFolder, FolderCreated, FolderDone, CreateFolderFails,
       CreateFolderReplyLost,
       BatchClaimed, BatchFails, StageDone, BatchDone, ClaimUpload, PrepareUpload, Upload,
       UploadFails, SaveUpload, MarkUpload, SyncRun, SyncRunScan, SyncRunLook, SyncRunPage,
       SyncRunReply

LEMMA NextTypeCursors ==
  ASSUME TypeOK, [Next]_vars
  PROVE  /\ cursor' \in 0..Len(PathOrder) /\ ipcCursor' \in 0..Len(PathOrder)
         /\ complete' \in BOOLEAN
<1>0. cursor \in 0..Len(PathOrder) /\ ipcCursor \in 0..Len(PathOrder)
      BY DEF TypeOK
<1>1. 0 \in 0..Len(PathOrder)
      BY PathOrderAssumption
<1>2. cursor' \in 0..Len(PathOrder)
      <2>1. CASE LoopPage
            <3>1. cursor' \in {0, cursor} \/ \E next \in 0..Len(PathOrder) : cursor' = next
                  BY <2>1 DEF LoopPage
            <3> QED BY <1>0, <1>1, <3>1
      <2> QED BY <1>0, <1>1, <2>1, CursorChanges DEF Start
<1>3. ipcCursor' \in 0..Len(PathOrder)
      BY <1>0, <1>1, CursorChanges DEF SyncRunLook, SyncRunPage
<1>4. complete' \in BOOLEAN
      <2>1. complete \in BOOLEAN
            BY DEF TypeOK
      <2>2. \A x : Complete(cursor, x) \in BOOLEAN
            BY DEF Complete
      <2> HIDE DEF Complete
      <2> QED BY <2>1, <2>2, CursorChanges, Zenon DEF Start, LoopPage
<1> QED BY <1>2, <1>3, <1>4, Zenon

\* Rows appear and the scan job moves in the batches of a scan; a dirty path
\* is a file.
LEMMA ScanChanges ==
  [Next]_vars => \/ UNCHANGED scanVars
                 \/ Start \/ LoopScan \/ SyncRunScan \/ \E f \in Files : ScanDirty(f)
BY DEF Next, vars, Loop, LoopBuild, FolderTick, UploadTick, Ipc, Aside,
       Crash, Edit, Look, LoopPage, BuildStep, LeaveDirty, FoldersDone,
       ClaimFolder, CreateFolder, FolderCreated, FolderDone, CreateFolderFails,
       CreateFolderReplyLost,
       BatchClaimed, BatchFails, StageDone, BatchDone, ClaimUpload, PrepareUpload, Upload,
       UploadFails, SaveUpload, MarkUpload, SyncRun, SyncRunLook, SyncRunPage,
       SyncRunReply

LEMMA NextTypeScan ==
  ASSUME TypeOK, [Next]_vars
  PROVE  known' \subseteq Entries /\ scanned' \in 0..Len(ScanOrder) /\ missed' \subseteq Files
<1>0. /\ known \subseteq Entries /\ scanned \in 0..Len(ScanOrder) /\ missed \subseteq Files
      /\ Len(ScanOrder) \in Nat /\ \A i \in 1..Len(ScanOrder) : ScanOrder[i] \in Entries
      BY ScanOrderAssumption DEF TypeOK
<1>1. Batch \subseteq 1..Len(ScanOrder)
      BY <1>0, SizeAssumption DEF Batch
<1>2. Visited \subseteq Entries
      BY <1>0, <1>1 DEF Visited
<1>3. ASSUME ScanRoot PROVE known' \subseteq Entries /\ scanned' \in 0..Len(ScanOrder)
      <2>1. scanned' \in Batch
            BY <1>3 DEF ScanRoot
      <2>2. scanned' \in 0..Len(ScanOrder)
            BY <1>0, <1>1, <2>1
      <2> QED BY <1>0, <1>2, <1>3, <2>2 DEF ScanRoot
<1>4. CASE Start
      BY <1>3, <1>4 DEF Start, Stale
<1>5. CASE LoopScan \/ SyncRunScan
      BY <1>0, <1>3, <1>5 DEF LoopScan, SyncRunScan, Passed, Stale
<1>6. ASSUME NEW f \in Files, ScanDirty(f)
      PROVE  known' \subseteq Entries /\ scanned' \in 0..Len(ScanOrder) /\ missed' \subseteq
      Files
      BY <1>0, <1>6 DEF ScanDirty, Files
<1>7. CASE UNCHANGED scanVars
      BY <1>0, <1>7 DEF scanVars
<1> QED BY <1>4, <1>5, <1>6, <1>7, ScanChanges

LEMMA NextTypeCounts ==
  ASSUME TypeOK, [Next]_vars
  PROVE  crashes' \in Nat /\ faults' \in Nat /\ runs' \in Nat
<1>1. /\ crashes' \in {crashes, crashes + 1} /\ faults' \in {faults, faults + 1}
      /\ runs' \in {runs, runs + 1}
      BY DEF Next, vars, Loop, LoopBuild, FolderTick, UploadTick, Ipc, Aside, ipcVars, Fault,
         Start, Crash, Edit, Look, LoopScan, LoopPage, BuildStep, LeaveDirty, ScanDirty,
         FoldersDone, ClaimFolder, CreateFolder, FolderCreated, FolderDone,
         CreateFolderFails, CreateFolderReplyLost,
         BatchClaimed, BatchFails, StageDone, BatchDone, ClaimUpload, PrepareUpload, Upload,
         UploadFails, SaveUpload, MarkUpload, SyncRun, SyncRunScan, SyncRunLook, SyncRunPage,
         SyncRunReply
<1>2. crashes \in Nat /\ faults \in Nat /\ runs \in Nat
      BY DEF TypeOK
<1> QED BY <1>1, <1>2

LEMMA NextTypeOK ==
  ASSUME QueueInv, TypeOK, Claims, Pages, Versions, [Next]_vars
  PROVE  TypeOK'
<1>1. Q!TypeOK'
      <2>1. QueueInv'
            BY StepIsQueueStep, QueueStep
      <2>2. QP!TypeOK'
            BY <2>1 DEF QueueInv, QP!IInv
      <2> QED BY <2>2 DEF Q!TypeOK, QP!TypeOK, Q!NoRow, QP!NoRow, Q!Row, QP!Row,
                          Q!Status, QP!Status
<1> QED BY <1>1, NextTypeDisk, NextEntry, NextTypeFolders, NextTypePage, NextTypeWork,
           NextTypeLoop, NextTypeCursors, NextTypeScan, NextTypeCounts, Zenon DEF TypeOK

-----------------------------------------------------------------------------
(***************************************************************************)
(* Where the loop is and what it has claimed.                              *)
(***************************************************************************)

\* A row stays the row of its entry.
LEMMA JobKeepsEntry ==
  ASSUME QueueInv, Q!TypeOK, [Q!DaemonNext]_queue
  PROVE  \A i \in Jobs : rows[i] # Q!NoRow => rows'[i].entry = rows[i].entry
<1>0. rows \in [Jobs -> Q!Row \cup {Q!NoRow}] /\ claimed \subseteq Jobs
      BY DEF Q!TypeOK
<1>1. ASSUME NEW j \in Jobs, rows[j] \in Q!Row, NEW s, rows' = Q!WithStatus(rows, j, s)
      PROVE  \A i \in Jobs : rows[i] # Q!NoRow => rows'[i].entry = rows[i].entry
      <2>1. [rows[j] EXCEPT !.status = s].entry = rows[j].entry
            BY <1>1 DEF Q!Row
      <2>2. rows' = [rows EXCEPT ![j] = [rows[j] EXCEPT !.status = s]]
            BY <1>1 DEF Q!WithStatus
      <2> QED BY <1>0, <2>1, <2>2
<1>2. ASSUME NEW e \in Entries, Q!Enqueue(e)
      PROVE  \A i \in Jobs : rows[i] # Q!NoRow => rows'[i].entry = rows[i].entry
      <2>1. PICK j \in Jobs : Q!EnqueueRow(j, e)
            BY <1>2 DEF Q!Enqueue
      <2> QED BY <1>0, <2>1 DEF Q!EnqueueRow, Q!Inserted
<1>3. ASSUME NEW j \in Jobs, Q!Claim(j)
      PROVE  \A i \in Jobs : rows[i] # Q!NoRow => rows'[i].entry = rows[i].entry
      <2>1. rows[j] \in Q!Row
            BY <1>0, <1>3 DEF Q!Claim, Q!HasStatus, Q!NoRow
      <2> QED BY <1>1, <1>3, <2>1 DEF Q!Claim
<1>4. ASSUME NEW j \in Jobs, Q!MarkDone(j) \/ Q!MarkFailed(j)
      PROVE  \A i \in Jobs : rows[i] # Q!NoRow => rows'[i].entry = rows[i].entry
      <2>1. j \in claimed /\ daemon = "up"
            BY <1>4 DEF Q!MarkDone, Q!MarkFailed, Q!Mark
      <2>2. rows[j].status = "running"
            BY <2>1 DEF QueueInv, QP!IInv, QP!RunningIffClaimed
      <2>3. rows[j] \in Q!Row
            BY <1>0, <2>2 DEF Q!NoRow
      <2> QED BY <1>1, <1>4, <2>3 DEF Q!MarkDone, Q!MarkFailed, Q!Mark
<1>5. ASSUME Q!Start
      PROVE  \A i \in Jobs : rows[i] # Q!NoRow => rows'[i].entry = rows[i].entry
      <2>1. ASSUME NEW i \in Jobs, rows[i] # Q!NoRow PROVE rows'[i].entry = rows[i].entry
            <3>1. rows[i] \in Q!Row
                  BY <1>0, <2>1
            <3>2. [rows[i] EXCEPT !.status = "queued"].entry = rows[i].entry
                  BY <3>1 DEF Q!Row
            <3> QED BY <1>5, <3>2 DEF Q!Start, Q!Requeued
      <2> QED BY <2>1
<1>6. CASE Q!Crash \/ UNCHANGED queue
      BY <1>6 DEF Q!Crash, queue
<1> QED BY <1>2, <1>3, <1>4, <1>5, <1>6 DEF Q!DaemonNext

\* The jobs the loop has claimed keep their entries while it has them.
LEMMA ClaimedKeepsEntry ==
  ASSUME QueueInv, TypeOK, Claims, Pages, [Next]_vars, NEW j \in claimed
  PROVE  rows'[j].entry = rows[j].entry
<1>1. j \in Jobs /\ rows[j] # Q!NoRow
      BY ClaimedJob DEF Q!NoRow
<1>2. [Q!DaemonNext]_queue /\ Q!TypeOK
      BY StepIsQueueStep DEF TypeOK
<1> QED BY <1>1, <1>2, JobKeepsEntry

LEMMA NextClaims ==
  ASSUME QueueInv, TypeOK, Claims, Pages, [Next]_vars
  PROVE  Claims'
<1>0. /\ work \in [Jobs -> WorkState] /\ claimed \subseteq Jobs /\ daemon \in {"down", "up"}
      /\ \A j \in claimed : rows'[j].entry = rows[j].entry
      /\ daemon = "down" => claimed = {}
      BY ClaimedKeepsEntry DEF TypeOK, Q!TypeOK, QueueInv, QP!IInv, QP!DownHoldsNothing
<1>00. Idle.step = "idle"
       BY DEF Idle
<1> USE DEF Claims
\* Steps that leave the loop where it is.
<1>1. ASSUME UNCHANGED <<claimed, daemon, pc, work>> PROVE Claims'
      BY <1>0, <1>1
<1>2. CASE \/ \E f \in Files : Edit(f) \/ ScanDirty(f)
           \/ \E b \in Builder : BuildStep(b)
           \/ SyncRun \/ SyncRunScan \/ SyncRunLook \/ SyncRunPage \/ SyncRunReply
      BY <1>1, <1>2 DEF Edit, ScanDirty, BuildStep, SyncRun, SyncRunScan, SyncRunLook,
                        SyncRunPage, SyncRunReply, loopVars, queue
\* Steps that move it.
<1>3. CASE Start
      BY <1>0, <1>00, <1>3 DEF Start, Q!Start
<1>4. CASE Crash
      BY <1>0, <1>00, <1>4 DEF Crash, Q!Crash
<1>5. CASE Look \/ LoopScan \/ LeaveDirty \/ FoldersDone \/ BatchDone
      BY <1>0, <1>00, <1>5 DEF Look, LoopScan, LeaveDirty, FoldersDone, BatchDone, queue
<1>19. CASE LoopPage
      BY <1>0, <1>00, <1>19, PageStageNames DEF LoopPage, queue
<1>6. CASE BatchClaimed
      BY <1>0, <1>00, <1>6 DEF BatchClaimed, queue
<1>7. CASE BatchFails
      BY <1>0, <1>00, <1>7 DEF BatchFails, queue
<1>8. CASE StageDone
      BY <1>0, <1>00, <1>8, Stages DEF StageDone, queue
\* Claims.
<1>9. ASSUME NEW j \in Jobs, ClaimFolder(j) PROVE Claims'
      <2>1. rows[j].entry \in Dirs /\ rows'[j].entry = rows[j].entry
            <3>1. rows[j].entry \in Dirs
                  BY <1>9 DEF ClaimFolder, Queued, Q!JobType
            <3>2. rows[j] # Q!NoRow
                  BY <1>9 DEF ClaimFolder, Q!Claim, Q!HasStatus, Q!NoRow
            <3> QED BY <3>1, <3>2, JobKeepsEntry, StepIsQueueStep DEF TypeOK
      <2>2. /\ claimed = {} /\ claimed' = {j} /\ pc = "folders"
            /\ UNCHANGED <<daemon, pc, work>>
            BY <1>9 DEF ClaimFolder, Q!Claim
      <2> QED BY <1>0, <1>00, <2>1, <2>2
<1>10. ASSUME NEW j \in Jobs, ClaimUpload(j) PROVE Claims'
      <2>1. rows[j].entry \notin Dirs /\ rows'[j].entry = rows[j].entry
            <3>1. rows[j].entry \notin Dirs
                  BY <1>10 DEF ClaimUpload, Queued, Q!JobType
            <3>2. rows[j] # Q!NoRow
                  BY <1>10 DEF ClaimUpload, Q!Claim, Q!HasStatus, Q!NoRow
            <3> QED BY <3>1, <3>2, JobKeepsEntry, StepIsQueueStep DEF TypeOK
      <2>2. claimed' = claimed \cup {j} /\ pc = "claim" /\ UNCHANGED <<daemon, pc, work>>
            BY <1>10 DEF ClaimUpload, Q!Claim
      <2> QED BY <1>0, <1>00, <2>1, <2>2
\* Work on a claimed job.
<1>11. ASSUME NEW j \in Jobs, UNCHANGED <<claimed, daemon, pc>>, j \in claimed,
              NEW w \in WorkState, work' = [work EXCEPT ![j] = w],
              w.step = "created" => pc = "folders",
              w.step = "uploaded" => pc \in {"upload", "save"}
       PROVE  Claims'
       BY <1>0, <1>11
<1>12. ASSUME NEW j \in Jobs,
              CreateFolder(j) \/ FolderCreated(j) \/ UploadFails(j) \/ SaveUpload(j)
       PROVE  Claims'
       <2>1. PICK s \in {"created", "failed", "done"} :
               /\ work' = [work EXCEPT ![j] = [step |-> s]]
               /\ s = "created" => pc = "folders"
             BY <1>12 DEF CreateFolder, FolderCreated, UploadFails, SaveUpload
       <2>2. j \in claimed /\ UNCHANGED <<claimed, daemon, pc>>
             BY <1>12 DEF CreateFolder, FolderCreated, UploadFails, SaveUpload, queue
       <2>3. [step |-> s] \in WorkState /\ [step |-> s].step = s
             BY WorkStates
       <2> QED BY <1>11, <2>1, <2>2, <2>3
<1>13. ASSUME NEW j \in Jobs, PrepareUpload(j) PROVE Claims'
       <2>1. /\ Prepared(rows[j].entry) \in WorkState
             /\ Prepared(rows[j].entry).step \in {"done", "failed", "prepared"}
             BY WorkStates DEF Prepared
       <2> QED BY <1>11, <1>13, <2>1 DEF PrepareUpload, queue
<1>14. ASSUME NEW j \in Jobs, Upload(j) PROVE Claims'
       <2>1. work'[j] \in WorkState /\ work' = [work EXCEPT ![j] = work'[j]]
             BY <1>0, <1>14, NextTypeWork DEF Upload
       <2> QED BY <1>11, <1>14, <2>1 DEF Upload, queue
\* Marks.
<1>15. ASSUME NEW j \in Jobs, claimed' = claimed \ {j}, UNCHANGED <<daemon, pc>>,
              work' = [work EXCEPT ![j] = Idle]
       PROVE  Claims'
       BY <1>0, <1>00, <1>15
<1>16. ASSUME NEW j \in Jobs,
              FolderDone(j) \/ CreateFolderReplyLost(j) \/ MarkUpload(j)
       PROVE  Claims'
       BY <1>15, <1>16 DEF FolderDone, CreateFolderReplyLost, MarkUpload,
                           Q!MarkDone, Q!MarkFailed, Q!Mark
<1>17. ASSUME NEW j \in Jobs, CreateFolderFails(j) PROVE Claims'
       <2>1. work' = [work EXCEPT ![j] = Idle]
             BY <1>0, <1>17 DEF CreateFolderFails
       <2> QED BY <1>15, <1>17, <2>1 DEF CreateFolderFails, Q!MarkFailed, Q!Mark
<1>18. CASE UNCHANGED vars
       BY <1>1, <1>18 DEF vars, queue, loopVars
<1> QED BY <1>2, <1>3, <1>4, <1>5, <1>6, <1>7, <1>8, <1>9, <1>10, <1>12, <1>13, <1>14,
           <1>16, <1>17, <1>18, <1>19
        DEF Next, Loop, LoopBuild, FolderTick, UploadTick, Ipc, Builder

LEMMA NextPages ==
  ASSUME TypeOK, Claims, Pages, [Next]_vars
  PROVE  Pages'
<1>0. /\ page = [b \in Builder |-> page[b]] /\ runs \in Nat
      /\ daemon \in {"down", "up"} /\ "loop" \in Builder /\ "ipc" \in Builder
      BY DEF TypeOK, Q!TypeOK, Builder
<1> USE DEF Pages, Built
<1>1. ASSUME UNCHANGED <<page, ipc, runs, daemon>>, ~Built("loop") => pc' = pc
      PROVE  Pages'
      BY <1>1
<1>2. CASE \/ \E f \in Files : Edit(f) \/ ScanDirty(f)
           \/ Look \/ LoopScan \/ LeaveDirty \/ FoldersDone \/ BatchClaimed \/ BatchFails
           \/ StageDone \/ BatchDone
      BY <1>1, <1>2, Stages
      DEF Edit, ScanDirty, Look, LoopScan, LeaveDirty, FoldersDone, BatchClaimed,
          BatchFails, StageDone,
          BatchDone, loopVars, ipcVars, queue, Aside
<1>3. CASE Start
      BY <1>0, <1>3 DEF Start, Q!Start, Claims, ipcVars
<1>4. CASE Crash
      BY <1>4 DEF Crash, Builder, NoPage
<1>5. CASE LoopPage
      <2>1. page'["ipc"] = page["ipc"]
            BY <1>0, <1>5 DEF LoopPage
      <2>2. pc' \in {"look", "built", "dirty"}
            BY <1>5, PageStageNames DEF LoopPage
      <2> QED BY <1>5, <2>1, <2>2 DEF LoopPage, ipcVars, queue
<1>6. ASSUME NEW b \in Builder, BuildStep(b) PROVE Pages'
      <2>1. /\ DOMAIN page[b] # {}
            /\ \A c \in Builder : c # b => page'[c] = page[c]
            /\ UNCHANGED <<pc, ipc, runs, daemon>>
            BY <1>0, <1>6 DEF BuildStep, loopVars, ipcVars
      <2> QED BY <2>1 DEF Builder
<1>7. ASSUME NEW j \in Jobs,
             \/ ClaimFolder(j) \/ CreateFolder(j) \/ FolderCreated(j) \/ FolderDone(j)
             \/ CreateFolderFails(j) \/ CreateFolderReplyLost(j)
             \/ ClaimUpload(j) \/ PrepareUpload(j) \/ Upload(j)
             \/ UploadFails(j) \/ SaveUpload(j) \/ MarkUpload(j)
      PROVE  Pages'
      BY <1>1, <1>7
      DEF ClaimFolder, CreateFolder, FolderCreated, FolderDone, CreateFolderFails,
          CreateFolderReplyLost, ClaimUpload, PrepareUpload, Upload, UploadFails,
          SaveUpload, MarkUpload, Aside, ipcVars, queue, Q!Claim, Q!MarkDone, Q!MarkFailed,
          Q!Mark
<1>8. CASE SyncRun
      BY <1>0, <1>8 DEF SyncRun, loopVars, queue
<1>9. CASE SyncRunScan \/ SyncRunLook \/ SyncRunReply
      BY <1>0, <1>9 DEF SyncRunScan, SyncRunLook, SyncRunReply, loopVars, queue
<1>10. CASE SyncRunPage
      <2>1. page'["loop"] = page["loop"]
            BY <1>0, <1>10 DEF SyncRunPage
      <2> QED BY <1>10, <2>1 DEF SyncRunPage, loopVars, queue
<1>11. CASE UNCHANGED vars
       BY <1>1, <1>11 DEF vars, queue, loopVars, ipcVars
<1> QED BY <1>2, <1>3, <1>4, <1>5, <1>6, <1>7, <1>8, <1>9, <1>10, <1>11
        DEF Next, Loop, LoopBuild, FolderTick, UploadTick, Ipc, Builder

-----------------------------------------------------------------------------
(***************************************************************************)
(* What the rows, the uploads and the disk know of each other.             *)
(***************************************************************************)

LEMMA NextVersions ==
  ASSUME QueueInv, TypeOK, Claims, Versions, [Next]_vars
  PROVE  Versions'
<1>0. /\ disk \in [Files -> 1..(1 + MaxEdits)] /\ edits \in Nat
      /\ \A f \in Files : disk[f] \in Nat
      /\ \A f \in Files : f \in Entries /\ entry[f].contentHash \in Nat
      BY BoundsAssumption, RowColumns DEF TypeOK, Files
<1> USE DEF Versions
<1>1. ASSUME UNCHANGED <<disk, edits, entry>> PROVE Versions'
      BY <1>1
<1>2. ASSUME NEW f \in Files, Edit(f) PROVE Versions'
      <2>1. /\ edits' = edits + 1 /\ entry' = entry
            /\ disk'[f] = disk[f] + 1
            /\ \A g \in Files : g # f => disk'[g] = disk[g]
            BY <1>0, <1>2 DEF Edit
      <2> QED BY <1>0, <2>1
<1>3. CASE Start \/ LoopScan \/ SyncRunScan
      <2>1. UNCHANGED <<disk, edits>>
            BY <1>3 DEF Start, LoopScan, SyncRunScan, diskVars
      <2> QED BY <1>0, <1>3, <2>1, NextEntry
<1>4. ASSUME NEW f \in Files, ScanDirty(f) PROVE Versions'
      <2>1. UNCHANGED <<disk, edits>>
            BY <1>4 DEF ScanDirty, diskVars
      <2> QED BY <1>0, <1>4, <2>1, NextEntry
<1>5. ASSUME NEW j \in Jobs, FolderCreated(j) PROVE Versions'
      <2>1. UNCHANGED <<disk, edits>>
            BY <1>5 DEF FolderCreated, Aside, diskVars
      <2>2. \A f \in Files : entry'[f] = entry[f]
            BY <1>5, NextEntry DEF Files
      <2> QED BY <2>1, <2>2
<1>6. ASSUME NEW j \in Jobs, SaveUpload(j) PROVE Versions'
      <2>1. UNCHANGED <<disk, edits>>
            BY <1>6 DEF SaveUpload, Aside, diskVars
      <2>2. \A f \in Files : entry'[f].contentHash = entry[f].contentHash
            BY <1>6, NextEntry DEF Files
      <2> QED BY <2>1, <2>2
<1> QED BY <1>1, <1>2, <1>3, <1>4, <1>5, <1>6, EntryChanges, DiskChanges DEF diskVars

LEMMA NextUploads ==
  ASSUME QueueInv, TypeOK, Claims, Pages, Versions, Uploads, [Next]_vars
  PROVE  Uploads'
<1> SUFFICES ASSUME runs' = 0
             PROVE  /\ \A j \in claimed' : work'[j].step = "uploaded" =>
                         /\ entry'[rows'[j].entry].contentHash <= work'[j].content
                         /\ work'[j].content <= disk'[rows'[j].entry]
                    /\ \A f \in Files :
                         /\ entry'[f].syncedContentHash <= disk'[f]
                         /\ entry'[f].syncedContentHash = disk'[f]
                              => entry'[f].remoteId = disk'[f]
    BY DEF Uploads
<1> DEFINE Read == \A j \in claimed' : work'[j].step = "uploaded" =>
                         /\ entry'[rows'[j].entry].contentHash <= work'[j].content
                         /\ work'[j].content <= disk'[rows'[j].entry]
           Stored == \A f \in Files :
                         /\ entry'[f].syncedContentHash <= disk'[f]
                         /\ entry'[f].syncedContentHash = disk'[f]
                              => entry'[f].remoteId = disk'[f]
<1>0. /\ disk \in [Files -> 1..(1 + MaxEdits)] /\ work \in [Jobs -> WorkState]
      /\ \A f \in Files : disk[f] \in Nat
      /\ \A f \in Files : f \in Entries /\ entry[f].contentHash \in Nat
                           /\ entry[f].syncedContentHash \in Nat
      /\ claimed \subseteq Jobs
      BY BoundsAssumption, RowColumns DEF TypeOK, Files, Q!TypeOK
<1>1. runs = 0
      BY RunsGrow DEF TypeOK
\* What was read and stored so far.
<1>2. /\ \A j \in claimed : work[j].step = "uploaded" =>
           /\ entry[rows[j].entry].contentHash <= work[j].content
           /\ work[j].content <= disk[rows[j].entry]
      /\ \A f \in Files :
           /\ entry[f].syncedContentHash <= disk[f]
           /\ entry[f].syncedContentHash = disk[f] => entry[f].remoteId = disk[f]
      BY <1>1 DEF Uploads
<1>3. \A j \in claimed : /\ rows'[j].entry = rows[j].entry
                         /\ work[j].step = "uploaded" => rows[j].entry \in Files
                         /\ work[j].step = "uploaded" => work[j].content \in Nat
      BY <1>0, ClaimedKeepsEntry, ClaimedJob, WorkStates DEF Claims
\* Nothing is uploaded between the batches.
<1>4. ASSUME \A j \in claimed' : work'[j].step # "uploaded" PROVE Read
      BY <1>4
<1>5. ASSUME UNCHANGED <<entry, disk>> PROVE Stored
      BY <1>2, <1>5
<1>6. ASSUME UNCHANGED <<entry, disk>>,
             \A j \in claimed' : work'[j].step = "uploaded" =>
                                   j \in claimed /\ work'[j] = work[j]
      PROVE  Read
      BY <1>2, <1>3, <1>6
<1>7. ASSUME NEW f \in Files, Edit(f) PROVE Read /\ Stored
      <2>1. /\ UNCHANGED <<entry, claimed, work>>
            /\ disk'[f] = disk[f] + 1
            /\ \A g \in Files : g # f => disk'[g] = disk[g]
            BY <1>0, <1>7 DEF Edit, queue, loopVars
      <2>2. \A g \in Files : disk[g] <= disk'[g] /\ disk'[g] \in Nat
            BY <1>0, <2>1
      <2>3. ASSUME NEW j \in claimed', work'[j].step = "uploaded"
            PROVE  /\ entry'[rows'[j].entry].contentHash <= work'[j].content
                   /\ work'[j].content <= disk'[rows'[j].entry]
            BY <1>0, <1>2, <1>3, <2>1, <2>2, <2>3
      <2>4. Stored
            BY <1>0, <1>2, <2>1
      <2> QED BY <2>3, <2>4
<1>8. CASE Start \/ LoopScan
      <2>1. claimed' = {} /\ UNCHANGED disk
            BY <1>8 DEF Start, LoopScan, Q!Start, Claims, diskVars, queue
      <2>2. Stored
            BY <1>0, <1>2, <1>8, <2>1, NextEntry
      <2> QED BY <2>1, <2>2
<1>9. ASSUME NEW f \in Files, ScanDirty(f) PROVE Read /\ Stored
      <2>1. claimed' = {} /\ UNCHANGED disk
            BY <1>9 DEF ScanDirty, Claims, diskVars
      <2>2. Stored
            BY <1>0, <1>2, <1>9, <2>1, NextEntry
      <2> QED BY <2>1, <2>2
<1>10. CASE SyncRunScan
       BY <1>1, <1>10 DEF SyncRunScan, Pages
<1>11. ASSUME NEW j \in Jobs, FolderCreated(j) PROVE Read /\ Stored
       <2>0. /\ pc = "folders" /\ claimed' \subseteq claimed
             /\ work' = [work EXCEPT ![j] = [step |-> "done"]]
             BY <1>11 DEF FolderCreated, queue
       <2>1. \A i \in claimed' : work'[i].step # "uploaded"
             BY <1>0, <2>0 DEF Claims
       <2>2. UNCHANGED disk
             BY <1>11 DEF FolderCreated, Aside, diskVars
       <2>3. \A f \in Files : entry'[f] = entry[f]
             BY <1>11, NextEntry DEF Files
       <2>4. Stored
             BY <1>2, <2>2, <2>3
       <2> QED BY <2>1, <2>4
<1>12. ASSUME NEW j \in Jobs, SaveUpload(j) PROVE Read /\ Stored
       <2> DEFINE e == rows[j].entry
       <2>1. /\ j \in claimed /\ work[j].step = "uploaded" /\ e \in Files
             /\ UNCHANGED <<disk, claimed>>
             /\ work' = [work EXCEPT ![j] = [step |-> "done"]]
             BY <1>3, <1>12 DEF SaveUpload, Aside, diskVars, queue
       <2>2. /\ entry'[e].contentHash = entry[e].contentHash
             /\ entry'[e].syncedContentHash = entry[e].contentHash
             /\ entry'[e].remoteId = work[j].content
             /\ \A g \in Entries \ {e} : entry'[g] = entry[g]
             BY <1>12, NextEntry
       <2>3. /\ entry[e].contentHash <= work[j].content /\ work[j].content <= disk[e]
             /\ work[j].content \in Nat
             BY <1>2, <1>3, <2>1
       <2>4. \A f \in Files : entry'[f].contentHash = entry[f].contentHash
             BY <1>0, <2>2
       <2>5. Stored
             BY <1>0, <2>1, <2>2, <2>3, <1>2
       <2>6. ASSUME NEW i \in claimed', work'[i].step = "uploaded"
             PROVE  /\ entry'[rows'[i].entry].contentHash <= work'[i].content
                    /\ work'[i].content <= disk'[rows'[i].entry]
             <3>1. i \in claimed /\ work'[i] = work[i]
                   BY <1>0, <2>1, <2>6
             <3> QED BY <1>2, <1>3, <2>1, <2>4, <2>6, <3>1
       <2> QED BY <2>5, <2>6
<1>13. CASE UNCHANGED <<entry, disk>>
       <2>1. ASSUME NEW j \in Jobs, Upload(j) PROVE Read
             <3>1. /\ work' = [work EXCEPT ![j] = [step |-> "uploaded",
                                                    content |-> disk[rows[j].entry]]]
                   /\ UNCHANGED claimed /\ j \in claimed
                   BY <2>1 DEF Upload, queue
             <3>2. rows[j].entry \in Files
                   BY <2>1, ClaimedJob DEF Upload
             <3>3. /\ work'[j].content = disk[rows[j].entry]
                   /\ entry[rows[j].entry].contentHash <= disk[rows[j].entry]
                   /\ disk[rows[j].entry] <= disk[rows[j].entry]
                   BY <1>0, <3>1, <3>2 DEF Versions
             <3>4. \A i \in claimed : i # j => work'[i] = work[i]
                   BY <1>0, <3>1
             <3>5. ASSUME NEW i \in claimed', work'[i].step = "uploaded"
                   PROVE  /\ entry'[rows'[i].entry].contentHash <= work'[i].content
                          /\ work'[i].content <= disk'[rows'[i].entry]
                   BY <1>2, <1>3, <1>13, <3>1, <3>3, <3>4, <3>5
             <3> QED BY <3>5
       <2>2. ASSUME ~\E j \in Jobs : Upload(j) PROVE Read
             <3>1. \A j \in claimed' : work'[j].step = "uploaded" =>
                                         j \in claimed /\ work'[j] = work[j]
                   <4>1. CASE Crash
                         BY <4>1 DEF Crash, Q!Crash
                   <4>2. CASE BatchFails
                         BY <1>0, <4>2 DEF BatchFails, queue
                   <4>3. ASSUME NEW j \in Jobs,
                                \/ CreateFolder(j) \/ FolderCreated(j) \/ UploadFails(j)
                                \/ SaveUpload(j)
                         PROVE  \A i \in claimed' : work'[i].step = "uploaded" =>
                                         i \in claimed /\ work'[i] = work[i]
                         <5>1. /\ UNCHANGED claimed
                               /\ \E s \in {"created", "failed", "done"} :
                                    work' = [work EXCEPT ![j] = [step |-> s]]
                               BY <4>3 DEF CreateFolder, FolderCreated, UploadFails,
                                           SaveUpload, queue
                         <5> QED BY <1>0, <5>1
                   <4>4. ASSUME NEW j \in Jobs, PrepareUpload(j)
                         PROVE  \A i \in claimed' : work'[i].step = "uploaded" =>
                                         i \in claimed /\ work'[i] = work[i]
                         <5>1. Prepared(rows[j].entry).step # "uploaded"
                               BY DEF Prepared
                         <5> QED BY <1>0, <4>4, <5>1 DEF PrepareUpload, queue
                   <4>5. ASSUME NEW j \in Jobs,
                                \/ FolderDone(j) \/ CreateFolderReplyLost(j)
                                \/ MarkUpload(j)
                         PROVE  \A i \in claimed' : work'[i].step = "uploaded" =>
                                         i \in claimed /\ work'[i] = work[i]
                         <5>1. claimed' = claimed \ {j} /\ work' = [work EXCEPT ![j] = Idle]
                               BY <4>5 DEF FolderDone, CreateFolderReplyLost, MarkUpload,
                                           Q!MarkDone, Q!MarkFailed, Q!Mark
                         <5> QED BY <1>0, <5>1
                   <4>6. CASE UNCHANGED work
                         <5>1. \A j \in Jobs \ claimed : work[j].step # "uploaded"
                               BY DEF Claims, Idle
                         <5>2. claimed' \subseteq Jobs
                               BY NextTypeOK DEF TypeOK, Q!TypeOK
                         <5> QED BY <4>6, <5>1, <5>2
                   <4> QED BY <2>2, <4>1, <4>2, <4>3, <4>4, <4>5, <4>6, WorkChanges
             <3> QED BY <1>6, <1>13, <3>1
       <2>3. Read
             BY <2>1, <2>2
       <2> QED BY <1>5, <1>13, <2>3
<1> QED BY <1>7, <1>8, <1>9, <1>10, <1>11, <1>12, <1>13, EntryChanges, DiskChanges
        DEF diskVars

-----------------------------------------------------------------------------
(***************************************************************************)
(* Folders.                                                                *)
(***************************************************************************)

LEMMA NextPageFresh ==
  ASSUME QueueInv, TypeOK, Claims, Pages, PageFresh, [Next]_vars
  PROVE  PageFresh'
<1> DEFINE P == page["loop"]
           Same == \A d \in Dirs : entry'[d].remoteId = entry[d].remoteId
<1>0. /\ page = [b \in Builder |-> page[b]] /\ "loop" \in Builder
      /\ \A i \in DOMAIN P : PathOrder[i] \in Entries
      /\ entry \in [Entries -> PipelineRow] /\ cursor \in 0..Len(PathOrder)
      BY PageRows DEF TypeOK, Builder
<1>1. ASSUME P' = P, Same PROVE PageFresh'
      BY <1>1 DEF PageFresh
<1>2. ASSUME DOMAIN P' = {} PROVE PageFresh'
      BY <1>2 DEF PageFresh
<1>3. ASSUME pc \notin {"look", "built", "dirty"}, UNCHANGED page PROVE PageFresh'
      BY <1>2, <1>3 DEF Pages, Built
<1>4. CASE Crash
      BY <1>2, <1>4 DEF Crash, Builder, NoPage
<1>5. CASE Start
      BY <1>3, <1>5 DEF Start, Q!Start, Claims
<1>6. CASE LoopScan \/ SyncRunScan
      <2>1. Same
            BY <1>6, NextEntry, DirsAssumption
      <2> QED BY <1>1, <1>6, <2>1 DEF LoopScan, SyncRunScan
<1>7. ASSUME NEW f \in Files, ScanDirty(f) PROVE PageFresh'
      BY <1>2, <1>7 DEF ScanDirty, Built
<1>8. ASSUME NEW j \in Jobs, FolderCreated(j) \/ SaveUpload(j) PROVE PageFresh'
      BY <1>3, <1>8 DEF FolderCreated, SaveUpload, Aside
<1>9. CASE UNCHANGED entry
      <2>0. Same
            BY <1>9
      <2>1. CASE UNCHANGED page
            BY <1>1, <2>0, <2>1
      <2>2. CASE LoopPage
            <3>1. CASE complete
                  BY <1>1, <2>0, <2>2, <3>1 DEF LoopPage
            <3>2. CASE ~complete
                  <4>1. P' = PageAfter(cursor)
                        BY <1>0, <2>2, <3>2 DEF LoopPage
                  <4>2. \A i \in DOMAIN PageAfter(cursor) :
                          PageAfter(cursor)[i] = entry[PathOrder[i]]
                        BY <1>0, PageIsCurrent
                  <4> QED BY <1>9, <4>1, <4>2 DEF PageFresh
            <3> QED BY <3>1, <3>2
      <2>3. CASE SyncRunPage
            <3>1. P' = P
                  BY <1>0, <2>3 DEF SyncRunPage
            <3> QED BY <1>1, <2>0, <3>1
      <2>4. ASSUME NEW b \in Builder, BuildStep(b) PROVE PageFresh'
            <3>1. CASE b # "loop"
                  <4>1. P' = P
                        BY <1>0, <2>4, <3>1 DEF BuildStep
                  <4> QED BY <1>1, <2>0, <4>1
            <3>2. CASE b = "loop"
                  <4>1. PICK i : page' = [page EXCEPT ![b] = [k \in DOMAIN page[b] \ {i}
                                                                |-> page[b][k]]]
                        BY <1>0, <2>4 DEF BuildStep
                  <4>2. P' = [k \in DOMAIN P \ {i} |-> P[k]]
                        BY <1>0, <3>2, <4>1
                  <4> QED BY <1>9, <4>2 DEF PageFresh
            <3> QED BY <3>1, <3>2
      <2> QED BY <1>4, <2>1, <2>2, <2>3, <2>4, PageChanges
<1> QED BY <1>5, <1>6, <1>7, <1>8, <1>9, EntryChanges

\* A change of the status of an active row makes no other entry busy.
LEMMA StatusKeepsBusy ==
  ASSUME Q!TypeOK, NEW j \in Jobs, NEW s, rows[j].status \in Q!Active,
         rows' = Q!WithStatus(rows, j, s), NEW d
  PROVE  Busy(d)' => Busy(d)
<1>0. rows \in [Jobs -> Q!Row \cup {Q!NoRow}]
      BY DEF Q!TypeOK
<1>1. rows[j] \in Q!Row
      BY <1>0 DEF Q!NoRow, Q!Active
<1>2. rows'[j].entry = rows[j].entry /\ \A i \in Jobs \ {j} : rows'[i] = rows[i]
      <2>1. [rows[j] EXCEPT !.status = s].entry = rows[j].entry
            BY <1>1 DEF Q!Row
      <2>2. rows' = [rows EXCEPT ![j] = [rows[j] EXCEPT !.status = s]]
            BY DEF Q!WithStatus
      <2> QED BY <1>0, <2>1, <2>2
<1> QED BY <1>2 DEF Busy, Q!HasActiveJob, Q!HasStatus

\* Only enqueueEntry gives an entry a job.
LEMMA BusyChanges ==
  ASSUME QueueInv, TypeOK, Claims, Pages, [Next]_vars, NEW d, Busy(d)', ~Busy(d)
  PROVE  \/ \E b \in Builder : BuildStep(b)
         \/ \E f \in Files : ScanDirty(f)
<1>0. Q!TypeOK
      BY DEF TypeOK
<1>1. ASSUME UNCHANGED rows PROVE FALSE
      BY <1>1 DEF Busy, Q!HasActiveJob, Q!HasStatus
<1>2. ASSUME NEW j \in Jobs, Q!Claim(j) PROVE FALSE
      BY <1>0, <1>2, StatusKeepsBusy DEF Q!Claim, Q!HasStatus, Q!Active
<1>3. ASSUME NEW j \in Jobs, Q!MarkDone(j) \/ Q!MarkFailed(j) PROVE FALSE
      <2>1. PICK s : Q!Mark(j, s)
            BY <1>3 DEF Q!MarkDone, Q!MarkFailed
      <2>2. rows[j].status = "running"
            BY <2>1, ClaimedJob DEF Q!Mark
      <2> QED BY <1>0, <2>1, <2>2, StatusKeepsBusy DEF Q!Mark, Q!Active
<1>4. ASSUME Start PROVE FALSE
      <2>0. rows \in [Jobs -> Q!Row \cup {Q!NoRow}]
            BY <1>0 DEF Q!TypeOK
      <2>1. PICK i \in Jobs : rows'[i].status \in Q!Active /\ rows'[i].entry = d
            BY DEF Busy, Q!HasActiveJob, Q!HasStatus
      <2>2. rows'[i] = IF rows[i].status = "running"
                       THEN [rows[i] EXCEPT !.status = "queued"] ELSE rows[i]
            BY <1>4 DEF Start, Q!Start, Q!Requeued
      <2>3. CASE rows[i].status = "running"
            <3>1. rows[i] \in Q!Row
                  BY <2>0, <2>3 DEF Q!NoRow
            <3>2. rows[i].entry = d
                  BY <2>1, <2>2, <2>3, <3>1 DEF Q!Row
            <3> QED BY <2>3, <3>2 DEF Busy, Q!HasActiveJob, Q!HasStatus, Q!Active
      <2>4. CASE rows[i].status # "running"
            BY <2>1, <2>2, <2>4 DEF Busy, Q!HasActiveJob, Q!HasStatus
      <2> QED BY <2>3, <2>4
<1>5. ASSUME NEW j \in Jobs,
             \/ ClaimFolder(j) \/ ClaimUpload(j) \/ FolderDone(j) \/ CreateFolderFails(j)
             \/ CreateFolderReplyLost(j) \/ MarkUpload(j)
      PROVE  FALSE
      BY <1>2, <1>3, <1>5 DEF ClaimFolder, ClaimUpload, FolderDone, CreateFolderFails,
                              CreateFolderReplyLost, MarkUpload
<1>6. CASE \/ \E f \in Files : Edit(f)
           \/ Crash \/ Look \/ LoopScan \/ LoopPage \/ LeaveDirty \/ FoldersDone
           \/ BatchClaimed \/ BatchFails \/ StageDone \/ BatchDone \/ SyncRun
           \/ SyncRunScan \/ SyncRunLook \/ SyncRunPage \/ SyncRunReply \/ UNCHANGED vars
           \/ \E j \in Jobs : CreateFolder(j) \/ FolderCreated(j) \/ PrepareUpload(j)
                              \/ Upload(j) \/ UploadFails(j) \/ SaveUpload(j)
      BY <1>1, <1>6
      DEF Edit, Crash, Q!Crash, Look, LoopScan, FolderCreated, SyncRunLook, LoopPage,
          LeaveDirty, FoldersDone, BatchClaimed, BatchFails,
          StageDone, BatchDone, SyncRun, SyncRunScan, SyncRunPage, SyncRunReply, vars, queue,
          CreateFolder, PrepareUpload, Upload, UploadFails, SaveUpload
<1> QED BY <1>4, <1>5, <1>6
        DEF Next, Loop, LoopBuild, FolderTick, UploadTick, Ipc, Builder

\* What is known of folder jobs changes only by the folder worker's steps and
\* by a crash.
LEMMA FolderWorkChanges ==
  [Next]_vars => \/ UNCHANGED <<claimed, work>>
                 \/ pc # "folders" /\ pc' # "folders"
                 \/ Crash
                 \/ \E j \in Jobs :
                      \/ ClaimFolder(j) \/ CreateFolder(j) \/ FolderCreated(j)
                      \/ FolderDone(j) \/ CreateFolderFails(j) \/ CreateFolderReplyLost(j)
BY DEF Next, vars, Loop, LoopBuild, FolderTick, UploadTick, Ipc, loopVars, queue,
       Start, Q!Start, Edit, Look, LoopScan, LoopPage, BuildStep, LeaveDirty, ScanDirty,
       FoldersDone,
       BatchClaimed, BatchFails, StageDone, BatchDone, ClaimUpload, PrepareUpload, Upload,
       UploadFails, SaveUpload, MarkUpload, SyncRun, SyncRunScan, SyncRunLook, SyncRunPage,
       SyncRunReply

\* An entry whose running job is marked done has no other job.
LEMMA OnlyJobDone ==
  ASSUME QueueInv, TypeOK, Claims, NEW d, NEW j \in claimed, rows[j].entry = d,
         rows' = Q!WithStatus(rows, j, "done")
  PROVE  ~Busy(d)'
<1>0. rows \in [Jobs -> Q!Row \cup {Q!NoRow}] /\ rows[j].status = "running" /\ j \in Jobs
      BY ClaimedJob DEF TypeOK, Q!TypeOK
<1>1. rows[j] \in Q!Row
      BY <1>0 DEF Q!NoRow
<1>2. rows'[j].status = "done" /\ \A i \in Jobs \ {j} : rows'[i] = rows[i]
      <2>1. [rows[j] EXCEPT !.status = "done"].status = "done"
            BY <1>1 DEF Q!Row
      <2>2. rows' = [rows EXCEPT ![j] = [rows[j] EXCEPT !.status = "done"]]
            BY DEF Q!WithStatus
      <2> QED BY <1>0, <2>1, <2>2
<1>3. \A i \in Jobs : rows[i].status \in {"queued", "running"} /\ rows[i].entry = d => i = j
      BY <1>0 DEF QueueInv, QP!IInv, QP!OneActiveJobPerEntry, QP!UniqueActive, QP!HasStatus,
                  QP!Active
<1> QED BY <1>2, <1>3 DEF Busy, Q!HasActiveJob, Q!HasStatus, Q!Active

LEMMA NextFolders ==
  ASSUME QueueInv, TypeOK, Claims, Pages, PageFresh, Folders, Claims', [Next]_vars
  PROVE  Folders'
<1> SUFFICES ASSUME runs' = 0, NEW d \in Dirs PROVE FoldersOf(d)'
    BY DEF Folders
<1>0. /\ made \in [Dirs -> Nat] /\ unsaved \in [Dirs -> Nat] /\ d \in Entries
      /\ work \in [Jobs -> WorkState] /\ claimed \subseteq Jobs
      /\ claimed' \subseteq Jobs
      BY DirsAssumption, StepIsQueueStep, QueueStep
      DEF TypeOK, Q!TypeOK, QueueInv, QP!IInv, QP!TypeOK
<1>1. runs = 0 /\ FoldersOf(d)
      <2>1. runs = 0
            BY RunsGrow DEF TypeOK
      <2> QED BY <2>1 DEF Folders
\* Whoever enqueues a directory has seen that it has no folder.
<1>2. Busy(d)' => Busy(d) \/ entry[d].remoteId = NULL
      <2> SUFFICES ASSUME Busy(d)', ~Busy(d) PROVE entry[d].remoteId = NULL
          OBVIOUS
      <2>1. ASSUME NEW e \in Entries, NEW snap, EnqueueEntry(e, snap)
            PROVE  d = e /\ snap.remoteId = NULL
            <3>0. rows \in [Jobs -> Q!Row \cup {Q!NoRow}] /\ Q!TypeOK
                  BY DEF TypeOK, Q!TypeOK
            <3>1. rows' # rows
                  BY DEF Busy, Q!HasActiveJob, Q!HasStatus
            <3>2. WantsJob(e, snap) /\ \E j \in Jobs : Q!EnqueueRow(j, e)
                  BY <2>1, <3>0, <3>1, EnqueueEntryRows
            <3>3. PICK j \in Jobs : Q!EnqueueRow(j, e)
                  BY <3>2
            <3>4. /\ rows'[j].entry = e
                  /\ \A i \in Jobs \ {j} : rows'[i] = rows[i]
                  BY <3>0, <3>3 DEF Q!EnqueueRow, Q!Inserted
            <3>5. d = e
                  BY <3>4 DEF Busy, Q!HasActiveJob, Q!HasStatus
            <3> QED BY <3>2, <3>5 DEF WantsJob
      <2>2. ASSUME NEW f \in Files, ScanDirty(f) PROVE FALSE
            BY <2>1, <2>2 DEF ScanDirty, Files
      <2>3. ASSUME NEW b \in Builder, BuildStep(b) PROVE entry[d].remoteId = NULL
            <3>1. PICK i \in DOMAIN page[b] : EnqueueEntry(PathOrder[i], page[b][i])
                  BY <2>3 DEF BuildStep
            <3>2. b = "loop"
                  BY <1>1, <3>1 DEF Pages, Built, Builder
            <3>3. PathOrder[i] \in Entries
                  BY <3>1, PageRows
            <3>4. d = PathOrder[i] /\ page[b][i].remoteId = NULL
                  BY <2>1, <3>1, <3>3
            <3> QED BY <3>1, <3>2, <3>4 DEF PageFresh
      <2> QED BY <2>2, <2>3, BusyChanges
<1>3. \A j \in claimed : rows'[j].entry = rows[j].entry
      BY ClaimedKeepsEntry
\* Steps that leave the directory's folder and the work on it alone.
<1>4. ASSUME entry'[d].remoteId = entry[d].remoteId, made'[d] = made[d],
             unsaved'[d] = unsaved[d], Making(d)' <=> Making(d),
             FolderIds(d)'
      PROVE  FoldersOf(d)'
      BY <1>1, <1>2, <1>4 DEF FoldersOf
<1>5. ASSUME entry'[d].remoteId = entry[d].remoteId, made'[d] = made[d],
             unsaved'[d] = unsaved[d], ~Making(d), ~Making(d)'
      PROVE  FoldersOf(d)'
      <2>1. FolderIds(d)'
            BY <1>5 DEF Making, FolderIds
      <2> QED BY <1>4, <1>5, <2>1
<1>6. \/ entry'[d].remoteId = entry[d].remoteId
      \/ \E j \in Jobs : FolderCreated(j) /\ rows[j].entry = d
      <2>1. CASE Start \/ LoopScan \/ SyncRunScan
            BY <1>0, <2>1, NextEntry
      <2>2. ASSUME NEW f \in Files, ScanDirty(f) PROVE entry'[d] = entry[d]
            BY <1>0, <2>2, NextEntry DEF Files
      <2>3. ASSUME NEW j \in Jobs, SaveUpload(j) PROVE entry'[d] = entry[d]
            BY <1>0, <2>3, NextEntry DEF Files
      <2>4. ASSUME NEW j \in Jobs, FolderCreated(j), rows[j].entry # d
            PROVE  entry'[d] = entry[d]
            BY <1>0, <2>4, NextEntry
      <2> QED BY <2>1, <2>2, <2>3, <2>4, EntryChanges
\* The folder worker has one job at a time.
<1>7. ASSUME NEW j \in Jobs, pc = "folders", j \in claimed
      PROVE  /\ claimed = {j} /\ rows[j].entry \in Dirs
             /\ Making(d) <=> (work[j].step \in {"created", "done"} /\ rows[j].entry = d)
             /\ rows[j].entry = d => Busy(d)
      <2>1. claimed = {j}
            BY <1>7 DEF Claims
      <2>2. rows[j].entry \in Dirs /\ rows[j].status = "running"
            BY <1>7, ClaimedJob
      <2> QED BY <1>7, <2>1, <2>2
              DEF Making, Busy, Q!HasActiveJob, Q!HasStatus, Q!Active
<1>8. ASSUME NEW j \in Jobs, CreateFolder(j) PROVE FoldersOf(d)'
      <2>1. /\ pc = "folders" /\ j \in claimed /\ work[j].step = "idle"
            /\ made' = [made EXCEPT ![rows[j].entry] = @ + 1]
            /\ work' = [work EXCEPT ![j] = [step |-> "created"]]
            /\ UNCHANGED <<entry, unsaved, claimed>>
            BY <1>8 DEF CreateFolder, Idle, Aside, queue
      <2>2. work'[j].step = "created" /\ claimed' = {j} /\ rows'[j].entry = rows[j].entry
            BY <1>0, <1>3, <1>7, <2>1
      <2>3. ~Making(d) /\ (Making(d)' <=> rows[j].entry = d)
            BY <1>7, <2>1, <2>2 DEF Making
      <2>4. CASE rows[j].entry # d
            BY <1>0, <1>5, <2>1, <2>3, <2>4
      <2>5. CASE rows[j].entry = d
            <3>1. made[d] <= unsaved[d]
                  BY <1>1, <1>7, <2>1, <2>3, <2>5 DEF FoldersOf
            <3>2. made'[d] = made[d] + 1
                  BY <1>0, <2>1, <2>5
            <3>3. made'[d] <= unsaved[d] + 1 /\ made'[d] # 0
                  BY <1>0, <3>1, <3>2
            <3>4. FolderIds(d)'
                  BY <2>2, <3>3 DEF FolderIds
            <3> QED BY <2>1, <2>3, <2>5, <3>3, <3>4 DEF FoldersOf
      <2> QED BY <2>4, <2>5
<1>9. ASSUME NEW j \in Jobs, FolderCreated(j) PROVE FoldersOf(d)'
      <2>1. /\ pc = "folders" /\ j \in claimed /\ work[j].step = "created"
            /\ work' = [work EXCEPT ![j] = [step |-> "done"]]
            /\ UNCHANGED <<made, unsaved, claimed>>
            BY <1>9 DEF FolderCreated, Aside, queue
      <2>2. work'[j].step = "done" /\ claimed' = {j} /\ rows'[j].entry = rows[j].entry
            BY <1>0, <1>3, <1>7, <2>1
      <2>3. (Making(d) <=> rows[j].entry = d) /\ (Making(d)' <=> rows[j].entry = d)
            BY <1>7, <2>1, <2>2 DEF Making
      <2>4. CASE rows[j].entry # d
            <3>1. entry'[d] = entry[d]
                  BY <1>0, <1>9, <2>4, NextEntry
            <3> QED BY <1>5, <2>1, <2>3, <2>4, <3>1
      <2>5. CASE rows[j].entry = d
            <3>1. made[d] # 0 /\ made[d] <= unsaved[d] + 1
                  BY <1>1, <2>1, <2>5 DEF FoldersOf, FolderIds
            <3>2. entry'[d].remoteId = made[d]
                  BY <1>9, <2>5, NextEntry
            <3>3. FolderIds(d)'
                  BY <2>2, <3>1, <3>2 DEF FolderIds, NULL
            <3> QED BY <2>1, <2>3, <2>5, <3>1, <3>3 DEF FoldersOf
      <2> QED BY <2>4, <2>5
<1>10. ASSUME NEW j \in Jobs, FolderDone(j) PROVE FoldersOf(d)'
      <2>1. /\ pc = "folders" /\ j \in claimed /\ work[j].step = "done"
            /\ claimed' = claimed \ {j} /\ rows' = Q!WithStatus(rows, j, "done")
            /\ UNCHANGED <<entry, made, unsaved>>
            BY <1>10 DEF FolderDone, Q!MarkDone, Q!Mark, Aside
      <2>2. claimed' = {} /\ ~Making(d)'
            BY <1>7, <2>1 DEF Making
      <2>3. CASE rows[j].entry # d
            BY <1>5, <1>7, <2>1, <2>2, <2>3
      <2>4. CASE rows[j].entry = d
            <3>1. entry[d].remoteId # NULL /\ made[d] <= unsaved[d] + 1
                  BY <1>1, <2>1, <2>4 DEF FoldersOf, FolderIds
            <3>2. ~Busy(d)'
                  BY <2>1, <2>4, OnlyJobDone
            <3>3. FolderIds(d)'
                  BY <2>2 DEF FolderIds
            <3> QED BY <2>1, <3>1, <3>2, <3>3 DEF FoldersOf
      <2> QED BY <2>3, <2>4
<1>11. ASSUME NEW j \in Jobs, CreateFolderFails(j) PROVE FoldersOf(d)'
      <2>1. /\ pc = "folders" /\ j \in claimed /\ work[j].step = "idle"
            /\ claimed' = claimed \ {j}
            /\ UNCHANGED <<entry, made, unsaved>>
            BY <1>11 DEF CreateFolderFails, Q!MarkFailed, Q!Mark, Aside, Idle
      <2>2. ~Making(d) /\ ~Making(d)'
            BY <1>7, <2>1 DEF Making
      <2> QED BY <1>5, <2>1, <2>2
<1>12. ASSUME NEW j \in Jobs, CreateFolderReplyLost(j) PROVE FoldersOf(d)'
      <2>1. /\ pc = "folders" /\ j \in claimed /\ work[j].step = "created"
            /\ claimed' = claimed \ {j}
            /\ unsaved' = [unsaved EXCEPT ![rows[j].entry] = @ + 1]
            /\ UNCHANGED <<entry, made>>
            BY <1>12 DEF CreateFolderReplyLost, Q!MarkFailed, Q!Mark
      <2>2. claimed' = {} /\ ~Making(d)'
            BY <1>7, <2>1 DEF Making
      <2>3. CASE rows[j].entry # d
            BY <1>0, <1>5, <1>7, <2>1, <2>2, <2>3
      <2>4. CASE rows[j].entry = d
            <3>1. unsaved'[d] = unsaved[d] + 1
                  BY <1>0, <2>1, <2>4
            <3>2. made'[d] <= unsaved'[d] /\ made'[d] <= unsaved'[d] + 1
                  BY <1>0, <1>1, <2>1, <3>1 DEF FoldersOf
            <3>3. FolderIds(d)'
                  BY <2>2 DEF FolderIds
            <3> QED BY <3>2, <3>3 DEF FoldersOf
      <2> QED BY <2>3, <2>4
<1>13. CASE Crash
      <2> DEFINE S == {j \in claimed : /\ work[j].step \in {"created", "done"}
                                       /\ rows[j].entry = d}
      <2>1. /\ claimed' = {} /\ UNCHANGED <<entry, made>>
            /\ unsaved'[d] = unsaved[d] + Cardinality(S)
            BY <1>13 DEF Crash, Q!Crash
      <2>2. (Making(d) => Cardinality(S) = 1) /\ (~Making(d) => Cardinality(S) = 0)
            BY MakingCount
      <2>3. ~Making(d)' /\ FolderIds(d)'
            BY <2>1 DEF Making, FolderIds
      <2> HIDE DEF S
      <2>4. CASE Making(d)
            <3>1. made'[d] <= unsaved'[d] /\ made'[d] <= unsaved'[d] + 1
                  BY <1>0, <1>1, <2>1, <2>2, <2>4 DEF FoldersOf
            <3> QED BY <2>3, <3>1 DEF FoldersOf
      <2>5. CASE ~Making(d)
            <3>1. unsaved'[d] = unsaved[d]
                  BY <1>0, <2>1, <2>2, <2>5
            <3> QED BY <1>5, <2>1, <2>3, <2>5, <3>1
      <2> QED BY <2>4, <2>5
\* Everything else.
<1>14. ASSUME \A j \in Jobs : /\ ~CreateFolder(j) /\ ~FolderCreated(j) /\ ~FolderDone(j)
                              /\ ~CreateFolderFails(j) /\ ~CreateFolderReplyLost(j),
              ~Crash
       PROVE  FoldersOf(d)'
      <2>1. UNCHANGED <<made, unsaved>> /\ entry'[d].remoteId = entry[d].remoteId
            BY <1>6, <1>14, FolderChanges
      <2>2. CASE pc # "folders" /\ pc' # "folders"
            <3>1. ~Making(d) /\ ~Making(d)'
                  BY <2>2 DEF Making, Claims
            <3> QED BY <1>5, <2>1, <3>1
      <2>3. ASSUME NEW j \in Jobs, ClaimFolder(j) PROVE FoldersOf(d)'
            <3>1. claimed = {} /\ \A i \in claimed' : work'[i] = Idle
                  BY <1>0, <2>3 DEF ClaimFolder, Q!Claim, Claims
            <3>2. ~Making(d) /\ ~Making(d)'
                  BY <3>1 DEF Making, Idle
            <3> QED BY <1>5, <2>1, <3>2
      <2>4. CASE UNCHANGED <<claimed, work>>
            <3>1. Making(d)' <=> Making(d)
                  BY <1>3, <2>4 DEF Making
            <3>2. FolderIds(d)'
                  BY <1>1, <1>3, <2>1, <2>4 DEF FoldersOf, FolderIds
            <3> QED BY <1>4, <2>1, <3>1, <3>2
      <2> QED BY <1>14, <2>2, <2>3, <2>4, FolderWorkChanges
<1> QED BY <1>8, <1>9, <1>10, <1>11, <1>12, <1>13, <1>14

-----------------------------------------------------------------------------
(***************************************************************************)
(* The inductive invariant.                                                *)
(***************************************************************************)

IInv ==
  /\ QueueInv /\ TypeOK
  /\ Claims /\ Pages
  /\ Versions /\ Uploads
  /\ PageFresh /\ Folders

\* The initial states satisfy the inductive invariant.
LEMMA InitIInv == Init => IInv
<1> SUFFICES ASSUME Init PROVE IInv
    OBVIOUS
<1>0. /\ Q!Init /\ rows = [j \in Jobs |-> Q!NoRow] /\ claimed = {} /\ daemon = "down"
      /\ disk = [f \in Files |-> 1] /\ edits = 0
      /\ entry = [e \in Entries |-> NewRow(NULL)]
      /\ dirty = {}
      /\ made = [d \in Dirs |-> 0] /\ unsaved = [d \in Dirs |-> 0]
      /\ pc = "down"
      /\ cursor = 0
      /\ known = {} /\ scanned = Len(ScanOrder) /\ missed = {}
      /\ page = [b \in Builder |-> NoPage]
      /\ work = [j \in Jobs |-> Idle]
      /\ ipc = "idle" /\ ipcCursor = 0
      /\ crashes = 0 /\ faults = 0 /\ runs = 0
      BY DEF Init, Q!Init
<1>1. QueueInv
      BY <1>0, SameQueue, QP!InitIInv, DirsAssumption DEF QueueInv
<1>2. /\ NewRow(NULL) \in PipelineRow
      /\ NewRow(NULL).contentHash = 0 /\ NewRow(NULL).syncedContentHash = 0
      /\ NewRow(NULL).remoteId = 0
      BY BoundsAssumption DEF NewRow, PipelineRow, EntryRow, NULL
<1>3. TypeOK
      <2>1. Q!TypeOK
            BY <1>1, SameQueue DEF QueueInv, QP!IInv
      <2>2. disk \in [Files -> 1..(1 + MaxEdits)] /\ edits \in 0..MaxEdits
            BY <1>0, BoundsAssumption
      <2>3. entry \in [Entries -> PipelineRow] /\ work \in [Jobs -> WorkState]
            BY <1>0, <1>2, WorkStates
      <2>4. cursor \in 0..Len(PathOrder) /\ ipcCursor \in 0..Len(PathOrder)
            BY <1>0, PathOrderAssumption
      <2>5. page = [b \in Builder |-> page[b]] /\ \A b \in Builder : IsPage(page[b])
            BY <1>0 DEF IsPage, NoPage
      <2>9. known \subseteq Entries /\ scanned \in 0..Len(ScanOrder) /\ missed \subseteq Files
            BY <1>0, ScanOrderAssumption
      <2>6. made \in [Dirs -> Nat] /\ unsaved \in [Dirs -> Nat]
            BY <1>0
      <2>7. complete \in BOOLEAN
            BY Zenon DEF Init
      <2>8. /\ dirty \subseteq Files
            /\ pc \in {"down", "first", "look", "scan", "scanned", "page", "built", "dirty",
                       "folders", "claim", "prepare", "upload", "save", "mark"}
            /\ ipc \in {"idle", "scan", "look", "build", "last"}
            /\ crashes \in Nat /\ faults \in Nat /\ runs \in Nat
            BY <1>0
      <2> QED BY <2>1, <2>2, <2>3, <2>4, <2>5, <2>6, <2>7, <2>8, <2>9, Zenon
              DEF TypeOK
<1>4. Claims /\ Pages
      BY <1>0 DEF Claims, Pages, Built, NoPage, Builder, Idle
<1>5. Versions /\ Uploads
      <2>1. \A f \in Files : /\ f \in Entries /\ disk[f] = 1
                             /\ entry[f].contentHash = 0 /\ entry[f].syncedContentHash = 0
            BY <1>0, <1>2 DEF Files
      <2> QED BY <1>0, <2>1 DEF Versions, Uploads
<1>6. PageFresh /\ Folders
      <2>1. DOMAIN page["loop"] = {}
            BY <1>0 DEF Builder, NoPage
      <2>2. \A d \in Dirs : /\ entry[d].remoteId = 0 /\ made[d] = 0 /\ unsaved[d] = 0
            BY <1>0, <1>2, DirsAssumption
      <2>3. \A d \in Dirs : FolderIds(d)
            BY <1>0 DEF FolderIds
      <2> QED BY <2>1, <2>2, <2>3 DEF PageFresh, Folders, FoldersOf
<1> QED BY <1>1, <1>3, <1>4, <1>5, <1>6 DEF IInv

\* No step of the loop, of the IPC thread, of the user or of a failure breaks
\* the inductive invariant.
LEMMA NextIInv == IInv /\ [Next]_vars => IInv'
<1> SUFFICES ASSUME IInv, [Next]_vars PROVE IInv'
    OBVIOUS
<1>0. QueueInv /\ TypeOK /\ Claims /\ Pages /\ Versions /\ Uploads /\ PageFresh /\ Folders
      BY DEF IInv
<1>1. QueueInv'
      BY <1>0, StepIsQueueStep, QueueStep
<1>2. TypeOK' /\ Claims' /\ Pages' /\ Versions'
      BY <1>0, NextTypeOK, NextClaims, NextPages, NextVersions
<1>3. Uploads' /\ PageFresh' /\ Folders'
      BY <1>0, <1>2, NextUploads, NextPageFresh, NextFolders
<1> QED BY <1>1, <1>2, <1>3 DEF IInv

\* The inductive invariant holds in every reachable state.
LEMMA SpecIInv == Spec => []IInv
BY InitIInv, NextIInv, PTL DEF Spec

-----------------------------------------------------------------------------
(***************************************************************************)
(* The theorems.                                                           *)
(***************************************************************************)

\* The tables, the pages in memory and the results of runBatch keep their
\* shape: hashes stay within the versions there were, cursors within the path
\* order.
THEOREM PipelineTypeCorrect == Spec => []TypeOK
BY SpecIInv, PTL DEF IInv

\* As long as no `sync run' interferes, no edit is taken for uploaded without
\* having been uploaded, for any number of files, edits, crashes and faults
\* and whatever the batch size: a row says "synced" only of a content that
\* uploadFilesBatch has read.
THEOREM EditsAreStored == Spec => []LoopStoresEdits
<1>1. IInv => LoopStoresEdits
      <2> SUFFICES ASSUME IInv, runs = 0 PROVE SyncedContentIsStored
          BY DEF LoopStoresEdits
      <2> QED BY DEF IInv, Uploads, SyncedContentIsStored
<1> QED BY <1>1, SpecIInv, PTL

\* As long as no `sync run' interferes, FolderCreateWorker makes each folder
\* once, but for those whose reply was lost and those whose job a crash
\* caught before markDone; this holds although such a job runs again at the
\* next start, whether or not markFolderCreated had saved an id.
THEOREM FoldersMadeOnce == Spec => []EachFolderMadeOnce
<1>1. IInv => EachFolderMadeOnce
      <2> SUFFICES ASSUME IInv, runs = 0, NEW d \in Dirs
                   PROVE  made[d] <= unsaved[d] + 1
          BY DEF EachFolderMadeOnce
      <2>1. made[d] \in Nat /\ unsaved[d] \in Nat
            BY DEF IInv, TypeOK
      <2>2. FoldersOf(d)
            BY DEF IInv, Folders
      <2> QED BY <2>1, <2>2 DEF FoldersOf
<1> QED BY <1>1, SpecIInv, PTL

\* The loop, the IPC thread, crashes and restarts change the job rows only
\* by the steps of TransferQueue's daemon, `sync run's included.
THEOREM PipelineImplementsQueue == Spec => ImplementsQueue
<1>1. Init => Q!Init
      BY DEF Init
<1>2. IInv /\ [Next]_vars => [Q!DaemonNext]_queue
      BY StepIsQueueStep DEF IInv
<1> QED BY <1>1, <1>2, SpecIInv, PTL DEF Spec, ImplementsQueue

\* So what TransferQueue promises holds of the pipeline, `sync run's
\* included: no entry is transferred twice at once, and a row is running
\* exactly when the loop holds its claim.
THEOREM PipelineJobsAreSafe == Spec => [](Q!OneActiveJobPerEntry /\ Q!RunningIffClaimed)
<1>1. IInv => Q!OneActiveJobPerEntry /\ Q!RunningIffClaimed
      BY DEF IInv, QueueInv, QP!IInv, QP!OneActiveJobPerEntry, Q!OneActiveJobPerEntry,
             QP!RunningIffClaimed, Q!RunningIffClaimed, QP!UniqueActive, Q!UniqueActive,
             QP!HasStatus, Q!HasStatus, QP!Active, Q!Active
<1> QED BY <1>1, SpecIInv, PTL
=============================================================================
