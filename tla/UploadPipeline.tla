--------------------------- MODULE UploadPipeline ---------------------------
(***************************************************************************)
(* How local changes of one sync root reach the server: the daemon's loop  *)
(* scans in batches, builds queue pages, scans dirty paths and runs the    *)
(* queue (QueueService::runTick with FolderCreateWorker, UploadJobRunner), *)
(* while a client's `sync run' scans and builds on the IPC thread.         *)
(* The table of jobs is that of TransferQueue, which this module           *)
(* implements.                                                             *)
(*                                                                         *)
(* The content of a file is a version number, and so is its hash.  The     *)
(* server gives every upload a fresh file id: a file's remote id is        *)
(* modelled by the content stored under it, a folder's by the number of    *)
(* folders made for the directory so far.  Paths exist throughout and no   *)
(* file is empty (the uploader refuses those, see MultipartUpload); the    *)
(* root's mode is two-way and nothing changes on the server by itself.     *)
(***************************************************************************)
EXTENDS Naturals, Sequences, FiniteSets, SyncPolicy

CONSTANTS
  Entries, Dirs, Jobs,  \* as in TransferQueue
  PathOrder,            \* the entries in the order of listEntries...AfterPath
  ScanOrder,            \* the entries in the order of the directory iterator
  ScanBatch,            \* kMaxScanBatchSize
  Parent,               \* [Entries -> Dirs \cup {Root}]
  Root,                 \* the root folder, whose id is known from the start
  PageSize,             \* kQueueBuildPageSize
  BatchSize,            \* kUploadBatchSize
  MaxEdits,             \* bound on edits of files
  MaxTrouble,           \* bound on crashes, faults and `sync run's, together
  SyncRunCost           \* how much of that bound a `sync run' uses up

Files == Entries \ Dirs

ASSUME PathOrderAssumption ==
  /\ PathOrder \in Seq(Entries)
  /\ \A e \in Entries : \E i \in 1..Len(PathOrder) : PathOrder[i] = e

ASSUME ScanOrderAssumption ==
  /\ ScanOrder \in Seq(Entries)
  /\ \A e \in Entries : \E i \in 1..Len(ScanOrder) : ScanOrder[i] = e

ASSUME ParentAssumption == Parent \in [Entries -> Dirs \cup {Root}]

ASSUME DirsAssumption == Dirs \subseteq Entries

ASSUME SizeAssumption == {PageSize, BatchSize, ScanBatch} \subseteq Nat \ {0}

ASSUME BoundsAssumption == MaxEdits \in Nat /\ MaxTrouble \in Nat /\ SyncRunCost \in Nat

VARIABLES
  rows, claimed, daemon, \* the queue and the daemon, see TransferQueue
  disk,      \* [Files -> version on disk]
  edits,     \* how often the user has saved a file, for the bound
  entry,     \* [Entries -> EntryRow], the table entries
  known,     \* the entries that have a row, the ones scanned so far
  scanned,   \* how far in ScanOrder the last scan job is; it ends with it
  missed,    \* history: files scanned or resumed over behind the cursor
  dirty,     \* files with a watcher event not yet handled
  made,      \* [Dirs -> folders the server has made for the directory]
  unsaved,   \* history: those whose reply was lost, or whose job a crash
             \* kept from being marked done
  pc,        \* where the daemon's loop is
  cursor,    \* queueCursors[root], as a position in PathOrder
  complete,  \* queueComplete[root]
  page,      \* [Builder -> rows of the page still to enqueue, by position]
  work,      \* [Jobs -> what runBatch or the folder worker knows of a job]
  ipc,       \* where the `sync run' handler is
  ipcCursor, \* its position in PathOrder
  crashes, faults, runs \* how many there were of each, for the bounds

queue == <<rows, claimed, daemon>>
diskVars == <<disk, edits>>
trouble == crashes + faults + SyncRunCost * runs
scanVars == <<known, scanned, missed>>
loopVars == <<pc, cursor, complete, work>>
ipcVars == <<ipc, ipcCursor, runs>>
vars == <<queue, diskVars, entry, scanVars, dirty, made, unsaved, page, loopVars, ipcVars,
          crashes, faults>>

Q == INSTANCE TransferQueue

\* The two threads that build queue pages.
Builder == {"loop", "ipc"}

\* A page with nothing left to enqueue.
NoPage == [i \in {} |-> NewRow(NULL)]

Idle == [step |-> "idle"]

Init ==
  /\ Q!Init
  /\ disk = [f \in Files |-> 1] /\ edits = 0
  /\ entry = [e \in Entries |-> NewRow(NULL)]
  /\ known = {} /\ scanned = Len(ScanOrder) /\ missed = {}
  /\ dirty = {}
  /\ made = [d \in Dirs |-> 0] /\ unsaved = [d \in Dirs |-> 0]
  /\ pc = "down"
  /\ cursor = 0 /\ complete = FALSE
  /\ page = [b \in Builder |-> NoPage]
  /\ work = [j \in Jobs |-> Idle]
  /\ ipc = "idle" /\ ipcCursor = 0
  /\ crashes = 0 /\ faults = 0 /\ runs = 0

-----------------------------------------------------------------------------
(***************************************************************************)
(* The user, and the life of the process.                                  *)
(***************************************************************************)

\* The user saves a file; while the daemon is up its watcher sees it.
Edit(f) ==
  /\ edits < MaxEdits
  /\ edits' = edits + 1
  /\ disk' = [disk EXCEPT ![f] = @ + 1]
  /\ dirty' = IF daemon = "up" THEN dirty \cup {f} ELSE dirty
  /\ UNCHANGED <<queue, entry, scanVars, made, unsaved, page, loopVars, ipcVars, crashes,
                 faults>>

\* hasRunningScanJob.
Scanning == scanned < Len(ScanOrder)

\* The next batch of the running scan job, or the first one of a new job.
Batch ==
  LET first == IF Scanning THEN scanned + 1 ELSE 1
  IN  {i \in first..Len(ScanOrder) : i < first + ScanBatch}

Visited == {ScanOrder[i] : i \in Batch}

\* RootScanner::scanRoot: one batch, in one transaction.  A scan changes the
\* columns of the local side only.
ScanRoot ==
  /\ entry' = [e \in Entries |-> IF e \in Visited \cap Files
                                THEN [entry[e] EXCEPT !.contentHash = disk[e]]
                                ELSE entry[e]]
  /\ known' = known \cup Visited
  /\ \E i \in Batch : (\A k \in Batch : k <= i) /\ scanned' = i

\* Files whose row in the table is not of the version on disk.
Stale == {f \in Files : entry[f].contentHash # disk[f]}

\* PollingDaemon::run up to its loop: retryRunning, watch, scan a batch.  A
\* scan job that a crash left running is resumed where it was.
Start ==
  /\ Q!Start
  /\ ScanRoot
  /\ missed' = {f \in Stale : Scanning /\ \E i \in 1..scanned : ScanOrder[i] = f}
  /\ pc' = "first"
  /\ cursor' = 0 /\ complete' = FALSE
  /\ UNCHANGED <<diskVars, dirty, made, unsaved, page, work, ipcVars, crashes, faults>>

\* Everything in memory is gone.  A dirty path survives when its event was
\* already recorded.
Crash ==
  /\ trouble < MaxTrouble
  /\ crashes' = crashes + 1
  /\ Q!Crash
  /\ pc' = "down"
  /\ dirty' \in SUBSET dirty
  /\ page' = [b \in Builder |-> NoPage]
  /\ work' = [j \in Jobs |-> Idle]
  /\ unsaved' = [d \in Dirs |-> unsaved[d]
                   + Cardinality({j \in claimed : /\ work[j].step \in {"created", "done"}
                                                  /\ rows[j].entry = d})]
  /\ ipc' = "idle"
  /\ UNCHANGED <<diskVars, entry, scanVars, made, cursor, complete, ipcCursor, runs, faults>>

-----------------------------------------------------------------------------
(***************************************************************************)
(* QueueService::enqueueEntry and ::buildPage.                             *)
(***************************************************************************)

\* resolveRemoteFolderId finds a folder to put the entry in.
HasRemoteParent(e) == Parent[e] # Root => entry[Parent[e]].remoteId # NULL

\* The conditions of enqueueEntry(root, snap), snap being the row of e as
\* the caller read it; the parent and the queue are read now.
WantsJob(e, snap) ==
  /\ DecideRow(snap, "two_way") = "upload"
  /\ HasRemoteParent(e)
  /\ e \in Dirs => snap.remoteId = NULL
  /\ ~Q!HasActiveJob(rows, e)

\* A fresh row id (ids are random; which one it is does not matter).
FreshJob == CHOOSE j \in Jobs : rows[j] = Q!NoRow

EnqueueEntry(e, snap) ==
  \/ WantsJob(e, snap) /\ Q!EnqueueRow(FreshJob, e)
  \/ ~WantsJob(e, snap) /\ UNCHANGED rows

\* The page after position c: the first PageSize rows, read in one SELECT.
PageAfter(c) ==
  LET listed == {i \in (c + 1)..Len(PathOrder) : PathOrder[i] \in known}
  IN  [i \in {k \in listed : Cardinality({l \in listed : l <= k}) <= PageSize}
         |-> entry[PathOrder[i]]]

\* The cursor after that page: its last path, if it has one.
CursorAfter(c, next) ==
  LET listed == DOMAIN PageAfter(c)
  IN  \/ listed = {} /\ next = c
      \/ next \in listed /\ \A i \in listed : i <= next

\* Enqueue the first entry of the page that builder b has in memory.
BuildStep(b) ==
  \E i \in DOMAIN page[b] :
    /\ \A k \in DOMAIN page[b] : i <= k
    /\ EnqueueEntry(PathOrder[i], page[b][i])
    /\ page' = [page EXCEPT ![b] = [k \in DOMAIN @ \ {i} |-> @[k]]]
    /\ UNCHANGED <<claimed, daemon, diskVars, entry, scanVars, dirty, made, unsaved, loopVars,
                   ipcVars, crashes, faults>>

\* Builder b has no page in memory.
Built(b) == DOMAIN page[b] = {}

\* Mutant of Complete: a short page is the last one, scanned or not.
CompleteUnscanned(c, scanComplete) == Cardinality(DOMAIN PageAfter(c)) < PageSize

\* The page after c is the last one: the scan is over and it is not full.
Complete(c, scanComplete) ==
  scanComplete /\ Cardinality(DOMAIN PageAfter(c)) < PageSize

\* An iteration of the loop begins: scan on, or go to the dirty paths.
Look ==
  /\ pc = "look" /\ Built("loop")
  /\ pc' = IF Scanning THEN "scan" ELSE "page"
  /\ UNCHANGED <<queue, diskVars, entry, scanVars, dirty, made, unsaved, page, cursor, complete,
                 work, ipcVars, crashes, faults>>

\* Files a scan finds changed that the pages of the loop have passed.
Passed == {f \in Stale \cap Visited : \E i \in 1..cursor : PathOrder[i] = f}

LoopScan ==
  /\ pc = "scan"
  /\ ScanRoot
  /\ missed' = missed \cup Passed
  /\ pc' = "scanned"
  /\ UNCHANGED <<queue, diskVars, dirty, made, unsaved, page, cursor, complete, work, ipcVars,
                 crashes, faults>>

\* Where produceQueuePage is called, and what follows the page: the loop at
\* startup, runTick after a scan batch, else the dirty paths.
PageStages == [first |-> "look", scanned |-> "built", page |-> "dirty"]

\* produceQueuePage: nothing once the queue was built, else the next page.
\* The cursor is dropped with the last page.
LoopPage ==
  /\ pc \in DOMAIN PageStages
  /\ pc' = PageStages[pc]
  /\ \/ complete /\ UNCHANGED <<page, cursor, complete>>
     \/ /\ ~complete
        /\ page' = [page EXCEPT !["loop"] = PageAfter(cursor)]
        /\ complete' = Complete(cursor, pc = "page" \/ ~Scanning)
        /\ \E next \in 0..Len(PathOrder) :
             CursorAfter(cursor, next) /\ cursor' = IF complete' THEN 0 ELSE next
  /\ UNCHANGED <<queue, diskVars, entry, scanVars, dirty, made, unsaved, work, ipcVars, crashes,
                 faults>>

\* One dirty path: scanPath, then enqueueEntry with the row just written.
ScanDirty(f) ==
  /\ pc = "dirty" /\ Built("loop")
  /\ f \in dirty
  /\ dirty' = dirty \ {f} /\ missed' = missed \ {f}
  /\ entry' = [entry EXCEPT ![f].contentHash = disk[f]]
  /\ known' = known \cup {f}
  /\ EnqueueEntry(f, entry'[f])
  /\ UNCHANGED <<claimed, daemon, diskVars, scanned, made, unsaved, page, loopVars, ipcVars,
                 crashes, faults>>

\* The loop goes on to runTick.  Events still in `dirty' came after the poll.
LeaveDirty ==
  /\ pc \in {"dirty", "built"} /\ Built("loop")
  /\ pc' = "folders"
  /\ UNCHANGED <<queue, diskVars, entry, scanVars, dirty, made, unsaved, page, cursor,
                 complete, work,
                 ipcVars, crashes, faults>>

-----------------------------------------------------------------------------
(***************************************************************************)
(* QueueService::runTick, first half: create_folder jobs one at a time.    *)
(***************************************************************************)

\* The queued jobs of one type, from which claimNextQueuedByType takes one.
Queued(type) ==
  {j \in Jobs : rows[j].status = "queued" /\ Q!JobType(rows[j].entry) = type}

\* The loop's other variables, for the steps of runTick.
Aside == <<diskVars, scanVars, dirty, unsaved, page, cursor, complete, ipcVars, crashes>>

\* A request fails or its reply is lost.
Fault == trouble < MaxTrouble /\ faults' = faults + 1

ClaimFolder(j) ==
  /\ pc = "folders" /\ claimed = {}
  /\ j \in Queued("create_folder")
  /\ Q!Claim(j)
  /\ UNCHANGED <<Aside, entry, made, pc, work, faults>>

\* FolderCreateWorker::run calls the server, whatever the entry's remote id
\* is by now: the server makes a folder.
CreateFolder(j) ==
  /\ pc = "folders" /\ j \in claimed
  /\ work[j] = Idle
  /\ made' = [made EXCEPT ![rows[j].entry] = @ + 1]
  /\ work' = [work EXCEPT ![j] = [step |-> "created"]]
  /\ UNCHANGED <<Aside, queue, entry, pc, faults>>

\* Mutant of FolderCreated: the id of the new folder is not saved.
FolderCreatedNotSaved(j) ==
  /\ pc = "folders" /\ j \in claimed
  /\ work[j].step = "created"
  /\ work' = [work EXCEPT ![j] = [step |-> "done"]]
  /\ UNCHANGED <<Aside, queue, entry, made, pc, faults>>

\* markFolderCreated with the id of the folder just made.
FolderCreated(j) ==
  /\ pc = "folders" /\ j \in claimed
  /\ work[j].step = "created"
  /\ entry' = [entry EXCEPT ![rows[j].entry].remoteId = made[rows[j].entry]]
  /\ work' = [work EXCEPT ![j] = [step |-> "done"]]
  /\ UNCHANGED <<Aside, queue, made, pc, faults>>

\* Back in runTick: markDone.
FolderDone(j) ==
  /\ pc = "folders" /\ j \in claimed
  /\ work[j].step = "done"
  /\ Q!MarkDone(j)
  /\ work' = [work EXCEPT ![j] = Idle]
  /\ UNCHANGED <<Aside, entry, made, pc, faults>>

\* The request fails before the server acts: markFailed.
CreateFolderFails(j) ==
  /\ pc = "folders" /\ j \in claimed
  /\ work[j] = Idle
  /\ Fault
  /\ Q!MarkFailed(j)
  /\ UNCHANGED <<Aside, entry, made, pc, work>>

\* The server acts and its reply is lost (a timeout, a dropped connection).
CreateFolderReplyLost(j) ==
  /\ pc = "folders" /\ j \in claimed
  /\ work[j].step = "created"
  /\ Fault
  /\ Q!MarkFailed(j)
  /\ work' = [work EXCEPT ![j] = Idle]
  /\ unsaved' = [unsaved EXCEPT ![rows[j].entry] = @ + 1]
  /\ UNCHANGED <<diskVars, scanVars, dirty, page, cursor, complete, ipcVars, crashes, entry,
                 made, pc>>

FoldersDone ==
  /\ pc = "folders" /\ claimed = {}
  /\ Queued("create_folder") = {}
  /\ pc' = "claim"
  /\ UNCHANGED <<Aside, queue, entry, made, work, faults>>

-----------------------------------------------------------------------------
(***************************************************************************)
(* QueueService::runTick, second half: batches of upload_file jobs.        *)
(* UploadJobRunner::runBatch prepares every job, uploads what it prepared, *)
(* saves the results in the entries; then runTick marks the jobs.          *)
(***************************************************************************)

ClaimUpload(j) ==
  /\ pc = "claim"
  /\ Cardinality(claimed) < BatchSize
  /\ j \in Queued("upload_file")
  /\ Q!Claim(j)
  /\ UNCHANGED <<Aside, entry, made, pc, work, faults>>

\* The batch is full or nothing is queued; an empty batch ends the tick.
BatchClaimed ==
  /\ pc = "claim"
  /\ Cardinality(claimed) = BatchSize \/ Queued("upload_file") = {}
  /\ pc' = IF claimed = {} THEN "look" ELSE "prepare"
  /\ UNCHANGED <<Aside, queue, entry, made, work, faults>>

\* Mutant of Prepared: a result no later stage knows.
PreparedStale(e) ==
  IF DecideRow(entry[e], "two_way") # "upload" THEN [step |-> "skipped"]
  ELSE [step |-> "prepared"]

\* prepareUploadItem: done when the policy no longer wants an upload, failed
\* when the file differs from the row or its folder is unknown.
Prepared(e) ==
  IF DecideRow(entry[e], "two_way") # "upload" THEN [step |-> "done"]
  ELSE IF disk[e] # entry[e].contentHash \/ ~HasRemoteParent(e)
  THEN [step |-> "failed"]
  ELSE [step |-> "prepared"]

PrepareUpload(j) ==
  /\ pc = "prepare" /\ j \in claimed
  /\ work[j] = Idle
  /\ work' = [work EXCEPT ![j] = Prepared(rows[j].entry)]
  /\ UNCHANGED <<Aside, queue, entry, made, pc, faults>>

\* uploadFilesBatch for one item: the file is read now, as it is now.
Upload(j) ==
  /\ pc = "upload" /\ j \in claimed
  /\ work[j].step = "prepared"
  /\ work' = [work EXCEPT ![j] = [step    |-> "uploaded",
                                  content |-> disk[rows[j].entry]]]
  /\ UNCHANGED <<Aside, queue, entry, made, pc, faults>>

UploadFails(j) ==
  /\ pc = "upload" /\ j \in claimed
  /\ work[j].step = "prepared"
  /\ Fault
  /\ work' = [work EXCEPT ![j] = [step |-> "failed"]]
  /\ UNCHANGED <<Aside, queue, entry, made, pc>>

\* uploadFilesBatch throws (no limits, no batch start, no batch complete):
\* every job without an error gets one, those with nothing to do included.
BatchFails ==
  /\ pc = "upload"
  /\ \E j \in claimed : work[j].step \in {"prepared", "uploaded"}
  /\ work' = [j \in Jobs |-> IF j \in claimed THEN [step |-> "failed"] ELSE work[j]]
  /\ pc' = "mark"
  /\ Fault
  /\ UNCHANGED <<Aside, queue, entry, made>>

\* markEntryUploaded: the synced hash becomes the hash the row has now.
MarkEntryUploaded(row, id) ==
  [row EXCEPT !.remoteId = id, !.syncedContentHash = row.contentHash,
              !.remoteDeleted = FALSE, !.localDeleted = FALSE, !.conflict = FALSE]

\* Mutant of SaveUpload: the row is refreshed from the disk when it is saved.
SaveUploadRehash(j) ==
  /\ pc = "save" /\ j \in claimed
  /\ work[j].step = "uploaded"
  /\ entry' = [entry EXCEPT ![rows[j].entry] =
                 MarkEntryUploaded([@ EXCEPT !.contentHash = disk[rows[j].entry]],
                                   work[j].content)]
  /\ work' = [work EXCEPT ![j] = [step |-> "done"]]
  /\ UNCHANGED <<Aside, queue, made, pc, faults>>

SaveUpload(j) ==
  /\ pc = "save" /\ j \in claimed
  /\ work[j].step = "uploaded"
  /\ entry' = [entry EXCEPT ![rows[j].entry] =
                 MarkEntryUploaded(@, work[j].content)]
  /\ work' = [work EXCEPT ![j] = [step |-> "done"]]
  /\ UNCHANGED <<Aside, queue, made, pc, faults>>

\* Mutant of MarkUpload: a failed upload goes straight back to the queue.
MarkUploadRequeues(j) ==
  /\ pc = "mark" /\ j \in claimed
  /\ rows' = Q!WithStatus(rows, j, IF work[j].step = "done" THEN "done" ELSE "queued")
  /\ claimed' = claimed \ {j}
  /\ work' = [work EXCEPT ![j] = Idle]
  /\ UNCHANGED <<Aside, daemon, entry, made, pc, faults>>

\* runTick records the result of one job.
MarkUpload(j) ==
  /\ pc = "mark" /\ j \in claimed
  /\ \/ work[j].step = "done" /\ Q!MarkDone(j)
     \/ work[j].step = "failed" /\ Q!MarkFailed(j)
  /\ work' = [work EXCEPT ![j] = Idle]
  /\ UNCHANGED <<Aside, entry, made, pc, faults>>

\* The stages of a batch, and the step of a job that a stage takes up.
BatchStages ==
  [prepare |-> [takes |-> "idle", next |-> "upload"],
   upload  |-> [takes |-> "prepared", next |-> "save"],
   save    |-> [takes |-> "uploaded", next |-> "mark"]]

\* All jobs of the batch have passed the stage.
StageDone ==
  /\ pc \in DOMAIN BatchStages
  /\ \A j \in claimed : work[j].step # BatchStages[pc].takes
  /\ pc' = BatchStages[pc].next
  /\ UNCHANGED <<Aside, queue, entry, made, work, faults>>

\* The batch is recorded; the next one is claimed.
BatchDone ==
  /\ pc = "mark" /\ claimed = {}
  /\ pc' = "claim"
  /\ UNCHANGED <<Aside, queue, entry, made, work, faults>>

-----------------------------------------------------------------------------
(***************************************************************************)
(* ipc::commands::syncRun on the IPC thread: scan the root to the end,     *)
(* then QueueService::build, page after page.                              *)
(***************************************************************************)

SyncRun ==
  /\ daemon = "up" /\ ipc = "idle"
  /\ trouble + SyncRunCost <= MaxTrouble
  /\ ipc' = "scan" /\ runs' = runs + 1
  /\ UNCHANGED <<queue, diskVars, entry, scanVars, dirty, made, unsaved, page, loopVars,
                 ipcCursor, crashes, faults>>

SyncRunScan ==
  /\ ipc = "scan"
  /\ ScanRoot
  /\ missed' = missed \cup Passed
  /\ ipc' = "look"
  /\ UNCHANGED <<queue, diskVars, dirty, made, unsaved, page, loopVars, ipcCursor, runs,
                 crashes, faults>>

SyncRunLook ==
  /\ ipc = "look"
  /\ ipc' = IF Scanning THEN "scan" ELSE "build"
  /\ ipcCursor' = 0
  /\ UNCHANGED <<queue, diskVars, entry, scanVars, dirty, made, unsaved, page, loopVars, runs,
                 crashes, faults>>

SyncRunPage ==
  /\ ipc = "build" /\ Built("ipc")
  /\ page' = [page EXCEPT !["ipc"] = PageAfter(ipcCursor)]
  /\ ipcCursor' \in 0..Len(PathOrder) /\ CursorAfter(ipcCursor, ipcCursor')
  /\ ipc' = IF Complete(ipcCursor, TRUE) THEN "last" ELSE "build"
  /\ UNCHANGED <<queue, diskVars, entry, scanVars, dirty, made, unsaved, loopVars, runs,
                 crashes, faults>>

SyncRunReply ==
  /\ ipc = "last" /\ Built("ipc")
  /\ ipc' = "idle"
  /\ UNCHANGED <<queue, diskVars, entry, scanVars, dirty, made, unsaved, page, loopVars,
                 ipcCursor, runs, crashes, faults>>

-----------------------------------------------------------------------------
LoopBuild == BuildStep("loop")

FolderTick ==
  \/ FoldersDone
  \/ \E j \in Jobs : \/ ClaimFolder(j) \/ CreateFolder(j) \/ FolderCreated(j)
                     \/ FolderDone(j) \/ CreateFolderFails(j) \/ CreateFolderReplyLost(j)

UploadTick ==
  \/ BatchClaimed \/ BatchFails \/ StageDone \/ BatchDone
  \/ \E j \in Jobs : \/ ClaimUpload(j) \/ PrepareUpload(j) \/ Upload(j)
                     \/ UploadFails(j) \/ SaveUpload(j) \/ MarkUpload(j)

Loop ==
  \/ Look \/ LoopScan \/ LoopPage \/ LoopBuild \/ LeaveDirty
  \/ \E f \in Files : ScanDirty(f)
  \/ FolderTick
  \/ UploadTick

Ipc == SyncRunScan \/ SyncRunLook \/ SyncRunPage \/ BuildStep("ipc") \/ SyncRunReply

Next ==
  \/ \E f \in Files : Edit(f)
  \/ Start \/ Crash
  \/ Loop
  \/ SyncRun \/ Ipc

(***************************************************************************)
(* Fairness.  The loop has no step that waits for another thread, and the  *)
(* process is started again after a crash.  Strong fairness for ScanDirty: *)
(* an event that is in the watcher's buffer at the next poll is handled in *)
(* that iteration.  The user, the client and failures get none.            *)
(***************************************************************************)
Fairness ==
  /\ WF_vars(Start) /\ WF_vars(Loop) /\ WF_vars(Ipc)
  /\ \A f \in Files : SF_vars(ScanDirty(f))

Spec == Init /\ [][Next]_vars /\ Fairness

-----------------------------------------------------------------------------
(***************************************************************************)
(* Properties.                                                             *)
(***************************************************************************)

PipelineRow == EntryRow(0..(1 + MaxEdits), Nat, {NULL})

\* Rows by the position of their entry in PathOrder.
IsPage(p) == DOMAIN p \subseteq 1..Len(PathOrder) /\ p \in [DOMAIN p -> PipelineRow]

WorkState == [step : {"idle", "created", "prepared", "done", "failed"}]
             \cup [step : {"uploaded"}, content : Nat]

\* Types of the variables that TransferQueue does not know.
TypeOK ==
  /\ Q!TypeOK
  /\ disk \in [Files -> 1..(1 + MaxEdits)]
  /\ entry \in [Entries -> PipelineRow]
  /\ known \subseteq Entries /\ scanned \in 0..Len(ScanOrder) /\ missed \subseteq Files
  /\ dirty \subseteq Files
  /\ made \in [Dirs -> Nat] /\ unsaved \in [Dirs -> Nat]
  /\ pc \in {"down", "first", "look", "scan", "scanned", "page", "built", "dirty",
             "folders", "claim", "prepare", "upload", "save", "mark"}
  /\ cursor \in 0..Len(PathOrder) /\ ipcCursor \in 0..Len(PathOrder)
  /\ complete \in BOOLEAN
  /\ page = [b \in Builder |-> page[b]] /\ \A b \in Builder : IsPage(page[b])
  /\ work \in [Jobs -> WorkState]
  /\ ipc \in {"idle", "scan", "look", "build", "last"}
  /\ edits \in 0..MaxEdits /\ crashes \in Nat /\ faults \in Nat /\ runs \in Nat

\* The queue the daemon works on behaves as TransferQueue says: its job rows
\* change only by enqueue, claim, mark and the retry at startup.
ImplementsQueue == Q!Init /\ [][Q!DaemonNext]_queue

\* When the row of a file says that nothing is to be done and the file is as
\* the row says, the server has that content: no edit is taken for uploaded
\* without having been uploaded, whenever it was made.
SyncedContentIsStored ==
  \A f \in Files :
    /\ entry[f].contentHash = disk[f]
    /\ entry[f].syncedContentHash = disk[f]
    => entry[f].remoteId = disk[f]

\* The loop alone keeps SyncedContentIsStored through crashes, faults and
\* edits at any moment, each to a new content.  (A `sync run' breaks it: its
\* scan can rewrite the row between the upload and markEntryUploaded.)
LoopStoresEdits == runs = 0 => SyncedContentIsStored

\* The loop alone creates each folder once: every other folder of the same
\* directory was made by a request whose reply was lost, or for a job that a
\* crash caught between the server's answer and markDone; the next start
\* runs that job again although the folder's id may have been saved.
\* (A `sync run' breaks this too: its page can be older than the folder.)
EachFolderMadeOnce ==
  runs = 0 => \A d \in Dirs : made[d] <= unsaved[d] + 1

\* Again and again the queue is drained: no job stays queued or running for
\* ever, whichever thread enqueued it and whenever the daemon died.
QueueDrains == []<>(\A j \in Jobs : rows[j].status \notin Q!Active)

\* The row and the server agree with the disk.
UpToDate(f) ==
  /\ entry[f].contentHash = disk[f]
  /\ entry[f].syncedContentHash = disk[f]
  /\ entry[f].remoteId = disk[f]

\* If no request fails and no `sync run' interferes, a file directly in the
\* root ends up on the server with its last content: a stale job is made up
\* for by the next event, a crash by the next start, and a page built while
\* the scan goes on is not the last one.  Excepted are the files that a scan
\* batch finds changed behind the cursor of the pages, or that a resumed
\* scan does not visit again: those wait for an event or the next start.
\* (Nor are empty files meant, which no upload accepts.)
RootFilesReachServer ==
  \A f \in Files :
    Parent[f] = Root => <>[](UpToDate(f) \/ faults > 0 \/ runs > 0 \/ f \in missed)

\* The same of every file of the root, whatever directory it is in.  (What
\* the notes say of the queue's population; the code does not keep it.)
ChangedFilesReachServer ==
  \A f \in Files : <>[](UpToDate(f) \/ faults > 0)
=============================================================================
