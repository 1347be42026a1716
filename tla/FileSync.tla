----------------------------- MODULE FileSync -----------------------------
(***************************************************************************)
(* Two-way synchronisation of one file: the user edits it on disk, another *)
(* device edits it on the server, and the daemon's loop scans both sides,  *)
(* reconciles (RemoteScanner, SyncReconciler, DownloadService) and uploads.*)
(*                                                                         *)
(* Contents are version numbers, and so are hashes; every save makes a new *)
(* one.  The server is a sequence of files with the path's name: an upload *)
(* appends one (the client never asks to replace a file), and a listing    *)
(* returns all of them, deleted ones included, in the order they were      *)
(* made (of the first 100 entries of the folder, which is as many as the   *)
(* client reads: the file is taken to be among them).  An upload prepares, *)
(* reads, stores and marks, in steps between which users save; the rescan  *)
(* of a `sync run` in between is UploadPipeline's.  Conflict copies are    *)
(* files of other paths and are left out.                                  *)
(***************************************************************************)
EXTENDS Naturals, Sequences, SequencesExt, SyncPolicy

CONSTANTS
  MaxVersion,  \* bound on the versions that the user and the peer save
  MaxFiles,    \* bound on the files of that name on the server
  MaxCrashes   \* bound on crashes

ASSUME BoundsAssumption ==
  /\ MaxVersion \in Nat \ {0}
  /\ MaxFiles \in Nat
  /\ MaxCrashes \in Nat

VARIABLES
  disk,     \* the version on disk, 0 when there is no file
  removed,  \* the user deleted the file and did not save it again
  latest,   \* the last version saved by anyone
  server,   \* sequence of [content, at, deleted, own]; the id is the index
  now,      \* updated_at of the last change on the server
  stored,   \* history: the versions the server has ever had
  row,      \* the path's row of the table entries
  event,    \* a change that the watcher has not delivered yet
  pending,  \* a pending row of the path in dirty_paths
  job,      \* a queued or running upload job of the entry
  failed,   \* the last upload of the file failed, and with it its job
  pc, next, \* where the loop is, and where it goes on after reconcileRoot
  carried,  \* the version just downloaded, or read for an upload
  sent,     \* the id of the file just uploaded
  misread,  \* history: versions taken for those of the other side, see
            \* Overlooked and Fetched
  raced,    \* history: versions called synced because they were prepared for
            \* an upload that read a later save, see MarkUploaded
  crashes

userVars == <<disk, removed, latest>>
dbVars == <<row, pending, job, failed>>
loopVars == <<pc, next, carried, sent>>
history == <<misread, raced>>
remoteVars == <<server, now, stored>>
vars == <<userVars, remoteVars, dbVars, event, loopVars, history, crashes>>

\* There is no row of the path.
NoEntry == [remoteId |-> NULL]

\* A file that is saved on the server now.
RemoteFile(v, own) == [content |-> v, at |-> now + 1, deleted |-> FALSE, own |-> own]

Init ==
  /\ \/ disk = 1 /\ server = <<>> /\ now = 0 /\ stored = {}
     \/ /\ disk = 0 /\ now = 1
        /\ server = <<[content |-> 1, at |-> 1, deleted |-> FALSE, own |-> FALSE]>>
        /\ stored = {1}
  /\ removed = FALSE /\ latest = 1
  /\ row = NoEntry /\ pending = FALSE /\ job = FALSE /\ failed = FALSE
  /\ event = FALSE
  /\ pc = "down" /\ next = "remote" /\ carried = 0 /\ sent = 0
  /\ misread = {} /\ raced = {} /\ crashes = 0

-----------------------------------------------------------------------------
(***************************************************************************)
(* The user and the other device.                                          *)
(***************************************************************************)

\* The watcher sees a change while the daemon is up.
Notice == event' = (event \/ pc # "down")

UserSave ==
  /\ latest < MaxVersion
  /\ latest' = latest + 1
  /\ disk' = latest + 1
  /\ removed' = FALSE
  /\ Notice
  /\ UNCHANGED <<remoteVars, dbVars, loopVars, history, crashes>>

UserDelete ==
  /\ disk # 0
  /\ disk' = 0
  /\ removed' = TRUE
  /\ Notice
  /\ UNCHANGED <<latest, remoteVars, dbVars, loopVars, history, crashes>>

Live == {i \in DOMAIN server : ~server[i].deleted}

\* The other device saves the file: in place, or as a new file.
PeerSave ==
  /\ latest < MaxVersion
  /\ latest' = latest + 1
  /\ stored' = stored \cup {latest + 1}
  /\ now' = now + 1
  /\ \/ \E i \in Live :
          server' = [server EXCEPT ![i] = RemoteFile(latest + 1, FALSE)]
     \/ /\ Live = {} /\ Len(server) < MaxFiles
        /\ server' = Append(server, RemoteFile(latest + 1, FALSE))
  /\ UNCHANGED <<disk, removed, dbVars, event, loopVars, history, crashes>>

PeerDelete ==
  /\ \E i \in Live :
       server' = [server EXCEPT ![i].deleted = TRUE, ![i].at = now + 1,
                                ![i].own = FALSE]
  /\ now' = now + 1
  /\ UNCHANGED <<userVars, stored, dbVars, event, loopVars, history, crashes>>

-----------------------------------------------------------------------------
(***************************************************************************)
(* The two scans.                                                          *)
(***************************************************************************)

\* upsertRemoteEntry of the file with id i into the row r: by remote id, or
\* else by path.  Only the update by id acknowledges the client's own upload,
\* and only if nothing was acknowledged before.
UpsertRemote(r, i) ==
  LET seen == [r EXCEPT !.remoteUpdatedAt = server[i].at,
                        !.remoteDeleted = server[i].deleted]
  IN  IF r = NoEntry
      THEN [NewRow(NULL) EXCEPT !.remoteId = i,
                                !.remoteUpdatedAt = server[i].at,
                                !.remoteDeleted = server[i].deleted]
      ELSE IF r.remoteId # i THEN [seen EXCEPT !.remoteId = i]
      ELSE IF /\ r.syncedRemoteUpdatedAt = NULL
              /\ r.contentHash # NULL
              /\ r.contentHash = r.syncedContentHash
      THEN [seen EXCEPT !.syncedRemoteUpdatedAt = server[i].at]
      ELSE seen

\* RemoteScanner::scanFolder: upsertRemoteEntry of every file of the listing,
\* in its order.  Only the first can meet a row that has its id: each of the
\* others meets the id of the file before it, and is matched by path.
RemoteScanned(r) ==
  IF server = <<>> THEN r
  ELSE IF Len(server) = 1 THEN UpsertRemote(r, 1)
  ELSE [UpsertRemote(r, 1) EXCEPT !.remoteId = Len(server),
                                  !.remoteUpdatedAt = Last(server).at,
                                  !.remoteDeleted = Last(server).deleted]

\* History only: a version on the server that the scan acknowledges as if it
\* were the client's own upload, because the other device saved before the
\* first scan after that upload.
Overlooked ==
  LET seen == RemoteScanned(row)
  IN  { server[i].content : i \in {j \in DOMAIN server :
          /\ row # NoEntry /\ seen.remoteId = j
          /\ seen.syncedRemoteUpdatedAt # row.syncedRemoteUpdatedAt
          /\ seen.contentHash # server[j].content} }

\* Mutant of LocalScanned: a changed file's hash is stored as synced as well.
LocalScannedAsSynced(r) ==
  IF disk = 0 THEN r
  ELSE IF r = NoEntry THEN NewRow(disk)
  ELSE [r EXCEPT !.contentHash = disk, !.syncedContentHash = disk]

\* handleFileEntry, upsertFileEntry; markPathDeleted for a missing file sets
\* sync_state, which nothing here reads, and not local_deleted_at.
LocalScanned(r) ==
  IF disk = 0 THEN r
  ELSE IF r = NoEntry THEN NewRow(disk)
  ELSE [r EXCEPT !.contentHash = disk]

WantsUpload(r) == r # NoEntry /\ DecideRow(r, "two_way") = "upload"

\* enqueueEntry for the row as a scan leaves it, unless a job is active; a job
\* that failed is no obstacle.
Enqueue ==
  /\ job' = (job \/ WantsUpload(row'))
  /\ failed' = (failed /\ ~WantsUpload(row'))

-----------------------------------------------------------------------------
(***************************************************************************)
(* The loop of PollingDaemon::run.                                         *)
(***************************************************************************)

\* Startup: a remote scan, then a local scan, a queue page, a reconcile.  The
\* root is one batch and one page: UploadPipeline and LocalScan have the rest.
\* retryRunning queues a job again that a crash left running.
Start ==
  /\ pc = "down"
  /\ row' = LocalScanned(RemoteScanned(row))
  /\ Enqueue
  /\ misread' = misread \cup Overlooked
  /\ pc' = "reconcile" /\ next' = "remote"
  /\ UNCHANGED <<userVars, remoteVars, pending, event, carried, sent, raced, crashes>>

\* The tables survive a crash, events not yet recorded do not.
Crash ==
  /\ pc # "down" /\ crashes < MaxCrashes
  /\ crashes' = crashes + 1
  /\ pc' = "down" /\ event' = FALSE /\ carried' = 0 /\ sent' = 0
  /\ UNCHANGED <<userVars, remoteVars, dbVars, next, history>>

\* RemoteSyncService::runTick; a scan is followed by reconcileRoot.
RemoteTick ==
  /\ pc = "remote"
  /\ row' = RemoteScanned(row)
  /\ misread' = misread \cup Overlooked
  /\ pc' = "reconcile" /\ next' = "watch"
  /\ UNCHANGED <<userVars, remoteVars, pending, job, failed, event, carried, sent, raced,
                 crashes>>

\* The interval since the last remote scan has not passed.
RemoteSkip ==
  /\ pc = "remote"
  /\ pc' = "watch"
  /\ UNCHANGED <<userVars, remoteVars, dbVars, event, next, carried, sent, history,
                 crashes>>

\* Mutant of Watch: events are taken from the watcher and not recorded.
WatchDrops ==
  /\ pc = "watch"
  /\ event' = FALSE
  /\ pc' = "dirty"
  /\ UNCHANGED <<userVars, remoteVars, dbVars, next, carried, sent, history, crashes>>

\* processWatcherEvents: DirtyPathRepo::record.
Watch ==
  /\ pc = "watch"
  /\ pending' = (pending \/ event)
  /\ event' = FALSE
  /\ pc' = "dirty"
  /\ UNCHANGED <<userVars, remoteVars, row, job, failed, next, carried, sent, history,
                 crashes>>

\* A claimed dirty path: scanPath, enqueueEntry, then reconcileRoot.
ScanDirty ==
  /\ pc = "dirty" /\ pending
  /\ pending' = FALSE
  /\ row' = LocalScanned(row)
  /\ Enqueue
  /\ pc' = "reconcile" /\ next' = "dirty"
  /\ UNCHANGED <<userVars, remoteVars, event, carried, sent, history, crashes>>

\* Another path of the root is dirty: it is scanned, and reconcileRoot takes
\* up every entry, this one too.
ScanOther ==
  /\ pc = "dirty"
  /\ pc' = "reconcile" /\ next' = "dirty"
  /\ UNCHANGED <<userVars, remoteVars, dbVars, event, carried, sent, history, crashes>>

\* Nothing is dirty: on to the queue.
DirtyDone ==
  /\ pc = "dirty" /\ ~pending
  /\ pc' = "queue"
  /\ UNCHANGED <<userVars, remoteVars, dbVars, event, next, carried, sent, history,
                 crashes>>

\* Mutant of RowDecision: a remote change is fetched over a local edit instead
\* of being marked as a conflict.
RowDecisionRemoteWins ==
  IF row = NoEntry THEN "noop"
  ELSE IF DecideRow(row, "two_way") = "conflict" THEN "download"
  ELSE DecideRow(row, "two_way")

RowDecision == IF row = NoEntry THEN "noop" ELSE DecideRow(row, "two_way")

\* reconcileRoot without a download.  Uploads are left to the queue, and
\* delete_remote is not carried out.
Reconcile ==
  /\ pc = "reconcile"
  /\ \/ /\ RowDecision = "delete_local"
        /\ disk' = 0
        /\ event' = (event \/ disk # 0)
        /\ UNCHANGED row
     \/ /\ RowDecision = "conflict"
        /\ row' = [row EXCEPT !.conflict = TRUE]
        /\ UNCHANGED <<disk, event>>
     \/ /\ RowDecision \notin {"delete_local", "conflict", "download"}
        /\ UNCHANGED <<disk, event, row>>
  /\ pc' = next
  /\ UNCHANGED <<removed, latest, remoteVars, pending, job, failed, next, carried,
                 sent, history, crashes>>

\* A download is decided; it takes time.
Download ==
  /\ pc = "reconcile"
  /\ RowDecision = "download"
  /\ pc' = "fetch"
  /\ UNCHANGED <<userVars, remoteVars, dbVars, event, next, carried, sent, history,
                 crashes>>

\* DownloadService::downloadFile puts the file in place of what is there.
Fetch ==
  /\ pc = "fetch"
  /\ ~server[row.remoteId].deleted
  /\ disk' = server[row.remoteId].content
  /\ carried' = disk'
  /\ removed' = FALSE
  /\ event' = TRUE
  /\ pc' = "fetched"
  /\ UNCHANGED <<latest, remoteVars, dbVars, next, sent, history, crashes>>

\* The download fails (the file was deleted meanwhile, or no connection).
FetchFails ==
  /\ pc = "fetch"
  /\ pc' = next
  /\ UNCHANGED <<userVars, remoteVars, dbVars, event, next, carried, sent, history,
                 crashes>>

\* markEntryDownloaded with size, mtime and hash read from the disk: when the
\* user saved meanwhile, the hash is that of the save.  A missing file throws.
Fetched ==
  /\ pc = "fetched"
  /\ row' = IF disk = 0 THEN row
            ELSE [row EXCEPT !.contentHash = disk, !.syncedContentHash = disk,
                             !.syncedRemoteUpdatedAt = row.remoteUpdatedAt]
  /\ misread' = misread \cup ({disk} \ {0, carried})
  /\ carried' = 0
  /\ pc' = next
  /\ UNCHANGED <<userVars, remoteVars, pending, job, failed, event, next, sent, raced,
                 crashes>>

\* Mutant of Uploaded: the id of the server's next file is saved.
UploadedNextId(r, i) ==
  [r EXCEPT !.remoteId = i + 1, !.syncedContentHash = r.contentHash]

\* markEntryUploaded.
Uploaded(r, i) ==
  [r EXCEPT !.remoteId = i, !.syncedContentHash = r.contentHash,
            !.remoteDeleted = FALSE, !.localDeleted = FALSE, !.conflict = FALSE]

\* The job's file is still to be uploaded and is as the row says.  Otherwise
\* the job is done, or failed, without an upload.
Uploadable == job /\ WantsUpload(row) /\ disk # 0 /\ disk = row.contentHash

\* QueueService::runTick for the file's job: prepareUploadItem.
PrepareUpload ==
  /\ pc = "queue"
  /\ \/ Uploadable /\ pc' = "upload" /\ UNCHANGED job
     \/ ~Uploadable /\ pc' = "remote" /\ job' = FALSE
  /\ UNCHANGED <<userVars, remoteVars, row, pending, failed, event, next, carried,
                 sent, history, crashes>>

\* uploadFilesBatch reads what is on disk now, which need not be what was
\* prepared, and the server stores it.
Upload ==
  /\ pc = "upload"
  /\ disk # 0 /\ Len(server) < MaxFiles
  /\ server' = Append(server, RemoteFile(disk, TRUE))
  /\ stored' = stored \cup {disk}
  /\ now' = now + 1
  /\ carried' = disk /\ sent' = Len(server')
  /\ pc' = "uploaded"
  /\ UNCHANGED <<userVars, dbVars, event, next, history, crashes>>

\* The upload fails: before the server stored anything, or with the answer lost
\* after it did.  The job is marked failed, and the loop does not retry it.
UploadFails ==
  /\ pc \in {"upload", "uploaded"}
  /\ job' = FALSE /\ failed' = TRUE
  /\ carried' = 0 /\ sent' = 0
  /\ pc' = "remote"
  /\ UNCHANGED <<userVars, remoteVars, row, pending, event, next, history, crashes>>

\* runBatch after the answer: the row's hash is called synced, whatever was read.
MarkUploaded ==
  /\ pc = "uploaded"
  /\ row' = Uploaded(row, sent)
  /\ raced' = raced \cup ({row.contentHash} \ {carried})
  /\ carried' = 0 /\ sent' = 0
  /\ pc' = "marked"
  /\ UNCHANGED <<userVars, remoteVars, pending, job, failed, event, next, misread,
                 crashes>>

\* runTick's markDone.
JobDone ==
  /\ pc = "marked"
  /\ job' = FALSE
  /\ pc' = "remote"
  /\ UNCHANGED <<userVars, remoteVars, row, pending, failed, event, next, carried,
                 sent, history, crashes>>

Loop ==
  \/ RemoteTick \/ RemoteSkip \/ Watch \/ ScanDirty \/ ScanOther \/ DirtyDone
  \/ Reconcile \/ Download \/ Fetch \/ FetchFails \/ Fetched
  \/ PrepareUpload \/ Upload \/ UploadFails \/ MarkUploaded \/ JobDone

Next ==
  \/ UserSave \/ UserDelete \/ PeerSave \/ PeerDelete
  \/ Start \/ Crash \/ Loop

(***************************************************************************)
(* The loop goes round for ever and is started again after a crash; every  *)
(* 30 seconds it scans the server; an iteration takes at most 100 dirty    *)
(* paths; a download that is tried again and again succeeds unless the     *)
(* file is gone.                                                           *)
(***************************************************************************)
Fairness ==
  /\ WF_vars(Start \/ Loop)
  /\ SF_vars(ScanDirty \/ DirtyDone) /\ SF_vars(RemoteTick) /\ SF_vars(Fetch)

Spec == Init /\ [][Next]_vars /\ Fairness

-----------------------------------------------------------------------------
(***************************************************************************)
(* Properties.                                                             *)
(***************************************************************************)

Versions == 0..MaxVersion

RemoteFiles == [content : Versions, at : Nat, deleted : BOOLEAN, own : BOOLEAN]

\* The remote id of the row is NULL or names a file of the server.
TypeOK ==
  /\ disk \in Versions /\ latest \in Versions /\ carried \in Versions
  /\ removed \in BOOLEAN /\ event \in BOOLEAN
  /\ server \in Seq(RemoteFiles)
  /\ now \in Nat
  /\ stored \subseteq Versions /\ misread \subseteq Versions /\ raced \subseteq Versions
  /\ row \in EntryRow(Versions, 0..Len(server), Nat) \cup {NoEntry}
  /\ pending \in BOOLEAN /\ job \in BOOLEAN /\ failed \in BOOLEAN
  /\ pc \in {"down", "remote", "watch", "dirty", "reconcile", "fetch", "fetched",
             "queue", "upload", "uploaded", "marked"}
  /\ next \in {"remote", "watch", "dirty"}
  /\ sent \in 0..Len(server)
  /\ crashes \in 0..MaxCrashes

\* A version the row calls synced has been on the server, with three exceptions
\* that the code has: one the user saved between a download and the reading of
\* its hash; one the other device saved over an upload before its first scan
\* (both are in misread); and one that was prepared for an upload whose reading
\* found a later save (raced).
SyncedWasStored ==
  row # NoEntry /\ row.syncedContentHash # NULL =>
    row.syncedContentHash \in stored \cup misread \cup raced

\* The daemon's loop overwrites or deletes a version on disk only if the server
\* has had it, if it was misread, or if the scanner never saw it: an edit that
\* was scanned is never lost, whatever the other device does, wherever a crash
\* falls or an upload fails, and even if it was saved while its file was being
\* uploaded.  (Of the loop alone: sync_run_race shows what a `sync run` next to
\* an upload does to it.)
ScannedEditsSurvive ==
  [][pc' # pc /\ disk' # disk =>
       \/ disk \in stored \cup misread \cup {0}
       \/ row = NoEntry \/ disk # row.contentHash]_vars

\* The same of every edit, scanned or not.  (What the test of the reconciler
\* promises, "keeps local file"; the code does not keep it.)
EditsSurvive ==
  [][pc' # pc /\ disk' # disk => disk \in stored \cup {0}]_vars

\* A remote scan right after the client's own upload of a file that is clean
\* finds nothing new.  (What the test "Remote scan acknowledges an uploaded
\* clean file" says; the code keeps it for the first upload only.)
OwnUploadAcknowledged ==
  pc = "reconcile" /\ next = "watch" /\ row # NoEntry =>
    ( /\ row.remoteId # NULL
      /\ server[row.remoteId].own
      /\ row.contentHash = row.syncedContentHash
      => ~Classify(row).remoteDirty )

\* Disk and server agree: the content of the last file of that name, or no
\* file on either side.
Agree ==
  IF server = <<>> \/ Last(server).deleted THEN disk = 0
  ELSE disk = Last(server).content

\* When users and crashes come to rest, the two sides agree or the entry is
\* marked as a conflict.  Exempt are a file deleted locally (deletions are not
\* carried to the server), a version that was misread, and a file whose last
\* upload failed (the job stays failed until a change or a restart queues the
\* file again).
Converges ==
  <>[](Agree \/ (row # NoEntry /\ row.conflict) \/ removed \/ misread # {} \/ failed)
=============================================================================
