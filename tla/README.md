# A verification project for arkive-sync

arkive-sync is a client that keeps local directories ("sync roots") and an
end-to-end encrypted server in step. A daemon scans the disk and the server,
keeps what it saw of both sides in one SQLite table (`entries`), decides for
each path what to do, and works off a persistent transfer queue. This directory
models the daemon in TLA+, checks the models with TLC on small instances and
proves the main safety properties with TLAPS for all instances. Paths below are
relative to `src/src/` unless they start with `src/`.

## 1. Inventory

| Component | State | Operations | What makes it correct |
|---|---|---|---|
| Transfer queue (`repo/QueueRepo`, schema) | `transfer_queue`: entry, type, status; a partial unique index on active rows | enqueue, claim by type, mark done/failed, retryRunning at startup, retryFailed, clearDone | one active job per entry; a running row has a worker; nothing stays queued or running for ever |
| Queue service and workers (`service/QueueService`, `UploadJobRunner`, `FolderCreateWorker`) | page cursor, the batch in memory | buildPage, enqueueEntry, runTick: folder jobs, then batches of uploads | every changed file gets a job; what is marked uploaded was uploaded; a folder is made once |
| Daemon loop (`platform/daemon/PollingDaemon`) | queueCursors, queueComplete, list of roots | startup; per iteration: remote tick, reconcile, watcher events, scans or dirty paths, runTick | no change is lost between the stages, in whatever order things happen; restarts make up for crashes |
| Sync policy (`sync/SyncPolicy`, `SyncStateClassifier`) | none | classify, decide for upload_only, remote_mirror, two_way | never overwrite an unsynced change; conflicts are noticed |
| Remote scan (`sync/RemoteScanner`, `service/RemoteSyncService`, `repo/RemoteEntryRepo`) | remote columns of `entries` | upsertRemoteEntry, markEntryUploaded/Downloaded, markFolderCreated, deletion of a root | the row's idea of "synced" is true; own uploads are not taken for remote changes |
| Reconciler, download (`service/SyncReconciler`, `download/*`, `repo/ConflictRepo`) | `conflict_state` | delete local, download, mark conflict and fetch a copy | no local edit is lost; both sides converge |
| Local scanner (`sync/RootScanner`, `repo/LocalEntryRepo`, `repo/ScanRepo`) | `scan_jobs` (cursor), in-memory iterator, local columns | scanRoot in batches of 500, scanPath, deletion marking | a completed scan has seen every path; an interrupted one resumes without gaps |
| Dirty paths (`repo/DirtyPathRepo`) | `dirty_paths`: pending, running, failed, done | record, claim, mark | an event is handled or subsumed by a later scan |
| Upload service (`service/UploadService`, `upload/*`, `repo/UploadResumeRepo`) | resume sessions and parts | batch start, parts by worker threads, complete, resume | a completed file can be decrypted and is of one version; a session survives a crash consistently; an upload ends |
| Storage put transport (`networking/StoragePutTransport`) | a queue, a multi handle, one thread | put, the destructor | each put gets one answer; nobody waits for a thread that sleeps or is gone |
| Watchers, atomic writers (`platform/*`) | watch table; temporary files | poll; write and rename | no change without an event; no half-written file |
| IPC server and commands (`ipc/*`, `platform/linux/Ipc`) | a socket with a backlog, `stopping_` | sync run, pull, add, remove, login, logout, status, stop | commands on their own thread do not disturb the loop; the daemon stops when told to |
| Sync roots (`service/SyncService`, `repo/SyncRepo`, `ensureRootFolder`) | `sync_roots`; the loop's copy of it | add, remove, bind to a folder, disable and remove after deletion on the server | a disabled root stays disabled; a local tree is removed only for good reason |
| Authentication and vault (`service/AuthService`, `VaultService`, `repo/UserRepo`, keyring) | the account row, cookies, keyring, the master key in memory | login, unlock, persist and restore the unlocked vault, logout | data is encrypted under the key of the account it goes to; a logout leaves no key behind |
| Cryptography, encodings, HTTP, CLI, thumbnails | none | conversions and requests | out of scope, see section 7 |

The parts share one SQLite connection. Two threads use it: the loop, and the
thread of the IPC server, on which `sync run` scans and builds queue pages,
`sync pull` scans the server, roots are added and removed and users log in and
out while the loop runs. An upload has threads of its own, one per part under
way, and one more that drives the transfers. What is hard: these two interleave; every stage works from rows
or files that were read earlier; the server is slow, fails, or acts and loses
its reply; the process can die between any two statements; the user and other
devices change things at any moment. `PROJECT.json` lists the hazards with
their lines.

## 2. Modules

`TransferQueue` is the abstract specification of the queue: the table and the
claims the live daemon holds in memory. `Enqueue`, `Claim`, `MarkDone`,
`MarkFailed`, `RetryFailed`, `ClearDone` are the methods of QueueRepo, `Start`
is the startup with retryRunning, `Crash` loses the claims and keeps the table.
The unique index is a guard on inserts (INSERT OR IGNORE) and makes a multi-row
UPDATE fail as a whole. A claim may take any queued row: created_at has a
resolution of one second. `retryJob`, `incrementProgress` and the untyped
`claimNextQueued` are called by nothing but tests and are left out.

`SyncPolicy` holds the columns of `entries` that decisions depend on, the
classifier and the three policies. Nullable columns are numbers with 0 for
NULL; hashes, ids and times are only compared for equality.

`UploadPipeline` is the path of local changes to the server: the batches of the
startup scan with the pages built between them (`first`, `scanned`, `page` are the
three places that call produceQueuePage), dirty paths, folder jobs in three
steps (request, markFolderCreated, markDone), upload batches stage by stage
(prepare, upload, save, mark), and `sync run` on the IPC thread, which advances
the same scan job. The directory iterator has an order of its own (`ScanOrder`),
pages go by path; a scan job left running by a crash goes on where it was. It contains the queue as
`Q == INSTANCE TransferQueue` and is shown to implement it. A content is a
version number, so is its hash, and a file's remote id is the content stored
under it. The stages of a batch are kept apart because that is where edits,
scans of the other thread and crashes fall in between. `edits`, `crashes`,
`faults` and `runs` only count, for the bounds. Histories: `unsaved` counts the
folders whose creation was cut off before its job was marked done, `missed` has
the files that a scan found changed behind the cursor of the pages, or that a
resumed scan did not visit.

`FileSync` is the two-way synchronisation of one file that the user and another
device both change: remote scan, local scan, reconcile with its download in
three steps (decide, fetch, record), the upload in four (prepare, read and
store, markEntryUploaded, markDone), any of which may be the last before a crash,
and an upload that fails or loses its answer, which the loop does not retry. The server keeps a sequence
of files of the same name, because the client never replaces one; listings
return them in the order they were made (an assumption on the server, see the
hazards). The root is small enough for one batch, one page and one listing. The
histories `stored`, `misread` and `raced` exist for the properties: `misread`
collects versions that the code wrongly takes for those of the other side, in
two windows (a save between a download and its hash; a peer's save between an
upload and the next remote scan); `raced` those that were prepared for an upload
and saved over before it read the file, and that markEntryUploaded then calls
synced all the same.

`LocalScan` is how the daemon learns of changes on disk. A scan job has a cursor
in the database and an iterator in memory; `BeginBatch`, `Visit`, `EndBatch` and
`CompleteScan` are one call of scanRoot, a transaction whose rollback a `Crash`
inside it performs. A file that cannot be opened makes scanRoot throw
(`VisitThrows`): the batch is rolled back and, as nobody catches the exception,
the daemon ends and does so again at each start until the file can be read
(only files of `Private` are ever locked). `RemoteScan` is what a scan of the
server does to the row of a file of `Remote`: it sets sync_state, and with it
whether the row counts as deleted, whatever the local scan found. `Start` places the watch and begins a scan; `Record`,
`RecordOverflow` and `Polled` read the watcher; `ClaimNextPending`, `ScanPath`,
`ScanPathFails`, `FullRescan`, `Finish` and `EndTick` serve `dirty_paths`. The
user saves, removes and locks files at any moment. The root holds files only and
is listed by name, though a file created after the listing began may be missed
(`added`). A row keeps its hash, whether it is marked as deleted, and whether
the running job has seen it, which stands for comparing scan job ids. A hash is
a version; the shortcut by size and mtime, torn reads and the moment a rename
waits for its other half are left out (a rename is a remove and a save, and a
waiting half is an unread event). The history `unseen` holds the paths changed
while nobody watched, or whose event or claimed row died with the process, until
a scan reaches them; `rewritten` the paths whose sync_state a remote scan has set.

`StoragePuts` is the abstract specification of `StoragePutTransport::put`, seen
by its callers: a body handed over is answered once, and a caller gets on only
with its answer. `StoragePutTransport` is the class: `Push`, `Notify` and `Take`
are put, with the gap between the release of the lock and notify_one; `Stop` is
the destructor; `InitMulti`, `InitFails`, `AddPending`, `Perform` and `Wait` are
the thread's iteration, with the gap between its look at the queue and its wait.
Its refinement mapping (`putState`) is that a request pending or active is
waiting.

`MultipartUpload` is one upload from its preparation to its result, over the
transport (`T == INSTANCE StoragePutTransport`). `LookupSession`, `DeleteParts`,
`DeleteSession`, `StartUpload`, `ReplaceSession`, `JoinWorkers` and
`CompleteUpload` are UploadService (a batch of one file, or uploadFile for one
that resumes); `TakePart`, `ReadPart`, `PutPart`, `NotifyTransport`,
`PutAnswered` and `StoreResult` are a thread of MultipartUploader. The plan of
the parts is UploadPlanner's arithmetic. A ciphertext is known by the version it
holds, the call and the thread that made it, so that two encryptions of a part
are never mixed up; the storage keeps the last body that arrived for a part.
The server drops sessions at any moment (`Expire`), and a reply may be lost
after the server has acted. The user saves the file while a part is about to be
read, or between uploads: at other moments nobody looks at the file, so a save
there is one of these. The file keeps its size. The process is up, ending or
down: `Shutdown`, `NotifyStop` and `Exit` are its orderly end, between uploads,
with the transport's destructor; `Crash` may come at any moment. Histories: `raced` holds the
calls during which the file was saved, `faulted` whether something failed
during this call.

`SyncRoots` is the life of one root, its folder on the server and the daemon's
end. Each of the two threads has a program counter, a place to return to and a
copy of the row. `ScanRemoteRoot`, `isRootDeleted`, `DisableDeleted` and
`RemoveTree` are RemoteSyncService::runTick, `ReadUnbound`, `CreateRootFolder`
and `BindRootFolder` are ensureRootFolder; both procedures are run by both
threads. `BootTick` to `NoPage` are PollingDaemon::run as far as it concerns
roots, with the copy `snap` it takes at the start; `SetStopping` to `Join` are
DaemonIpcServer::stop, `Serve` to `ServeStopped` the IPC thread. What is inside
the tree is left to the other modules. A second signal stands for any sudden
end of the process. The server may delete or move the folder and may refuse to
make another one. Of the one page of 100 entries that isRootDeleted reads, the
first entry that matches counts: the folder, a file of it (for a file
remoteFolderId is the parent), or none when the folder is behind the page's end
(`Shown`, `ListedDeleted`). A client that is connected may send its request late
or never: receive() has no timeout. Histories: `told`
and `raced` (a client was told the root is disabled, and whether the loop was
then creating its folder), `settled` (the root was disabled when the daemon
started).

`VaultSession` is login, unlock, logout and the master key. The IPC thread's
commands are cut into their statements: cookies, account row, keyring and
memory change one at a time, and any of them may fail or be the last before a
crash; so saveVaultSession may throw after the new wrapping key has replaced the
old one. `SetBaseUrl`, `ClearOldSession` and `WriteBaseUrl` are set-base-url in a
process of its own, next to a daemon that is up or down: it writes the row back
as it read it. The loop's thread restores the key (`NeedKey`, `LoadSecret`,
`InstallKey`), takes it and sends what it encrypted under the cookies of the
moment. A user stands for an address, its vault material and its master key;
the blob in the row carries the number of the wrapping key that opens it.
Histories `switched`, `overlap` and `torn` name the three windows the code
leaves open.

`TransferQueueProofs`, `UploadPipelineProofs`, `FileSyncProofs`,
`LocalScanProofs`, `StoragePutTransportProofs`, `MultipartUploadProofs`,
`SyncRootsProofs` and `VaultSessionProofs` hold the theorems.
`MCTransferQueue` and `MCUploadPipeline` give TLC its instances; the other
modules need none.

## 3. Runs

| Run | Checks | Result |
|---|---|---|
| `queue` | TypeOK, OneActiveJobPerEntry, RunningIffClaimed | hold |
| `retry_failed` | RetryFailedRequeues | violated: one entry with two failed jobs blocks the retry of all |
| `pipeline` | TypeOK, LoopStoresEdits, EachFolderMadeOnce, ImplementsQueue, QueueDrains, RootFilesReachServer | hold |
| `nested_files` | ChangedFilesReachServer | violated: files of a new directory are never queued |
| `sync_run_race` | SyncedContentIsStored | violated: a `sync run` makes an edit count as uploaded |
| `file_sync` | TypeOK, SyncedWasStored, ScannedEditsSurvive, Converges | hold |
| `local_scan` | TypeOK, NothingForgotten, FreshScanSeesAll, Settles | hold |
| `multipart` | TypeOK, ManifestMatchesStorage, WholeFile, ResumeTablesTrue, FailsOnlyOnTrouble, ImplementsStoragePuts, UploadEnds | hold |
| `roots` | TypeOK, RemovalSticks, TreeRemovalJustified, DisabledRootLeftAlone, DeletedRootRetired, StopReturns | hold |
| `vault` | TypeOK, KeyFitsAccount, LogoutForgets, SavedSessionOpens | hold |
| `unscanned_edit` | EditsSurvive | violated: the reconciler removes an edit no scan has seen |
| `own_upload` | OwnUploadAcknowledged | violated: an upload under a name that has another file counts as a remote change |

The five violations are disagreements between the code and its tests, notes or
own error messages; `findings` in `PROJECT.json` quotes both sides. Each passing
property has a mutant, an operator next to the definition it changes, which
makes TLC find the property violated.

Bounds, and why they are enough:

- `queue`: a directory, a file and four job ids. Two entries show that jobs of
  different entries do not block each other; four ids allow two failed jobs of
  an entry beside active ones. Ids are symmetric.
- `pipeline`: a directory `d`, a file `n` in it and a file `r` in the root, in
  path order and in the order of the iterator, scanned in batches of one with
  pages and upload batches of two: pages are built between the batches of the
  scan, a full one among them, and an upload batch can hold both files. After a
  restart the pages run ahead of the scan, so that a file edited while the
  daemon was down is found changed behind their cursor. One edit at any moment, and two
  troubles: crashes and failing requests, or one `sync run`. Eight job ids are
  never used up.
- `nested_files` needs no edit and no trouble.
- `file_sync`: three versions saved by the user or the other device, which
  allows an edit on each side after a common version, or one during an upload;
  one crash; two server files, so that an upload meets another file of its name
  (at the bound uploads only fail). The two runs that look for a violation have
  three.
- `local_scan`: two paths with batches of one, so that a scan takes several
  batches and a path is on each side of the cursor; at most two claims per
  iteration, so that failing rows can use up the limit; a
  kernel queue of one event, which the second change overflows; three changes
  and one crash. One of the paths (`Private`) can become unreadable, the other
  (`Remote`) is known to the server and rewritten by remote scans. The invariant of the proof was also checked with three paths
  and with two crashes.
- `multipart`: sizes of no chunk, one chunk and three chunks in parts of two, so
  that the last part is shorter; two threads, so that they race for the two
  parts; two uploads, the second of which finds what the first left; one save
  and one trouble at any moment (a failing request, a lost reply, a dropped
  session or a crash). One trouble suffices for a stale session: a reply lost
  by the completion leaves one that the server has completed.
- `roots`: two folders, so that a root can be added anew and bound to another
  one; two clients with a backlog of one, so that the backlog can be full when
  the daemon wants to connect to itself; one failing request.
- `vault`: two users; four commands, for a login, a logout, the login of the
  other user and an unlock; two failures or crashes.

Fairness. The loop has no step that waits for another thread, the IPC thread
finishes a request it has begun, and the process is restarted after a crash
(weak fairness). Strong fairness is assumed where the code gets there again and
again: an event in the watcher's buffer is handled in the iteration that polls
it, at most 100 dirty paths are taken per iteration, the server is scanned every
30 seconds, and a download that is tried again and again succeeds unless the
file is gone. In `MultipartUpload` threads are scheduled and the storage answers
or the connection breaks: the transport sets no timeout of its own, so
UploadEnds rests on the peer and the kernel. In `SyncRoots` both threads run and
requests end (weak fairness) and the scan interval passes while the loop goes
around (strong fairness of `TickDue`). Users, clients, peers, failures and
crashes get no fairness. `CHECK_DEADLOCK` is off in `vault` alone, where a
daemon without commands and with a closed vault has nothing to do.

## 4. What the properties mean

- OneActiveJobPerEntry, RunningIffClaimed: nothing is transferred twice at once,
  and no crash leaves a job running that nobody runs.
- LoopStoresEdits: with the loop alone, a file whose row says "nothing to do" has
  its content on the server, although the file is read long after it was checked.
- EachFolderMadeOnce: every surplus folder on the server is accounted for by a
  lost reply or by a crash between the server's answer and markDone. The second
  includes a crash after markFolderCreated has saved the id: the job is queued
  again and run() does not look at the id.
- ImplementsQueue: the pipeline changes the job table only as TransferQueue allows.
- QueueDrains, RootFilesReachServer: jobs end, and files of the root arrive
  through crashes and edits if no request fails (failed jobs are not retried by
  the loop; that is what the code does). A page is the last one only after the
  scan. Exempt are the files in `missed`: changed behind the cursor of the pages,
  they wait for an event or the next start. Empty files are not meant: every
  upload of one fails (see FailsOnlyOnTrouble).
- SyncedWasStored: a synced hash is never a lie, but for the windows of `misread`
  and `raced`.
- ScannedEditsSurvive: once a scan has hashed an edit, the loop overwrites or
  deletes it only after the server has had it, or if it was misread. A save
  during an upload is no exception: the version wrongly called synced is by then
  not on disk any more. This is about the loop alone; `sync_run_race` shows how
  a `sync run` makes a scanned edit count as synced, after which the reconciler
  may overwrite it.
- Converges: when everybody comes to rest, disk and server agree or a conflict
  is marked. Exempt are files deleted locally (the scanner never sets
  local_deleted_at, so deletions do not reach the server), misread versions, and
  a file whose last upload failed: its job stays failed until a change or a
  restart queues it again, and until then the sides may differ. It is said of a
  file that the listing shows: the client reads 100 entries of a folder and
  ignores has_more (`sync/RemoteScanner.cpp:60-63`).
- NothingForgotten: with no scan under way, every row that differs from the disk
  has an event or a dirty path that will be served. This has to survive changes
  on both sides of the iterator, merged events, overflow, failing paths,
  rollbacks and scans that an unreadable file ends. Exempt are the paths in
  `unseen`; for those in `rewritten` it is said of the hash alone.
- FreshScanSeesAll: the exemption is as small as the code allows. It is empty
  unless the last scan job was taken up again after its cursor. What it covers
  is a gap of the code: if the daemon dies during a scan, a file before the
  cursor that is changed before the next start is not looked at again until its
  next event; and if the cursor itself is gone the listing starts over but the
  job keeps its id, so a file that it has seen and that was deleted since is not
  marked as deleted. No document of the repository promises otherwise.
- ManifestMatchesStorage: what the completion says of each part, put together
  from this process's threads and from the records of earlier ones, is the very
  ciphertext in the storage.
- WholeFile: parts are resumed only for the content they were cut from. Saves
  during an upload are exempt (`raced`): the code checks the file before and
  not after, and makes up for it by the watcher's event.
- ResumeTablesTrue: through crashes between the statements that record and
  delete them, a recorded part is in the storage and belongs to the file's
  session.
- FailsOnlyOnTrouble: a session that ended since costs an attempt and not the
  upload. It names two exceptions the code has: an empty file is planned as one
  part of no chunks, which the reader rejects, though
  `src/tests/upload_planner_test.cpp:44` says the planner "supports empty
  files"; and nothing is uploaded by a process whose transport did not start.
- ImplementsStoragePuts, UploadEnds: no put is lost in the gaps of the
  condition variable, and no thread of an upload waits for ever.
- TreeRemovalJustified: the one operation that removes a whole local tree is
  done only by a thread that saw that root's folder deleted; a folder moved
  elsewhere is not in the list and not taken for deleted. The code has one
  exception: a deleted file of the folder that is listed first is taken for it
  (`sync/RemoteScanner.cpp:51-52`).
- RemovalSticks: `sync remove` is undone only by `sync add`, or by a folder
  creation that had read the row before and writes the old flag back.
- DisabledRootLeftAlone: after a restart a disabled root is not touched. Until
  then the loop still has its copy of the enabled row, and will remove the tree
  if the folder is deleted on the server; nothing in the repository says
  otherwise, so this is an exemption and a hazard, not a finding.
- DeletedRootRetired: a deletion on the server is acted upon, whatever crashes
  come between marking, disabling and removing. A crash after the disable
  leaves the tree where it is. A folder that the page overlooks for ever, behind
  100 other entries or behind a live file of its own, is excepted.
- StopReturns: a signal, a stop command or a failing request ends the daemon,
  wherever its threads are. Two exceptions: if as many clients wait as the
  backlog holds, the daemon's connect to itself blocks; and a client that stays
  connected without sending anything keeps the thread, and so the join, for ever.
- KeyFitsAccount, LogoutForgets, SavedSessionOpens: failing steps and crashes
  never bring a key and an account together that do not belong together, and
  leave a key behind after a logout or make a saved session useless only in one
  place: between the new wrapping key and its blob, by a crash or by a
  saveVaultSession that throws (`torn`); after that every restoration throws
  until the next unlock. The other exceptions are a login over another user's
  session (`switched`) and two of command, loop and set-base-url at work at once
  (`overlap`), so these properties record the races of the two threads over the
  vault and do not exclude them.
- Settles: once the user stops, table and disk agree for good. A path that fails
  for ever keeps no other path waiting, unless it is met by a scan job: then the
  daemon ends at every start, and nothing is promised.

## 5. Proofs

`TransferQueueProofs`: `Spec => []TypeOK`, `[]OneActiveJobPerEntry`,
`[]RunningIffClaimed`, for all sets of entries and jobs, assuming only that
directories are entries. The inductive invariant adds that a daemon that is down
holds no claims; without it a restart could meet claims of a requeued row.
The lemmas say what an update of one status and a requeueing do to the index.

`UploadPipelineProofs`: `Spec => []TypeOK`, `[]LoopStoresEdits`,
`[]EachFolderMadeOnce` and `Spec => ImplementsQueue`, for any tree of entries,
page and batch size, and any number of edits, crashes and faults; the types and
the refinement with any number of `sync run`s, and so the queue's promises too
(no entry transferred twice at once, no running row without its claim), which
come from `TransferQueueProofs` by `INSTANCE`. That a step is a step of the
queue needs to know that whoever enqueues does so in a live daemon (`Claims`,
`Pages`). For LoopStoresEdits the invariant follows a content from the disk to
the row: hashes never run ahead of the disk (`Versions`), and what an upload has
read lies between the row's hash and the disk, because the loop does not scan
while it has a batch (`Uploads`); so if the hash that markEntryUploaded records
is the one on disk, it is also the one that was read. For EachFolderMadeOnce: as
long as a directory has an active job or no remote id, and no claimed job of it
is between the server's answer and markDone (`Making`), no folder was made but
those already counted as cut off (`FoldersOf`); a job in between has its folder,
and after markFolderCreated its id (`FolderIds`). This rests on the page in the loop's hands knowing which
directories have folders (`PageFresh`), on the one folder job claimed at a time
(`Claims`) and on the index. Both stop at the first `sync run`, whose scan and
whose page are what the two arguments exclude; `sync_run_race` shows the first
case.

`FileSyncProofs`: `Spec => []TypeOK`, `[]SyncedWasStored`,
`ScannedEditsSurvive`, for all bounds. The argument: the policy decides a
download or a local deletion only for a row whose hash equals its synced hash
(`OverwritesOnlyClean`); the row cannot change between that decision and the
download (`FetchOfCleanRow`); the synced hash is stored, misread or raced
(`SyncedWasStored`); a raced version is not on disk any more unless the server
has it (`RacedIsGone`); so what is on disk, if the row knows it, is stored or
misread. The last fact needs that every save is later than all that was seen
before (`SavedByNow`), that an upload was prepared for a row with a hash
(`UploadOfHashedRow`) and that what it read is stored and, if it is not what the
row says, not what is on disk either (`UploadRead`). The
strengthening is needed because each of these facts holds only with the others:
what is fetched is stored because everything on the server is
(`ServerIsStored`), and rows are never locally deleted (`NotLocallyDeleted`),
which makes "not dirty" mean "equal hashes". A remote scan is written in closed
form so that no induction over the listing is needed.

`LocalScanProofs`: `Spec => []TypeOK`, `[]NothingForgotten`,
`[]FreshScanSeesAll`, for any number of paths, batch size, limits, changes and
crashes. NothingForgotten speaks of the time without a scan, so the invariant
has to say what a scan owes: each path is *safe* with respect to what the
iterator, or the cursor, has passed (seen and up to date, or ahead, or rightly
about to be marked as deleted), or it is told by an event or a row, or exempt
(`ScanCovers`). The same is kept for the state a rollback would restore
(`RollbackCovers`), for the files the iterator may miss (`AddedTold`), with a
cursor that is never ahead of the iterator outside a batch (`CursorBehind`), and
with rows served only when no scan is under way (`ServingApart`). Lemmas on
`Told` say that no step takes away what a path is told by, except the service of
its own row. For FreshScanSeesAll the exemptions stay ahead of the iterator of a
scan that began anew (`FreshAhead`), so that its end leaves none.

`StoragePutTransportProofs`: `Spec => []NobodyForgotten` and `Spec => Puts!Spec`,
for any set of callers. The first says when the thread may sleep or be gone:
asleep with a request waiting only if its caller has yet to notify, and gone
only with nothing left. The second maps each step of the transport to a step of
StoragePuts or to none, which needs types only. `MultipartUploadProofs`:
`Spec => ImplementsStoragePuts` for all file sizes, numbers of threads and
bounds. Every step of the upload is a step of the transport or leaves it alone
(`UploadStepIsTransportStep`); the rest is the transport's argument, stated for
the instance.

`MultipartUploadProofs` also has `Spec => []TypeOK`, `[]ManifestMatchesStorage`,
`[]WholeFile`, `[]ResumeTablesTrue` and `[]FailsOnlyOnTrouble`, for any sizes,
threads, parts, uploads, saves and troubles, assuming that the part size is a
multiple of the chunk size (8 MiB and 4 MiB in the code) and that `MaxParts` is
enough for the sizes. The invariant `IInv` has a part for each thing the
properties rest on: where the service is and which session it works with
(`Control`); that busy threads hold different parts, none of them uploaded yet,
and wait exactly while the transport has their request (`Pool`); that a session
belongs to one call and becomes a file only by being completed
(`OneSessionPerCall`); that results, rows and answered requests are in the
storage (`Stored`), which no later body can overwrite because nobody else has
the part; that no part is passed over while no thread has failed (`AllParts`);
that ciphertexts are of the content the hash names (`HonestParts`); and that
every error, answer and closed session has its reason (`Reasons`). `Moved` and
`Fails` say what a step does to a thread's record, and the steps of the threads
are shown to be of these forms first. `PartsReadable` is the planner's
arithmetic: for a file that is not empty, the window of every planned part is
one the chunk reader accepts.

`SyncRootsProofs`: `Spec => []TypeOK`, `[]RemovalSticks`,
`TreeRemovalJustified` and `DisabledRootLeftAlone`, for any number of folders,
clients, failures and crashes and any backlog, assuming only that the backlog is
not 0. Both threads run the same procedures on the same row, so each part of the
invariant speaks of every thread. A thread about to disable a root has seen its
folder, or a file listed in its place, deleted, which needs that a folder created
meanwhile is a new one
(`SeenDeleted`, `FoldersMade`); after a removal that met no creation no copy
with the old flag is left (`OldCopies`); a root disabled at the start is neither
in the loop's copy nor in anybody's hands (`SettledIdle`); and procedures return
to where they were called from (`Control`). The lemmas are about what a thread
can do (leave, start, go on in runTick, go on in ensureRootFolder), and every
action is shown to be one of these.

`VaultSessionProofs`: `Spec => []TypeOK`, `[]KeyFitsAccount`, `[]LogoutForgets`
and `[]SavedSessionOpens`, for any set of users, commands, failures and crashes.
As long as neither a command nor set-base-url met another at work, one of the
three at most is at work, so what it has read of the row is the row (`Forgotten`, `CopiesFresh`); the keyring then
holds no key but the one of the row's session (`OneSecret`, `KeyStored`), so a
logout that deletes it leaves nothing (`LoggedOut`); and without a change of
users, cookies, row, blob and key are all of one user (`OneUser`, `SignedOut`).

Only model-checked: the liveness properties (QueueDrains, RootFilesReachServer,
Converges, Settles, UploadEnds, DeletedRootRetired, StopReturns), which need
fairness. Every invariant, action property and refinement of a passing run is
proved.

## 6. Plan

Done: TransferQueue, UploadPipeline, FileSync and LocalScan with proofs,
SyncPolicy, StoragePuts and StoragePutTransport with the proof of the
refinement, MultipartUpload, SyncRoots and VaultSession with proofs.
Next, in this order:

1. Lemmas on the policies of SyncPolicy for all rows: which decisions a mode can
   come to, and what they have in common.
2. LocalScan with `sync run` on the second thread, which shares the scan job,
   the iterator and the connection, and with directories (scanSubtree).
3. The inotify watch table and the atomic writer, if they carry their weight.

## 7. Not modelled

- Conflict copies, remote folders and the modes upload_only and remote_mirror in
  FileSync: the first two are other paths, the policies of the modes are defined
  in SyncPolicy and not yet exercised by a run.
- File sizes and mtimes: the checks for a stale job compare versions instead; two
  saves within a millisecond and of one size are not told apart by the code.
  A file that changes its size during an upload.
- Files of a batch uploaded at the same time (resolveFileConcurrency): they share
  nothing but the transport, whose callers they are.
- Directories in a scan, `sync run` in LocalScan, the table of watches: see the
  plan.
- More than one root; a daemon started while another one runs, which takes over
  the socket.
- Empty files in UploadPipeline and FileSync: `fs/UploadFileChunkReader.cpp:54`
  rejects the one chunk that the planner gives them, so their upload fails,
  against `src/tests/upload_planner_test.cpp:44`; MultipartUpload has them.
- Folders with more than 100 entries in FileSync and LocalScan: a remote scan
  reads one page. SyncRoots has the page that isRootDeleted reads.
- In the `pipeline` run, orders of the directory iterator other than `d, n, r`. The
  proofs are for every order, and TLC found the run's properties to hold for the
  other depth-first order, `r, d, n`, too.
- The two threads' use of one SQLite connection: a BEGIN inside the other
  thread's transaction fails.
- Cryptography, encodings, HTTP requests, IPC framing, argument parsing and
  thumbnails: conversions, libraries and input/output without shared state.
