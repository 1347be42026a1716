----------------------------- MODULE LocalScan -----------------------------
(***************************************************************************)
(* How the daemon learns of changes in a local root: the startup and full  *)
(* scans (RootScanner::scanRoot) in batches with a persistent cursor and   *)
(* an iterator that stays open between batches, the watcher's events, the  *)
(* table dirty_paths, and the loop that serves both (PollingDaemon::run).  *)
(*                                                                         *)
(* The root holds files only, named by the numbers 1..N; the directory is  *)
(* listed in that order, so a cursor is a number and 0 stands before all.  *)
(* A content is a number, which is also its hash, and every save makes a   *)
(* new one and changes the file's size or mtime.  Ids of scan jobs are     *)
(* abstracted to the flag seen of a row: its last_seen_scan_job_id is the  *)
(* id of the running job.                                                  *)
(* Uploads, `sync run' and `sync pull' are left to the other modules; of   *)
(* the loop's remote scans there is what they do to sync_state.            *)
(***************************************************************************)
EXTENDS Integers, Sequences, FiniteSets

CONSTANTS
  N,           \* number of paths
  Remote,      \* paths whose row has a remote_id: the server has a file of it
  Private,     \* paths of files whose permissions the user changes
  BatchSize,   \* kMaxScanBatchSize
  MaxClaims,   \* kMaxDirtyPathsPerRootPerTick
  QueueLimit,  \* events the kernel keeps for the watcher
  MaxChanges,  \* bound on the user's changes
  MaxCrashes   \* bound on crashes and stops

ASSUME ScanAssumption ==
  /\ N \in Nat /\ Remote \subseteq 1 .. N /\ Private \subseteq 1 .. N
  /\ BatchSize \in Nat \ {0} /\ MaxClaims \in Nat \ {0}
  /\ QueueLimit \in Nat /\ MaxChanges \in Nat /\ MaxCrashes \in Nat

VARIABLES
  disk,      \* content of each path, 0 when there is no file
  locked,    \* the paths whose file cannot be read
  changes,   \* number of changes so far
  events,    \* paths with an event that the watcher has not delivered
  overflow,  \* the kernel dropped events since the watcher was last read
  table,     \* entries: hash (0: no row), deleted and seen for each path
  job,       \* the cursor of the running scan job, or None
  dirty,     \* rows of dirty_paths in the order of their creation
  iterator,  \* the last path that the open iterator returned, or None
  added,     \* paths created since the iterator was opened
  saved,     \* inside a transaction: table, job and unseen before it
  batch,     \* entries processed in this batch
  pc,        \* where the loop is
  current,   \* index of the claimed row of dirty_paths
  claims,    \* rows claimed in this iteration of the loop
  unseen,    \* history: paths with a change made or forgotten while the
             \* daemon was down, and not reached by a scan since
  resumed,   \* history: the last scan job was continued after its cursor
  rewritten, \* history: paths whose sync_state a remote scan has set
  crashes

userVars == <<disk, locked, changes, events, overflow>>
dbVars == <<table, job, dirty>>
scanVars == <<iterator, added, saved, batch>>
loopVars == <<pc, current, claims>>
history == <<unseen, resumed, rewritten, crashes>>
vars == <<userVars, dbVars, scanVars, loopVars, history>>

None == -1
Paths == 1 .. N
AllPaths == 0  \* relative_path is NULL: a full rescan

\* A row of entries, and the row of a path that has none.
Row(h, d, s) == [hash |-> h, deleted |-> d, seen |-> s]
NoRow == Row(0, FALSE, FALSE)

\* Outside of a transaction nothing is kept for a rollback.
NoTransaction ==
  [table |-> [p \in Paths |-> NoRow], job |-> None, unseen |-> {}]

Init ==
  /\ disk \in [Paths -> {0, 1}] /\ locked = {} /\ changes = 0
  /\ events = {} /\ overflow = FALSE
  /\ table = [p \in Paths |-> NoRow] /\ job = None /\ dirty = <<>>
  /\ iterator = None /\ added = {} /\ saved = NoTransaction /\ batch = 0
  /\ pc = "down" /\ current = 0 /\ claims = 0
  /\ unseen = {} /\ resumed = FALSE /\ rewritten = {} /\ crashes = 0

-----------------------------------------------------------------------------
(***************************************************************************)
(* The user and the kernel's queue.                                        *)
(***************************************************************************)

\* A change of p is queued while the root is watched; a full queue drops it
\* and is marked.  Without a watch nobody is told.
Notify(p) ==
  IF pc = "down"
  THEN /\ unseen' = unseen \cup {p}
       /\ UNCHANGED <<events, overflow>>
  ELSE /\ IF p \in events \/ Cardinality(events) < QueueLimit
          THEN events' = events \cup {p} /\ UNCHANGED overflow
          ELSE overflow' = TRUE /\ UNCHANGED events
       /\ UNCHANGED unseen

Change(p) ==
  /\ changes < MaxChanges
  /\ changes' = changes + 1
  /\ Notify(p)
  /\ UNCHANGED <<dbVars, iterator, saved, batch, loopVars, resumed, rewritten, crashes>>

Save(p) ==
  /\ Change(p)
  /\ disk' = [disk EXCEPT ![p] = changes + 2]
  /\ added' = IF disk[p] = 0 /\ iterator # None THEN added \cup {p} ELSE added
  /\ UNCHANGED locked

Remove(p) ==
  /\ Change(p)
  /\ disk[p] # 0
  /\ disk' = [disk EXCEPT ![p] = 0]
  /\ locked' = locked \ {p}
  /\ UNCHANGED added

\* The file's permissions change, which the watcher reports as attrib.
Chmod(p) ==
  /\ p \in Private /\ Change(p)
  /\ disk[p] # 0
  /\ locked' = IF p \in locked THEN locked \ {p} ELSE locked \cup {p}
  /\ UNCHANGED <<disk, added>>

-----------------------------------------------------------------------------
(***************************************************************************)
(* The end of the process.                                                 *)
(***************************************************************************)

\* Unread events, the claimed row and an open transaction are lost.
Down ==
  /\ IF pc = "batch"
     THEN table' = saved.table /\ job' = saved.job
     ELSE UNCHANGED <<table, job>>
  /\ unseen' = (IF pc = "batch" THEN saved.unseen ELSE unseen)
                 \cup events
                 \cup (IF overflow THEN Paths ELSE {})
                 \cup {p \in Paths : pc = "claimed" /\ dirty[current].path \in {p, AllPaths}}
  /\ events' = {} /\ overflow' = FALSE
  /\ iterator' = None /\ added' = {} /\ saved' = NoTransaction /\ batch' = 0
  /\ pc' = "down" /\ current' = 0 /\ claims' = 0
  /\ UNCHANGED <<disk, locked, changes, dirty, resumed, rewritten>>

\* The daemon dies or is stopped.
Crash ==
  /\ pc # "down" /\ crashes < MaxCrashes
  /\ crashes' = crashes + 1
  /\ Down

-----------------------------------------------------------------------------
(***************************************************************************)
(* Startup, and the scan of the root.                                      *)
(***************************************************************************)

\* Mutant of Start: no scan when no job was left running.
StartWithoutScan ==
  /\ pc = "down"
  /\ pc' = IF job = None THEN "watch" ELSE "started"
  /\ UNCHANGED <<userVars, dbVars, scanVars, current, claims, history>>

\* run() up to the first scanRoot: the watch is placed first.
Start ==
  /\ pc = "down"
  /\ pc' = "started"
  /\ UNCHANGED <<userVars, dbVars, scanVars, current, claims, history>>

\* positionAfterCursor: a cursor that is gone, or that is the last path,
\* starts the listing over.
PositionAfterCursor ==
  IF job = None THEN 0
  ELSE IF /\ job \in Paths /\ disk[job] # 0
          /\ \E q \in Paths : q > job /\ disk[q] # 0
  THEN job ELSE 0

\* The rows as a new scan job finds them.
NotSeen == [p \in Paths |-> Row(table[p].hash, table[p].deleted, FALSE)]

\* scanRoot up to its loop: a transaction, the running job or a new one, the
\* open iterator or a new one.
BeginBatch ==
  /\ pc \in {"started", "scan"}
  /\ saved' = [table |-> table, job |-> job, unseen |-> unseen]
  /\ IF job = None
     THEN /\ job' = 0
          /\ table' = NotSeen
     ELSE UNCHANGED <<job, table>>
  /\ IF iterator = None
     THEN /\ iterator' = PositionAfterCursor
          /\ added' = {}
          /\ resumed' = (job \in Paths)
     ELSE UNCHANGED <<iterator, added, resumed>>
  /\ batch' = 0
  /\ pc' = "batch"
  /\ UNCHANGED <<userVars, dirty, current, claims, unseen, rewritten, crashes>>

\* The paths the iterator may return next: the next file, and the files
\* before it may be passed over if they were created after the listing began.
Listed(q) ==
  /\ q > iterator /\ disk[q] # 0
  /\ \A p \in Paths : p > iterator /\ p < q /\ disk[p] # 0 => p \in added

\* Nothing is left, except perhaps files created after the listing began.
AtEnd == \A p \in Paths : p > iterator /\ disk[p] # 0 => p \in added

\* The paths up to q without a file that the iterator leaves behind: unless an
\* earlier run of the job has seen them, they are marked as deleted later.
Skipped(q) == {p \in Paths : p > iterator /\ p <= q /\ ~table[p].seen}

\* The row of a file just read, by the running scan job or by scanPath.
FileRow(p, s) == Row(disk[p], FALSE, s)

\* handleFileEntry: a file whose row has its size and mtime may be left
\* unopened; every other one is hashed, and has to be readable.
Hashable(p) == p \notin locked \/ (table[p].hash = disk[p] /\ ~table[p].deleted)

\* The loop of scanRoot comes to the entry q.
NextEntry(q) ==
  /\ pc = "batch" /\ batch < BatchSize
  /\ Listed(q)

\* One entry of the loop of scanRoot.
Visit(q) ==
  /\ NextEntry(q) /\ Hashable(q)
  /\ iterator' = q
  /\ table' = [table EXCEPT ![q] = FileRow(q, TRUE)]
  /\ job' = q
  /\ batch' = batch + 1
  /\ unseen' = unseen \ ({q} \cup Skipped(q - 1))
  /\ UNCHANGED <<userVars, dirty, added, saved, loopVars, resumed, rewritten, crashes>>

\* hashFile throws for a file that cannot be read.  scanRoot rolls the batch
\* back and nobody catches the exception: the daemon ends.
VisitThrows(q) ==
  /\ NextEntry(q) /\ q \in locked
  /\ Down
  /\ UNCHANGED crashes

\* The batch is full: the cursor is committed.
EndBatch ==
  /\ pc = "batch" /\ batch = BatchSize
  /\ \E p \in Paths : p > iterator /\ disk[p] # 0
  /\ saved' = NoTransaction
  /\ pc' = "watch"
  /\ UNCHANGED <<userVars, dbVars, iterator, added, batch, current, claims,
                 history>>

\* markEntriesNotSeenInScanDeleted.
MarkNotSeenDeleted ==
  [p \in Paths |-> IF table[p].hash # 0 /\ ~table[p].seen
                   THEN Row(table[p].hash, TRUE, FALSE) ELSE table[p]]

\* Mutant of CompleteScan: the iterator is not erased from activeScans_.
CompleteScanKeepsIterator ==
  /\ pc = "batch"
  /\ AtEnd
  /\ table' = MarkNotSeenDeleted
  /\ job' = None
  /\ saved' = NoTransaction /\ batch' = 0
  /\ unseen' = unseen \ Skipped(N)
  /\ pc' = "watch"
  /\ UNCHANGED <<userVars, dirty, iterator, added, current, claims, resumed, rewritten,
                 crashes>>

\* The iterator is at its end: the job is completed.
CompleteScan ==
  /\ pc = "batch"
  /\ AtEnd
  /\ table' = MarkNotSeenDeleted
  /\ job' = None
  /\ iterator' = None /\ added' = {} /\ saved' = NoTransaction /\ batch' = 0
  /\ unseen' = unseen \ Skipped(N)
  /\ pc' = "watch"
  /\ UNCHANGED <<userVars, dirty, current, claims, resumed, rewritten, crashes>>

-----------------------------------------------------------------------------
(***************************************************************************)
(* The loop: watcher events, then a batch of a running scan, or the rows   *)
(* of dirty_paths.                                                         *)
(***************************************************************************)

\* Mutant of InsertDirtyPath: the row being served counts as well.
InsertDirtyPathOverRunning(p) ==
  dirty' = IF \E i \in DOMAIN dirty :
                 dirty[i].path = p /\ dirty[i].status \in {"pending", "running"}
           THEN dirty
           ELSE Append(dirty, [path |-> p, status |-> "pending"])

\* insertDirtyPath: one pending row per path.
InsertDirtyPath(p) ==
  dirty' = IF \E i \in DOMAIN dirty :
                 dirty[i].path = p /\ dirty[i].status = "pending"
           THEN dirty
           ELSE Append(dirty, [path |-> p, status |-> "pending"])

\* upsertRemoteEntry for p's file: 'deleted' or 'unchanged', as the server has
\* it, whatever the local scans have found.
RemoteScan(p, d) ==
  /\ pc \in {"started", "watch"}
  /\ table[p].hash # 0 /\ table[p].deleted # d
  /\ table' = [table EXCEPT ![p] = Row(table[p].hash, d, table[p].seen)]
  /\ rewritten' = rewritten \cup {p}
  /\ UNCHANGED <<userVars, job, dirty, scanVars, loopVars, unseen, resumed, crashes>>

\* poll and record of one event.
Record(p) ==
  /\ pc = "watch"
  /\ p \in events
  /\ events' = events \ {p}
  /\ InsertDirtyPath(p)
  /\ UNCHANGED <<disk, locked, changes, overflow, table, job, scanVars, loopVars,
                 history>>

RecordOverflow ==
  /\ pc = "watch"
  /\ overflow
  /\ overflow' = FALSE
  /\ InsertDirtyPath(AllPaths)
  /\ UNCHANGED <<disk, locked, changes, events, table, job, scanVars, loopVars,
                 history>>

\* The watcher is drained: a batch if a scan job is running, else the rows.
Polled ==
  /\ pc = "watch"
  /\ events = {} /\ ~overflow
  /\ pc' = IF job # None THEN "scan" ELSE "claim"
  /\ claims' = 0
  /\ UNCHANGED <<userVars, dbVars, scanVars, current, history>>

\* Mutant of Before: by age alone.
BeforeByAge(i, j) == i <= j

\* The order of claimNextPending: pending rows first, then the oldest.
Before(i, j) ==
  \/ dirty[i].status = "pending" /\ dirty[j].status # "pending"
  \/ dirty[i].status = dirty[j].status /\ i <= j

Claimable == {i \in DOMAIN dirty : dirty[i].status \in {"pending", "failed"}}

SetStatus(i, s) ==
  dirty' = [dirty EXCEPT ![i] = [path |-> dirty[i].path, status |-> s]]

ClaimNextPending ==
  /\ pc = "claim" /\ claims < MaxClaims
  /\ \E i \in Claimable :
       /\ \A j \in Claimable : Before(i, j)
       /\ SetStatus(i, "running")
       /\ current' = i
  /\ claims' = claims + 1
  /\ pc' = "claimed"
  /\ UNCHANGED <<userVars, table, job, scanVars, history>>

\* No row, or enough of them: queue work and a wait, then the watcher again.
EndTick ==
  /\ pc = "claim"
  /\ claims = MaxClaims \/ Claimable = {}
  /\ pc' = "watch"
  /\ UNCHANGED <<userVars, dbVars, scanVars, current, claims, history>>

\* scanPath of a file that is gone (markPathDeleted), or that can be read.
\* Its scan id is new, so no scan job has seen the row.
ScanPath ==
  /\ pc = "claimed"
  /\ LET p == dirty[current].path
     IN  /\ p # AllPaths
         /\ \/ /\ disk[p] = 0
               /\ table' = [table EXCEPT ![p] =
                              Row(table[p].hash, table[p].hash # 0, table[p].seen)]
            \/ /\ disk[p] # 0 /\ Hashable(p)
               /\ table' = [table EXCEPT ![p] = FileRow(p, FALSE)]
         /\ unseen' = unseen \ {p}
  /\ pc' = "handled"
  /\ UNCHANGED <<userVars, job, dirty, scanVars, current, claims, resumed, rewritten,
                 crashes>>

\* scanPath of a file that cannot be read.
ScanPathFails ==
  /\ pc = "claimed"
  /\ dirty[current].path \in locked
  /\ SetStatus(current, "failed")
  /\ current' = 0
  /\ pc' = "claim"
  /\ UNCHANGED <<userVars, table, job, scanVars, claims, history>>

\* A full rescan: ensureRunningScanJob.
FullRescan ==
  /\ pc = "claimed"
  /\ dirty[current].path = AllPaths
  /\ IF job = None
     THEN /\ job' = 0
          /\ table' = NotSeen
     ELSE UNCHANGED <<job, table>>
  /\ pc' = "handled"
  /\ UNCHANGED <<userVars, dirty, scanVars, current, claims, history>>

\* markDone, or markFailed when enqueueEntry or reconcileRoot throws.
Finish ==
  /\ pc = "handled"
  /\ \/ SetStatus(current, "done")
     \/ dirty[current].path # AllPaths /\ SetStatus(current, "failed")
  /\ current' = 0
  /\ pc' = "claim"
  /\ UNCHANGED <<userVars, table, job, scanVars, claims, history>>

-----------------------------------------------------------------------------
Scan ==
  \/ BeginBatch \/ (\E q \in Paths : Visit(q) \/ VisitThrows(q))
  \/ EndBatch \/ CompleteScan

Watch == (\E p \in Paths : Record(p)) \/ RecordOverflow \/ Polled

ServeDirty ==
  \/ ClaimNextPending \/ EndTick \/ ScanPath \/ ScanPathFails \/ FullRescan
  \/ Finish

Daemon == Start \/ Scan \/ Watch \/ ServeDirty

User == \E p \in Paths : Save(p) \/ Remove(p) \/ Chmod(p)

Server == \E p \in Remote, d \in BOOLEAN : RemoteScan(p, d)

Next == User \/ Server \/ Daemon \/ Crash

\* The daemon is started again and its one loop goes on.
Spec == Init /\ [][Next]_vars /\ WF_vars(Daemon)
-----------------------------------------------------------------------------
(***************************************************************************)
(* Properties.                                                             *)
(***************************************************************************)

RowType == [hash : Nat, deleted : BOOLEAN, seen : BOOLEAN]

Statuses == {"pending", "running", "failed", "done"}

Places == {"down", "started", "watch", "scan", "batch", "claim", "claimed",
           "handled"}

DirtyRow == [path : Paths \cup {AllPaths}, status : Statuses]

Cursors == {None, 0} \cup Paths

SavedType == [table : [Paths -> RowType], job : Cursors, unseen : SUBSET Paths]

UserTypes ==
  /\ disk \in [Paths -> Nat] /\ locked \subseteq Paths /\ changes \in Nat
  /\ events \subseteq Paths /\ overflow \in BOOLEAN

DbTypes == table \in [Paths -> RowType] /\ job \in Cursors /\ dirty \in Seq(DirtyRow)

ScanTypes ==
  /\ iterator \in Cursors /\ added \subseteq Paths
  /\ saved \in SavedType /\ batch \in 0 .. BatchSize

LoopTypes ==
  pc \in Places /\ current \in {0} \cup DOMAIN dirty /\ claims \in 0 .. MaxClaims

HistoryTypes ==
  /\ unseen \subseteq Paths /\ resumed \in BOOLEAN /\ rewritten \subseteq Paths
  /\ crashes \in Nat

\* What is open where.
OpenWhere ==
  /\ pc = "batch" => iterator # None
  /\ iterator # None => job # None
  /\ pc \in {"claimed", "handled"} <=> current # 0

\* The types, and what the loop has open where: an iterator only with a running
\* job and always in a batch, a claimed row exactly while it is served.
TypeOK ==
  UserTypes /\ DbTypes /\ ScanTypes /\ LoopTypes /\ HistoryTypes /\ OpenWhere

\* The row says what is on disk; after a remote scan has set sync_state, at
\* least the hash is the file's.
Matches(t, p) ==
  IF disk[p] = 0
  THEN t[p].hash = 0 \/ t[p].deleted \/ p \in rewritten
  ELSE t[p].hash = disk[p] /\ (~t[p].deleted \/ p \in rewritten)

\* An event or a row of dirty_paths stands for a change of p.
Told(p) ==
  \/ p \in events \/ overflow
  \/ \E i \in DOMAIN dirty :
       /\ dirty[i].path \in {p, AllPaths}
       /\ \/ dirty[i].status \in {"pending", "failed"}
          \/ i = current /\ pc = "claimed"

Serving == pc \notin {"down", "started"}

\* When no scan job is running, every path whose row differs from the disk,
\* unreadable files included, has an event or a row of dirty_paths to be
\* served, through full queues, changes at any moment of a scan or of scanPath,
\* failures, crashes and scans that throw.  The exceptions are changes of the
\* time when the daemon was down.  (Of a path whose sync_state a remote scan
\* has overwritten this is said of the hash alone: that it is gone or back may
\* be forgotten, as upsertRemoteEntry sets sync_state from the server's side.)
NothingForgotten ==
  Serving /\ job = None =>
    \A p \in Paths : Matches(table, p) \/ Told(p) \/ p \in unseen

\* The exceptions come from a scan that was interrupted, by a crash or by an
\* unreadable file, and continued after its cursor only: a scan that began
\* anew after the start leaves none.
FreshScanSeesAll ==
  Serving /\ job = None /\ ~resumed => unseen = {}

\* Once the user stops, the table comes to agree with the disk and stays so,
\* for every file that can be read: full rescans, failing rows and, outside of
\* a scan, unreadable files block no other.  A scan job that meets a file that
\* stays unreadable ends the daemon, and does so again at every start: then
\* nothing is promised of the other paths either.
Settles ==
  \/ []<>(pc = "down" /\ locked # {})
  \/ <>[](\A p \in Paths : Matches(table, p) \/ p \in unseen \cup locked)
=============================================================================
