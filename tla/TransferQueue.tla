--------------------------- MODULE TransferQueue ---------------------------
(***************************************************************************)
(* The persistent transfer queue: the table transfer_queue, the operations *)
(* of QueueRepo on it, and the only process that claims rows, the daemon.  *)
(* The module says nothing about what a job does; UploadPipeline adds that *)
(* and implements this specification.                                      *)
(*                                                                         *)
(* A row keeps its entry, its job type and its status.  Left out are       *)
(* bytes_done, retry_count and error_message, which no condition of the    *)
(* code reads, and created_at: claims are ordered by it, but it has a      *)
(* resolution of one second and a whole page of rows is inserted within    *)
(* one, so the model lets a claim take any queued row.                     *)
(***************************************************************************)
EXTENDS FiniteSets

CONSTANTS Entries,   \* rows of the table entries, files and directories
          Dirs,      \* the entries that are directories
          Jobs       \* ids generated for rows of transfer_queue

ASSUME DirsAssumption == Dirs \subseteq Entries

VARIABLES
  rows,     \* [Jobs -> Row \cup {NoRow}], the table
  claimed,  \* the jobs the live daemon holds in memory, claimed and not marked
  daemon    \* "down", or "up" once the startup has run retryRunning

queueVars == <<rows, claimed, daemon>>

Status == {"queued", "running", "failed", "done"}

Row == [entry : Entries, status : Status]

\* "Not a row": the id is not in the table.
NoRow == [status |-> "none"]

\* Directories get create_folder jobs and files upload_file jobs.
JobType(e) == IF e \in Dirs THEN "create_folder" ELSE "upload_file"

HasStatus(t, j, S) == t[j].status \in S

Active == {"queued", "running"}

(***************************************************************************)
(* The partial unique index on (entry_id, job_type) over active rows, of   *)
(* the table t: every insert and update that would break it fails.         *)
(***************************************************************************)
UniqueActive(t) ==
  \A i, j \in Jobs :
    /\ HasStatus(t, i, Active) /\ HasStatus(t, j, Active)
    /\ t[i].entry = t[j].entry
    => i = j

\* hasActiveJobForEntry: the check the callers make before they enqueue.
HasActiveJob(t, e) == \E j \in Jobs : HasStatus(t, j, Active) /\ t[j].entry = e

\* The table after UPDATE ... SET status = s on the row of job j.
WithStatus(t, j, s) == [t EXCEPT ![j].status = s]

\* The table after UPDATE ... SET status = 'queued' WHERE status = from.
Requeued(t, from) ==
  [j \in Jobs |-> IF t[j].status = from
                  THEN [t[j] EXCEPT !.status = "queued"] ELSE t[j]]

(***************************************************************************)
(* enqueueCreateFolder and enqueueUploadFile: INSERT OR IGNORE of a queued *)
(* row with a fresh id.  `Inserted' is the table when the index lets the   *)
(* row in; when it does not, the statement leaves the table alone.         *)
(***************************************************************************)
Inserted(t, j, e) == [t EXCEPT ![j] = [entry |-> e, status |-> "queued"]]

\* Mutant of EnqueueRow: the INSERT without the unique index.
EnqueueRowNoIndex(j, e) ==
  /\ rows[j] = NoRow
  /\ rows' = Inserted(rows, j, e)

EnqueueRow(j, e) ==
  /\ rows[j] = NoRow
  /\ UniqueActive(Inserted(rows, j, e))
  /\ rows' = Inserted(rows, j, e)

Init ==
  /\ rows = [j \in Jobs |-> NoRow]
  /\ claimed = {}
  /\ daemon = "down"

(***************************************************************************)
(* Enqueue is called by the daemon's loop and, for `sync run', by the      *)
(* thread of the IPC server, which is started before retryRunning.  That   *)
(* thread dies with the daemon, and with the model's granularity its       *)
(* enqueues between the start and retryRunning commute with retryRunning.  *)
(***************************************************************************)
Enqueue(e) ==
  /\ daemon = "up"
  /\ \E j \in Jobs : EnqueueRow(j, e)
  /\ UNCHANGED <<claimed, daemon>>

\* claimNextQueuedByType: select and mark running in one transaction.
Claim(j) ==
  /\ daemon = "up"
  /\ HasStatus(rows, j, {"queued"})
  /\ rows' = WithStatus(rows, j, "running")
  /\ claimed' = claimed \cup {j}
  /\ UNCHANGED daemon

\* markDone and markFailed, called by runTick for a job it claimed.  The
\* UPDATE names the row by id only; it does not look at the status.
Mark(j, s) ==
  /\ daemon = "up"
  /\ j \in claimed
  /\ rows' = WithStatus(rows, j, s)
  /\ claimed' = claimed \ {j}
  /\ UNCHANGED daemon

MarkDone(j) == Mark(j, "done")

\* Mutant of MarkFailed: a status that the schema does not have.
MarkFailedUnknown(j) == Mark(j, "error")

MarkFailed(j) == Mark(j, "failed")

\* Mutant of Start: the startup does not put interrupted jobs back.
StartNoRetry ==
  /\ daemon = "down"
  /\ daemon' = "up"
  /\ UNCHANGED <<rows, claimed>>

\* The daemon starts: retryRunning puts what a crash left running back.
Start ==
  /\ daemon = "down"
  /\ daemon' = "up"
  /\ rows' = Requeued(rows, "running")
  /\ UNCHANGED claimed

\* The process dies (a crash, a second signal, an exception that leaves the
\* main loop): the table survives, the claims in memory do not.
Crash ==
  /\ daemon = "up"
  /\ daemon' = "down"
  /\ claimed' = {}
  /\ UNCHANGED rows

(***************************************************************************)
(* The repository's maintenance operations.  The daemon of this commit     *)
(* does not call them; the `queue' commands of note.md and the tests do,   *)
(* and they may run at any time.                                           *)
(* retryFailed is one UPDATE: when the index rejects any row of it, the    *)
(* statement fails as a whole and the table stays as it was.               *)
(***************************************************************************)
RetryFailedResult(t) ==
  IF UniqueActive(Requeued(t, "failed")) THEN Requeued(t, "failed") ELSE t

RetryFailed ==
  /\ rows' = RetryFailedResult(rows)
  /\ UNCHANGED <<claimed, daemon>>

\* clearDone deletes the done rows.
ClearDone ==
  /\ rows' = [j \in Jobs |-> IF rows[j].status = "done" THEN NoRow ELSE rows[j]]
  /\ UNCHANGED <<claimed, daemon>>

DaemonNext ==
  \/ \E e \in Entries : Enqueue(e)
  \/ \E j \in Jobs : Claim(j) \/ MarkDone(j) \/ MarkFailed(j)
  \/ Start
  \/ Crash

MaintenanceNext ==
  \/ RetryFailed
  \/ ClearDone

Next == DaemonNext \/ MaintenanceNext

Spec == Init /\ [][Next]_queueVars

-----------------------------------------------------------------------------
(***************************************************************************)
(* Properties.                                                             *)
(***************************************************************************)

\* Every id maps to a row of the schema or to no row; claims are ids.
TypeOK ==
  /\ rows \in [Jobs -> Row \cup {NoRow}]
  /\ claimed \subseteq Jobs
  /\ daemon \in {"down", "up"}

\* No entry ever has two jobs queued or running, whatever sequence of
\* enqueues, crashes, restarts and retries led here: nothing is transferred
\* twice at once.  (QueueRepo and the index of the schema.)
OneActiveJobPerEntry == UniqueActive(rows)

\* While the daemon is up a row is running exactly when the daemon holds its
\* claim: no crash leaves a job running that nobody runs, and no retry or
\* clearing takes a job away from under the worker.
RunningIffClaimed ==
  daemon = "up" =>
    \A j \in Jobs : rows[j].status = "running" <=> j \in claimed

\* retryFailed does what its test says: after the call the failed jobs are
\* queued.  (A claim of the repository; the code does not keep it.)
RetryFailedRequeues ==
  \A j \in Jobs : rows[j].status = "failed" =>
                    RetryFailedResult(rows)[j].status = "queued"
=============================================================================
