---------------------------- MODULE SyncPolicy ----------------------------
(***************************************************************************)
(* SyncStateClassifier and SyncPolicy: what a row of the table entries     *)
(* says about the two sides of a path, and what the daemon does about it.  *)
(*                                                                         *)
(* A nullable column is a natural number with 0 for NULL: hashes, remote   *)
(* ids and timestamps are only ever compared for equality.                 *)
(***************************************************************************)
EXTENDS Naturals

NULL == 0

Mode == {"upload_only", "remote_mirror", "two_way"}

Decision ==
  {"noop", "upload", "download", "delete_local", "delete_remote", "conflict"}

\* The columns of an entry that classification reads, for columns with
\* values in Hash, Id and Time (each with NULL).
EntryRow(Hash, Id, Time) ==
  [contentHash           : Hash,
   syncedContentHash     : Hash,
   remoteId              : Id,
   remoteUpdatedAt       : Time,
   syncedRemoteUpdatedAt : Time,
   localDeleted          : BOOLEAN,   \* local_deleted_at is set
   remoteDeleted         : BOOLEAN,   \* remote_deleted_at is set
   conflict              : BOOLEAN]   \* conflict_state is not 'none'

\* A row the scanner has just inserted for a file with content hash h (or
\* for a directory, whose hash is NULL).
NewRow(h) ==
  [contentHash |-> h, syncedContentHash |-> NULL, remoteId |-> NULL,
   remoteUpdatedAt |-> NULL, syncedRemoteUpdatedAt |-> NULL,
   localDeleted |-> FALSE, remoteDeleted |-> FALSE, conflict |-> FALSE]

Classify(e) ==
  [localExists   |-> ~e.localDeleted,
   remoteExists  |-> e.remoteId # NULL /\ ~e.remoteDeleted,
   localDeleted  |-> e.localDeleted,
   remoteDeleted |-> e.remoteDeleted,
   localDirty    |-> ~e.localDeleted /\ e.contentHash # e.syncedContentHash,
   remoteDirty   |-> ~e.remoteDeleted
                     /\ e.remoteUpdatedAt # e.syncedRemoteUpdatedAt,
   hasConflict   |-> e.conflict]

DecideUploadOnly(s) ==
  IF s.hasConflict \/ (s.localDeleted /\ s.remoteDirty) THEN "conflict"
  ELSE IF s.localDeleted /\ s.remoteExists THEN "delete_remote"
  ELSE IF s.localExists /\ (~s.remoteExists \/ s.localDirty) THEN "upload"
  ELSE "noop"

DecideRemoteMirror(s) ==
  IF s.hasConflict \/ (s.remoteDeleted /\ s.localDirty) THEN "conflict"
  ELSE IF s.remoteDeleted /\ s.localExists THEN "delete_local"
  ELSE IF s.remoteExists /\ (~s.localExists \/ s.remoteDirty) THEN "download"
  ELSE "noop"

\* Both sides changed, or one changed what the other deleted.
Diverged(s) ==
  \/ s.localDeleted /\ s.remoteDirty
  \/ s.remoteDeleted /\ s.localDirty
  \/ s.localDirty /\ s.remoteDirty

DecideTwoWay(s) ==
  IF s.hasConflict \/ Diverged(s) THEN "conflict"
  ELSE IF s.localDeleted /\ s.remoteExists THEN "delete_remote"
  ELSE IF s.remoteDeleted /\ s.localExists THEN "delete_local"
  ELSE IF s.localExists /\ ~s.remoteExists THEN "upload"
  ELSE IF s.remoteExists /\ ~s.localExists THEN "download"
  ELSE IF s.localExists /\ s.localDirty THEN "upload"
  ELSE IF s.remoteExists /\ s.remoteDirty THEN "download"
  ELSE "noop"

Decide(s, mode) ==
  CASE mode = "upload_only"   -> DecideUploadOnly(s)
    [] mode = "remote_mirror" -> DecideRemoteMirror(s)
    [] mode = "two_way"       -> DecideTwoWay(s)

\* The decision for an entry row.
DecideRow(e, mode) == Decide(Classify(e), mode)
=============================================================================
