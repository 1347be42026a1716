-------------------------- MODULE LocalScanProofs --------------------------
(***************************************************************************)
(* The safety of local scans for every number of paths, batch size, queue  *)
(* limit, number of changes and of crashes: no change is forgotten, except *)
(* changes of the time when the daemon was down that an interrupted scan   *)
(* job has left behind its cursor.                                         *)
(***************************************************************************)
EXTENDS LocalScan, TLAPS

-----------------------------------------------------------------------------
(***************************************************************************)
(* Types.                                                                  *)
(***************************************************************************)

\* Replacing the status of a row of dirty_paths.
LEMMA StatusSet ==
  ASSUME NEW q \in Seq(DirtyRow), NEW i \in DOMAIN q, NEW s \in Statuses
  PROVE  LET u == [q EXCEPT ![i] = [path |-> q[i].path, status |-> s]]
         IN  /\ u \in Seq(DirtyRow) /\ DOMAIN u = DOMAIN q
             /\ u[i].path = q[i].path /\ u[i].status = s
             /\ \A j \in DOMAIN q : j # i => u[j] = q[j]
<1> DEFINE r == [path |-> q[i].path, status |-> s]
<1>1. r \in DirtyRow /\ r.path = q[i].path /\ r.status = s
  <2>1. q[i] \in DirtyRow
    OBVIOUS
  <2> QED BY <2>1 DEF DirtyRow
<1> HIDE DEF r
<1>2. /\ [q EXCEPT ![i] = r] \in Seq(DirtyRow)
      /\ DOMAIN [q EXCEPT ![i] = r] = DOMAIN q
      /\ [q EXCEPT ![i] = r][i] = r
      /\ \A j \in DOMAIN q : j # i => [q EXCEPT ![i] = r][j] = q[j]
  BY <1>1
<1> QED BY <1>1, <1>2 DEF r

\* A row and the rows a new job finds have their type.
LEMMA RowTypes ==
  ASSUME TypeOK
  PROVE  /\ \A h \in Nat, d \in BOOLEAN, s \in BOOLEAN : Row(h, d, s) \in RowType
         /\ NotSeen \in [Paths -> RowType]
BY DEF TypeOK, DbTypes, Row, RowType, NotSeen

\* Inserting a row: the others stay, and there is a pending row of the path.
LEMMA Inserted ==
  ASSUME dirty \in Seq(DirtyRow), NEW p \in Paths \cup {AllPaths},
         InsertDirtyPath(p)
  PROVE  /\ dirty' \in Seq(DirtyRow)
         /\ DOMAIN dirty \subseteq DOMAIN dirty'
         /\ \A i \in DOMAIN dirty : dirty'[i] = dirty[i]
         /\ \E i \in DOMAIN dirty' :
              dirty'[i].path = p /\ dirty'[i].status = "pending"
<1>1. CASE dirty' = dirty
  BY <1>1 DEF InsertDirtyPath, DirtyRow
<1>2. CASE dirty' = Append(dirty, [path |-> p, status |-> "pending"])
  <2>1. [path |-> p, status |-> "pending"] \in DirtyRow
    BY DEF DirtyRow, Statuses
  <2>2. /\ dirty' \in Seq(DirtyRow) /\ Len(dirty') = Len(dirty) + 1
        /\ Len(dirty) \in Nat
        /\ \A i \in DOMAIN dirty : dirty'[i] = dirty[i]
        /\ dirty'[Len(dirty) + 1] = [path |-> p, status |-> "pending"]
    BY <1>2, <2>1
  <2>3. Len(dirty) + 1 \in DOMAIN dirty'
    BY <2>2
  <2> QED BY <2>2, <2>3
<1> QED BY <1>1, <1>2 DEF InsertDirtyPath

LEMMA TypeInit == Init => TypeOK
<1> SUFFICES ASSUME Init PROVE TypeOK
  OBVIOUS
<1>1. table \in [Paths -> RowType]
  BY DEF Init, NoRow, Row, RowType
<1>2. saved \in SavedType
  BY <1>1 DEF Init, NoTransaction, SavedType, Cursors
<1>3. UserTypes
  <2>1. disk \in [Paths -> Nat]
    BY DEF Init
  <2>2. overflow \in BOOLEAN
    BY DEF Init
  <2> QED BY <2>1, <2>2 DEF Init, UserTypes
<1>4. DbTypes
  BY <1>1 DEF Init, DbTypes, Cursors
<1>5. ScanTypes
  BY <1>2, ScanAssumption DEF Init, ScanTypes, Cursors
<1>6. LoopTypes
  BY ScanAssumption DEF Init, LoopTypes, Places
<1>7. HistoryTypes
  BY DEF Init, HistoryTypes
<1>8. OpenWhere
  BY DEF Init, OpenWhere
<1> QED BY <1>3, <1>4, <1>5, <1>6, <1>7, <1>8 DEF TypeOK

\* What a step does not change keeps its type.
LEMMA Frame ==
  ASSUME TypeOK
  PROVE  /\ UNCHANGED userVars => UserTypes'
         /\ UNCHANGED scanVars => ScanTypes'
         /\ UNCHANGED history => HistoryTypes'
         /\ UNCHANGED dbVars => DbTypes'
         /\ NoTransaction \in SavedType
<1>1. UNCHANGED userVars => UserTypes'
  BY DEF TypeOK, UserTypes, userVars
<1>2. UNCHANGED scanVars => ScanTypes'
  BY DEF TypeOK, ScanTypes, scanVars
<1>3. UNCHANGED history => HistoryTypes'
  BY DEF TypeOK, HistoryTypes, history
<1>4. UNCHANGED dbVars => DbTypes'
  BY DEF TypeOK, DbTypes, dbVars
<1>5. NoTransaction \in SavedType
  BY DEF NoTransaction, SavedType, NoRow, Row, RowType, Cursors
<1> QED BY <1>1, <1>2, <1>3, <1>4, <1>5

LEMMA TypeNext == TypeOK /\ [Next]_vars => TypeOK'
<1> SUFFICES ASSUME TypeOK, [Next]_vars PROVE TypeOK'
  OBVIOUS
<1> USE ScanAssumption
<1>0. dirty \in Seq(DirtyRow)
  BY DEF TypeOK, DbTypes
<1>1. ASSUME NEW p \in Paths, Save(p) \/ Remove(p) \/ Chmod(p) PROVE TypeOK'
  <2>0. Change(p) /\ UserTypes /\ ScanTypes /\ HistoryTypes
    BY <1>1 DEF Save, Remove, Chmod, TypeOK
  <2>1. events' \subseteq Paths /\ overflow' \in BOOLEAN
    BY <2>0 DEF Change, Notify, UserTypes
  <2>2. changes' \in Nat /\ changes + 2 \in Nat
    BY <2>0 DEF Change, UserTypes
  <2>3. disk' \in [Paths -> Nat] /\ locked' \subseteq Paths
    BY <1>1, <2>0, <2>2 DEF Save, Remove, Chmod, UserTypes
  <2>4. UserTypes'
    BY <2>1, <2>2, <2>3 DEF UserTypes
  <2>5. added' \subseteq Paths
    BY <1>1, <2>0 DEF Save, Remove, Chmod, ScanTypes
  <2>6. ScanTypes'
    BY <2>0, <2>5 DEF Change, ScanTypes
  <2>7. unseen' \subseteq Paths
    BY <2>0 DEF Change, Notify, HistoryTypes
  <2>8. HistoryTypes'
    BY <2>0, <2>7 DEF Change, HistoryTypes
  <2>9. DbTypes' /\ LoopTypes' /\ OpenWhere'
    BY <2>0 DEF Change, TypeOK, DbTypes, LoopTypes, OpenWhere, dbVars, loopVars
  <2> QED BY <2>4, <2>6, <2>8, <2>9 DEF TypeOK
<1>2. CASE Start
  <2>1. UserTypes' /\ DbTypes' /\ ScanTypes' /\ HistoryTypes'
    BY <1>2, Frame DEF Start
  <2>2. LoopTypes' /\ OpenWhere'
    BY <1>2 DEF Start, TypeOK, LoopTypes, OpenWhere, Places, dbVars, scanVars
  <2> QED BY <2>1, <2>2 DEF TypeOK
<1>3. CASE BeginBatch
  <2>1. table' \in [Paths -> RowType] /\ job' \in Cursors
    BY <1>3, RowTypes DEF BeginBatch, TypeOK, DbTypes, Cursors
  <2>2. PositionAfterCursor \in Cursors /\ PositionAfterCursor # None
    BY DEF PositionAfterCursor, None, Paths, Cursors
  <2>3. iterator' \in Cursors /\ added' \subseteq Paths
    BY <1>3, <2>2 DEF BeginBatch, TypeOK, ScanTypes
  <2>4. iterator' # None /\ job' # None
    BY <1>3, <2>2 DEF BeginBatch, None
  <2>5. saved' \in SavedType
    BY <1>3 DEF BeginBatch, TypeOK, DbTypes, HistoryTypes, SavedType
  <2>6. ScanTypes' /\ DbTypes' /\ UserTypes'
    <3>1. UserTypes'
      BY <1>3, Frame DEF BeginBatch
    <3> QED BY <1>3, <2>1, <2>3, <2>5, <3>1
          DEF BeginBatch, TypeOK, ScanTypes, DbTypes
  <2>7. resumed' \in BOOLEAN
    <3>1. CASE iterator = None
      <4>1. resumed' = (job \in Paths)
        BY <1>3, <3>1 DEF BeginBatch
      <4>2. CASE job \in Paths
        BY <4>1, <4>2
      <4>3. CASE job \notin Paths
        BY <4>1, <4>3
      <4> QED BY <4>2, <4>3
    <3>2. CASE iterator # None
      BY <1>3, <3>2 DEF BeginBatch, TypeOK, HistoryTypes
    <3> QED BY <3>1, <3>2
  <2>8. HistoryTypes'
    BY <1>3, <2>7 DEF BeginBatch, TypeOK, HistoryTypes
  <2>9. LoopTypes' /\ OpenWhere'
    BY <1>3, <2>4 DEF BeginBatch, TypeOK, LoopTypes, OpenWhere, Places
  <2> QED BY <2>6, <2>8, <2>9 DEF TypeOK
<1>4. ASSUME NEW q \in Paths, Visit(q) PROVE TypeOK'
  <2>1. FileRow(q, TRUE) \in RowType
    BY RowTypes DEF FileRow, TypeOK, UserTypes
  <2>2. table' \in [Paths -> RowType] /\ job' \in Cursors /\ batch' \in 0 .. BatchSize
    <3>1. table' \in [Paths -> RowType]
      BY <1>4, <2>1 DEF Visit, TypeOK, DbTypes
    <3>2. batch' \in 0 .. BatchSize
      BY <1>4 DEF Visit, NextEntry, TypeOK, ScanTypes
    <3> QED BY <1>4, <3>1, <3>2 DEF Visit, Cursors
  <2>3. job' # None /\ iterator' # None
    BY <1>4 DEF Visit, None, Paths
  <2>4. DbTypes' /\ ScanTypes'
    BY <1>4, <2>2 DEF Visit, TypeOK, DbTypes, ScanTypes, Cursors
  <2>5. UserTypes' /\ HistoryTypes' /\ LoopTypes'
    <3>1. UserTypes'
      BY <1>4, Frame DEF Visit
    <3>2. HistoryTypes'
      BY <1>4 DEF Visit, TypeOK, HistoryTypes
    <3> QED BY <1>4, <3>1, <3>2 DEF Visit, TypeOK, LoopTypes, loopVars
  <2>6. OpenWhere'
    BY <1>4, <2>3 DEF Visit, TypeOK, OpenWhere, loopVars
  <2> QED BY <2>4, <2>5, <2>6 DEF TypeOK
<1>5. CASE EndBatch
  <2>1. UserTypes' /\ DbTypes' /\ HistoryTypes' /\ NoTransaction \in SavedType
    BY <1>5, Frame DEF EndBatch
  <2>2. ScanTypes'
    BY <1>5, <2>1 DEF EndBatch, TypeOK, ScanTypes
  <2>3. LoopTypes' /\ OpenWhere'
    BY <1>5 DEF EndBatch, TypeOK, LoopTypes, OpenWhere, Places, dbVars
  <2> QED BY <2>1, <2>2, <2>3 DEF TypeOK
<1>6. CASE CompleteScan
  <2>1. UserTypes' /\ NoTransaction \in SavedType
    BY <1>6, Frame DEF CompleteScan
  <2>2. table' \in [Paths -> RowType]
    BY <1>6 DEF CompleteScan, MarkNotSeenDeleted, TypeOK, DbTypes, Row, RowType
  <2>3. DbTypes' /\ ScanTypes'
    BY <1>6, <2>1, <2>2 DEF CompleteScan, TypeOK, DbTypes, ScanTypes, Cursors
  <2>4. HistoryTypes'
    BY <1>6 DEF CompleteScan, TypeOK, HistoryTypes
  <2>5. LoopTypes' /\ OpenWhere'
    BY <1>6 DEF CompleteScan, TypeOK, LoopTypes, OpenWhere, Places
  <2> QED BY <2>1, <2>3, <2>4, <2>5 DEF TypeOK
<1>7. ASSUME NEW p \in Paths, Record(p) PROVE TypeOK'
  <2>1. dirty' \in Seq(DirtyRow) /\ DOMAIN dirty \subseteq DOMAIN dirty'
    BY <1>0, <1>7, Inserted DEF Record
  <2>2. DbTypes' /\ LoopTypes' /\ OpenWhere'
    BY <1>7, <2>1
    DEF Record, TypeOK, DbTypes, LoopTypes, OpenWhere, loopVars, scanVars
  <2>3. ScanTypes' /\ HistoryTypes'
    BY <1>7, Frame DEF Record
  <2>4. UserTypes'
    BY <1>7 DEF Record, TypeOK, UserTypes
  <2> QED BY <2>2, <2>3, <2>4 DEF TypeOK
<1>8. CASE RecordOverflow
  <2>1. dirty' \in Seq(DirtyRow) /\ DOMAIN dirty \subseteq DOMAIN dirty'
    BY <1>0, <1>8, Inserted DEF RecordOverflow
  <2>2. DbTypes' /\ LoopTypes' /\ OpenWhere'
    BY <1>8, <2>1
    DEF RecordOverflow, TypeOK, DbTypes, LoopTypes, OpenWhere, loopVars, scanVars
  <2>3. ScanTypes' /\ HistoryTypes'
    BY <1>8, Frame DEF RecordOverflow
  <2>4. UserTypes'
    BY <1>8 DEF RecordOverflow, TypeOK, UserTypes
  <2> QED BY <2>2, <2>3, <2>4 DEF TypeOK
<1>9. CASE Polled
  <2>1. UserTypes' /\ DbTypes' /\ ScanTypes' /\ HistoryTypes'
    BY <1>9, Frame DEF Polled
  <2>2. LoopTypes' /\ OpenWhere'
    BY <1>9 DEF Polled, TypeOK, LoopTypes, OpenWhere, Places, dbVars, scanVars
  <2> QED BY <2>1, <2>2 DEF TypeOK
<1>10. CASE ClaimNextPending
  <2>1. PICK i \in DOMAIN dirty : SetStatus(i, "running") /\ current' = i
    BY <1>10 DEF ClaimNextPending, Claimable
  <2>2. dirty' \in Seq(DirtyRow) /\ DOMAIN dirty' = DOMAIN dirty /\ i # 0
    <3>1. "running" \in Statuses /\ i # 0
      BY <1>0 DEF Statuses
    <3> QED BY <1>0, <2>1, <3>1, StatusSet DEF SetStatus
  <2>3. UserTypes' /\ ScanTypes' /\ HistoryTypes'
    BY <1>10, Frame DEF ClaimNextPending
  <2>4. claims' \in 0 .. MaxClaims
    BY <1>10 DEF ClaimNextPending, TypeOK, LoopTypes
  <2>5. DbTypes' /\ LoopTypes' /\ OpenWhere'
    BY <1>10, <2>1, <2>2, <2>4
    DEF ClaimNextPending, TypeOK, DbTypes, LoopTypes, OpenWhere, Places, scanVars
  <2> QED BY <2>3, <2>5 DEF TypeOK
<1>11. CASE EndTick
  <2>1. UserTypes' /\ DbTypes' /\ ScanTypes' /\ HistoryTypes'
    BY <1>11, Frame DEF EndTick
  <2>2. LoopTypes' /\ OpenWhere'
    BY <1>11 DEF EndTick, TypeOK, LoopTypes, OpenWhere, Places, dbVars, scanVars
  <2> QED BY <2>1, <2>2 DEF TypeOK
<1>12. CASE ScanPath
  <2> DEFINE p == dirty[current].path
  <2>1. p \in Paths
    <3>1. current \in DOMAIN dirty
      BY <1>12 DEF ScanPath, TypeOK, LoopTypes, OpenWhere
    <3>2. dirty[current] \in DirtyRow
      BY <1>0, <3>1
    <3> QED BY <1>12, <3>2 DEF ScanPath, DirtyRow
  <2>2. table' \in [Paths -> RowType]
    <3> HIDE DEF p
    <3>1. \/ table' = [table EXCEPT ![p] =
                         Row(table[p].hash, table[p].hash # 0, table[p].seen)]
          \/ table' = [table EXCEPT ![p] = FileRow(p, FALSE)]
      BY <1>12 DEF ScanPath, p
    <3>2. table \in [Paths -> RowType]
      BY DEF TypeOK, DbTypes
    <3>3. FileRow(p, FALSE) \in RowType
      BY <2>1, RowTypes DEF FileRow, TypeOK, UserTypes
    <3>4. Row(table[p].hash, table[p].hash # 0, table[p].seen) \in RowType
      BY <2>1, <3>2 DEF Row, RowType
    <3> QED BY <2>1, <3>1, <3>2, <3>3, <3>4
  <2>3. UserTypes' /\ ScanTypes'
    BY <1>12, Frame DEF ScanPath
  <2>4. HistoryTypes'
    BY <1>12 DEF ScanPath, TypeOK, HistoryTypes
  <2>5. DbTypes' /\ LoopTypes' /\ OpenWhere'
    BY <1>12, <2>2
    DEF ScanPath, TypeOK, DbTypes, LoopTypes, OpenWhere, Places, scanVars
  <2> QED BY <2>3, <2>4, <2>5 DEF TypeOK
<1>13. CASE ScanPathFails
  <2>1. current \in DOMAIN dirty
    BY <1>13 DEF ScanPathFails, TypeOK, LoopTypes, OpenWhere
  <2>2. dirty' \in Seq(DirtyRow) /\ DOMAIN dirty' = DOMAIN dirty
    <3>1. "failed" \in Statuses
      BY DEF Statuses
    <3> QED BY <1>0, <1>13, <2>1, <3>1, StatusSet DEF ScanPathFails, SetStatus
  <2>3. UserTypes' /\ ScanTypes' /\ HistoryTypes'
    BY <1>13, Frame DEF ScanPathFails
  <2>4. DbTypes' /\ LoopTypes' /\ OpenWhere'
    BY <1>13, <2>2
    DEF ScanPathFails, TypeOK, DbTypes, LoopTypes, OpenWhere, Places, scanVars
  <2> QED BY <2>3, <2>4 DEF TypeOK
<1>14. CASE FullRescan
  <2>1. table' \in [Paths -> RowType] /\ job' \in Cursors
        /\ (iterator # None => job' # None)
    BY <1>14, RowTypes DEF FullRescan, TypeOK, DbTypes, OpenWhere, Cursors, None
  <2>2. UserTypes' /\ ScanTypes' /\ HistoryTypes'
    BY <1>14, Frame DEF FullRescan
  <2>3. DbTypes' /\ LoopTypes' /\ OpenWhere'
    BY <1>14, <2>1
    DEF FullRescan, TypeOK, DbTypes, LoopTypes, OpenWhere, Places, scanVars
  <2> QED BY <2>2, <2>3 DEF TypeOK
<1>15. CASE Finish
  <2>1. current \in DOMAIN dirty
    BY <1>15 DEF Finish, TypeOK, LoopTypes, OpenWhere
  <2>2. dirty' \in Seq(DirtyRow) /\ DOMAIN dirty' = DOMAIN dirty
    <3>1. "failed" \in Statuses /\ "done" \in Statuses
      BY DEF Statuses
    <3>2. PICK s \in Statuses : SetStatus(current, s)
      BY <1>15, <3>1 DEF Finish
    <3> QED BY <1>0, <2>1, <3>2, StatusSet DEF SetStatus
  <2>3. UserTypes' /\ ScanTypes' /\ HistoryTypes'
    BY <1>15, Frame DEF Finish
  <2>4. DbTypes' /\ LoopTypes' /\ OpenWhere'
    BY <1>15, <2>2
    DEF Finish, TypeOK, DbTypes, LoopTypes, OpenWhere, Places, scanVars
  <2> QED BY <2>3, <2>4 DEF TypeOK
<1>16. ASSUME Down, crashes' \in Nat PROVE TypeOK'
  <2>1. NoTransaction \in SavedType
    BY Frame
  <2>2. table' \in [Paths -> RowType] /\ job' \in Cursors
    BY <1>16 DEF Down, TypeOK, DbTypes, ScanTypes, SavedType
  <2>3. DbTypes' /\ ScanTypes'
    BY <1>16, <2>1, <2>2 DEF Down, TypeOK, DbTypes, ScanTypes, Cursors
  <2>4. unseen' \subseteq Paths
    <3>1. saved.unseen \subseteq Paths /\ unseen \subseteq Paths /\ events \subseteq Paths
      BY DEF TypeOK, ScanTypes, SavedType, HistoryTypes, UserTypes
    <3> QED BY <1>16, <3>1 DEF Down
  <2>5. HistoryTypes'
    BY <1>16, <2>4 DEF Down, TypeOK, HistoryTypes
  <2>6. UserTypes'
    BY <1>16 DEF Down, TypeOK, UserTypes
  <2>7. LoopTypes' /\ OpenWhere'
    BY <1>16 DEF Down, TypeOK, LoopTypes, OpenWhere, Places
  <2> QED BY <2>3, <2>5, <2>6, <2>7 DEF TypeOK
<1>17. CASE UNCHANGED vars
  <2>1. UserTypes' /\ DbTypes' /\ ScanTypes' /\ HistoryTypes'
    BY <1>17, Frame DEF vars
  <2>2. LoopTypes' /\ OpenWhere'
    BY <1>17 DEF vars, TypeOK, LoopTypes, OpenWhere, dbVars, scanVars, loopVars
  <2> QED BY <2>1, <2>2 DEF TypeOK
<1>18. CASE Crash \/ \E q \in Paths : VisitThrows(q)
  <2>1. Down /\ crashes' \in Nat
    BY <1>18 DEF Crash, VisitThrows, TypeOK, HistoryTypes
  <2> QED BY <1>16, <2>1
<1>19. ASSUME NEW p \in Remote, NEW d \in BOOLEAN, RemoteScan(p, d) PROVE TypeOK'
  <2>1. p \in Paths
    BY DEF Paths
  <2>2. Row(table[p].hash, d, table[p].seen) \in RowType
    BY <2>1 DEF TypeOK, DbTypes, Row, RowType
  <2>3. DbTypes'
    BY <1>19, <2>2 DEF RemoteScan, TypeOK, DbTypes
  <2>4. UserTypes' /\ ScanTypes'
    BY <1>19, Frame DEF RemoteScan
  <2>5. HistoryTypes'
    BY <1>19, <2>1 DEF RemoteScan, TypeOK, HistoryTypes
  <2>6. LoopTypes' /\ OpenWhere'
    BY <1>19 DEF RemoteScan, TypeOK, LoopTypes, OpenWhere, loopVars, scanVars
  <2> QED BY <2>3, <2>4, <2>5, <2>6 DEF TypeOK
<1> QED
  BY <1>1, <1>2, <1>3, <1>4, <1>5, <1>6, <1>7, <1>8, <1>9, <1>10, <1>11, <1>12,
     <1>13, <1>14, <1>15, <1>17, <1>18, <1>19
  DEF Next, User, Server, Daemon, Scan, Watch, ServeDirty

\* The types, and what the loop of PollingDaemon has open where: an iterator
\* only with a running scan job, a claimed row only while it is served.
THEOREM TypeCorrect == Spec => []TypeOK
BY TypeInit, TypeNext, PTL DEF Spec

-----------------------------------------------------------------------------
(***************************************************************************)
(* The inductive invariant.                                                *)
(***************************************************************************)

\* The part of the listing that is behind the scan: up to the iterator, or up
\* to the cursor when none is open.
Reach == IF iterator = None THEN job ELSE iterator

\* Row p of t needs no more than what the running job does when it has passed
\* the paths up to reach: a row seen by the job is up to date, and a path not
\* seen is ahead, or rightly marked as deleted at the end.
Safe(t, reach, p) ==
  IF t[p].seen
  THEN disk[p] # 0 /\ t[p].hash = disk[p] /\ (~t[p].deleted \/ p \in rewritten)
  ELSE p > reach \/ disk[p] = 0

\* While a job is running every other path is told or is an exception.
ScanCovers ==
  job # None =>
    \A p \in Paths : Safe(table, Reach, p) \/ Told(p) \/ p \in unseen

\* So it would be after a rollback of the open transaction.
RollbackCovers ==
  pc = "batch" /\ saved.job # None =>
    \A p \in Paths : Safe(saved.table, saved.job, p) \/ Told(p) \/ p \in saved.unseen

\* A file that the iterator may miss is told.
AddedTold == iterator # None => \A p \in added : Told(p)

\* A committed cursor is not ahead of the open iterator.
CursorBehind == iterator # None /\ (pc # "batch" \/ batch > 0) => job <= iterator

\* Rows are served while no scan is under way, a claimed row is running.
ServingApart ==
  /\ pc \in {"claim", "claimed", "handled"} => job \in {None, 0} /\ iterator = None
  /\ pc \in {"down", "started"} => iterator = None
  /\ pc \in {"claimed", "handled"} => dirty[current].status = "running"

\* A job without a cursor has seen nothing.
NewJobSawNothing ==
  /\ job = 0 => \A p \in Paths : ~table[p].seen
  /\ pc = "batch" /\ saved.job = 0 => \A p \in Paths : ~saved.table[p].seen

\* The exceptions of a job that began anew are ahead of it.
FreshAhead ==
  iterator # None /\ ~resumed => \A p \in unseen : p > iterator /\ ~table[p].seen

IInv ==
  /\ TypeOK
  /\ ScanCovers /\ RollbackCovers /\ AddedTold /\ NothingForgotten
  /\ CursorBehind /\ ServingApart /\ NewJobSawNothing
  /\ FreshAhead /\ FreshScanSeesAll

-----------------------------------------------------------------------------
(***************************************************************************)
(* What the steps do to what is told.                                      *)
(***************************************************************************)

\* No path stops being told.
KeepsTold == \A r \in Paths : Told(r) => Told(r)'

\* Steps that touch neither events nor rows, outside of serving.
LEMMA ToldSame ==
  ASSUME UNCHANGED <<events, overflow, dirty>>, pc # "claimed"
  PROVE  KeepsTold
BY DEF Told, KeepsTold

\* A change is told while the daemon is up, and hides no other.
LEMMA ToldChange ==
  ASSUME TypeOK, NEW p \in Paths, Change(p)
  PROVE  /\ KeepsTold
         /\ pc # "down" => Told(p)' /\ unseen' = unseen
         /\ pc = "down" => unseen' = unseen \cup {p}
<1>1. UNCHANGED <<dirty, current, pc>>
  BY DEF Change, dbVars, loopVars
<1>2. events \subseteq events' /\ (overflow => overflow')
  BY DEF Change, Notify
<1>3. pc # "down" => (p \in events' \/ overflow') /\ unseen' = unseen
  BY DEF Change, Notify
<1>4. pc = "down" => unseen' = unseen \cup {p}
  BY DEF Change, Notify
<1>5. KeepsTold
  BY <1>1, <1>2 DEF Told, KeepsTold
<1>6. p \in events' \/ overflow' => Told(p)'
  BY DEF Told
<1> QED BY <1>3, <1>4, <1>5, <1>6

\* record turns an event into a row.
LEMMA ToldRecord ==
  ASSUME TypeOK, (\E p \in Paths : Record(p)) \/ RecordOverflow
  PROVE  KeepsTold
<1> SUFFICES ASSUME NEW r \in Paths, Told(r) PROVE Told(r)'
  BY DEF KeepsTold
<1>0. dirty \in Seq(DirtyRow) /\ UNCHANGED <<pc, current>>
  BY DEF TypeOK, DbTypes, Record, RecordOverflow, loopVars
<1>1. ASSUME NEW p \in Paths, Record(p) PROVE Told(r)'
  <2>1. /\ DOMAIN dirty \subseteq DOMAIN dirty'
        /\ \A i \in DOMAIN dirty : dirty'[i] = dirty[i]
        /\ \E i \in DOMAIN dirty' : dirty'[i].path = p /\ dirty'[i].status = "pending"
    BY <1>0, <1>1, Inserted DEF Record
  <2>2. events' = events \ {p} /\ overflow' = overflow
    BY <1>1 DEF Record
  <2> QED BY <1>0, <2>1, <2>2 DEF Told
<1>2. ASSUME RecordOverflow PROVE Told(r)'
  <2>1. \E i \in DOMAIN dirty' :
          dirty'[i].path = AllPaths /\ dirty'[i].status = "pending"
    BY <1>0, <1>2, Inserted DEF RecordOverflow
  <2> QED BY <2>1 DEF Told
<1> QED BY <1>1, <1>2

\* A claimed row still stands for its path.
LEMMA ToldClaim ==
  ASSUME TypeOK, ClaimNextPending
  PROVE  KeepsTold /\ dirty'[current'].status = "running"
<1>0. dirty \in Seq(DirtyRow) /\ UNCHANGED <<events, overflow>> /\ pc' = "claimed"
  BY DEF TypeOK, DbTypes, ClaimNextPending, userVars
<1>1. PICK i \in DOMAIN dirty : SetStatus(i, "running") /\ current' = i
  BY DEF ClaimNextPending, Claimable
<1>2. "running" \in Statuses
  BY DEF Statuses
<1>3. /\ DOMAIN dirty' = DOMAIN dirty
      /\ dirty'[i].path = dirty[i].path /\ dirty'[i].status = "running"
      /\ \A j \in DOMAIN dirty : j # i => dirty'[j] = dirty[j]
  BY <1>0, <1>1, <1>2, StatusSet DEF SetStatus
<1>4. pc # "claimed"
  BY DEF ClaimNextPending
<1> QED BY <1>0, <1>1, <1>3, <1>4 DEF Told, KeepsTold

\* Serving a row ends what this row told.
LEMMA ToldServed ==
  ASSUME UNCHANGED <<events, overflow, dirty, current>>, pc = "claimed",
         NEW r \in Paths, Told(r)
  PROVE  Told(r)' \/ dirty[current].path \in {r, AllPaths}
BY DEF Told

\* A row that fails goes on telling, a row that is done no longer told.
LEMMA ToldFinish ==
  ASSUME TypeOK, ServingApart, ScanPathFails \/ Finish
  PROVE  KeepsTold
<1>0. /\ dirty \in Seq(DirtyRow) /\ UNCHANGED <<events, overflow>>
      /\ current \in DOMAIN dirty
      /\ dirty[current].status = "running"
  BY DEF TypeOK, DbTypes, LoopTypes, OpenWhere, ServingApart, ScanPathFails, Finish,
         userVars
<1>1. PICK s \in {"failed", "done"} : SetStatus(current, s) /\ (pc = "claimed" => s = "failed")
  BY DEF ScanPathFails, Finish
<1>2. s \in Statuses
  BY DEF Statuses
<1>3. /\ DOMAIN dirty' = DOMAIN dirty
      /\ dirty'[current].path = dirty[current].path /\ dirty'[current].status = s
      /\ \A j \in DOMAIN dirty : j # current => dirty'[j] = dirty[j]
  BY <1>0, <1>1, <1>2, StatusSet DEF SetStatus
<1> QED BY <1>0, <1>1, <1>3 DEF Told, KeepsTold

\* The end of the process makes exceptions of what was told in memory only.
LEMMA ToldDown ==
  ASSUME Down, NEW r \in Paths, Told(r)
  PROVE  Told(r)' \/ r \in unseen'
<1>1. CASE r \in events \/ overflow
  BY <1>1 DEF Down
<1>2. CASE \E i \in DOMAIN dirty :
             /\ dirty[i].path \in {r, AllPaths}
             /\ dirty[i].status \in {"pending", "failed"}
  BY <1>2 DEF Down, Told
<1>3. CASE pc = "claimed" /\ dirty[current].path \in {r, AllPaths}
  BY <1>3 DEF Down
<1> QED BY <1>1, <1>2, <1>3 DEF Told

-----------------------------------------------------------------------------
(***************************************************************************)
(* The invariant holds initially and is kept by every step.                *)
(***************************************************************************)

LEMMA InvInit == Init => IInv
<1> SUFFICES ASSUME Init PROVE IInv
  OBVIOUS
<1>1. TypeOK
  BY TypeInit
<1>2. job = None /\ iterator = None /\ pc = "down" /\ None # 0
  BY DEF Init, None
<1> QED
  BY <1>1, <1>2
  DEF IInv, ScanCovers, RollbackCovers, AddedTold, NothingForgotten, CursorBehind,
      ServingApart, NewJobSawNothing, FreshAhead, FreshScanSeesAll, Serving

\* The paths other than p keep what the invariant says of them in a step of the
\* user, and p becomes told or an exception.
LEMMA InvUser ==
  ASSUME IInv, NEW p \in Paths, Save(p) \/ Remove(p) \/ Chmod(p)
  PROVE  ScanCovers' /\ RollbackCovers' /\ AddedTold' /\ NothingForgotten'
<1>1. /\ TypeOK /\ Change(p)
      /\ UNCHANGED <<table, job, dirty, iterator, saved, batch, pc, current, rewritten>>
  BY DEF IInv, Save, Remove, Chmod, Change, dbVars, loopVars
<1>2. \A r \in Paths : r # p => disk'[r] = disk[r]
  BY <1>1 DEF Save, Remove, Chmod, TypeOK, UserTypes
<1>3. added' \subseteq added \cup {p} /\ (iterator = None => added' = added)
  BY DEF Save, Remove, Chmod
<1>4. /\ KeepsTold
      /\ pc # "down" => Told(p)' /\ unseen' = unseen
      /\ pc = "down" => unseen' = unseen \cup {p}
  BY <1>1, ToldChange
<1>5. Reach' = Reach /\ Reach \in Cursors /\ saved.job \in Cursors
  BY <1>1 DEF Reach, TypeOK, DbTypes, ScanTypes, SavedType
<1>6. ScanCovers'
  <2> SUFFICES ASSUME job' # None, NEW r \in Paths
               PROVE  Safe(table, Reach, r)' \/ Told(r)' \/ r \in unseen'
    BY DEF ScanCovers
  <2>1. Safe(table, Reach, r) \/ Told(r) \/ r \in unseen
    BY <1>1 DEF IInv, ScanCovers
  <2>2. CASE r = p
    BY <1>4, <2>2
  <2>3. CASE r # p
    <3>1. Safe(table, Reach, r) => Safe(table, Reach, r)'
      BY <1>1, <1>2, <1>5, <2>3 DEF Safe
    <3> QED BY <1>4, <2>1, <3>1 DEF KeepsTold
  <2> QED BY <2>2, <2>3
<1>7. RollbackCovers'
  <2> SUFFICES ASSUME pc' = "batch", saved'.job # None, NEW r \in Paths
               PROVE  Safe(saved.table, saved.job, r)' \/ Told(r)' \/ r \in saved'.unseen
    BY DEF RollbackCovers
  <2>1. Safe(saved.table, saved.job, r) \/ Told(r) \/ r \in saved.unseen
    BY <1>1 DEF IInv, RollbackCovers
  <2>2. CASE r = p
    BY <1>1, <1>4, <2>2
  <2>3. CASE r # p
    <3>1. Safe(saved.table, saved.job, r) => Safe(saved.table, saved.job, r)'
      BY <1>1, <1>2, <2>3 DEF Safe
    <3> QED BY <1>1, <1>4, <2>1, <3>1 DEF KeepsTold
  <2> QED BY <2>2, <2>3
<1>8. AddedTold'
  <2>1. CASE iterator = None
    BY <1>1, <2>1 DEF AddedTold
  <2>2. CASE iterator # None
    <3>1. pc # "down" /\ added \subseteq Paths
      BY <1>1, <2>2 DEF IInv, ServingApart, TypeOK, ScanTypes
    <3>2. \A r \in added : Told(r)
      BY <2>2 DEF IInv, AddedTold
    <3> QED BY <1>3, <1>4, <3>1, <3>2 DEF AddedTold, KeepsTold
  <2> QED BY <2>1, <2>2
<1>9. NothingForgotten'
  <2> SUFFICES ASSUME Serving', job' = None, NEW r \in Paths
               PROVE  Matches(table, r)' \/ Told(r)' \/ r \in unseen'
    BY DEF NothingForgotten
  <2>1. Serving /\ job = None /\ pc # "down"
    BY <1>1 DEF Serving
  <2>2. Matches(table, r) \/ Told(r) \/ r \in unseen
    BY <2>1 DEF IInv, NothingForgotten
  <2>3. CASE r = p
    BY <1>4, <2>1, <2>3
  <2>4. CASE r # p
    <3>1. Matches(table, r) => Matches(table, r)'
      BY <1>1, <1>2, <2>4 DEF Matches
    <3> QED BY <1>4, <2>1, <2>2, <3>1 DEF KeepsTold
  <2> QED BY <2>3, <2>4
<1> QED BY <1>6, <1>7, <1>8, <1>9

Covers == ScanCovers /\ RollbackCovers /\ AddedTold /\ NothingForgotten

\* Steps that leave the disk and the table alone.
LEMMA CoversQuiet ==
  ASSUME IInv, KeepsTold,
         UNCHANGED <<disk, table, job, unseen, rewritten, iterator, added>>,
         pc' = "batch" => pc = "batch" /\ saved' = saved,
         Serving' => Serving
  PROVE  Covers'
<1>1. Reach' = Reach
  BY DEF Reach
<1>2. \A r \in Paths : Safe(table, Reach, r) => Safe(table, Reach, r)'
  BY <1>1 DEF Safe
<1>3. ScanCovers'
  BY <1>2 DEF IInv, ScanCovers, KeepsTold
<1>4. RollbackCovers'
  <2> SUFFICES ASSUME pc' = "batch", saved'.job # None, NEW r \in Paths
               PROVE  Safe(saved.table, saved.job, r)' \/ Told(r)' \/ r \in saved'.unseen
    BY DEF RollbackCovers
  <2>1. pc = "batch" /\ saved' = saved
    OBVIOUS
  <2>2. Safe(saved.table, saved.job, r) \/ Told(r) \/ r \in saved.unseen
    BY <2>1 DEF IInv, RollbackCovers
  <2>3. Safe(saved.table, saved.job, r) => Safe(saved.table, saved.job, r)'
    BY <2>1 DEF Safe
  <2> QED BY <2>1, <2>2, <2>3 DEF KeepsTold
<1>5. AddedTold'
  <2>1. added \subseteq Paths
    BY DEF IInv, TypeOK, ScanTypes
  <2> QED BY <2>1 DEF IInv, AddedTold, KeepsTold
<1>6. NothingForgotten'
  <2>1. \A r \in Paths : Matches(table, r) => Matches(table, r)'
    BY DEF Matches
  <2> QED BY <2>1 DEF IInv, NothingForgotten, KeepsTold
<1> QED BY <1>3, <1>4, <1>5, <1>6 DEF Covers

\* A batch begins: a new job has everything ahead; a job that goes on has seen
\* what its cursor or its iterator passed.
LEMMA CoversBeginBatch ==
  ASSUME IInv, BeginBatch
  PROVE  Covers'
<1>1. /\ TypeOK /\ UNCHANGED <<disk, events, overflow, dirty, unseen, rewritten>>
      /\ pc' = "batch" /\ pc \notin {"claimed", "batch"}
      /\ saved' = [table |-> table, job |-> job, unseen |-> unseen]
  BY DEF IInv, BeginBatch, userVars
<1>2. KeepsTold
  BY <1>1, ToldSame
<1>3. job \in Cursors /\ iterator \in Cursors /\ added \subseteq Paths
  BY <1>1 DEF TypeOK, DbTypes, ScanTypes
<1>4. job' # None
  BY DEF BeginBatch, None
<1>5. iterator' # None
  BY DEF BeginBatch, PositionAfterCursor, None, Paths
<1>6. RollbackCovers'
  <2> SUFFICES ASSUME saved'.job # None, NEW r \in Paths
               PROVE  Safe(saved.table, saved.job, r)' \/ Told(r)' \/ r \in saved'.unseen
    BY DEF RollbackCovers
  <2>1. job # None /\ saved'.job = job /\ saved'.table = table /\ saved'.unseen = unseen
    BY <1>1
  <2>2. Safe(table, Reach, r) \/ Told(r) \/ r \in unseen
    BY <2>1 DEF IInv, ScanCovers
  <2>3. Safe(table, Reach, r) => Safe(saved.table, saved.job, r)'
    <3>1. r > Reach => r > job
      BY <1>1, <1>3 DEF IInv, CursorBehind, Reach, Cursors, None, Paths
    <3> QED BY <1>1, <2>1, <3>1 DEF Safe
  <2> QED BY <1>2, <2>1, <2>2, <2>3 DEF KeepsTold
<1>7. ScanCovers'
  <2> SUFFICES ASSUME NEW r \in Paths
               PROVE  Safe(table, Reach, r)' \/ Told(r)' \/ r \in unseen'
    BY DEF ScanCovers
  <2>1. Reach' = iterator'
    BY <1>5 DEF Reach
  <2>2. CASE job = None
    <3>1. iterator' = 0
      BY <1>1, <2>2 DEF BeginBatch, TypeOK, OpenWhere, PositionAfterCursor
    <3>2. ~table'[r].seen
      BY <2>2 DEF BeginBatch, NotSeen, Row
    <3> QED BY <2>1, <3>1, <3>2 DEF Safe, Paths
  <2>3. CASE job # None
    <3>1. table' = table
      BY <2>3 DEF BeginBatch
    <3>2. Safe(table, Reach, r) \/ Told(r) \/ r \in unseen
      BY <2>3 DEF IInv, ScanCovers
    <3>3. r > Reach => r > Reach'
      BY <1>3, <2>1, <2>3 DEF BeginBatch, PositionAfterCursor, Reach, Cursors, None, Paths
    <3>4. Safe(table, Reach, r) => Safe(table, Reach, r)'
      BY <1>1, <3>1, <3>3 DEF Safe
    <3> QED BY <1>1, <1>2, <3>2, <3>4 DEF KeepsTold
  <2> QED BY <2>2, <2>3
<1>8. AddedTold'
  BY <1>2, <1>3 DEF IInv, AddedTold, BeginBatch, KeepsTold
<1> QED BY <1>4, <1>6, <1>7, <1>8 DEF Covers, NothingForgotten

\* The iterator returns q: the paths it leaves behind have no file or are told.
LEMMA CoversVisit ==
  ASSUME IInv, NEW q \in Paths, Visit(q)
  PROVE  Covers'
<1>1. /\ TypeOK /\ UNCHANGED <<disk, events, overflow, dirty, added, saved, pc, rewritten>>
      /\ pc = "batch" /\ iterator' = q
      /\ unseen' = unseen \ ({q} \cup Skipped(q - 1))
      /\ Listed(q)
  BY DEF IInv, Visit, NextEntry, userVars, loopVars
<1>2. KeepsTold
  BY <1>1, ToldSame
<1>3. /\ iterator \in Cursors /\ iterator # None /\ job # None /\ added \subseteq Paths
      /\ table \in [Paths -> RowType]
  BY <1>1 DEF TypeOK, ScanTypes, OpenWhere, DbTypes
<1>4. Reach = iterator /\ Reach' = q /\ q # None
  BY <1>1, <1>3 DEF Reach, None, Paths
<1>5. \A r \in added : Told(r)
  BY <1>3 DEF IInv, AddedTold
<1>6. ASSUME NEW r \in Paths
      PROVE  Safe(table, Reach, r)' \/ Told(r)' \/ r \in unseen'
  <2>1. Safe(table, Reach, r) \/ Told(r) \/ r \in unseen
    BY <1>3 DEF IInv, ScanCovers
  <2>2. CASE r = q
    <3>1. table'[q] = Row(disk[q], FALSE, TRUE) /\ disk[q] # 0
      BY <1>1, <1>3 DEF Visit, Listed, FileRow
    <3> QED BY <1>1, <2>2, <3>1 DEF Safe, Row
  <2>3. CASE r # q
    <3>1. table'[r] = table[r]
      BY <1>3, <2>3 DEF Visit
    <3>2. CASE Told(r)
      BY <1>2, <3>2 DEF KeepsTold
    <3>3. CASE table[r].seen
      <4>1. r \in unseen => r \in unseen'
        BY <1>1, <2>3, <3>3 DEF Skipped
      <4>2. Safe(table, Reach, r) => Safe(table, Reach, r)'
        BY <1>1, <3>1, <3>3 DEF Safe
      <4> QED BY <2>1, <3>2, <4>1, <4>2
    <3>4. CASE ~table[r].seen /\ r > iterator /\ ~Told(r)
      <4>1. r > q \/ disk[r] = 0
        BY <1>1, <1>3, <1>5, <2>3, <3>4 DEF Listed, Cursors, None, Paths
      <4> QED BY <1>1, <1>4, <3>1, <3>4, <4>1 DEF Safe
    <3>5. CASE ~table[r].seen /\ ~(r > iterator) /\ ~Told(r)
      <4>1. r \in unseen => r \in unseen'
        BY <1>1, <2>3, <3>5 DEF Skipped
      <4>2. Safe(table, Reach, r) => Safe(table, Reach, r)'
        BY <1>1, <1>4, <3>1, <3>5 DEF Safe
      <4> QED BY <2>1, <3>5, <4>1, <4>2
    <3> QED BY <3>2, <3>3, <3>4, <3>5
  <2> QED BY <2>2, <2>3
<1>7. ScanCovers'
  BY <1>6 DEF ScanCovers
<1>8. RollbackCovers'
  <2>1. \A r \in Paths : Safe(saved.table, saved.job, r) => Safe(saved.table, saved.job, r)'
    BY <1>1 DEF Safe
  <2> QED BY <1>1, <1>2, <2>1 DEF IInv, RollbackCovers, KeepsTold
<1>9. AddedTold'
  BY <1>1, <1>2, <1>3, <1>5 DEF AddedTold, KeepsTold
<1>10. job' # None
  BY <1>3, <1>4 DEF Visit
<1> QED BY <1>7, <1>8, <1>9, <1>10 DEF Covers, NothingForgotten

\* The job is completed: rows it has not seen belong to no file, or are told.
LEMMA CoversCompleteScan ==
  ASSUME IInv, CompleteScan
  PROVE  Covers'
<1>1. /\ TypeOK /\ UNCHANGED <<disk, events, overflow, dirty, rewritten>>
      /\ pc = "batch" /\ pc' = "watch" /\ iterator' = None /\ job' = None
      /\ table' = MarkNotSeenDeleted /\ unseen' = unseen \ Skipped(N) /\ AtEnd
  BY DEF IInv, CompleteScan, userVars
<1>2. KeepsTold
  BY <1>1, ToldSame
<1>3. /\ iterator \in Cursors /\ iterator # None /\ job # None /\ added \subseteq Paths
      /\ table \in [Paths -> RowType]
  BY <1>1 DEF TypeOK, ScanTypes, OpenWhere, DbTypes
<1>4. Reach = iterator
  BY <1>3 DEF Reach
<1>5. \A r \in added : Told(r)
  BY <1>3 DEF IInv, AddedTold
<1>6. ASSUME NEW r \in Paths
      PROVE  Matches(table, r)' \/ Told(r)' \/ r \in unseen'
  <2>1. Safe(table, Reach, r) \/ Told(r) \/ r \in unseen
    BY <1>3 DEF IInv, ScanCovers
  <2>2. CASE Told(r)
    BY <1>2, <2>2 DEF KeepsTold
  <2>3. CASE table[r].seen
    <3>1. table'[r] = table[r] /\ (r \in unseen => r \in unseen')
      BY <1>1, <2>3 DEF MarkNotSeenDeleted, Skipped
    <3>2. Safe(table, Reach, r) => Matches(table, r)'
      BY <1>1, <2>3, <3>1 DEF Safe, Matches
    <3> QED BY <2>1, <2>2, <3>1, <3>2
  <2>4. CASE ~table[r].seen /\ ~Told(r)
    <3>1. table'[r].hash = 0 \/ table'[r].deleted
      BY <1>1, <1>3, <2>4 DEF MarkNotSeenDeleted, Row
    <3>2. disk[r] = 0 => Matches(table, r)'
      BY <1>1, <3>1 DEF Matches
    <3>3. CASE r > iterator
      BY <1>1, <1>5, <2>4, <3>2, <3>3 DEF AtEnd
    <3>4. CASE ~(r > iterator)
      <4>1. r \in unseen => r \in unseen'
        BY <1>1, <3>4 DEF Skipped
      <4>2. Safe(table, Reach, r) => disk[r] = 0
        BY <1>4, <2>4, <3>4 DEF Safe
      <4> QED BY <2>1, <2>4, <3>2, <4>1, <4>2
    <3> QED BY <3>3, <3>4
  <2> QED BY <2>2, <2>3, <2>4
<1> QED
  BY <1>1, <1>6
  DEF Covers, ScanCovers, RollbackCovers, AddedTold, NothingForgotten

\* scanPath brings the row of its path up to date.
LEMMA CoversScanPath ==
  ASSUME IInv, ScanPath
  PROVE  Covers'
<1> DEFINE p == dirty[current].path
<1>1. /\ TypeOK
      /\ UNCHANGED <<disk, events, overflow, dirty, job, iterator, added, current,
                     rewritten>>
      /\ pc = "claimed" /\ pc' = "handled" /\ unseen' = unseen \ {p}
      /\ job \in {None, 0} /\ iterator = None
  BY DEF IInv, ScanPath, ServingApart, userVars, scanVars
<1>2. p \in Paths
  <2>1. current \in DOMAIN dirty /\ dirty \in Seq(DirtyRow)
    BY <1>1 DEF TypeOK, LoopTypes, OpenWhere, DbTypes
  <2>2. dirty[current] \in DirtyRow
    BY <2>1
  <2> QED BY <2>2 DEF ScanPath, DirtyRow
<1>3. table \in [Paths -> RowType]
  BY <1>1 DEF TypeOK, DbTypes
<1>4. /\ \A r \in Paths : r # p => table'[r] = table[r]
      /\ \A r \in Paths : r = p => Matches(table, r)'
      /\ ~table[p].seen => ~table'[p].seen
  <2>1. CASE disk[p] = 0
    <3>1. table' = [table EXCEPT ![p] = Row(table[p].hash, table[p].hash # 0, table[p].seen)]
      BY <2>1 DEF ScanPath
    <3>2. table'[p] = Row(table[p].hash, table[p].hash # 0, table[p].seen)
      BY <1>2, <1>3, <3>1
    <3> QED BY <1>1, <1>2, <1>3, <2>1, <3>1, <3>2 DEF Row, Matches
  <2>2. CASE disk[p] # 0
    <3>1. table' = [table EXCEPT ![p] = Row(disk[p], FALSE, FALSE)]
      BY <2>2 DEF ScanPath, FileRow
    <3>2. table'[p] = Row(disk[p], FALSE, FALSE)
      BY <1>2, <1>3, <3>1
    <3> QED BY <1>1, <1>2, <1>3, <2>2, <3>1, <3>2 DEF Row, Matches
  <2> QED BY <2>1, <2>2
<1>5. p # AllPaths
  BY DEF ScanPath
<1>6. \A r \in Paths : r # p /\ Told(r) => Told(r)'
  BY <1>1, <1>5, ToldServed
<1>7. ScanCovers'
  <2> SUFFICES ASSUME job' # None, NEW r \in Paths
               PROVE  Safe(table, Reach, r)'
    BY DEF ScanCovers
  <2>1. job = 0 /\ Reach' = 0
    BY <1>1 DEF Reach
  <2>2. ~table[r].seen
    BY <2>1 DEF IInv, NewJobSawNothing
  <2>3. ~table'[r].seen
    BY <1>4, <2>2
  <2> QED BY <2>1, <2>3 DEF Safe, Paths
<1>8. NothingForgotten'
  <2> SUFFICES ASSUME job' = None, NEW r \in Paths
               PROVE  Matches(table, r)' \/ Told(r)' \/ r \in unseen'
    BY DEF NothingForgotten
  <2>1. CASE r = p
    BY <1>4, <2>1
  <2>2. CASE r # p
    <3>1. Matches(table, r) \/ Told(r) \/ r \in unseen
      BY <1>1 DEF IInv, NothingForgotten, Serving
    <3>2. Matches(table, r) => Matches(table, r)'
      BY <1>1, <1>4, <2>2 DEF Matches
    <3> QED BY <1>1, <1>6, <2>2, <3>1, <3>2
  <2> QED BY <2>1, <2>2
<1> QED BY <1>1, <1>7, <1>8 DEF Covers, RollbackCovers, AddedTold

\* A full rescan has a job that has seen nothing.
LEMMA CoversFullRescan ==
  ASSUME IInv, FullRescan
  PROVE  Covers'
<1>1. /\ iterator' = None /\ pc' = "handled" /\ job' = 0 /\ job' # None
  BY DEF IInv, FullRescan, ServingApart, scanVars, None
<1>2. \A r \in Paths : ~table'[r].seen
  BY DEF IInv, FullRescan, ServingApart, NewJobSawNothing, NotSeen, Row, None
<1>3. ScanCovers'
  BY <1>1, <1>2 DEF ScanCovers, Safe, Reach, Paths
<1> QED BY <1>1, <1>3 DEF Covers, RollbackCovers, AddedTold, NothingForgotten

\* After a crash the job starts again from what was committed.
LEMMA CoversDown ==
  ASSUME IInv, Down
  PROVE  Covers'
<1>1. /\ UNCHANGED <<disk, rewritten>> /\ pc' = "down" /\ iterator' = None
      /\ Reach' = job'
  BY DEF Down, Reach
<1>2. \A r \in Paths : Told(r) => Told(r)' \/ r \in unseen'
  BY ToldDown
<1>3. TypeOK
  BY DEF IInv
<1>4. ScanCovers'
  <2> SUFFICES ASSUME job' # None, NEW r \in Paths
               PROVE  Safe(table, Reach, r)' \/ Told(r)' \/ r \in unseen'
    BY DEF ScanCovers
  <2>1. CASE pc = "batch"
    <3>1. table' = saved.table /\ job' = saved.job /\ saved.unseen \subseteq unseen'
      BY <2>1 DEF Down
    <3>2. Safe(saved.table, saved.job, r) \/ Told(r) \/ r \in saved.unseen
      BY <2>1, <3>1 DEF IInv, RollbackCovers
    <3>3. Safe(saved.table, saved.job, r) => Safe(table, Reach, r)'
      BY <1>1, <3>1 DEF Safe
    <3> QED BY <1>2, <3>1, <3>2, <3>3
  <2>2. CASE pc # "batch"
    <3>1. table' = table /\ job' = job /\ unseen \subseteq unseen'
      BY <2>2 DEF Down
    <3>2. Safe(table, Reach, r) \/ Told(r) \/ r \in unseen
      BY <3>1 DEF IInv, ScanCovers
    <3>3. r > Reach => r > job
      BY <1>3, <2>2
      DEF IInv, CursorBehind, Reach, TypeOK, DbTypes, ScanTypes, Cursors, None, Paths
    <3>4. Safe(table, Reach, r) => Safe(table, Reach, r)'
      BY <1>1, <3>1, <3>3 DEF Safe
    <3> QED BY <1>2, <3>1, <3>2, <3>4
  <2> QED BY <2>1, <2>2
<1> QED BY <1>1, <1>4 DEF Covers, RollbackCovers, AddedTold, NothingForgotten, Serving

\* A remote scan changes no hash and is remembered.
LEMMA CoversRemoteScan ==
  ASSUME IInv, NEW p \in Remote, NEW d \in BOOLEAN, RemoteScan(p, d)
  PROVE  Covers'
<1>1. /\ TypeOK /\ p \in Paths /\ pc \in {"started", "watch"}
      /\ UNCHANGED <<disk, events, overflow, dirty, job, iterator, added, unseen, pc>>
      /\ rewritten' = rewritten \cup {p}
  BY ScanAssumption DEF IInv, RemoteScan, Paths, userVars, scanVars, loopVars
<1>2. KeepsTold
  BY <1>1, ToldSame
<1>3. \A r \in Paths : r # p => table'[r] = table[r]
  BY <1>1 DEF RemoteScan, TypeOK, DbTypes
<1>4. table'[p].hash = table[p].hash /\ table'[p].seen = table[p].seen
  BY <1>1 DEF RemoteScan, TypeOK, DbTypes, Row
<1>5. Reach' = Reach
  BY <1>1 DEF Reach
<1>6. \A r \in Paths : Safe(table, Reach, r) => Safe(table, Reach, r)'
  BY <1>1, <1>3, <1>4, <1>5 DEF Safe
<1>7. \A r \in Paths : Matches(table, r) => Matches(table, r)'
  BY <1>1, <1>3, <1>4 DEF Matches
<1>8. ScanCovers'
  BY <1>1, <1>2, <1>6 DEF IInv, ScanCovers, KeepsTold
<1>9. NothingForgotten'
  BY <1>1, <1>2, <1>7 DEF IInv, NothingForgotten, Serving, KeepsTold
<1>10. AddedTold'
  BY <1>1, <1>2 DEF IInv, AddedTold, KeepsTold, TypeOK, ScanTypes
<1> QED BY <1>1, <1>8, <1>9, <1>10 DEF Covers, RollbackCovers

LEMMA CoversNext == IInv /\ [Next]_vars => Covers'
<1> SUFFICES ASSUME IInv, [Next]_vars PROVE Covers'
  OBVIOUS
<1>0. TypeOK /\ ServingApart
  BY DEF IInv
<1>1. ASSUME NEW p \in Paths, Save(p) \/ Remove(p) \/ Chmod(p) PROVE Covers'
  BY <1>1, InvUser DEF Covers
<1>2. CASE Start \/ Polled \/ EndTick
  <2>1. UNCHANGED <<userVars, dbVars, scanVars, history>>
    BY <1>2 DEF Start, Polled, EndTick
  <2>2. pc # "claimed" /\ pc' # "batch" /\ (Serving' => Serving)
    BY <1>2 DEF Start, Polled, EndTick, Serving
  <2>3. KeepsTold
    BY <2>1, <2>2, ToldSame DEF userVars, dbVars
  <2> QED BY <2>1, <2>2, <2>3, CoversQuiet DEF userVars, dbVars, scanVars, history
<1>3. CASE EndBatch
  <2>1. KeepsTold
    BY <1>3, ToldSame DEF EndBatch, userVars, dbVars
  <2> QED BY <1>3, <2>1, CoversQuiet DEF EndBatch, userVars, dbVars, history, Serving
<1>4. ASSUME NEW p \in Paths, Record(p) PROVE Covers'
  <2>1. KeepsTold
    BY <1>0, <1>4, ToldRecord
  <2> QED BY <1>4, <2>1, CoversQuiet DEF Record, scanVars, loopVars, history, Serving
<1>5. CASE RecordOverflow
  <2>1. KeepsTold
    BY <1>0, <1>5, ToldRecord
  <2> QED BY <1>5, <2>1, CoversQuiet DEF RecordOverflow, scanVars, loopVars, history, Serving
<1>6. CASE ClaimNextPending
  <2>1. KeepsTold
    BY <1>0, <1>6, ToldClaim
  <2> QED BY <1>6, <2>1, CoversQuiet DEF ClaimNextPending, userVars, scanVars, history, Serving
<1>7. CASE ScanPathFails \/ Finish
  <2>1. KeepsTold
    BY <1>0, <1>7, ToldFinish
  <2> QED BY <1>7, <2>1, CoversQuiet
        DEF ScanPathFails, Finish, userVars, scanVars, history, Serving
<1>8. CASE UNCHANGED vars
  <2>1. UNCHANGED <<userVars, dbVars, scanVars, loopVars, history>>
    BY <1>8 DEF vars
  <2>2. KeepsTold
    BY <2>1 DEF KeepsTold, Told, userVars, dbVars, loopVars
  <2> QED BY <2>1, <2>2, CoversQuiet
        DEF userVars, dbVars, scanVars, loopVars, history, Serving
<1>9. CASE Server
  BY <1>9, CoversRemoteScan DEF Server
<1>10. CASE Crash \/ \E q \in Paths : VisitThrows(q)
  <2>1. Down
    BY <1>10 DEF Crash, VisitThrows
  <2> QED BY <2>1, CoversDown
<1> QED
  BY <1>1, <1>2, <1>3, <1>4, <1>5, <1>6, <1>7, <1>8, <1>9, <1>10, CoversBeginBatch,
     CoversVisit, CoversCompleteScan, CoversScanPath, CoversFullRescan
  DEF Next, User, Daemon, Scan, Watch, ServeDirty

-----------------------------------------------------------------------------
(***************************************************************************)
(* Where the cursor and the iterator are, and what a new job has seen.     *)
(***************************************************************************)

Control == CursorBehind /\ ServingApart /\ NewJobSawNothing

\* Steps that leave the scan and its transaction alone.
LEMMA ControlQuiet ==
  ASSUME IInv, UNCHANGED <<table, job, iterator, saved, batch>>,
         pc' = "batch" <=> pc = "batch", ServingApart'
  PROVE  Control'
<1>1. CursorBehind'
  BY DEF IInv, CursorBehind
<1>2. NewJobSawNothing'
  BY DEF IInv, NewJobSawNothing
<1> QED BY <1>1, <1>2 DEF Control

LEMMA ControlNext == IInv /\ [Next]_vars => Control'
<1> SUFFICES ASSUME IInv, [Next]_vars PROVE Control'
  OBVIOUS
<1>0. /\ TypeOK /\ CursorBehind /\ ServingApart /\ NewJobSawNothing
      /\ None # 0 /\ 0 \notin Paths /\ None \notin Paths
  BY DEF IInv, None, Paths
<1>1. ASSUME NEW p \in Paths, Save(p) \/ Remove(p) \/ Chmod(p) PROVE Control'
  <2>1. UNCHANGED <<table, job, dirty, iterator, saved, batch, pc, current>>
    BY <1>1 DEF Save, Remove, Chmod, Change, dbVars, loopVars
  <2>2. ServingApart'
    BY <1>0, <2>1 DEF ServingApart
  <2> QED BY <2>1, <2>2, ControlQuiet
<1>2. CASE Start \/ Polled \/ EndTick
  <2>1. /\ UNCHANGED <<table, job, dirty, iterator, saved, batch, current>>
        /\ pc # "batch" /\ pc' \in {"started", "watch", "scan", "claim"}
        /\ pc' = "started" => pc = "down"
        /\ pc' = "claim" => job = None
    BY <1>2 DEF Start, Polled, EndTick, dbVars, scanVars
  <2>2. ServingApart'
    BY <1>0, <2>1 DEF ServingApart, TypeOK, OpenWhere
  <2> QED BY <2>1, <2>2, ControlQuiet
<1>3. CASE BeginBatch
  <2>1. pc' = "batch" /\ batch' = 0 /\ saved'.job = job /\ saved'.table = table
    BY <1>3 DEF BeginBatch
  <2>2. job' = 0 => \A p \in Paths : ~table'[p].seen
    BY <1>0, <1>3 DEF BeginBatch, NotSeen, Row, NewJobSawNothing
  <2>3. NewJobSawNothing'
    BY <1>0, <2>1, <2>2 DEF NewJobSawNothing
  <2>4. CursorBehind' /\ ServingApart'
    BY <2>1 DEF CursorBehind, ServingApart
  <2> QED BY <2>3, <2>4 DEF Control
<1>4. ASSUME NEW q \in Paths, Visit(q) PROVE Control'
  <2>1. /\ pc = "batch" /\ UNCHANGED <<pc, saved>> /\ iterator' = q /\ iterator < q
        /\ iterator # None /\ iterator \in Cursors /\ job \in Cursors
        /\ batch \in 0 .. BatchSize
    BY <1>0, <1>4
    DEF Visit, NextEntry, Listed, loopVars, TypeOK, OpenWhere, ScanTypes, DbTypes, Paths,
        Cursors
  <2>2. job' = q /\ job' # 0
    BY <1>0, <1>4 DEF Visit
  <2>3. CursorBehind'
    BY <2>1, <2>2 DEF CursorBehind, Paths
  <2> QED BY <1>0, <2>1, <2>2, <2>3 DEF Control, ServingApart, NewJobSawNothing
<1>5. CASE EndBatch
  <2>1. /\ pc = "batch" /\ batch > 0 /\ UNCHANGED <<table, job, iterator>>
        /\ pc' = "watch"
    BY <1>5, ScanAssumption DEF EndBatch, dbVars
  <2> QED BY <1>0, <2>1 DEF Control, CursorBehind, ServingApart, NewJobSawNothing
<1>6. CASE CompleteScan
  <2>1. job' = None /\ iterator' = None /\ pc' = "watch"
    BY <1>6 DEF CompleteScan
  <2> QED BY <1>0, <2>1 DEF Control, CursorBehind, ServingApart, NewJobSawNothing
<1>7. CASE (\E p \in Paths : Record(p)) \/ RecordOverflow
  <2>1. /\ UNCHANGED <<table, job, iterator, saved, batch, pc>> /\ pc = "watch"
    BY <1>7 DEF Record, RecordOverflow, scanVars, loopVars
  <2>2. ServingApart'
    BY <2>1 DEF ServingApart
  <2> QED BY <2>1, <2>2, ControlQuiet
<1>8. CASE ClaimNextPending
  <2>1. /\ UNCHANGED <<table, job, iterator, saved, batch>>
        /\ pc = "claim" /\ pc' = "claimed" /\ dirty'[current'].status = "running"
    BY <1>0, <1>8, ToldClaim DEF ClaimNextPending, scanVars
  <2>2. ServingApart'
    BY <1>0, <2>1 DEF ServingApart
  <2> QED BY <2>1, <2>2, ControlQuiet
<1>9. CASE ScanPathFails \/ Finish
  <2>1. /\ UNCHANGED <<table, job, iterator, saved, batch>>
        /\ pc \in {"claimed", "handled"} /\ pc' = "claim"
    BY <1>9 DEF ScanPathFails, Finish, scanVars
  <2>2. ServingApart'
    BY <1>0, <2>1 DEF ServingApart
  <2> QED BY <2>1, <2>2, ControlQuiet
<1>10. CASE ScanPath
  <2> DEFINE p == dirty[current].path
  <2>1. /\ UNCHANGED <<job, iterator, dirty, current>> /\ pc = "claimed" /\ pc' = "handled"
    BY <1>10 DEF ScanPath, scanVars
  <2>2. CursorBehind' /\ ServingApart'
    BY <1>0, <2>1 DEF CursorBehind, ServingApart
  <2>3. table \in [Paths -> RowType]
    BY <1>0 DEF TypeOK, DbTypes
  <2>4. \A r \in Paths : ~table[r].seen => ~table'[r].seen
    <3>1. \/ table' = [table EXCEPT ![p] =
                         Row(table[p].hash, table[p].hash # 0, table[p].seen)]
          \/ table' = [table EXCEPT ![p] = Row(disk[p], FALSE, FALSE)]
      BY <1>10 DEF ScanPath, FileRow
    <3> QED BY <2>3, <3>1 DEF Row
  <2>5. NewJobSawNothing'
    BY <1>0, <2>1, <2>4 DEF NewJobSawNothing
  <2> QED BY <2>2, <2>5 DEF Control
<1>11. CASE FullRescan
  <2>1. /\ UNCHANGED <<iterator, dirty, current>> /\ iterator = None
        /\ pc = "claimed" /\ pc' = "handled" /\ job' = 0
    BY <1>0, <1>11 DEF FullRescan, scanVars, ServingApart
  <2>2. \A p \in Paths : ~table'[p].seen
    BY <1>0, <1>11 DEF FullRescan, ServingApart, NewJobSawNothing, NotSeen, Row
  <2> QED BY <1>0, <2>1, <2>2 DEF Control, CursorBehind, ServingApart, NewJobSawNothing
<1>12. CASE Down
  <2>1. pc' = "down" /\ iterator' = None
    BY <1>12 DEF Down
  <2>2. job' = 0 => \A p \in Paths : ~table'[p].seen
    BY <1>0, <1>12 DEF Down, NewJobSawNothing
  <2> QED BY <2>1, <2>2 DEF Control, CursorBehind, ServingApart, NewJobSawNothing
<1>13. CASE UNCHANGED vars
  <2>1. UNCHANGED <<table, job, dirty, iterator, saved, batch, pc, current>>
    BY <1>13 DEF vars, dbVars, scanVars, loopVars
  <2>2. ServingApart'
    BY <1>0, <2>1 DEF ServingApart
  <2> QED BY <2>1, <2>2, ControlQuiet
<1>14. ASSUME NEW p \in Remote, NEW d \in BOOLEAN, RemoteScan(p, d) PROVE Control'
  <2>1. /\ UNCHANGED <<job, dirty, iterator, saved, batch, pc, current>>
        /\ pc # "batch" /\ p \in Paths /\ table \in [Paths -> RowType]
    BY <1>0, <1>14, ScanAssumption DEF RemoteScan, scanVars, loopVars, Paths, TypeOK, DbTypes
  <2>2. \A r \in Paths : table'[r].seen = table[r].seen
    BY <1>14, <2>1 DEF RemoteScan, Row
  <2> QED BY <1>0, <2>1, <2>2 DEF Control, CursorBehind, ServingApart, NewJobSawNothing
<1>15. CASE Crash \/ \E q \in Paths : VisitThrows(q)
  <2>1. Down
    BY <1>15 DEF Crash, VisitThrows
  <2> QED BY <1>12, <2>1
<1> QED
  BY <1>1, <1>2, <1>3, <1>4, <1>5, <1>6, <1>7, <1>8, <1>9, <1>10, <1>11, <1>13, <1>14,
     <1>15
  DEF Next, User, Server, Daemon, Scan, Watch, ServeDirty

-----------------------------------------------------------------------------
(***************************************************************************)
(* What a scan that began anew leaves unseen.                              *)
(***************************************************************************)

Fresh == FreshAhead /\ FreshScanSeesAll

\* Steps that leave the scan and the exceptions alone.
LEMMA FreshQuiet ==
  ASSUME IInv, UNCHANGED <<table, job, iterator, resumed, unseen>>,
         Serving' => Serving
  PROVE  Fresh'
BY DEF IInv, Fresh, FreshAhead, FreshScanSeesAll

LEMMA FreshNext == IInv /\ [Next]_vars => Fresh'
<1> SUFFICES ASSUME IInv, [Next]_vars PROVE Fresh'
  OBVIOUS
<1>0. /\ TypeOK /\ ServingApart /\ NewJobSawNothing /\ FreshAhead /\ FreshScanSeesAll
      /\ None # 0 /\ 0 \notin Paths /\ None \notin Paths
      /\ unseen \subseteq Paths /\ job \in Cursors /\ iterator \in Cursors
  BY DEF IInv, None, Paths, TypeOK, HistoryTypes, DbTypes, ScanTypes
<1>1. ASSUME NEW p \in Paths, Save(p) \/ Remove(p) \/ Chmod(p) PROVE Fresh'
  <2>1. Change(p) /\ UNCHANGED <<table, job, iterator, pc, resumed>>
    BY <1>1 DEF Save, Remove, Chmod, Change, dbVars, loopVars
  <2>2. pc # "down" => unseen' = unseen
    BY <1>0, <2>1, ToldChange
  <2>3. CASE pc = "down"
    BY <1>0, <2>1, <2>3 DEF Fresh, FreshAhead, FreshScanSeesAll, Serving, ServingApart
  <2>4. CASE pc # "down"
    BY <2>1, <2>2, <2>4, FreshQuiet DEF Serving
  <2> QED BY <2>3, <2>4
<1>2. CASE Start \/ Polled \/ EndTick \/ EndBatch
  BY <1>2, FreshQuiet
  DEF Start, Polled, EndTick, EndBatch, Serving, dbVars, scanVars, history
<1>3. CASE BeginBatch
  <2>1. job' # None /\ unseen' = unseen
    BY <1>0, <1>3 DEF BeginBatch
  <2>2. CASE iterator # None
    <3>1. UNCHANGED <<table, job, iterator, resumed>>
      BY <1>0, <1>3, <2>2 DEF BeginBatch, TypeOK, OpenWhere
    <3> QED BY <1>0, <2>1, <3>1 DEF Fresh, FreshAhead, FreshScanSeesAll
  <2>3. CASE iterator = None /\ job \in Paths
    <3>1. resumed'
      BY <1>3, <2>3 DEF BeginBatch
    <3> QED BY <3>1 DEF Fresh, FreshAhead, FreshScanSeesAll
  <2>4. CASE iterator = None /\ job \notin Paths
    <3>1. iterator' = 0
      BY <1>3, <2>4 DEF BeginBatch, PositionAfterCursor
    <3>2. \A p \in Paths : ~table'[p].seen
      BY <1>0, <1>3, <2>4 DEF BeginBatch, NotSeen, Row, NewJobSawNothing, Cursors
    <3>3. \A p \in Paths : p > 0
      BY DEF Paths
    <3> QED BY <1>0, <2>1, <3>1, <3>2, <3>3 DEF Fresh, FreshAhead, FreshScanSeesAll
  <2> QED BY <2>2, <2>3, <2>4
<1>4. ASSUME NEW q \in Paths, Visit(q) PROVE Fresh'
  <2>1. /\ pc = "batch" /\ iterator' = q /\ resumed' = resumed /\ iterator # None
        /\ unseen' = unseen \ ({q} \cup Skipped(q - 1))
        /\ job # None /\ table \in [Paths -> RowType]
    BY <1>0, <1>4 DEF Visit, NextEntry, TypeOK, OpenWhere, DbTypes
  <2>2. job' # None
    BY <1>0, <1>4 DEF Visit
  <2>3. ASSUME ~resumed, NEW r \in unseen' PROVE r > q /\ ~table'[r].seen
    <3>1. r \in unseen /\ r \in Paths /\ r # q /\ r \notin Skipped(q - 1)
      BY <1>0, <2>1, <2>3
    <3>2. r > iterator /\ ~table[r].seen
      BY <1>0, <2>1, <2>3, <3>1 DEF FreshAhead
    <3>3. r > q
      BY <3>1, <3>2 DEF Skipped, Paths
    <3>4. table'[r] = table[r]
      BY <1>4, <2>1, <3>1 DEF Visit
    <3> QED BY <3>2, <3>3, <3>4
  <2> QED BY <2>1, <2>2, <2>3 DEF Fresh, FreshAhead, FreshScanSeesAll
<1>5. CASE CompleteScan
  <2>1. /\ iterator # None /\ iterator' = None /\ resumed' = resumed
        /\ unseen' = unseen \ Skipped(N)
    BY <1>0, <1>5 DEF CompleteScan, TypeOK, OpenWhere
  <2>2. ASSUME ~resumed PROVE unseen' = {}
    <3> SUFFICES ASSUME NEW r \in unseen' PROVE FALSE
      OBVIOUS
    <3>1. r \in unseen /\ r \in Paths /\ r \notin Skipped(N)
      BY <1>0, <2>1
    <3>2. r > iterator /\ ~table[r].seen
      BY <1>0, <2>1, <2>2, <3>1 DEF FreshAhead
    <3> QED BY <3>1, <3>2, ScanAssumption DEF Skipped, Paths
  <2> QED BY <2>1, <2>2 DEF Fresh, FreshAhead, FreshScanSeesAll
<1>6. CASE (\E p \in Paths : Record(p)) \/ RecordOverflow
  BY <1>6, FreshQuiet DEF Record, RecordOverflow, Serving, scanVars, loopVars, history
<1>7. CASE ClaimNextPending \/ ScanPathFails \/ Finish
  BY <1>7, FreshQuiet
  DEF ClaimNextPending, ScanPathFails, Finish, Serving, scanVars, history
<1>8. CASE ScanPath
  <2>1. /\ UNCHANGED <<job, iterator, resumed>> /\ iterator = None /\ Serving
        /\ unseen' \subseteq unseen
    BY <1>0, <1>8 DEF ScanPath, ServingApart, Serving, scanVars
  <2> QED BY <1>0, <2>1 DEF Fresh, FreshAhead, FreshScanSeesAll
<1>9. CASE FullRescan
  <2>1. iterator' = None /\ job' # None
    BY <1>0, <1>9 DEF FullRescan, ServingApart, scanVars
  <2> QED BY <2>1 DEF Fresh, FreshAhead, FreshScanSeesAll
<1>10. CASE Down
  <2>1. iterator' = None /\ pc' = "down"
    BY <1>10 DEF Down
  <2> QED BY <2>1 DEF Fresh, FreshAhead, FreshScanSeesAll, Serving
<1>11. CASE UNCHANGED vars
  BY <1>11, FreshQuiet DEF vars, Serving, dbVars, scanVars, loopVars, history
<1>12. ASSUME NEW p \in Remote, NEW d \in BOOLEAN, RemoteScan(p, d) PROVE Fresh'
  <2>1. /\ UNCHANGED <<job, iterator, resumed, unseen, pc>>
        /\ p \in Paths /\ table \in [Paths -> RowType]
    BY <1>0, <1>12, ScanAssumption DEF RemoteScan, scanVars, loopVars, Paths, TypeOK, DbTypes
  <2>2. \A r \in Paths : table'[r].seen = table[r].seen
    BY <1>12, <2>1 DEF RemoteScan, Row
  <2> QED BY <1>0, <2>1, <2>2 DEF Fresh, FreshAhead, FreshScanSeesAll, Serving
<1>13. CASE Crash \/ \E q \in Paths : VisitThrows(q)
  <2>1. Down
    BY <1>13 DEF Crash, VisitThrows
  <2> QED BY <1>10, <2>1
<1> QED
  BY <1>1, <1>2, <1>3, <1>4, <1>5, <1>6, <1>7, <1>8, <1>9, <1>11, <1>12, <1>13
  DEF Next, User, Server, Daemon, Scan, Watch, ServeDirty

-----------------------------------------------------------------------------
(***************************************************************************)
(* The theorems.                                                           *)
(***************************************************************************)

LEMMA InvNext == IInv /\ [Next]_vars => IInv'
<1> SUFFICES ASSUME IInv, [Next]_vars PROVE IInv'
  OBVIOUS
<1>1. TypeOK'
  BY TypeNext DEF IInv
<1>2. Covers' /\ Control' /\ Fresh'
  BY CoversNext, ControlNext, FreshNext
<1> QED BY <1>1, <1>2 DEF IInv, Covers, Control, Fresh

LEMMA Invariant == Spec => []IInv
BY InvInit, InvNext, PTL DEF Spec

\* Whenever no scan job is running, every path whose row differs from the disk
\* has an event or a row of dirty_paths to be served, or is an exception of the
\* time when the daemon was down; scans that throw over an unreadable file and
\* remote scans that overwrite sync_state included.
THEOREM NoChangeForgotten == Spec => []NothingForgotten
<1>1. IInv => NothingForgotten
  BY DEF IInv
<1> QED BY <1>1, Invariant, PTL

\* There is no exception unless the last scan job was continued after the
\* cursor that an interrupted one had left in scan_jobs.
THEOREM FreshScanComplete == Spec => []FreshScanSeesAll
<1>1. IInv => FreshScanSeesAll
  BY DEF IInv
<1> QED BY <1>1, Invariant, PTL
=============================================================================
