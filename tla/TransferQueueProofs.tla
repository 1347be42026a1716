------------------------ MODULE TransferQueueProofs ------------------------
(***************************************************************************)
(* TransferQueue keeps its invariants for every set of entries and every   *)
(* set of row ids.                                                         *)
(*                                                                         *)
(* RunningIffClaimed is not inductive alone: Start must know that a dead   *)
(* daemon holds no claims, and Requeued must not create a second active    *)
(* row, which holds because a running row is active already.               *)
(***************************************************************************)
EXTENDS TransferQueue, TLAPS

\* A daemon that is down holds no claims.
DownHoldsNothing == daemon = "down" => claimed = {}

IInv ==
  /\ TypeOK
  /\ OneActiveJobPerEntry
  /\ RunningIffClaimed
  /\ DownHoldsNothing

-----------------------------------------------------------------------------
(***************************************************************************)
(* The updates of the table.                                               *)
(***************************************************************************)

\* WithStatus changes the status of the row it names and nothing else.
LEMMA WithStatusRow ==
  ASSUME NEW t \in [Jobs -> Row \cup {NoRow}], NEW j \in Jobs, t[j] # NoRow,
         NEW s \in Status
  PROVE  /\ WithStatus(t, j, s) \in [Jobs -> Row \cup {NoRow}]
         /\ WithStatus(t, j, s)[j].status = s
         /\ WithStatus(t, j, s)[j].entry = t[j].entry
         /\ \A i \in Jobs \ {j} : WithStatus(t, j, s)[i] = t[i]
  <1>1. t[j] \in Row
    BY DEF Row
  <1>2. [t[j] EXCEPT !.status = s] \in Row
    BY <1>1 DEF Row
  <1>. QED
    BY <1>1, <1>2 DEF WithStatus, Row

\* A status change that does not make an inactive row active keeps the index.
LEMMA WithStatusUnique ==
  ASSUME NEW t \in [Jobs -> Row \cup {NoRow}], NEW j \in Jobs, t[j] # NoRow,
         NEW s \in Status, UniqueActive(t),
         s \in Active => HasStatus(t, j, Active)
  PROVE  UniqueActive(WithStatus(t, j, s))
  BY WithStatusRow DEF UniqueActive, HasStatus

\* Requeued keeps every row's entry and makes `from' rows queued.
LEMMA RequeuedRows ==
  ASSUME NEW t \in [Jobs -> Row \cup {NoRow}], NEW from \in Status
  PROVE  /\ Requeued(t, from) \in [Jobs -> Row \cup {NoRow}]
         /\ \A j \in Jobs :
              /\ t[j].status = from =>
                   /\ Requeued(t, from)[j].status = "queued"
                   /\ Requeued(t, from)[j].entry = t[j].entry
              /\ t[j].status # from => Requeued(t, from)[j] = t[j]
  <1>1. ASSUME NEW j \in Jobs, t[j].status = from
        PROVE  /\ [t[j] EXCEPT !.status = "queued"] \in Row
               /\ [t[j] EXCEPT !.status = "queued"].status = "queued"
               /\ [t[j] EXCEPT !.status = "queued"].entry = t[j].entry
    <2>1. t[j] \in Row
      BY <1>1 DEF Row, NoRow, Status
    <2>. QED
      BY <2>1 DEF Row, Status
  <1>. QED
    BY <1>1 DEF Requeued

\* Putting the running rows back in the queue keeps the index.
LEMMA RequeuedRunningUnique ==
  ASSUME NEW t \in [Jobs -> Row \cup {NoRow}], UniqueActive(t)
  PROVE  UniqueActive(Requeued(t, "running"))
  <1>1. "running" \in Status
    BY DEF Status
  <1>2. \A j \in Jobs : HasStatus(Requeued(t, "running"), j, Active) =>
                          /\ HasStatus(t, j, Active)
                          /\ Requeued(t, "running")[j].entry = t[j].entry
    BY <1>1, RequeuedRows DEF HasStatus, Active
  <1>. QED
    BY <1>2 DEF UniqueActive

-----------------------------------------------------------------------------
(***************************************************************************)
(* The inductive invariant.                                                *)
(***************************************************************************)

\* The initial states satisfy the inductive invariant.
LEMMA InitIInv == Init => IInv
  BY DEF Init, IInv, TypeOK, OneActiveJobPerEntry, RunningIffClaimed,
         DownHoldsNothing, UniqueActive, HasStatus, Active, NoRow

\* No step of the daemon, of the IPC thread or of a maintenance command
\* breaks the inductive invariant.
LEMMA NextIInv == IInv /\ [Next]_queueVars => IInv'
  <1>. SUFFICES ASSUME IInv, [Next]_queueVars PROVE IInv'
    OBVIOUS
  <1>. USE DEF IInv, TypeOK
  <1>0. \A j \in Jobs : rows[j].status \in Status => rows[j] # NoRow
    BY DEF NoRow, Status
  <1>1. ASSUME NEW e \in Entries, Enqueue(e) PROVE IInv'
    <2>1. PICK j \in Jobs : EnqueueRow(j, e)
      BY <1>1 DEF Enqueue
    <2>2. [entry |-> e, status |-> "queued"] \in Row
      BY DEF Row, Status
    <2>3. rows' = Inserted(rows, j, e) /\ rows[j].status = "none"
      BY <2>1 DEF EnqueueRow, NoRow
    <2>4. TypeOK'
      BY <1>1, <2>2, <2>3 DEF Enqueue, Inserted
    <2>5. OneActiveJobPerEntry'
      BY <2>1 DEF EnqueueRow, OneActiveJobPerEntry
    <2>6. RunningIffClaimed' /\ DownHoldsNothing'
      BY <1>1, <2>3 DEF Enqueue, Inserted, RunningIffClaimed, DownHoldsNothing
    <2>. QED
      BY <2>4, <2>5, <2>6
  <1>2. ASSUME NEW j \in Jobs, Claim(j) PROVE IInv'
    <2>1. rows[j] # NoRow /\ HasStatus(rows, j, Active) /\ "running" \in Status
      BY <1>0, <1>2 DEF Claim, HasStatus, Active, Status
    <2>2. TypeOK'
      BY <1>2, <2>1, WithStatusRow DEF Claim
    <2>3. OneActiveJobPerEntry'
      BY <1>2, <2>1, WithStatusUnique DEF Claim, OneActiveJobPerEntry
    <2>4. RunningIffClaimed' /\ DownHoldsNothing'
      BY <1>2, <2>1, WithStatusRow
      DEF Claim, RunningIffClaimed, DownHoldsNothing
    <2>. QED
      BY <2>2, <2>3, <2>4
  <1>3. ASSUME NEW j \in Jobs, NEW s \in {"done", "failed"}, Mark(j, s)
        PROVE  IInv'
    <2>1. rows[j].status = "running"
      BY <1>3 DEF Mark, RunningIffClaimed
    <2>2. rows[j] # NoRow /\ s \in Status /\ s \notin Active
      BY <1>0, <1>3, <2>1 DEF Status, Active
    <2>3. TypeOK'
      BY <1>3, <2>2, WithStatusRow DEF Mark
    <2>4. OneActiveJobPerEntry'
      BY <1>3, <2>2, WithStatusUnique DEF Mark, OneActiveJobPerEntry
    <2>5. RunningIffClaimed' /\ DownHoldsNothing'
      BY <1>3, <2>2, WithStatusRow
      DEF Mark, RunningIffClaimed, DownHoldsNothing, Active
    <2>. QED
      BY <2>3, <2>4, <2>5
  <1>4. CASE Start
    <2>1. "running" \in Status
      BY DEF Status
    <2>2. TypeOK'
      BY <1>4, <2>1, RequeuedRows DEF Start
    <2>3. OneActiveJobPerEntry'
      BY <1>4, RequeuedRunningUnique DEF Start, OneActiveJobPerEntry
    <2>4. RunningIffClaimed' /\ DownHoldsNothing'
      BY <1>4, <2>1, RequeuedRows
      DEF Start, RunningIffClaimed, DownHoldsNothing
    <2>. QED
      BY <2>2, <2>3, <2>4
  <1>5. CASE Crash
    BY <1>5
    DEF Crash, OneActiveJobPerEntry, RunningIffClaimed, DownHoldsNothing
  <1>6. CASE RetryFailed
    <2>1. "failed" \in Status
      BY DEF Status
    <2>2. TypeOK'
      BY <1>6, <2>1, RequeuedRows DEF RetryFailed, RetryFailedResult
    <2>3. OneActiveJobPerEntry'
      BY <1>6 DEF RetryFailed, RetryFailedResult, OneActiveJobPerEntry
    <2>4. RunningIffClaimed' /\ DownHoldsNothing'
      BY <1>6, <2>1, RequeuedRows
      DEF RetryFailed, RetryFailedResult, RunningIffClaimed, DownHoldsNothing
    <2>. QED
      BY <2>2, <2>3, <2>4
  <1>7. CASE ClearDone
    <2>1. \A j \in Jobs : \/ rows'[j] = rows[j]
                          \/ rows[j].status = "done" /\ rows'[j] = NoRow
      BY <1>7 DEF ClearDone
    <2>2. TypeOK'
      BY <1>7 DEF ClearDone
    <2>3. OneActiveJobPerEntry'
      BY <2>1 DEF OneActiveJobPerEntry, UniqueActive, HasStatus, Active, NoRow
    <2>4. RunningIffClaimed' /\ DownHoldsNothing'
      BY <1>7, <2>1 DEF ClearDone, RunningIffClaimed, DownHoldsNothing, NoRow
    <2>. QED
      BY <2>2, <2>3, <2>4
  <1>8. CASE UNCHANGED queueVars
    BY <1>8 DEF queueVars, OneActiveJobPerEntry, RunningIffClaimed,
                DownHoldsNothing
  <1>. QED
    BY <1>1, <1>2, <1>3, <1>4, <1>5, <1>6, <1>7, <1>8
    DEF Next, DaemonNext, MaintenanceNext, MarkDone, MarkFailed

\* The inductive invariant holds in every reachable state.
LEMMA SpecIInv == Spec => []IInv
  BY InitIInv, NextIInv, PTL DEF Spec

-----------------------------------------------------------------------------
(***************************************************************************)
(* The theorems.                                                           *)
(***************************************************************************)

\* The table keeps its shape: QueueRepo writes only rows of the schema.
THEOREM TypeCorrect == Spec => []TypeOK
  BY SpecIInv, PTL DEF IInv

\* For every number of entries and rows, no entry has two active jobs, with
\* crashes, restarts and retries in any order.
THEOREM NoDoubleTransfer == Spec => []OneActiveJobPerEntry
  BY SpecIInv, PTL DEF IInv

\* For every number of entries and rows, a job is running exactly when the
\* live daemon runs it: retryRunning at startup leaves no orphan behind.
THEOREM NoOrphanedJob == Spec => []RunningIffClaimed
  BY SpecIInv, PTL DEF IInv
=============================================================================
