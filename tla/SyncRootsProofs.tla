--------------------------- MODULE SyncRootsProofs ---------------------------
(***************************************************************************)
(* SyncRoots' safety properties, for any number of folders, clients,       *)
(* failures and crashes and any backlog.                                   *)
(*                                                                         *)
(* Both threads run the same procedures, so the invariant speaks of every  *)
(* thread: a thread that is about to disable a root has seen its folder    *)
(* deleted, and deletion on the server is for good, or has taken a deleted *)
(* file of the folder for it (SeenDeleted); a thread that is about to      *)
(* write the row back after a removal read it when it was disabled, unless *)
(* the removal met it (OldCopies); and no thread works on a root that was  *)
(* disabled when the daemon started (SettledIdle).                         *)
(***************************************************************************)
EXTENDS SyncRoots, TLAPS

\* The steps of runTick and of ensureRootFolder, and the others.
Ticking == {"scan", "list", "disable", "removeTree"}
Binding == {"ensure", "create", "bind"}
Plain == Step \ (Ticking \cup Binding)

\* Where the procedures are called from.
Returns == {"ended", "reread", "top", "page", "serve"}

\* A process that is down has no memory, and procedures return to the loops
\* they were called from.
Control ==
  /\ ~up => th = [t \in Threads |-> Gone] /\ snap = NoRow
  /\ \A t \in Threads : th[t].ret \in Returns

\* The row is never deleted, so a copy is one of a row that exists.
RowStays ==
  /\ snap.exists => row.exists
  /\ \A t \in Threads :
       /\ th[t].copy.exists => row.exists
       /\ th[t].pc = "ensure" => row.exists
       /\ th[t].pc \in {"create", "bind"} => th[t].copy.exists

\* The server's folders are those that were made.
FoldersMade == \A f \in Folders : server[f] = "none" <=> f > made

\* Who is about to disable a root has seen its folder deleted, or a file of it.
SeenDeleted ==
  \A t \in Threads :
    th[t].pc \in {"disable", "removeTree"} =>
      server[th[t].copy.folder] = "deleted" \/ th[t].entry = "file"

\* After a removal that met no creation no enabled copy is left to be written.
OldCopies ==
  told /\ ~raced =>
    /\ ~row.enabled
    /\ \A t \in Threads : th[t].pc \in {"create", "bind"} => ~th[t].copy.enabled

\* Nobody works on a root that was disabled when the daemon started.
SettledIdle ==
  settled =>
    /\ ~row.enabled /\ ~snap.enabled
    /\ \A t \in Threads : th[t].pc \notin Ticking \cup Binding

IInv ==
  /\ TypeOK /\ Control /\ RowStays /\ FoldersMade
  /\ SeenDeleted /\ OldCopies /\ SettledIdle

\* TypeOK in two: the threads with the rows and folders they work on, and
\* the rest.
ThreadsOK ==
  /\ row \in Row \cup {NoRow} /\ snap \in Row \cup {NoRow}
  /\ server \in [Folders -> {"none", "live", "moved", "deleted"}]
  /\ th \in [Threads -> Thread]
  /\ \A t \in Threads :
       /\ th[t].pc \in {"list", "disable", "removeTree", "bind"} => th[t].copy.folder \in Folders
       /\ th[t].pc \in {"scan", "list", "disable", "removeTree", "create", "bind"}
            => row.exists

RestOK ==
  /\ tree \in BOOLEAN /\ up \in BOOLEAN
  /\ stopReq \in BOOLEAN /\ stopping \in BOOLEAN /\ listening \in BOOLEAN
  /\ backlog \in Seq(Connection) /\ Len(backlog) <= Backlog
  /\ made \in 0..MaxFolders /\ commands \in 0..MaxCommands /\ trouble \in 0..MaxTrouble
  /\ told \in BOOLEAN /\ raced \in BOOLEAN /\ settled \in BOOLEAN

\* What the threads' steps depend on and may disturb.
Core ==
  /\ ThreadsOK /\ Control /\ RowStays /\ SeenDeleted /\ OldCopies /\ SettledIdle

LEMMA Parts == IInv <=> Core /\ FoldersMade /\ RestOK
BY DEF IInv, Core, TypeOK, ThreadsOK, RestOK

-----------------------------------------------------------------------------
(***************************************************************************)
(* Rows and threads.                                                       *)
(***************************************************************************)
LEMMA NoRowType ==
  /\ NoRow \in Row \cup {NoRow} /\ ~NoRow.enabled /\ ~NoRow.exists /\ NoRow.folder = 0
BY DEF NoRow

LEMMA RowFacts ==
  ASSUME NEW r \in Row \cup {NoRow}
  PROVE  /\ r.folder \in Folders \cup {0} /\ r.enabled \in BOOLEAN /\ r.exists \in BOOLEAN
         /\ r.enabled \/ r.folder # 0 => r.exists
         /\ r.exists => r \in Row
<1>1. CASE r \in Row
      <2>1. r.exists = TRUE
            BY <1>1 DEF Row
      <2>2. r.folder \in Folders \cup {0} /\ r.enabled \in BOOLEAN
            BY <1>1 DEF Row
      <2> QED BY <1>1, <2>1, <2>2
<1>2. CASE r = NoRow
      <2>1. r.folder = 0 /\ r.enabled = FALSE /\ r.exists = FALSE
            BY <1>2 DEF NoRow
      <2> QED BY <2>1
<1> QED BY <1>1, <1>2

LEMMA DisabledRow ==
  ASSUME NEW r \in Row
  PROVE  LET d == [r EXCEPT !.enabled = FALSE]
         IN  d \in Row /\ d.folder = r.folder /\ d.enabled = FALSE /\ d.exists = TRUE
BY DEF Row

LEMMA AddedRow ==
  LET d == [folder |-> 0, enabled |-> TRUE, exists |-> TRUE]
  IN  d \in Row /\ d.folder = 0 /\ d.enabled = TRUE /\ d.exists = TRUE
BY DEF Row

LEMMA GoneType ==
  /\ Gone \in Thread /\ Gone.pc = "ended" /\ Gone.ret = "ended" /\ Gone.copy = NoRow /\ Gone.entry = "none"
  /\ \A pc \in Step :
       /\ [Gone EXCEPT !.pc = pc] \in Thread
       /\ [Gone EXCEPT !.pc = pc].pc = pc
       /\ [Gone EXCEPT !.pc = pc].ret = "ended"
       /\ [Gone EXCEPT !.pc = pc].copy = NoRow
       /\ [Gone EXCEPT !.pc = pc].entry = "none"
BY NoRowType DEF Gone, Thread, Step, Shown

\* What is left of a thread's record after a step, and that the other thread
\* keeps its own.
Moved(t, pc, ret, copy, entry) ==
  /\ th' \in [Threads -> Thread]
  /\ th'[t].pc = pc /\ th'[t].ret = ret /\ th'[t].copy = copy /\ th'[t].entry = entry
  /\ \A u \in Threads \ {t} : th'[u] = th[u]

LEMMA GotoMoves ==
  ASSUME ThreadsOK, NEW t \in Threads, NEW pc \in Step, Goto(t, pc)
  PROVE  Moved(t, pc, th[t].ret, th[t].copy, th[t].entry)
BY DEF ThreadsOK, Goto, Moved, Thread

LEMMA CallMoves ==
  ASSUME ThreadsOK, NEW t \in Threads, NEW pc \in Step, NEW ret \in Step, Call(t, pc, ret)
  PROVE  Moved(t, pc, ret, th[t].copy, th[t].entry)
BY DEF ThreadsOK, Call, Moved, Thread

LEMMA ReturnMoves ==
  ASSUME ThreadsOK, NEW t \in Threads, Return(t)
  PROVE  Moved(t, th[t].ret, "ended", NoRow, "none")
<1>1. th[t].ret \in Step
      BY DEF ThreadsOK, Thread
<1> QED BY <1>1, GoneType DEF ThreadsOK, Return, Moved

LEMMA ThrowMoves ==
  ASSUME ThreadsOK, NEW t \in Threads, Throw(t)
  PROVE  Moved(t, IF t = "ipc" THEN "serve" ELSE "closing", "ended", NoRow, "none")
<1>1. (IF t = "ipc" THEN "serve" ELSE "closing") \in Step
      BY DEF Step
<1> QED BY <1>1, GoneType DEF ThreadsOK, Throw, Moved

LEMMA CopyMoves ==
  ASSUME ThreadsOK, NEW t \in Threads, NEW pc \in Step,
         th' = [th EXCEPT ![t].pc = pc, ![t].copy = row]
  PROVE  Moved(t, pc, th[t].ret, row, th[t].entry)
BY DEF ThreadsOK, Moved, Thread

LEMMA EntryMoves ==
  ASSUME ThreadsOK, NEW t \in Threads, NEW pc \in Step, NEW first \in Shown,
         th' = [th EXCEPT ![t].pc = pc, ![t].entry = first]
  PROVE  Moved(t, pc, th[t].ret, th[t].copy, first)
BY DEF ThreadsOK, Moved, Thread

LEMMA FolderMoves ==
  ASSUME ThreadsOK, RowStays, NEW t \in Threads, NEW f \in Folders, th[t].pc = "create",
         th' = [th EXCEPT ![t].pc = "bind", ![t].copy.folder = f]
  PROVE  /\ Moved(t, "bind", th[t].ret, [th[t].copy EXCEPT !.folder = f], th[t].entry)
         /\ th'[t].copy.folder = f
         /\ th'[t].copy.enabled = th[t].copy.enabled /\ th'[t].copy.exists
<1> DEFINE c == [th[t].copy EXCEPT !.folder = f]
<1>1. th[t].copy \in Row /\ th[t].copy.exists = TRUE
      BY RowFacts DEF ThreadsOK, RowStays, Thread, Row
<1>2. c \in Row /\ c.folder = f /\ c.enabled = th[t].copy.enabled /\ c.exists = TRUE
      BY <1>1 DEF Row
<1>3. "bind" \in Step
      BY DEF Step
<1>4. th' = [th EXCEPT ![t] = [th[t] EXCEPT !.pc = "bind", !.copy = c]]
      OBVIOUS
<1> HIDE DEF c
<1> DEFINE d == [th[t] EXCEPT !.pc = "bind", !.copy = c]
<1>5. /\ d \in Thread /\ d.pc = "bind" /\ d.ret = th[t].ret /\ d.copy = c
      /\ d.entry = th[t].entry
      BY <1>2, <1>3 DEF ThreadsOK, Thread
<1> HIDE DEF d
<1>6. Moved(t, "bind", th[t].ret, c, th[t].entry)
      BY <1>4, <1>5 DEF ThreadsOK, Moved, d
<1> QED BY <1>2, <1>6 DEF Moved, c

LEMMA InitIInv == Init => IInv
<1> SUFFICES ASSUME Init PROVE IInv
    OBVIOUS
<1> USE NoRowType, GoneType DEF Init
<1>1. [folder |-> 0, enabled |-> TRUE, exists |-> TRUE] \in Row
      BY DEF Row
<1>2. TypeOK
      <2>1. backlog \in Seq(Connection) /\ Len(backlog) <= Backlog
            BY BacklogAssumption
      <2>2. made \in 0..MaxFolders /\ commands \in 0..MaxCommands /\ trouble \in 0..MaxTrouble
            BY BoundsAssumption
      <2> QED BY <1>1, <2>1, <2>2 DEF TypeOK
<1>3. Control
      BY DEF Control, Returns
<1>4. RowStays /\ FoldersMade
      BY BoundsAssumption DEF RowStays, FoldersMade, Folders
<1>5. SeenDeleted /\ OldCopies /\ SettledIdle
      BY DEF SeenDeleted, OldCopies, SettledIdle, Ticking, Binding
<1> QED BY <1>2, <1>3, <1>4, <1>5 DEF IInv
-----------------------------------------------------------------------------
(***************************************************************************)
(* What a thread can do, and that each of it keeps the core.               *)
(***************************************************************************)

\* A folder that is deleted stays so.
DeletedStays ==
  /\ server' \in [Folders -> {"none", "live", "moved", "deleted"}]
  /\ \A f \in Folders : server[f] = "deleted" => server'[f] = "deleted"

Quiet == DeletedStays /\ UNCHANGED <<row, told, raced, settled>>

\* The process goes on; its loop may read the root.
Runs == up /\ up' /\ snap' \in {snap, row}

\* A thread leaves a procedure, or goes on outside of them.
LEMMA LeaveKeeps ==
  ASSUME Core, Runs, Quiet, NEW t \in Threads, NEW pc \in Plain, NEW ret \in Returns,
         NEW copy \in {th[t].copy, NoRow}, NEW entry, Moved(t, pc, ret, copy, entry)
  PROVE  Core'
<1> USE DEF Core, Runs, Quiet, DeletedStays, Moved, Plain
<1>1. ThreadsOK'
      BY DEF ThreadsOK, Ticking, Binding
<1>2. Control'
      BY DEF Control
<1>3. RowStays'
      BY NoRowType DEF RowStays, Binding
<1>4. SeenDeleted'
      BY DEF SeenDeleted, ThreadsOK, Ticking
<1>5. OldCopies'
      BY DEF OldCopies, Binding
<1>6. SettledIdle'
      BY DEF SettledIdle, Ticking, Binding
<1> QED BY <1>1, <1>2, <1>3, <1>4, <1>5, <1>6

\* A thread that found the root enabled begins to work on it.
LEMMA StartKeeps ==
  ASSUME Core, Runs, Quiet, NEW t \in Threads, NEW pc \in {"scan", "ensure"},
         NEW ret \in Returns, row.enabled \/ snap.enabled,
         Moved(t, pc, ret, th[t].copy, th[t].entry)
  PROVE  Core'
<1> USE DEF Core, Runs, Quiet, DeletedStays, Moved
<1>1. row.exists
      BY RowFacts DEF ThreadsOK, RowStays
<1>2. ThreadsOK'
      BY <1>1 DEF ThreadsOK
<1>3. Control'
      BY DEF Control
<1>4. RowStays'
      BY <1>1 DEF RowStays
<1>5. SeenDeleted'
      BY DEF SeenDeleted, ThreadsOK
<1>6. OldCopies'
      BY DEF OldCopies
<1>7. SettledIdle'
      BY DEF SettledIdle
<1> QED BY <1>2, <1>3, <1>4, <1>5, <1>6, <1>7

\* A thread goes on inside runTick: it has read the row, or it has seen the
\* folder deleted.
LEMMA TickKeeps ==
  ASSUME Core, Runs, Quiet, NEW t \in Threads, NEW pc \in {"list", "disable"},
         NEW copy \in {th[t].copy, row}, copy.folder \in Folders, NEW entry,
         pc = "disable" => server[copy.folder] = "deleted" \/ entry = "file",
         th[t].pc \in Ticking, Moved(t, pc, th[t].ret, copy, entry)
  PROVE  Core'
<1> USE DEF Core, Runs, Quiet, DeletedStays, Moved
<1>1. row.exists
      BY DEF ThreadsOK, Ticking
<1>2. ThreadsOK'
      BY <1>1 DEF ThreadsOK
<1>3. Control'
      BY DEF Control
<1>4. RowStays'
      BY <1>1 DEF RowStays
<1>5. SeenDeleted'
      BY DEF SeenDeleted, ThreadsOK
<1>6. OldCopies'
      BY DEF OldCopies
<1>7. SettledIdle'
      BY DEF SettledIdle
<1> QED BY <1>2, <1>3, <1>4, <1>5, <1>6, <1>7

\* A thread goes on inside ensureRootFolder, with a copy as old as the row or
\* as the one it has.
LEMMA BindKeeps ==
  ASSUME Core, Runs, Quiet, NEW t \in Threads, NEW pc \in {"create", "bind"},
         NEW copy, copy.exists, pc = "bind" => copy.folder \in Folders,
         \/ th[t].pc = "ensure" /\ copy = row
         \/ th[t].pc = "create" /\ copy.enabled = th[t].copy.enabled,
         Moved(t, pc, th[t].ret, copy, th[t].entry)
  PROVE  Core'
<1> USE DEF Core, Runs, Quiet, DeletedStays, Moved
<1>1. row.exists
      BY DEF ThreadsOK, RowStays
<1>2. ThreadsOK'
      BY <1>1 DEF ThreadsOK
<1>3. Control'
      BY DEF Control
<1>4. RowStays'
      BY <1>1 DEF RowStays
<1>5. SeenDeleted'
      BY DEF SeenDeleted, ThreadsOK
<1>6. OldCopies'
      BY DEF OldCopies
<1>7. SettledIdle'
      BY DEF SettledIdle, Binding
<1> QED BY <1>2, <1>3, <1>4, <1>5, <1>6, <1>7

\* Nothing of the core changes but the server's folders.
LEMMA IdleKeeps ==
  ASSUME Core, Quiet, UNCHANGED <<up, th, snap>>
  PROVE  Core'
<1> USE DEF Core, Quiet, DeletedStays
<1>1. ThreadsOK' /\ Control' /\ RowStays'
      BY DEF ThreadsOK, Control, RowStays
<1>2. SeenDeleted'
      BY DEF SeenDeleted, ThreadsOK
<1>3. OldCopies' /\ SettledIdle'
      BY DEF OldCopies, SettledIdle
<1> QED BY <1>1, <1>2, <1>3

LEMMA DownKeeps ==
  ASSUME Core, Quiet, Down
  PROVE  Core'
<1> USE NoRowType, GoneType DEF Core, Quiet, DeletedStays, Down
<1>1. ThreadsOK'
      BY DEF ThreadsOK
<1>2. Control'
      BY DEF Control, Returns
<1>3. RowStays' /\ SeenDeleted'
      BY DEF RowStays, SeenDeleted
<1>4. OldCopies' /\ SettledIdle'
      BY DEF OldCopies, SettledIdle, Ticking, Binding
<1> QED BY <1>1, <1>2, <1>3, <1>4

LEMMA QuietIfSame ==
  ASSUME ThreadsOK, UNCHANGED <<row, server, told, raced, settled>>
  PROVE  Quiet
BY DEF ThreadsOK, Quiet, DeletedStays

-----------------------------------------------------------------------------
(***************************************************************************)
(* The actions of both threads.                                            *)
(***************************************************************************)

\* A procedure ends, or throws.
LEMMA ReturnKeeps ==
  ASSUME Core, Runs, Quiet, NEW t \in Threads, Return(t) \/ Throw(t)
  PROVE  Core'
<1> USE DEF Core
<1>1. CASE Return(t)
      <2>1. Moved(t, th[t].ret, "ended", NoRow, "none")
            BY <1>1, ReturnMoves
      <2>2. th[t].ret \in Plain /\ "ended" \in Returns
            BY DEF Control, Returns, Plain, Step, Ticking, Binding
      <2> QED BY <2>1, <2>2, LeaveKeeps
<1>2. CASE Throw(t)
      <2> DEFINE pc == IF t = "ipc" THEN "serve" ELSE "closing"
      <2>1. Moved(t, pc, "ended", NoRow, "none")
            BY <1>2, ThrowMoves
      <2>2. pc \in Plain /\ "ended" \in Returns
            BY DEF Returns, Plain, Step, Ticking, Binding
      <2> HIDE DEF pc
      <2> QED BY <2>1, <2>2, LeaveKeeps
<1> QED BY <1>1, <1>2

\* A thread goes on outside of the procedures.
LEMMA GotoKeeps ==
  ASSUME Core, Runs, Quiet, NEW t \in Threads, NEW pc \in Plain, Goto(t, pc)
  PROVE  Core'
<1>1. Moved(t, pc, th[t].ret, th[t].copy, th[t].entry)
      BY GotoMoves DEF Core, Plain
<1>2. th[t].ret \in Returns
      BY DEF Core, Control
<1> QED BY <1>1, <1>2, LeaveKeeps

LEMMA CallKeeps ==
  ASSUME Core, Runs, Quiet, NEW t \in Threads, NEW pc \in {"scan", "ensure"},
         NEW ret \in Returns, Call(t, pc, ret), row.enabled \/ snap.enabled
  PROVE  Core'
<1>1. Moved(t, pc, ret, th[t].copy, th[t].entry)
      BY CallMoves DEF Core, Step, Returns
<1> QED BY <1>1, StartKeeps

\* RemoteSyncService::runTick
LEMMA TickKeepsCore ==
  ASSUME Core, NEW t \in Threads, Tick(t)
  PROVE  Core'
<1>1. Runs
      BY DEF Tick, ScanRemoteRoot, isRootDeleted, List, ListFails, DisableDeleted, RemoveTree,
         At, Runs
<1>2. CASE ScanRemoteRoot(t)
      <2>1. Quiet
            BY <1>2, QuietIfSame DEF Core, ScanRemoteRoot, rootVars, histVars
      <2>2. CASE th' = [th EXCEPT ![t].pc = "list", ![t].copy = row] /\ row.folder # 0
            <3>1. Moved(t, "list", th[t].ret, row, th[t].entry)
                  BY <2>2, CopyMoves DEF Core, Step
            <3>2. row.folder \in Folders
                  BY <2>2, RowFacts DEF Core, ThreadsOK
            <3>3. th[t].pc \in Ticking
                  BY <1>2 DEF ScanRemoteRoot, At, Ticking
            <3> QED BY <1>1, <2>1, <3>1, <3>2, <3>3, TickKeeps
      <2> QED BY <1>1, <1>2, <2>1, <2>2, ReturnKeeps DEF ScanRemoteRoot
<1>3. CASE isRootDeleted(t)
      <2>1. Quiet
            BY <1>3, QuietIfSame DEF Core, isRootDeleted, List, ListFails, rootVars, histVars
      <2>2. ASSUME NEW first \in Shown, List(t, first)
            PROVE  Core'
            <3>1. CASE /\ ListedDeleted(th[t].copy.folder, first)
                       /\ th' = [th EXCEPT ![t].pc = "disable", ![t].entry = first]
                  <4>1. Moved(t, "disable", th[t].ret, th[t].copy, first)
                        BY <3>1, EntryMoves DEF Core, Step
                  <4>2. th[t].copy.folder \in Folders /\ th[t].pc \in Ticking
                        BY <2>2 DEF Core, ThreadsOK, List, At, Ticking
                  <4>3. server[th[t].copy.folder] = "deleted" \/ first = "file"
                        BY <3>1 DEF ListedDeleted
                  <4> QED BY <1>1, <2>1, <4>1, <4>2, <4>3, TickKeeps
            <3> QED BY <1>1, <2>1, <2>2, <3>1, ReturnKeeps DEF List
      <2>3. CASE ListFails(t)
            BY <1>1, <2>1, <2>3, ReturnKeeps DEF ListFails
      <2> QED BY <1>3, <2>2, <2>3 DEF isRootDeleted
<1>4. CASE DisableDeleted(t)
      <2> USE <1>4 DEF Core, DisableDeleted, At
      <2>1. Moved(t, "removeTree", th[t].ret, th[t].copy, th[t].entry)
            BY GotoMoves DEF Step
      <2>2. row \in Row
            BY RowFacts DEF ThreadsOK
      <2>3. row' \in Row /\ row'.folder = row.folder /\ row'.enabled = FALSE /\ row'.exists = TRUE
            BY <2>2, DisabledRow
      <2>4. UNCHANGED <<server, up, snap, told, raced, settled>>
            BY DEF histVars
      <2> USE <2>1, <2>3, <2>4 DEF Moved
      <2>5. ThreadsOK'
            BY DEF ThreadsOK
      <2>6. Control' /\ RowStays'
            BY DEF Control, RowStays
      <2>7. SeenDeleted'
            BY DEF SeenDeleted
      <2>8. OldCopies' /\ SettledIdle'
            BY DEF OldCopies, SettledIdle, Ticking
      <2> QED BY <2>5, <2>6, <2>7, <2>8
<1>5. CASE RemoveTree(t)
      <2>1. Quiet
            BY <1>5, QuietIfSame DEF Core, RemoveTree, histVars
      <2> QED BY <1>1, <1>5, <2>1, ReturnKeeps DEF RemoveTree
<1> QED BY <1>2, <1>3, <1>4, <1>5 DEF Tick

\* FolderCreateWorker::ensureRootFolder
LEMMA EnsureKeepsCore ==
  ASSUME Core, FoldersMade, RestOK, NEW t \in Threads, EnsureRootFolder(t)
  PROVE  Core'
<1>1. Runs
      BY DEF EnsureRootFolder, ReadUnbound, CreateRootFolder, BindRootFolder, At, Runs
<1>2. CASE ReadUnbound(t)
      <2>1. Quiet
            BY <1>2, QuietIfSame DEF Core, ReadUnbound, rootVars, histVars
      <2>2. CASE th' = [th EXCEPT ![t].pc = "create", ![t].copy = row]
            <3>1. Moved(t, "create", th[t].ret, row, th[t].entry)
                  BY <2>2, CopyMoves DEF Core, Step
            <3>2. row.exists /\ th[t].pc = "ensure"
                  BY <1>2 DEF Core, RowStays, ReadUnbound, At
            <3> QED BY <1>1, <2>1, <3>1, <3>2, BindKeeps
      <2> QED BY <1>1, <1>2, <2>1, <2>2, ReturnKeeps DEF ReadUnbound
<1>3. CASE CreateRootFolder(t)
      <2>1. UNCHANGED <<row, told, raced, settled>>
            BY <1>3 DEF CreateRootFolder, histVars
      <2>2. DeletedStays
            BY <1>3, BoundsAssumption
            DEF Core, ThreadsOK, FoldersMade, RestOK, CreateRootFolder, DeletedStays, Folders
      <2>3. Quiet
            BY <2>1, <2>2 DEF Quiet
      <2>4. CASE /\ made < MaxFolders /\ made' = made + 1
                 /\ th' = [th EXCEPT ![t].pc = "bind", ![t].copy.folder = made']
            <3>1. made' \in Folders
                  BY <2>4, BoundsAssumption DEF RestOK, Folders
            <3>2. th[t].pc = "create"
                  BY <1>3 DEF CreateRootFolder, At
            <3>3. /\ Moved(t, "bind", th[t].ret, th'[t].copy, th[t].entry)
                  /\ th'[t].copy.folder = made' /\ th'[t].copy.exists
                  /\ th'[t].copy.enabled = th[t].copy.enabled
                  BY <2>4, <3>1, <3>2, FolderMoves DEF Core, Moved
            <3> QED BY <1>1, <2>3, <3>1, <3>2, <3>3, BindKeeps
      <2> QED BY <1>1, <1>3, <2>3, <2>4, ReturnKeeps DEF CreateRootFolder
<1>4. CASE BindRootFolder(t)
      <2> USE <1>4 DEF Core, BindRootFolder, At
      <2>1. Moved(t, th[t].ret, "ended", NoRow, "none")
            BY ReturnMoves
      <2>2. th[t].ret \in Returns /\ th[t].ret \notin Ticking \cup Binding
            BY DEF Control, Returns, Ticking, Binding
      <2>3. row' = th[t].copy /\ row'.exists /\ row' \in Row \cup {NoRow}
            BY DEF RowStays, ThreadsOK, Thread
      <2>4. UNCHANGED <<server, up, snap, told, raced, settled>>
            BY DEF histVars
      <2> USE <2>1, <2>2, <2>3, <2>4 DEF Moved
      <2>5. ThreadsOK'
            BY DEF ThreadsOK, Ticking, Binding
      <2>6. Control'
            BY DEF Control, Returns
      <2>7. RowStays'
            BY NoRowType DEF RowStays, Binding
      <2>8. SeenDeleted'
            BY DEF SeenDeleted, Ticking
      <2>9. OldCopies' /\ SettledIdle'
            BY DEF OldCopies, SettledIdle, Binding
      <2> QED BY <2>5, <2>6, <2>7, <2>8, <2>9
<1> QED BY <1>2, <1>3, <1>4 DEF EnsureRootFolder

\* PollingDaemon::run and DaemonIpcServer::stop
LEMMA LoopKeepsCore ==
  ASSUME Core, FoldersMade, RestOK, Loop
  PROVE  Core'
<1> USE DEF Threads
<1>0. {"reread", "top", "page", "serve", "ended", "closing", "connect", "close", "join"}
        \subseteq Plain
      BY DEF Plain, Step, Ticking, Binding
<1>1. CASE Tick("loop") \/ EnsureRootFolder("loop")
      BY <1>1, TickKeepsCore, EnsureKeepsCore
<1>2. CASE BootTick
      <2>1. Runs /\ Quiet
            BY <1>2, QuietIfSame DEF Core, BootTick, At, Runs, rootVars, histVars
      <2>2. CASE Ticks(row) /\ Call("loop", "scan", "reread")
            BY <2>1, <2>2, CallKeeps DEF Ticks, Returns
      <2>3. CASE Goto("loop", "reread")
            BY <1>0, <2>1, <2>3, GotoKeeps
      <2> QED BY <1>2, <2>2, <2>3 DEF BootTick
<1>3. CASE TakeSnapshot
      <2>1. Runs /\ Quiet
            BY <1>3, QuietIfSame DEF Core, TakeSnapshot, At, Runs, rootVars, histVars
      <2>2. CASE row.enabled /\ Call("loop", "ensure", "top")
            BY <2>1, <2>2, CallKeeps DEF Returns
      <2>3. CASE Goto("loop", "top")
            BY <1>0, <2>1, <2>3, GotoKeeps
      <2> QED BY <1>3, <2>2, <2>3 DEF TakeSnapshot
<1>4. CASE TickDue
      <2>1. Runs /\ Quiet
            BY <1>4, QuietIfSame DEF Core, TickDue, At, Runs, rootVars, histVars
      <2> QED BY <1>4, <2>1, CallKeeps DEF TickDue, Ticks, Returns
<1>5. CASE PageNotDue \/ PageAfterTick
      <2> USE <1>5 DEF PageNotDue, PageAfterTick, BuildPage
      <2>1. Runs /\ Quiet
            BY QuietIfSame DEF Core, At, Runs, rootVars, histVars
      <2> QED BY <2>1, CallKeeps DEF Returns
<1>6. CASE LeaveLoop \/ NoPage
      <2> USE <1>6 DEF LeaveLoop, NoPage
      <2>1. Runs /\ Quiet
            BY QuietIfSame DEF Core, At, Runs, rootVars, histVars
      <2> QED BY <1>0, <2>1, GotoKeeps
<1>7. CASE SetStopping \/ SelfConnect \/ CloseSocket
      <2> USE <1>7 DEF SetStopping, SelfConnect, CloseSocket
      <2>1. Runs /\ Quiet
            BY QuietIfSame DEF Core, At, Runs, rootVars, histVars
      <2> QED BY <1>0, <2>1, GotoKeeps
<1>8. CASE Join
      <2>1. Quiet
            BY <1>8, QuietIfSame DEF Core, Join, rootVars, histVars
      <2> QED BY <1>8, <2>1, DownKeeps DEF Join
<1> QED BY <1>1, <1>2, <1>3, <1>4, <1>5, <1>6, <1>7, <1>8 DEF Loop

\* addSyncRoot and removeSyncRoot write the row while the loop goes on.
LEMMA RowCommandsKeepCore ==
  ASSUME Core, SyncAdd \/ SyncRemove
  PROVE  Core'
<1> USE DEF Core, Threads
<1>1. Goto("ipc", "serve") /\ up /\ up' /\ UNCHANGED <<server, snap>>
      BY DEF SyncAdd, SyncRemove, At
<1>2. Moved("ipc", "serve", th["ipc"].ret, th["ipc"].copy, th["ipc"].entry)
      BY <1>1, GotoMoves DEF Step
<1>3. CASE UNCHANGED <<row, told, raced, settled>>
      <2>1. Runs /\ Quiet /\ "serve" \in Plain
            BY <1>1, <1>3, QuietIfSame DEF Runs, Plain, Step, Ticking, Binding
      <2> QED BY <1>1, <2>1, GotoKeeps
<1>4. CASE /\ row' = [folder |-> 0, enabled |-> TRUE, exists |-> TRUE]
           /\ told' = FALSE /\ settled' = FALSE
      <2>1. row' \in Row /\ row'.exists
            BY <1>4, AddedRow
      <2>2. OldCopies' /\ SettledIdle'
            BY <1>4 DEF OldCopies, SettledIdle
      <2>3. ThreadsOK' /\ Control' /\ RowStays' /\ SeenDeleted'
            BY <1>1, <1>2, <2>1 DEF Moved, ThreadsOK, Control, RowStays, SeenDeleted
      <2> QED BY <2>2, <2>3
<1>5. CASE /\ row.exists /\ row' = [row EXCEPT !.enabled = FALSE] /\ UNCHANGED settled
           /\ raced' = (raced \/ th["loop"].pc \in {"create", "bind"})
      <2>1. row \in Row
            BY <1>5, RowFacts DEF ThreadsOK
      <2>2. row' \in Row /\ row'.enabled = FALSE /\ row'.exists = TRUE
            BY <1>5, <2>1, DisabledRow
      <2>3. OldCopies'
            BY <1>2, <1>5, <2>2 DEF Moved, OldCopies
      <2>4. SettledIdle'
            BY <1>1, <1>2, <1>5, <2>2 DEF Moved, SettledIdle, Ticking, Binding
      <2>5. ThreadsOK' /\ Control' /\ RowStays' /\ SeenDeleted'
            BY <1>1, <1>2, <2>2 DEF Moved, ThreadsOK, Control, RowStays, SeenDeleted
      <2> QED BY <2>3, <2>4, <2>5
<1> QED BY <1>3, <1>4, <1>5 DEF SyncAdd, SyncRemove, histVars

\* DaemonIpcServer::serve and the commands
LEMMA IpcKeepsCore ==
  ASSUME Core, FoldersMade, RestOK, Ipc
  PROVE  Core'
<1> USE DEF Threads
<1>0. {"serve", "ended", "accept", "receive", "stopped"} \subseteq Plain
      BY DEF Plain, Step, Ticking, Binding
<1>1. CASE Tick("ipc") \/ EnsureRootFolder("ipc")
      BY <1>1, TickKeepsCore, EnsureKeepsCore
<1>2. CASE Serve \/ StopCommand \/ ServeStopped
      <2> USE <1>2 DEF Serve, StopCommand, ServeStopped
      <2>1. Runs /\ Quiet
            BY QuietIfSame DEF Core, At, Runs, rootVars, histVars
      <2> QED BY <1>0, <2>1, GotoKeeps
<1>3. CASE Accept
      <2>1. Runs /\ Quiet
            BY <1>3, QuietIfSame DEF Core, Accept, At, Runs, rootVars, histVars
      <2>2. Goto("ipc", "serve") \/ Goto("ipc", "receive")
            BY <1>3 DEF Accept
      <2> QED BY <1>0, <2>1, <2>2, GotoKeeps
<1>4. CASE SyncAdd \/ SyncRemove
      BY <1>4, RowCommandsKeepCore
<1>5. CASE SyncRun
      <2>1. Runs /\ Quiet
            BY <1>5, QuietIfSame DEF Core, SyncRun, At, Runs, rootVars, histVars
      <2>2. CASE row.enabled /\ Call("ipc", "ensure", "serve")
            BY <2>1, <2>2, CallKeeps DEF Returns
      <2>3. CASE Goto("ipc", "serve")
            BY <1>0, <2>1, <2>3, GotoKeeps
      <2> QED BY <1>5, <2>2, <2>3 DEF SyncRun
<1>6. CASE SyncPull
      <2>1. Runs /\ Quiet
            BY <1>6, QuietIfSame DEF Core, SyncPull, At, Runs, rootVars, histVars
      <2>2. CASE row.enabled /\ Call("ipc", "scan", "serve")
            BY <2>1, <2>2, CallKeeps DEF Returns
      <2>3. CASE Goto("ipc", "serve")
            BY <1>0, <2>1, <2>3, GotoKeeps
      <2> QED BY <1>6, <2>2, <2>3 DEF SyncPull
<1> QED BY <1>1, <1>2, <1>3, <1>4, <1>5, <1>6 DEF Ipc

LEMMA BootKeepsCore ==
  ASSUME Core, Boot
  PROVE  Core'
<1> USE DEF Core, Boot
<1>1. \A t \in Threads :
        /\ th'[t] \in Thread /\ th'[t].pc \in {"boot", "serve"}
        /\ th'[t].ret = "ended" /\ th'[t].copy = NoRow
      <2> TAKE t \in Threads
      <2> DEFINE pc == IF t = "loop" THEN "boot" ELSE "serve"
      <2>1. th'[t] = [Gone EXCEPT !.pc = pc]
            OBVIOUS
      <2>2. pc \in Step /\ pc \in {"boot", "serve"}
            BY DEF Step
      <2> HIDE DEF pc
      <2> QED BY <2>1, <2>2, GoneType
<1>2. th' \in [Threads -> Thread]
      BY <1>1
<1>3. snap = NoRow /\ UNCHANGED <<row, server, snap, told, raced>>
      BY DEF Control, rootVars
<1> USE <1>1, <1>2, <1>3, NoRowType
<1> HIDE DEF Boot
<1>4. ThreadsOK' /\ RowStays' /\ SeenDeleted' /\ OldCopies'
      BY DEF ThreadsOK, RowStays, SeenDeleted, OldCopies
<1>5. Control'
      BY DEF Boot, Control, Returns
<1>6. SettledIdle'
      BY DEF Boot, SettledIdle, Ticking, Binding
<1> QED BY <1>4, <1>5, <1>6

LEMMA NextCore ==
  ASSUME Core, FoldersMade, RestOK, [Next]_vars
  PROVE  Core'
<1>1. ASSUME NEW f \in Folders, ChangeFolder(f)
      PROVE  Core'
      <2>1. DeletedStays
            BY <1>1 DEF Core, ThreadsOK, ChangeFolder, DeletedStays
      <2> QED BY <1>1, <2>1, IdleKeeps DEF ChangeFolder, Quiet, histVars
<1>2. CASE MakeTree \/ Connect \/ UNCHANGED vars
      <2>1. UNCHANGED <<row, server, told, raced, settled>> /\ UNCHANGED <<up, th, snap>>
            BY <1>2 DEF MakeTree, Connect, vars, rootVars, histVars
      <2> QED BY <2>1, IdleKeeps, QuietIfSame DEF Core
<1>3. CASE Signal
      <2>1. Quiet
            BY <1>3, QuietIfSame DEF Core, Signal, rootVars, histVars
      <2> QED BY <1>3, <2>1, IdleKeeps, DownKeeps DEF Signal
<1>4. CASE Boot
      BY <1>4, BootKeepsCore
<1>5. CASE Loop \/ Ipc
      BY <1>5, LoopKeepsCore, IpcKeepsCore
<1>6. ASSUME NEW pc \in Command \cup {"serve"}, Receive(pc)
      PROVE  Core'
      <2>1. Runs /\ Quiet
            BY <1>6, QuietIfSame DEF Core, Receive, At, Runs, rootVars, histVars
      <2>2. pc \in Plain
            BY DEF Plain, Step, Ticking, Binding, Command
      <2> QED BY <1>6, <2>1, <2>2, GotoKeeps DEF Receive, Threads
<1> QED BY <1>1, <1>2, <1>3, <1>4, <1>5, <1>6 DEF Next

\* Only ensureRootFolder makes a folder, and it takes the place of none.
LEMMA NextFoldersMade ==
  ASSUME ThreadsOK, RestOK, FoldersMade, [Next]_vars
  PROVE  FoldersMade'
<1> USE DEF FoldersMade, ThreadsOK, RestOK, rootVars
<1>1. ASSUME NEW f \in Folders, ChangeFolder(f)
      PROVE  FoldersMade'
      BY <1>1 DEF ChangeFolder
<1>2. ASSUME NEW t \in Threads, CreateRootFolder(t)
      PROVE  FoldersMade'
      BY <1>2, BoundsAssumption DEF CreateRootFolder, Folders
<1>3. ASSUME NEW t \in Threads, Tick(t) \/ ReadUnbound(t) \/ BindRootFolder(t)
      PROVE  FoldersMade'
      BY <1>3 DEF Tick, ScanRemoteRoot, isRootDeleted, List, ListFails, DisableDeleted,
         RemoveTree, ReadUnbound, BindRootFolder
<1>4. CASE \/ BootTick \/ TakeSnapshot \/ LeaveLoop \/ TickDue \/ PageNotDue
           \/ PageAfterTick \/ NoPage \/ SetStopping \/ SelfConnect \/ CloseSocket \/ Join
      BY <1>4 DEF BootTick, TakeSnapshot, LeaveLoop, TickDue, PageNotDue, PageAfterTick,
         BuildPage, NoPage, SetStopping, SelfConnect, CloseSocket, Join
<1>5. CASE \/ Serve \/ Accept \/ SyncAdd \/ SyncRemove \/ SyncRun \/ SyncPull
           \/ StopCommand \/ ServeStopped
      BY <1>5 DEF Serve, Accept, SyncAdd, SyncRemove, SyncRun, SyncPull, StopCommand,
         ServeStopped
<1>6. CASE \/ Connect \/ (\E pc \in Command \cup {"serve"} : Receive(pc))
           \/ MakeTree \/ Signal \/ Boot \/ UNCHANGED vars
      BY <1>6 DEF Connect, Receive, MakeTree, Signal, Boot, vars
<1> HIDE DEF FoldersMade
<1> QED BY <1>1, <1>2, <1>3, <1>4, <1>5, <1>6
        DEF Next, Loop, Ipc, EnsureRootFolder, Threads

LEMMA NextRestOK ==
  ASSUME ThreadsOK, RestOK, [Next]_vars
  PROVE  RestOK'
<1> USE BoundsAssumption, BacklogAssumption
    DEF RestOK, Fault, NoFault, rootVars, sockVars, histVars
<1>0. ASSUME Down
      PROVE  /\ backlog' \in Seq(Connection) /\ Len(backlog') <= Backlog
             /\ up' = FALSE /\ stopReq' = FALSE /\ stopping' = FALSE /\ listening' = FALSE
      <2>1. backlog' = <<>>
            BY <1>0 DEF Down
      <2>2. backlog' \in Seq(Connection) /\ Len(backlog') <= Backlog
            BY <2>1
      <2> QED BY <1>0, <2>2 DEF Down
<1>1. CASE Connect
      BY <1>1 DEF Connect, Connection
<1>2. ASSUME NEW t \in Threads, ScanRemoteRoot(t) \/ isRootDeleted(t)
      PROVE  RestOK'
      BY <1>2 DEF ScanRemoteRoot, isRootDeleted, List, ListFails
<1>3. ASSUME NEW t \in Threads, DisableDeleted(t) \/ RemoveTree(t)
      PROVE  RestOK'
      BY <1>3 DEF DisableDeleted, RemoveTree
<1>4. ASSUME NEW t \in Threads, CreateRootFolder(t)
      PROVE  RestOK'
      BY <1>4 DEF CreateRootFolder
<1>5. ASSUME NEW t \in Threads, ReadUnbound(t) \/ BindRootFolder(t)
      PROVE  RestOK'
      BY <1>5 DEF ReadUnbound, BindRootFolder
<1>6. CASE \/ BootTick \/ TakeSnapshot \/ LeaveLoop \/ TickDue \/ PageNotDue
           \/ PageAfterTick \/ NoPage
      BY <1>6 DEF BootTick, TakeSnapshot, LeaveLoop, TickDue, PageNotDue, PageAfterTick,
         BuildPage, NoPage
<1>7. CASE SelfConnect
      BY <1>7 DEF SelfConnect, Connection
<1>8. CASE SetStopping \/ CloseSocket \/ Join
      BY <1>0, <1>8 DEF SetStopping, CloseSocket, Join
<1>9. CASE Accept
      BY <1>9 DEF Accept
<1>10. CASE SyncAdd \/ SyncRemove
      BY <1>10 DEF SyncAdd, SyncRemove
<1>11. CASE Serve \/ SyncRun \/ SyncPull \/ StopCommand \/ ServeStopped
      BY <1>11 DEF Serve, SyncRun, SyncPull, StopCommand, ServeStopped
<1>12. CASE \/ (\E f \in Folders : ChangeFolder(f)) \/ MakeTree \/ UNCHANGED vars
            \/ (\E pc \in Command \cup {"serve"} : Receive(pc))
      BY <1>12 DEF ChangeFolder, MakeTree, Receive, vars
<1>13. CASE Signal
      BY <1>0, <1>13 DEF Signal
<1>14. CASE Boot
      <2>1. settled' \in BOOLEAN
            BY <1>14 DEF Boot
      <2> QED BY <1>14, <2>1 DEF Boot
<1> HIDE DEF RestOK
<1> QED BY <1>1, <1>2, <1>3, <1>4, <1>5, <1>6, <1>7, <1>8, <1>9, <1>10, <1>11, <1>12,
           <1>13, <1>14
        DEF Next, Loop, Ipc, Tick, EnsureRootFolder, Threads

LEMMA NextIInv == IInv /\ [Next]_vars => IInv'
<1> SUFFICES ASSUME IInv, [Next]_vars PROVE IInv'
    OBVIOUS
<1>1. Core /\ FoldersMade /\ RestOK
      BY Parts
<1>2. Core'
      BY <1>1, NextCore
<1>3. FoldersMade' /\ RestOK'
      BY <1>1, NextFoldersMade, NextRestOK DEF Core
<1> QED BY <1>2, <1>3 DEF Core, IInv, TypeOK, ThreadsOK, RestOK

LEMMA Invariance == Spec => []IInv
BY InitIInv, NextIInv, PTL DEF Spec

-----------------------------------------------------------------------------
\* Rows, folders, threads and socket keep their types; no thread lists a
\* folder the root does not have or works on a root without a row
\* (RemoteSyncService::runTick, ensureRootFolder).
THEOREM TypeCorrect == Spec => []TypeOK
<1>1. IInv => TypeOK
      BY DEF IInv
<1> QED BY <1>1, Invariance, PTL

\* A root a client was told is disabled stays so, until it is added again or
\* unless a folder creation had read the row before (removeSyncRoot, the
\* upsert of ensureRootFolder).
THEOREM RemovalIsFinal == Spec => []RemovalSticks
<1>1. IInv => RemovalSticks
      BY DEF IInv, TypeOK, OldCopies, RemovalSticks
<1> QED BY <1>1, Invariance, PTL

\* The local tree is removed only by a thread that has seen the root's folder
\* deleted, or a deleted file of that folder, whatever other clients do to it
\* and whichever thread creates another meanwhile (isRootDeleted, runTick).
THEOREM NoTreeLost == Spec => TreeRemovalJustified
<1> DEFINE Justified == tree /\ ~tree' => \E t \in Threads :
             /\ th[t].pc = "removeTree"
             /\ server[th[t].copy.folder] = "deleted" \/ th[t].entry = "file"
<1>1. ASSUME IInv, Next, tree, ~tree'
      PROVE  Justified
      <2>1. \E t \in Threads : RemoveTree(t)
            <3> USE <1>1 DEF rootVars
            <3>1. ASSUME NEW t \in Threads, EnsureRootFolder(t)
                  PROVE  FALSE
                  BY <3>1 DEF EnsureRootFolder, ReadUnbound, CreateRootFolder, BindRootFolder
            <3>2. ASSUME NEW t \in Threads, Tick(t)
                  PROVE  RemoveTree(t)
                  BY <3>2 DEF Tick, ScanRemoteRoot, isRootDeleted, List, ListFails, DisableDeleted
            <3>3. Loop => Tick("loop")
                  BY <3>1 DEF Loop, Threads, BootTick, TakeSnapshot, LeaveLoop, TickDue,
                     PageNotDue, PageAfterTick, BuildPage, NoPage, SetStopping, SelfConnect,
                     CloseSocket, Join
            <3>4. Ipc => Tick("ipc")
                  BY <3>1 DEF Ipc, Threads, Serve, Accept, SyncAdd, SyncRemove, SyncRun,
                     SyncPull, StopCommand, ServeStopped
            <3>5. Loop \/ Ipc
                  BY DEF Next, ChangeFolder, Connect, Receive, MakeTree, Signal, Boot
            <3> QED BY <3>2, <3>3, <3>4, <3>5 DEF Threads
      <2> QED BY <1>1, <2>1 DEF IInv, SeenDeleted, RemoveTree, At
<1>2. ASSUME IInv, [Next]_vars
      PROVE  [Justified]_vars
      BY <1>1, <1>2
<1> QED BY <1>2, Invariance, PTL DEF Spec, TreeRemovalJustified

\* A root that was disabled when the daemon started keeps its tree and stays
\* disabled until it is added again, whatever becomes of its folder
\* (remoteBoundRoots, runTick, syncRun, syncPull).
THEOREM DisabledRootIsSafe == Spec => DisabledRootLeftAlone
<1> DEFINE
      Kept == settled /\ settled' => (tree => tree') /\ ~row'.enabled
      Justified == tree /\ ~tree' => \E t \in Threads :
                     /\ th[t].pc = "removeTree"
                     /\ server[th[t].copy.folder] = "deleted" \/ th[t].entry = "file"
<1>1. ASSUME IInv, IInv', [Justified]_vars
      PROVE  [Kept]_vars
      BY <1>1 DEF IInv, TypeOK, SettledIdle, Ticking
<1> QED BY <1>1, Invariance, NoTreeLost, PTL DEF TreeRemovalJustified, DisabledRootLeftAlone
=============================================================================
