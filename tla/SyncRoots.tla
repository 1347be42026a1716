------------------------------- MODULE SyncRoots -------------------------------
(***************************************************************************)
(* The life of one sync root.  Two threads of the daemon work on its row   *)
(* in sync_roots: the polling loop, which goes by a copy of the row it     *)
(* took when the daemon started, and the IPC server, which handles one     *)
(* client's command at a time.  Both may create the root's folder on the   *)
(* server (ensureRootFolder) and both may find it deleted there and remove *)
(* the local tree (RemoteSyncService::runTick).  The daemon stops on a     *)
(* signal, on the stop command, or when a request of the loop fails, and   *)
(* then has to get its IPC thread out of accept().                         *)
(*                                                                         *)
(* What is inside the tree is the matter of the other modules.  The server *)
(* (external) answers the list without a folder with one page of 100       *)
(* entries, in an order of its own, and the client asks for no second one. *)
(* A client that is connected may send its command at any time, hang up,   *)
(* or stay silent for good; the daemon's own connection is closed at once. *)
(***************************************************************************)
EXTENDS Naturals, Sequences

CONSTANTS
  MaxFolders,   \* folders the server lets the client create
  MaxCommands,  \* bound on clients
  MaxTrouble,   \* bound on failing requests
  Backlog       \* connections listen() lets wait

ASSUME BacklogAssumption == Backlog \in Nat \ {0}
ASSUME BoundsAssumption ==
  MaxFolders \in Nat /\ MaxCommands \in Nat /\ MaxTrouble \in Nat

VARIABLES
  row,       \* the row in sync_roots, or NoRow
  tree,      \* the local directory exists
  server,    \* [Folders -> state of the folder on the server]
  up,        \* the daemon runs
  th,        \* [Threads -> step, where to go next, a copy of the row, and
             \*  which entry of the list was taken for the root's folder]
  snap,      \* the loop's roots, read when the daemon started
  stopReq,   \* gStopRequested
  stopping,  \* DaemonIpcServer's stopping_
  listening, \* the server's socket is open
  backlog,   \* connections that wait for accept
  made, commands, trouble, \* counters for the bounds
  told,      \* history: the client was told that the root is disabled
  raced,     \* history: then a folder was being created for the root
  settled    \* history: the root was disabled when the daemon started

Folders == 1..MaxFolders
Threads == {"loop", "ipc"}
Command == {"add", "remove", "run", "pull", "stop"}
Connection == {"client", "self"}

rootVars == <<row, tree, server, made>>
sockVars == <<stopping, listening, backlog, commands>>
histVars == <<told, raced, settled>>
vars == <<rootVars, up, th, snap, stopReq, sockVars, trouble, histVars>>

NoRow == [folder |-> 0, enabled |-> FALSE, exists |-> FALSE]
Row == [folder : Folders \cup {0}, enabled : BOOLEAN, exists : {TRUE}]

Gone == [pc |-> "ended", ret |-> "ended", copy |-> NoRow, entry |-> "none"]

\* The process ends, and its memory with it.
Down ==
  /\ up' = FALSE /\ th' = [t \in Threads |-> Gone] /\ snap' = NoRow
  /\ stopReq' = FALSE /\ stopping' = FALSE /\ listening' = FALSE /\ backlog' = <<>>

\* The daemon is down, and has served this root before or not.
Init ==
  /\ row \in {NoRow, [folder |-> 0, enabled |-> TRUE, exists |-> TRUE]}
  /\ tree = TRUE
  /\ server = [f \in Folders |-> "none"]
  /\ up = FALSE
  /\ th = [t \in Threads |-> Gone] /\ snap = NoRow
  /\ stopReq = FALSE /\ stopping = FALSE /\ listening = FALSE /\ backlog = <<>>
  /\ made = 0 /\ commands = 0 /\ trouble = 0
  /\ told = FALSE /\ raced = FALSE /\ settled = FALSE

-----------------------------------------------------------------------------
At(t, pc) == up /\ th[t].pc = pc

Goto(t, pc) == th' = [th EXCEPT ![t].pc = pc]

Call(t, pc, ret) == th' = [th EXCEPT ![t].pc = pc, ![t].ret = ret]

Return(t) == th' = [th EXCEPT ![t] = [Gone EXCEPT !.pc = th[t].ret]]

\* An exception: the command is answered with an error, and the next one
\* waited for (sending an answer changes nothing here); the daemon leaves its
\* loop and destroys the IPC server.
Throw(t) ==
  th' = [th EXCEPT ![t] = [Gone EXCEPT !.pc = IF t = "ipc" THEN "serve" ELSE "closing"]]

Fault == trouble < MaxTrouble /\ trouble' = trouble + 1

NoFault == UNCHANGED trouble

-----------------------------------------------------------------------------
(***************************************************************************)
(* The user and the server.                                                *)
(***************************************************************************)

\* The folder is deleted, or moved into another one, by another client.  (What
\* becomes of a folder nobody here knows any more makes no difference.)
ChangeFolder(f) ==
  /\ server[f] \in {"live", "moved"}
  /\ f \in {row.folder, snap.folder} \cup {th[t].copy.folder : t \in Threads}
  /\ \/ server' = [server EXCEPT ![f] = "deleted"]
     \/ server[f] = "live" /\ server' = [server EXCEPT ![f] = "moved"]
  /\ UNCHANGED <<row, tree, made, up, th, snap, stopReq, sockVars, trouble, histVars>>

MakeTree ==
  /\ ~tree /\ tree' = TRUE
  /\ UNCHANGED <<row, server, made, up, th, snap, stopReq, sockVars, trouble, histVars>>

\* handleStopSignal: the second signal ends the process at once, and stands
\* for every other sudden end.
Signal ==
  /\ up
  /\ \/ stopReq /\ Down
     \/ ~stopReq /\ stopReq' = TRUE
        /\ UNCHANGED <<up, th, snap, stopping, listening, backlog>>
  /\ UNCHANGED <<rootVars, commands, trouble, histVars>>

\* IpcProtocolClient::request: connect.
Connect ==
  /\ listening /\ Len(backlog) < Backlog
  /\ commands < MaxCommands /\ commands' = commands + 1
  /\ backlog' = Append(backlog, "client")
  /\ UNCHANGED <<rootVars, up, th, snap, stopReq, stopping, listening, trouble, histVars>>

-----------------------------------------------------------------------------
(***************************************************************************)
(* RemoteSyncService::runTick for the root in snap; the caller has found   *)
(* it enabled and due.                                                     *)
(***************************************************************************)

ScanUnboundToo(t) ==
  /\ At(t, "scan") /\ NoFault
  /\ th' = [th EXCEPT ![t].pc = "list", ![t].copy = row]
  /\ UNCHANGED <<rootVars, up, snap, stopReq, sockVars, histVars>>

\* scanRoot lists the folder in the row; then isRootDeleted looks the row up
\* once more and goes by that copy.
ScanRemoteRoot(t) ==
  /\ At(t, "scan")
  /\ \/ /\ NoFault
        /\ IF row.folder = 0 THEN Return(t)
           ELSE th' = [th EXCEPT ![t].pc = "list", ![t].copy = row]
     \/ Fault /\ Throw(t)
  /\ UNCHANGED <<rootVars, up, snap, stopReq, sockVars, histVars>>

AbsentIsDeleted(f, first) ==
  first = "file" \/ (first = "folder" /\ server[f] \in {"deleted", "moved"})

\* What the page may show first of folder f: the folder itself, which is not
\* in this list once it is moved; a deleted file whose folder_id is f; or
\* "none", a live file of f or nothing, if f is behind 100 other entries.
Shown == {"folder", "file", "none"}

\* That entry has a deletedAt.
ListedDeleted(f, first) ==
  first = "file" \/ (first = "folder" /\ server[f] = "deleted")

\* The answer; the rows of a deleted root's entries are marked.
List(t, first) ==
  /\ At(t, "list") /\ NoFault
  /\ IF ListedDeleted(th[t].copy.folder, first)
     THEN th' = [th EXCEPT ![t].pc = "disable", ![t].entry = first]
     ELSE Return(t)
  /\ UNCHANGED <<rootVars, up, snap, stopReq, sockVars, histVars>>

ListFails(t) ==
  /\ At(t, "list") /\ Fault
  /\ Throw(t)
  /\ UNCHANGED <<rootVars, up, snap, stopReq, sockVars, histVars>>

isRootDeleted(t) == ListFails(t) \/ \E first \in Shown : List(t, first)

DisableDeletedLater(t) ==
  /\ At(t, "disable")
  /\ Goto(t, "removeTree")
  /\ UNCHANGED <<rootVars, up, snap, stopReq, sockVars, trouble, histVars>>

DisableDeleted(t) ==
  /\ At(t, "disable")
  /\ row' = [row EXCEPT !.enabled = FALSE]
  /\ Goto(t, "removeTree")
  /\ UNCHANGED <<tree, server, made, up, snap, stopReq, sockVars, trouble, histVars>>

\* remove_all of the tree; an error is logged.
RemoveTree(t) ==
  /\ At(t, "removeTree")
  /\ tree' = FALSE \/ UNCHANGED tree
  /\ Return(t)
  /\ UNCHANGED <<row, server, made, up, snap, stopReq, sockVars, trouble, histVars>>

Tick(t) ==
  \/ ScanRemoteRoot(t) \/ isRootDeleted(t)
  \/ DisableDeleted(t) \/ RemoveTree(t)

-----------------------------------------------------------------------------
(***************************************************************************)
(* FolderCreateWorker::ensureRootFolder, called by buildPage.              *)
(***************************************************************************)

ReadUnbound(t) ==
  /\ At(t, "ensure")
  /\ IF row.folder # 0 THEN Return(t)
     ELSE th' = [th EXCEPT ![t].pc = "create", ![t].copy = row]
  /\ UNCHANGED <<rootVars, up, snap, stopReq, sockVars, trouble, histVars>>

\* api_.createFolder; a lost answer leaves a folder on the server.
CreateRootFolder(t) ==
  /\ At(t, "create")
  /\ \/ /\ made < MaxFolders /\ made' = made + 1
        /\ server' = [server EXCEPT ![made'] = "live"]
        /\ \/ NoFault /\ th' = [th EXCEPT ![t].pc = "bind", ![t].copy.folder = made']
           \/ Fault /\ Throw(t)
     \/ Fault /\ Throw(t) /\ UNCHANGED <<made, server>>
     \/ made = MaxFolders /\ NoFault /\ Throw(t) /\ UNCHANGED <<made, server>>
  /\ UNCHANGED <<row, tree, up, snap, stopReq, sockVars, histVars>>

BindAndEnable(t) ==
  /\ At(t, "bind")
  /\ row' = [th[t].copy EXCEPT !.enabled = TRUE]
  /\ Return(t)
  /\ UNCHANGED <<tree, server, made, up, snap, stopReq, sockVars, trouble, histVars>>

\* upsertSyncRoot writes the whole row as it was read, with the new folder.
BindRootFolder(t) ==
  /\ At(t, "bind")
  /\ row' = th[t].copy
  /\ Return(t)
  /\ UNCHANGED <<tree, server, made, up, snap, stopReq, sockVars, trouble, histVars>>

EnsureRootFolder(t) == ReadUnbound(t) \/ CreateRootFolder(t) \/ BindRootFolder(t)

-----------------------------------------------------------------------------
(***************************************************************************)
(* PollingDaemon::run.                                                     *)
(***************************************************************************)

TicksDisabled(root) == root.folder # 0

\* remoteBoundRoots, and runTick's own test.
Ticks(root) == root.folder # 0 /\ root.enabled

\* The IPC server is started before the roots are read.
Boot ==
  /\ ~up
  /\ up' = TRUE /\ listening' = TRUE
  /\ th' = [t \in Threads |-> [Gone EXCEPT !.pc = IF t = "loop" THEN "boot" ELSE "serve"]]
  /\ settled' = (row.exists /\ ~row.enabled)
  /\ UNCHANGED <<rootVars, snap, stopReq, stopping, backlog, commands, trouble, told, raced>>

\* The roots are read, and read again after a remote scan.
BootTick ==
  /\ At("loop", "boot")
  /\ snap' = row
  /\ IF Ticks(row) THEN Call("loop", "scan", "reread") ELSE Goto("loop", "reread")
  /\ UNCHANGED <<rootVars, up, stopReq, sockVars, trouble, histVars>>

\* The copy the loop keeps, and the first page of the queue.
TakeSnapshot ==
  /\ At("loop", "reread")
  /\ snap' = row
  /\ IF row.enabled THEN Call("loop", "ensure", "top") ELSE Goto("loop", "top")
  /\ UNCHANGED <<rootVars, up, stopReq, sockVars, trouble, histVars>>

LeaveLoop ==
  /\ At("loop", "top") /\ stopReq
  /\ Goto("loop", "closing")
  /\ UNCHANGED <<rootVars, up, snap, stopReq, sockVars, trouble, histVars>>

\* kRemoteScanInterval has passed since the last scan of the root.
TickDue ==
  /\ At("loop", "top") /\ ~stopReq
  /\ Ticks(snap)
  /\ Call("loop", "scan", "page")
  /\ UNCHANGED <<rootVars, up, snap, stopReq, sockVars, trouble, histVars>>

\* A page of the queue is built for an enabled root until none is left, and
\* again after a full rescan.
BuildPage(pc) ==
  /\ At("loop", pc)
  /\ snap.enabled /\ Call("loop", "ensure", "top")
  /\ UNCHANGED <<rootVars, up, snap, stopReq, sockVars, trouble, histVars>>

\* Without a scan that is due and without a page an iteration does nothing.
PageNotDue == ~stopReq /\ BuildPage("top")

PageAfterTick == BuildPage("page")

NoPage ==
  /\ At("loop", "page")
  /\ Goto("loop", "top")
  /\ UNCHANGED <<rootVars, up, snap, stopReq, sockVars, trouble, histVars>>

-----------------------------------------------------------------------------
(***************************************************************************)
(* DaemonIpcServer::stop, by the loop's thread.                            *)
(***************************************************************************)

SetStopping ==
  /\ At("loop", "closing")
  /\ stopping' = TRUE
  /\ Goto("loop", "connect")
  /\ UNCHANGED <<rootVars, up, snap, stopReq, listening, backlog, commands, trouble, histVars>>

NoSelfConnect ==
  /\ At("loop", "connect")
  /\ Goto("loop", "close")
  /\ UNCHANGED <<rootVars, up, snap, stopReq, sockVars, trouble, histVars>>

\* connect() waits while the backlog is full and fails without a socket.
SelfConnect ==
  /\ At("loop", "connect")
  /\ \/ /\ listening /\ Len(backlog) < Backlog
        /\ backlog' = Append(backlog, "self")
     \/ ~listening /\ UNCHANGED backlog
  /\ Goto("loop", "close")
  /\ UNCHANGED <<rootVars, up, snap, stopReq, stopping, listening, commands, trouble, histVars>>

\* A thread that is inside accept() is not woken by the close.
CloseSocket ==
  /\ At("loop", "close")
  /\ listening' = FALSE
  /\ Goto("loop", "join")
  /\ UNCHANGED <<rootVars, up, snap, stopReq, stopping, backlog, commands, trouble, histVars>>

Join ==
  /\ At("loop", "join") /\ th["ipc"].pc = "ended"
  /\ Down
  /\ UNCHANGED <<rootVars, commands, trouble, histVars>>

-----------------------------------------------------------------------------
(***************************************************************************)
(* DaemonIpcServer::serve and the commands.                                *)
(***************************************************************************)

\* The loop's condition, then accept(), which fails on a closed socket.
Serve ==
  /\ At("ipc", "serve")
  /\ \/ stopping /\ Goto("ipc", "ended")
     \/ ~stopping /\ listening /\ Goto("ipc", "accept")
  /\ UNCHANGED <<rootVars, up, snap, stopReq, sockVars, trouble, histVars>>

Accept ==
  /\ At("ipc", "accept") /\ backlog # <<>>
  /\ backlog' = Tail(backlog)
  /\ Goto("ipc", IF Head(backlog) = "self" THEN "serve" ELSE "receive")
  /\ UNCHANGED <<rootVars, up, snap, stopReq, stopping, listening, commands, trouble, histVars>>

\* The client's request arrives, or the end of its connection.  receive() has
\* no timeout.
Receive(pc) ==
  /\ At("ipc", "receive")
  /\ Goto("ipc", pc)
  /\ UNCHANGED <<rootVars, up, snap, stopReq, sockVars, trouble, histVars>>

\* addSyncRoot: the path must be a directory.
SyncAdd ==
  /\ At("ipc", "add")
  /\ \/ /\ tree
        /\ row' = [folder |-> 0, enabled |-> TRUE, exists |-> TRUE]
        /\ told' = FALSE /\ raced' = FALSE /\ settled' = FALSE
     \/ ~tree /\ UNCHANGED <<row, histVars>>
  /\ Goto("ipc", "serve")
  /\ UNCHANGED <<tree, server, made, up, snap, stopReq, sockVars, trouble>>

\* removeSyncRoot; the loop may hold an older copy of the row it will write.
SyncRemove ==
  /\ At("ipc", "remove")
  /\ \/ /\ row.exists
        /\ row' = [row EXCEPT !.enabled = FALSE]
        /\ told' = TRUE
        /\ raced' = (raced \/ th["loop"].pc \in {"create", "bind"})
     \/ ~row.exists /\ UNCHANGED <<row, told, raced>>
  /\ Goto("ipc", "serve")
  /\ UNCHANGED <<tree, server, made, up, snap, stopReq, sockVars, trouble, settled>>

\* syncRun: scan and build, which ensures the folder, for enabled roots.
SyncRun ==
  /\ At("ipc", "run")
  /\ IF row.enabled THEN Call("ipc", "ensure", "serve") ELSE Goto("ipc", "serve")
  /\ UNCHANGED <<rootVars, up, snap, stopReq, sockVars, trouble, histVars>>

\* syncPull: runNow, for enabled roots, bound or not.
SyncPull ==
  /\ At("ipc", "pull")
  /\ IF row.enabled THEN Call("ipc", "scan", "serve") ELSE Goto("ipc", "serve")
  /\ UNCHANGED <<rootVars, up, snap, stopReq, sockVars, trouble, histVars>>

\* The stop command: the loop is told, the reply sent, then the socket closed.
StopCommand ==
  /\ At("ipc", "stop")
  /\ stopReq' = TRUE
  /\ Goto("ipc", "stopped")
  /\ UNCHANGED <<rootVars, up, snap, sockVars, trouble, histVars>>

ServeStopped ==
  /\ At("ipc", "stopped")
  /\ stopping' = TRUE /\ listening' = FALSE
  /\ Goto("ipc", "ended")
  /\ UNCHANGED <<rootVars, up, snap, stopReq, backlog, commands, trouble, histVars>>

-----------------------------------------------------------------------------
Loop ==
  \/ Tick("loop") \/ EnsureRootFolder("loop")
  \/ BootTick \/ TakeSnapshot \/ LeaveLoop \/ TickDue \/ PageNotDue
  \/ PageAfterTick \/ NoPage
  \/ SetStopping \/ SelfConnect \/ CloseSocket \/ Join

Ipc ==
  \/ Tick("ipc") \/ EnsureRootFolder("ipc")
  \/ Serve \/ Accept \/ SyncAdd \/ SyncRemove \/ SyncRun \/ SyncPull
  \/ StopCommand \/ ServeStopped

Next ==
  \/ \E f \in Folders : ChangeFolder(f)
  \/ \E pc \in Command \cup {"serve"} : Receive(pc)
  \/ Connect \/ MakeTree \/ Signal \/ Boot \/ Loop \/ Ipc

\* Both threads run, requests to the server are answered, and time passes.
\* Clients need not send anything.
Fairness == WF_vars(Loop) /\ WF_vars(Ipc) /\ SF_vars(TickDue)

Spec == Init /\ [][Next]_vars /\ Fairness

-----------------------------------------------------------------------------
Step ==
  Command \cup
  {"ended", "scan", "list", "disable", "removeTree", "ensure", "create", "bind",
   "boot", "reread", "top", "page", "closing", "connect", "close", "join",
   "serve", "accept", "receive", "stopped"}

Thread == [pc : Step, ret : Step, copy : Row \cup {NoRow}, entry : Shown]

TypeOK ==
  /\ row \in Row \cup {NoRow} /\ tree \in BOOLEAN
  /\ server \in [Folders -> {"none", "live", "moved", "deleted"}]
  /\ up \in BOOLEAN /\ stopReq \in BOOLEAN /\ stopping \in BOOLEAN /\ listening \in BOOLEAN
  /\ th \in [Threads -> Thread]
  /\ snap \in Row \cup {NoRow}
  /\ \A t \in Threads :
       /\ th[t].pc \in {"list", "disable", "removeTree", "bind"} => th[t].copy.folder \in Folders
       /\ th[t].pc \in {"scan", "list", "disable", "removeTree", "create", "bind"}
            => row.exists
  /\ backlog \in Seq(Connection) /\ Len(backlog) <= Backlog
  /\ made \in 0..MaxFolders /\ commands \in 0..MaxCommands /\ trouble \in 0..MaxTrouble
  /\ told \in BOOLEAN /\ raced \in BOOLEAN /\ settled \in BOOLEAN

\* The local tree is removed only by a thread that has seen the root's folder
\* deleted: not when the folder was moved, nor when it is missing from the
\* page, nor when the list was about another folder (isRootDeleted, runTick).
\* The exception is in the code: a deleted FILE of the folder that comes first
\* in the list matches by its folder_id and is taken for the folder.
TreeRemovalJustified ==
  [][tree /\ ~tree' => \E t \in Threads :
       /\ th[t].pc = "removeTree"
       /\ server[th[t].copy.folder] = "deleted" \/ th[t].entry = "file"]_vars

\* A root that a client was told is disabled is enabled again only by adding
\* it, or by a folder creation that had read the row before (the upsert of
\* ensureRootFolder writes back the enabled flag it has read).
RemovalSticks == told /\ row.enabled => raced

\* A root that was disabled when the daemon started is left alone, whatever
\* becomes of its folder, until it is added again.  (While the daemon that
\* disabled it runs, the loop's copy still says enabled.)
DisabledRootLeftAlone ==
  [][settled /\ settled' => (tree => tree') /\ ~row'.enabled]_vars

Closing == th["loop"].pc \in {"closing", "connect", "close", "join"}

\* The loop's list has nothing of a deleted folder, or a live file of it first.
Overlooked == List("loop", "none") /\ server[th["loop"].copy.folder] = "deleted"

\* The deletion of the folder the loop knows is acted upon, crashes between
\* its steps included: the root does not stay enabled while the loop runs.
\* That is so unless the page overlooks the folder time and again: one that is
\* behind 100 other entries, or behind a live file of its own, is not retired,
\* as isRootDeleted ignores has_more.
DeletedRootRetired ==
  <>[][~Overlooked]_vars =>
    ((/\ up /\ Ticks(snap) /\ row.folder = snap.folder /\ row.enabled
      /\ server[snap.folder] = "deleted")
     ~> (~up \/ Closing \/ ~row.enabled \/ row.folder # snap.folder))

\* A daemon asked to stop does, wherever its threads are, unless so many
\* clients wait that it cannot connect to itself, or a client that has
\* connected stays and sends nothing.
StopReturns ==
  \/ <>[](At("loop", "connect") /\ Len(backlog) = Backlog)
  \/ <>[]At("ipc", "receive")
  \/ (up /\ (stopReq \/ Closing)) ~> ~up
=============================================================================
