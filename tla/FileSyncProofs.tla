-------------------------- MODULE FileSyncProofs --------------------------
(***************************************************************************)
(* The safety of two-way synchronisation of a file, for every number of    *)
(* versions, server files and crashes: what the row calls synced has been  *)
(* on the server, and the daemon never overwrites or deletes an edit that  *)
(* was scanned and that the server has not had.                            *)
(***************************************************************************)
EXTENDS FileSync, TLAPS

\* A row as it is before its remote id is related to the server.
AnyRow == EntryRow(Versions, Nat, Nat)

\* Everything on the server counts as stored.
ServerIsStored == \A i \in DOMAIN server : server[i].content \in stored

\* Scans and markEntryUploaded never set local_deleted_at.
NotLocallyDeleted == row # NoEntry => ~row.localDeleted

\* While a download is under way the row has no local change, and names the
\* file that is fetched.
FetchOfCleanRow ==
  pc = "fetch" =>
    row # NoEntry /\ row.contentHash = row.syncedContentHash /\ row.remoteId # NULL

\* What was fetched came from the server, for a row.
FetchedIsStored == pc = "fetched" => row # NoEntry /\ carried \in stored

\* Versions are saved in order: none is later than the last save, and an upload
\* races with a save only for a row that has a hash.
SavedByNow ==
  /\ disk \in 0..latest /\ stored \subseteq 0..latest /\ raced \subseteq 1..latest
  /\ row # NoEntry => row.contentHash \in 0..latest

\* An upload was prepared for a row with a hash.
UploadOfHashedRow ==
  pc \in {"upload", "uploaded"} => row # NoEntry /\ row.contentHash # NULL

\* What an upload read is on the server, and is what the row says unless the
\* file was saved again, or deleted, in between.
UploadRead ==
  pc = "uploaded" =>
    carried \in stored /\ (row.contentHash = carried \/ disk # row.contentHash)

\* A version that an upload raced past is not on disk any more, unless it came
\* back from the server.
RacedIsGone == disk \notin raced \ stored

\* The inductive invariant.
IInv ==
  /\ TypeOK
  /\ ServerIsStored
  /\ NotLocallyDeleted
  /\ FetchOfCleanRow
  /\ FetchedIsStored
  /\ SavedByNow
  /\ UploadOfHashedRow
  /\ UploadRead
  /\ RacedIsGone
  /\ SyncedWasStored

-----------------------------------------------------------------------------

\* Replacing an element of a sequence, and appending one.
LEMMA UpdatedSeq ==
  ASSUME NEW S, NEW q \in Seq(S), NEW i \in DOMAIN q, NEW f \in S
  PROVE  LET u == [q EXCEPT ![i] = f]
         IN  /\ u \in Seq(S) /\ Len(u) = Len(q) /\ DOMAIN u = DOMAIN q
             /\ u[i] = f
             /\ \A j \in DOMAIN q : j # i => u[j] = q[j]
OBVIOUS

LEMMA AppendedSeq ==
  ASSUME NEW S, NEW q \in Seq(S), NEW f \in S
  PROVE  /\ Append(q, f) \in Seq(S) /\ Len(Append(q, f)) = Len(q) + 1
         /\ \A j \in DOMAIN Append(q, f) :
              Append(q, f)[j] = f \/ (j \in DOMAIN q /\ Append(q, f)[j] = q[j])
OBVIOUS

\* SyncPolicy in two_way mode: a download or a local deletion is decided only
\* for a row without local changes, a download only for a row with a remote id.
LEMMA OverwritesOnlyClean ==
  ASSUME NEW e \in AnyRow, ~e.localDeleted,
         DecideRow(e, "two_way") \in {"download", "delete_local"}
  PROVE  /\ e.contentHash = e.syncedContentHash
         /\ DecideRow(e, "two_way") = "download" => e.remoteId # NULL
<1>1. DecideRow(e, "two_way") = DecideTwoWay(Classify(e))
  BY DEF DecideRow, Decide
<1>2. ~Classify(e).localDirty
  BY <1>1 DEF DecideTwoWay, Diverged, Classify, AnyRow, EntryRow
<1>3. e.contentHash = e.syncedContentHash
  BY <1>2 DEF Classify, AnyRow, EntryRow
<1>4. DecideRow(e, "two_way") = "download" => e.remoteId # NULL
  BY <1>1 DEF DecideTwoWay, Classify, AnyRow, EntryRow
<1> QED BY <1>3, <1>4

\* A row with its columns of the remote side set from the file f.
WithRemote(r, i, f, synced) ==
  [r EXCEPT !.remoteId = i, !.remoteUpdatedAt = f.at, !.remoteDeleted = f.deleted,
            !.syncedRemoteUpdatedAt = synced]

\* Two rows have the same local side.
SameLocal(r, t) ==
  /\ t.contentHash = r.contentHash
  /\ t.syncedContentHash = r.syncedContentHash
  /\ t.localDeleted = r.localDeleted

\* Setting the remote side gives a row, and leaves the local side alone.
LEMMA WithRemoteRow ==
  ASSUME NEW Hash, NEW Id, NEW r \in EntryRow(Hash, Id, Nat),
         NEW i \in Id, NEW f \in RemoteFiles, NEW synced \in Nat
  PROVE  /\ WithRemote(r, i, f, synced) \in EntryRow(Hash, Id, Nat)
         /\ SameLocal(r, WithRemote(r, i, f, synced))
BY DEF EntryRow, WithRemote, SameLocal, RemoteFiles

\* A scan that turns r into s keeps what r says of the last synchronisation,
\* or inserts a row that was never synchronised; a new hash is that of the disk.
KeepsSynced(r, s) ==
  /\ r # NoEntry => /\ s # NoEntry
                    /\ s.syncedContentHash = r.syncedContentHash
                    /\ s.localDeleted = r.localDeleted
  /\ r = NoEntry /\ s # NoEntry => s.syncedContentHash = NULL /\ ~s.localDeleted
  /\ s # NoEntry => \/ s.contentHash = NULL \/ s.contentHash = disk
                    \/ r # NoEntry /\ s.contentHash = r.contentHash

\* A remote scan returns a row of the right type and keeps what was synced.
LEMMA RemoteScannedRow ==
  ASSUME TypeOK
  PROVE  /\ RemoteScanned(row) \in EntryRow(Versions, 0..Len(server), Nat) \cup {NoEntry}
         /\ KeepsSynced(row, RemoteScanned(row))
<1> DEFINE R == EntryRow(Versions, 0..Len(server), Nat)
           u == UpsertRemote(row, 1)
           s == RemoteScanned(row)
           old == IF row = NoEntry THEN NewRow(NULL) ELSE row
<1>1. CASE server = <<>>
  BY <1>1 DEF RemoteScanned, TypeOK, KeepsSynced
<1>2. CASE server # <<>>
  <2>1. /\ Len(server) \in Nat /\ Len(server) >= 1
        /\ server[1] \in RemoteFiles
        /\ Last(server) \in RemoteFiles
    <3>1. server \in Seq(RemoteFiles)
      BY DEF TypeOK
    <3> HIDE DEF u, s
    <3> QED BY <1>2, <3>1 DEF Last
  <2>2. /\ 1 \in 0..Len(server) /\ Len(server) \in 0..Len(server)
        /\ server[1].at \in Nat
    BY <2>1 DEF RemoteFiles
  <2>3. old \in R
    <3>1. NULL \in Versions /\ NULL \in 0..Len(server) /\ NULL \in Nat
      BY <2>1, BoundsAssumption DEF NULL, Versions
    <3>2. NewRow(NULL) \in R
      BY <3>1 DEF NewRow, EntryRow
    <3> QED BY <3>2 DEF TypeOK
  <2>4. /\ row = NoEntry => /\ old.syncedContentHash = NULL /\ ~old.localDeleted
                           /\ old.contentHash = NULL
        /\ row # NoEntry => old = row
    BY DEF NewRow
  <2>5. PICK t \in Nat : u = WithRemote(old, 1, server[1], t)
    <3>1. CASE row = NoEntry
      <4>1. u = WithRemote(old, 1, server[1], NULL)
        <5>1. u = [old EXCEPT !.remoteId = 1, !.remoteUpdatedAt = server[1].at,
                              !.remoteDeleted = server[1].deleted]
          BY <3>1 DEF UpsertRemote
        <5>2. old.syncedRemoteUpdatedAt = NULL
          BY <3>1 DEF NewRow
        <5> HIDE DEF u, old
        <5> QED BY <2>3, <5>1, <5>2 DEF WithRemote, EntryRow
      <4> QED BY <4>1 DEF NULL
    <3>2. CASE row # NoEntry
      <4>1. row \in R /\ row.syncedRemoteUpdatedAt \in Nat
        BY <3>2 DEF TypeOK, EntryRow
      <4>2. \/ u = WithRemote(row, 1, server[1], row.syncedRemoteUpdatedAt)
            \/ u = WithRemote(row, 1, server[1], server[1].at)
        BY <3>2, <4>1 DEF UpsertRemote, WithRemote, EntryRow
      <4> QED BY <2>2, <3>2, <4>1, <4>2
    <3> QED BY <3>1, <3>2
  <2> HIDE DEF R, u, s, old
  <2>6. u \in R /\ SameLocal(old, u)
    BY <2>1, <2>2, <2>3, <2>5, WithRemoteRow DEF R
  <2>7. \/ s = u
        \/ s = WithRemote(u, Len(server), Last(server), u.syncedRemoteUpdatedAt)
    BY <1>2, <2>6 DEF RemoteScanned, EntryRow, WithRemote, R, u, s
  <2>8. s \in R /\ SameLocal(u, s)
    <3>1. u.syncedRemoteUpdatedAt \in Nat
      BY <2>6 DEF EntryRow, R
    <3>2. CASE s = u
      BY <2>6, <3>2 DEF SameLocal
    <3>3. CASE s = WithRemote(u, Len(server), Last(server), u.syncedRemoteUpdatedAt)
      BY <2>1, <2>2, <2>6, <3>1, <3>3, WithRemoteRow DEF R
    <3> QED BY <2>7, <3>2, <3>3
  <2>9. s # NoEntry
    BY <2>8 DEF EntryRow, NoEntry, R
  <2> QED BY <2>4, <2>6, <2>8, <2>9 DEF SameLocal, KeepsSynced, R, s
<1> QED BY <1>1, <1>2

\* The same of a local scan of a row r.
LEMMA LocalScannedRow ==
  ASSUME NEW Id, NULL \in Id, disk \in Versions,
         NEW r \in EntryRow(Versions, Id, Nat) \cup {NoEntry}
  PROVE  /\ LocalScanned(r) \in EntryRow(Versions, Id, Nat) \cup {NoEntry}
         /\ KeepsSynced(r, LocalScanned(r))
<1>1. CASE r = NoEntry
  BY <1>1, BoundsAssumption
     DEF LocalScanned, NewRow, EntryRow, KeepsSynced, NULL, Versions
<1>2. CASE r # NoEntry
  <2>1. r \in EntryRow(Versions, Id, Nat)
    BY <1>2
  <2>2. LocalScanned(r) \in EntryRow(Versions, Id, Nat)
    BY <1>2, <2>1 DEF LocalScanned, EntryRow
  <2>3. LocalScanned(r) # NoEntry
    BY <2>2 DEF EntryRow, NoEntry
  <2> QED BY <1>2, <2>1, <2>2, <2>3 DEF LocalScanned, EntryRow, KeepsSynced
<1> QED BY <1>1, <1>2

\* What a scan overlooks is a version.
LEMMA OverlookedVersions ==
  ASSUME TypeOK
  PROVE  Overlooked \subseteq Versions
<1>1. server \in Seq(RemoteFiles)
  BY DEF TypeOK
<1>2. \A i \in DOMAIN server : server[i] \in RemoteFiles
  BY <1>1
<1>3. \A i \in DOMAIN server : server[i].content \in Versions
  BY <1>2 DEF RemoteFiles
<1> QED BY <1>3 DEF Overlooked

LEMMA InitIInv == Init => IInv
<1> SUFFICES ASSUME Init PROVE IInv
  OBVIOUS
<1>1. TypeOK
  <2>1. 0 \in Versions /\ 1 \in Versions
    BY BoundsAssumption DEF Versions
  <2>2. [content |-> 1, at |-> 1, deleted |-> FALSE, own |-> FALSE] \in RemoteFiles
    BY <2>1 DEF RemoteFiles
  <2>3. server \in Seq(RemoteFiles)
    <3>1. CASE server = <<>>
      BY <3>1
    <3>2. CASE server = <<[content |-> 1, at |-> 1, deleted |-> FALSE, own |-> FALSE]>>
      BY <2>2, <3>2
    <3> QED BY <3>1, <3>2 DEF Init
  <2>4. disk \in Versions /\ now \in Nat /\ stored \subseteq Versions
    BY <2>1 DEF Init
  <2>5. /\ latest = 1 /\ carried = 0 /\ sent = 0 /\ crashes = 0 /\ row = NoEntry
        /\ misread = {} /\ raced = {} /\ failed = FALSE
        /\ removed = FALSE /\ event = FALSE /\ pending = FALSE /\ job = FALSE
        /\ pc = "down" /\ next = "remote"
    BY DEF Init
  <2>6. crashes \in 0..MaxCrashes /\ sent \in 0..Len(server)
    BY <2>3, <2>5, BoundsAssumption
  <2> QED BY <2>1, <2>3, <2>4, <2>5, <2>6 DEF TypeOK
<1>2. ServerIsStored
  BY DEF Init, ServerIsStored
<1> QED BY <1>1, <1>2 DEF Init, IInv, NotLocallyDeleted, FetchOfCleanRow,
                          FetchedIsStored, SyncedWasStored, SavedByNow,
                          UploadOfHashedRow, UploadRead, RacedIsGone

\* Conjuncts of IInv that a step leaves alone, by what the step leaves alone.
LEMMA Untouched ==
  ASSUME IInv
  PROVE  /\ UNCHANGED <<server, stored>> => ServerIsStored'
         /\ UNCHANGED row => NotLocallyDeleted'
         /\ ( /\ UNCHANGED row /\ stored \subseteq stored'
              /\ misread \subseteq misread' /\ raced \subseteq raced' ) => SyncedWasStored'
         /\ pc' # "fetched" => FetchedIsStored'
         /\ pc' # "fetch" => FetchOfCleanRow'
         /\ UNCHANGED <<disk, latest, stored, raced, row>> => SavedByNow'
         /\ pc' \notin {"upload", "uploaded"} => UploadOfHashedRow' /\ UploadRead'
         /\ UNCHANGED <<disk, stored, raced>> => RacedIsGone'
<1>1. UNCHANGED <<server, stored>> => ServerIsStored'
  BY DEF IInv, ServerIsStored
<1>2. UNCHANGED row => NotLocallyDeleted'
  BY DEF IInv, NotLocallyDeleted
<1>3. ( /\ UNCHANGED row /\ stored \subseteq stored'
        /\ misread \subseteq misread' /\ raced \subseteq raced' ) => SyncedWasStored'
  BY DEF IInv, SyncedWasStored
<1>4. UNCHANGED <<disk, latest, stored, raced, row>> => SavedByNow'
  BY DEF IInv, SavedByNow
<1>5. UNCHANGED <<disk, stored, raced>> => RacedIsGone'
  BY DEF IInv, RacedIsGone
<1> QED BY <1>1, <1>2, <1>3, <1>4, <1>5
        DEF FetchedIsStored, FetchOfCleanRow, UploadOfHashedRow, UploadRead

\* The same of the phases of a download and an upload, when the step leaves the
\* loop, its row and the file alone.
LEMMA PhasesUntouched ==
  ASSUME IInv, UNCHANGED <<pc, row, carried>>, stored \subseteq stored'
  PROVE  /\ FetchedIsStored' /\ FetchOfCleanRow' /\ UploadOfHashedRow'
         /\ UNCHANGED disk => UploadRead'
BY DEF IInv, FetchedIsStored, FetchOfCleanRow, UploadOfHashedRow, UploadRead

\* A scan, a reconcile or a download leaves no hash later than the last save.
LEMMA RowSavedByNow ==
  ASSUME IInv, UNCHANGED <<latest, stored, raced>>, disk' \in 0..latest,
         \/ KeepsSynced(row, row')
         \/ row' # NoEntry => row'.contentHash \in 0..latest
  PROVE  SavedByNow'
<1>1. row' # NoEntry => row'.contentHash \in 0..latest
  <2>1. latest \in Nat /\ disk \in 0..latest
        /\ (row # NoEntry => row.contentHash \in 0..latest)
    BY DEF IInv, TypeOK, SavedByNow, Versions
  <2>2. NULL \in 0..latest
    BY <2>1 DEF NULL
  <2> QED BY <2>1, <2>2 DEF KeepsSynced
<1> QED BY <1>1 DEF IInv, SavedByNow

\* What is fetched is a version that the server holds.
LEMMA FetchedFile ==
  ASSUME IInv, pc = "fetch"
  PROVE  server[row.remoteId].content \in Versions \cap stored
<1>1. row.remoteId \in 0..Len(server) /\ row.remoteId # 0 /\ server \in Seq(RemoteFiles)
  BY DEF IInv, TypeOK, FetchOfCleanRow, EntryRow, NULL
<1>2. row.remoteId \in DOMAIN server /\ server[row.remoteId] \in RemoteFiles
  BY <1>1
<1> QED BY <1>2 DEF RemoteFiles, IInv, ServerIsStored

LEMMA NextIInv == IInv /\ [Next]_vars => IInv'
<1> SUFFICES ASSUME IInv, [Next]_vars PROVE IInv'
  OBVIOUS
<1> USE DEF userVars, remoteVars, dbVars, loopVars, history
<1>1. CASE UserSave
  <2>1. latest + 1 \in Versions
    BY <1>1, BoundsAssumption DEF UserSave, IInv, TypeOK, Versions
  <2>2. event' \in BOOLEAN
    BY <1>1 DEF UserSave, Notice
  <2>3. TypeOK'
    BY <1>1, <2>1, <2>2 DEF UserSave, IInv, TypeOK
  <2>4. SavedByNow'
    BY <1>1, BoundsAssumption DEF UserSave, IInv, TypeOK, Versions, SavedByNow
  <2>5. UploadRead'
    BY <1>1 DEF UserSave, IInv, TypeOK, Versions, SavedByNow, UploadOfHashedRow, UploadRead
  <2>6. RacedIsGone'
    BY <1>1 DEF UserSave, IInv, TypeOK, Versions, SavedByNow, RacedIsGone
  <2>7. FetchedIsStored' /\ FetchOfCleanRow' /\ UploadOfHashedRow'
    BY <1>1, PhasesUntouched DEF UserSave
  <2> QED BY <1>1, <2>3, <2>4, <2>5, <2>6, <2>7, Untouched DEF UserSave, IInv
<1>2. CASE UserDelete
  <2>1. 0 \in Versions
    BY BoundsAssumption DEF Versions
  <2>2. event' \in BOOLEAN
    BY <1>2 DEF UserDelete, Notice
  <2>3. TypeOK'
    BY <1>2, <2>1, <2>2 DEF UserDelete, IInv, TypeOK
  <2>4. SavedByNow' /\ RacedIsGone'
    BY <1>2 DEF UserDelete, IInv, TypeOK, Versions, SavedByNow, RacedIsGone
  <2>5. UploadRead'
    BY <1>2 DEF UserDelete, IInv, UploadOfHashedRow, UploadRead, NULL
  <2>6. FetchedIsStored' /\ FetchOfCleanRow' /\ UploadOfHashedRow'
    BY <1>2, PhasesUntouched DEF UserDelete
  <2> QED BY <1>2, <2>3, <2>4, <2>5, <2>6, Untouched DEF UserDelete, IInv
<1>3. CASE PeerSave
  <2> DEFINE f == RemoteFile(latest + 1, FALSE)
  <2>1. latest + 1 \in Versions /\ now + 1 \in Nat
    BY <1>3, BoundsAssumption DEF PeerSave, IInv, TypeOK, Versions
  <2>2. f \in RemoteFiles /\ f.content \in stored'
    BY <1>3, <2>1 DEF PeerSave, RemoteFile, RemoteFiles
  <2>3. server \in Seq(RemoteFiles)
    BY DEF IInv, TypeOK
  <2> HIDE DEF f
  <2>4. /\ server' \in Seq(RemoteFiles) /\ Len(server') >= Len(server)
        /\ \A i \in DOMAIN server' :
             server'[i] = f \/ (i \in DOMAIN server /\ server'[i] = server[i])
    <3>1. CASE \E i \in Live : server' = [server EXCEPT ![i] = f]
      BY <2>2, <2>3, <3>1, UpdatedSeq DEF Live
    <3>2. CASE server' = Append(server, f)
      BY <2>2, <2>3, <3>2, AppendedSeq
    <3> QED BY <1>3, <3>1, <3>2 DEF PeerSave, f
  <2>5. TypeOK'
    <3>1. row' \in EntryRow(Versions, 0..Len(server'), Nat) \cup {NoEntry}
      BY <1>3, <2>3, <2>4 DEF PeerSave, IInv, TypeOK, EntryRow
    <3> QED BY <1>3, <2>1, <2>4, <3>1 DEF PeerSave, IInv, TypeOK
  <2>6. ServerIsStored'
    BY <1>3, <2>2, <2>4 DEF PeerSave, IInv, ServerIsStored
  <2>7. SavedByNow' /\ RacedIsGone'
    BY <1>3 DEF PeerSave, IInv, TypeOK, Versions, SavedByNow, RacedIsGone
  <2>8. FetchedIsStored' /\ FetchOfCleanRow' /\ UploadOfHashedRow' /\ UploadRead'
    BY <1>3, PhasesUntouched DEF PeerSave
  <2> QED BY <1>3, <2>5, <2>6, <2>7, <2>8, Untouched DEF PeerSave, IInv
<1>4. CASE PeerDelete
  <2>1. server \in Seq(RemoteFiles) /\ now + 1 \in Nat
    BY DEF IInv, TypeOK
  <2>2. /\ server' \in Seq(RemoteFiles) /\ Len(server') = Len(server)
        /\ \A i \in DOMAIN server' :
             i \in DOMAIN server /\ server'[i].content = server[i].content
    <3>1. PICK i \in Live :
            server' = [server EXCEPT ![i].deleted = TRUE, ![i].at = now + 1,
                                     ![i].own = FALSE]
      BY <1>4 DEF PeerDelete
    <3> DEFINE f == [server[i] EXCEPT !.deleted = TRUE, !.at = now + 1, !.own = FALSE]
    <3>2. i \in DOMAIN server /\ server[i] \in RemoteFiles
      BY <2>1 DEF Live
    <3>3. f \in RemoteFiles /\ f.content = server[i].content
      BY <2>1, <3>2 DEF RemoteFiles
    <3>4. server' = [server EXCEPT ![i] = f]
      BY <3>1, <3>2
    <3> HIDE DEF f
    <3> QED BY <2>1, <3>2, <3>3, <3>4, UpdatedSeq
  <2>3. TypeOK'
    BY <1>4, <2>1, <2>2 DEF PeerDelete, IInv, TypeOK
  <2>4. ServerIsStored'
    BY <1>4, <2>2 DEF PeerDelete, IInv, ServerIsStored
  <2>5. FetchedIsStored' /\ FetchOfCleanRow' /\ UploadOfHashedRow' /\ UploadRead'
    BY <1>4, PhasesUntouched DEF PeerDelete
  <2> QED BY <1>4, <2>3, <2>4, <2>5, Untouched DEF PeerDelete, IInv
<1>5. CASE Start
  <2> DEFINE r == RemoteScanned(row)
  <2>1. /\ r \in EntryRow(Versions, 0..Len(server), Nat) \cup {NoEntry}
        /\ KeepsSynced(row, r)
    BY RemoteScannedRow DEF IInv
  <2> HIDE DEF r
  <2>2. NULL \in 0..Len(server) /\ disk \in Versions
    BY DEF IInv, TypeOK, NULL
  <2>3. row' = LocalScanned(r)
    BY <1>5 DEF Start, r
  <2>4. /\ row' \in EntryRow(Versions, 0..Len(server), Nat) \cup {NoEntry}
        /\ KeepsSynced(r, row')
    BY <2>1, <2>2, <2>3, LocalScannedRow
  <2>5. Overlooked \subseteq Versions
    BY OverlookedVersions DEF IInv
  <2>6. TypeOK'
    <3>1. job' \in BOOLEAN /\ failed' \in BOOLEAN
      BY <1>5 DEF Start, Enqueue, WantsUpload, IInv, TypeOK
    <3> QED BY <1>5, <2>4, <2>5, <3>1 DEF Start, IInv, TypeOK
  <2>7. NotLocallyDeleted'
    BY <2>1, <2>4 DEF IInv, NotLocallyDeleted, KeepsSynced
  <2>8. SyncedWasStored'
    BY <1>5, <2>1, <2>4 DEF Start, IInv, SyncedWasStored, KeepsSynced
  <2>9. SavedByNow'
    <3>1. KeepsSynced(row, row')
      BY <2>1, <2>4 DEF KeepsSynced
    <3> QED BY <1>5, <3>1, RowSavedByNow DEF Start, IInv, SavedByNow
  <2> QED BY <1>5, <2>6, <2>7, <2>8, <2>9, Untouched DEF Start, IInv
<1>6. CASE Crash
  <2>1. crashes' \in 0..MaxCrashes /\ 0 \in Versions /\ 0 \in 0..Len(server)
    BY <1>6, BoundsAssumption DEF Crash, IInv, TypeOK, Versions
  <2>2. TypeOK'
    BY <1>6, <2>1 DEF Crash, IInv, TypeOK
  <2> QED BY <1>6, <2>2, Untouched DEF Crash, IInv
<1>7. CASE RemoteTick
  <2> DEFINE r == RemoteScanned(row)
  <2>1. /\ r \in EntryRow(Versions, 0..Len(server), Nat) \cup {NoEntry}
        /\ KeepsSynced(row, r)
    BY RemoteScannedRow DEF IInv
  <2> HIDE DEF r
  <2>2. row' = r
    BY <1>7 DEF RemoteTick, r
  <2>3. Overlooked \subseteq Versions
    BY OverlookedVersions DEF IInv
  <2>4. TypeOK'
    BY <1>7, <2>1, <2>2, <2>3 DEF RemoteTick, IInv, TypeOK
  <2>5. NotLocallyDeleted'
    BY <2>1, <2>2 DEF IInv, NotLocallyDeleted, KeepsSynced
  <2>6. SyncedWasStored'
    BY <1>7, <2>1, <2>2 DEF RemoteTick, IInv, SyncedWasStored, KeepsSynced
  <2>7. SavedByNow'
    BY <1>7, <2>1, <2>2, RowSavedByNow DEF RemoteTick, IInv, SavedByNow
  <2> QED BY <1>7, <2>4, <2>5, <2>6, <2>7, Untouched DEF RemoteTick, IInv
<1>8. CASE RemoteSkip
  <2>1. TypeOK'
    BY <1>8 DEF RemoteSkip, IInv, TypeOK
  <2> QED BY <1>8, <2>1, Untouched DEF RemoteSkip, IInv
<1>9. CASE Watch
  <2>1. pending' \in BOOLEAN
    BY <1>9 DEF Watch
  <2>2. TypeOK'
    BY <1>9, <2>1 DEF Watch, IInv, TypeOK
  <2> QED BY <1>9, <2>2, Untouched DEF Watch, IInv
<1>10. CASE ScanDirty
  <2>1. NULL \in 0..Len(server) /\ disk \in Versions
    BY DEF IInv, TypeOK, NULL
  <2>2. /\ row' \in EntryRow(Versions, 0..Len(server), Nat) \cup {NoEntry}
        /\ KeepsSynced(row, row')
    <3>1. row \in EntryRow(Versions, 0..Len(server), Nat) \cup {NoEntry}
      BY DEF IInv, TypeOK
    <3>2. row' = LocalScanned(row)
      BY <1>10 DEF ScanDirty
    <3> QED BY <2>1, <3>1, <3>2, LocalScannedRow
  <2>3. TypeOK'
    <3>1. job' \in BOOLEAN /\ failed' \in BOOLEAN
      BY <1>10 DEF ScanDirty, Enqueue, WantsUpload, IInv, TypeOK
    <3> QED BY <1>10, <2>2, <3>1 DEF ScanDirty, IInv, TypeOK
  <2>4. NotLocallyDeleted'
    BY <2>2 DEF IInv, NotLocallyDeleted, KeepsSynced
  <2>5. SyncedWasStored'
    BY <1>10, <2>2 DEF ScanDirty, IInv, SyncedWasStored, KeepsSynced
  <2>6. SavedByNow'
    BY <1>10, <2>2, RowSavedByNow DEF ScanDirty, IInv, SavedByNow
  <2> QED BY <1>10, <2>3, <2>4, <2>5, <2>6, Untouched DEF ScanDirty, IInv
<1>11. CASE DirtyDone
  <2>1. TypeOK'
    BY <1>11 DEF DirtyDone, IInv, TypeOK
  <2> QED BY <1>11, <2>1, Untouched DEF DirtyDone, IInv
<1>12. CASE ScanOther
  <2>1. TypeOK'
    BY <1>12 DEF ScanOther, IInv, TypeOK
  <2> QED BY <1>12, <2>1, Untouched DEF ScanOther, IInv
<1>13. CASE Reconcile
  <2>1. /\ row' \in EntryRow(Versions, 0..Len(server), Nat) \cup {NoEntry}
        /\ KeepsSynced(row, row')
    <3>1. CASE UNCHANGED row
      BY <3>1 DEF IInv, TypeOK, KeepsSynced
    <3>2. CASE RowDecision = "conflict" /\ row' = [row EXCEPT !.conflict = TRUE]
      <4>1. row # NoEntry /\ row \in EntryRow(Versions, 0..Len(server), Nat)
        BY <3>2 DEF RowDecision, IInv, TypeOK
      <4>2. row' \in EntryRow(Versions, 0..Len(server), Nat)
        BY <3>2, <4>1 DEF EntryRow
      <4>3. row' # NoEntry
        BY <4>2 DEF EntryRow, NoEntry
      <4> QED BY <3>2, <4>1, <4>2, <4>3 DEF EntryRow, KeepsSynced
    <3> QED BY <1>13, <3>1, <3>2 DEF Reconcile
  <2>2. disk' \in Versions
    BY <1>13, BoundsAssumption DEF Reconcile, IInv, TypeOK, Versions
  <2>3. event' \in BOOLEAN
    BY <1>13 DEF Reconcile, IInv, TypeOK
  <2>4. TypeOK'
    BY <1>13, <2>1, <2>2, <2>3 DEF Reconcile, IInv, TypeOK
  <2>5. NotLocallyDeleted'
    BY <2>1 DEF IInv, NotLocallyDeleted, KeepsSynced
  <2>6. SyncedWasStored'
    BY <1>13, <2>1 DEF Reconcile, IInv, SyncedWasStored, KeepsSynced
  <2>7. pc' \notin {"fetch", "fetched", "upload", "uploaded"}
    BY <1>13 DEF Reconcile, IInv, TypeOK
  <2>8. SavedByNow'
    <3>1. disk' \in 0..latest
      BY <1>13 DEF Reconcile, IInv, TypeOK, Versions, SavedByNow
    <3> QED BY <1>13, <2>1, <3>1, RowSavedByNow DEF Reconcile
  <2>9. RacedIsGone'
    BY <1>13 DEF Reconcile, IInv, SavedByNow, RacedIsGone
  <2> QED BY <1>13, <2>4, <2>5, <2>6, <2>7, <2>8, <2>9, Untouched DEF Reconcile, IInv
<1>14. CASE Download
  <2>1. TypeOK'
    BY <1>14 DEF Download, IInv, TypeOK
  <2>2. FetchOfCleanRow'
    <3>1. row # NoEntry /\ ~row.localDeleted /\ DecideRow(row, "two_way") = "download"
      BY <1>14 DEF Download, RowDecision, IInv, NotLocallyDeleted
    <3>2. row \in AnyRow
      BY <3>1 DEF IInv, TypeOK, AnyRow, EntryRow
    <3>3. row.contentHash = row.syncedContentHash /\ row.remoteId # NULL
      BY <3>1, <3>2, OverwritesOnlyClean
    <3> QED BY <1>14, <3>1, <3>3 DEF Download, FetchOfCleanRow
  <2> QED BY <1>14, <2>1, <2>2, Untouched DEF Download, IInv
<1>15. CASE Fetch
  <2>1. server[row.remoteId].content \in Versions \cap stored
    BY <1>15, FetchedFile DEF Fetch
  <2>2. TypeOK'
    BY <1>15, <2>1 DEF Fetch, IInv, TypeOK
  <2>3. FetchedIsStored'
    BY <1>15, <2>1 DEF Fetch, FetchedIsStored, FetchOfCleanRow, IInv
  <2>4. SavedByNow' /\ RacedIsGone'
    BY <1>15, <2>1 DEF Fetch, IInv, SavedByNow, RacedIsGone
  <2> QED BY <1>15, <2>2, <2>3, <2>4, Untouched DEF Fetch, IInv
<1>16. CASE FetchFails
  <2>1. TypeOK'
    BY <1>16 DEF FetchFails, IInv, TypeOK
  <2>2. pc' \notin {"fetch", "fetched", "upload", "uploaded"}
    BY <1>16 DEF FetchFails, IInv, TypeOK
  <2> QED BY <1>16, <2>1, <2>2, Untouched DEF FetchFails, IInv
<1>17. CASE Fetched
  <2>1. disk \in Versions /\ 0 \in Versions
    BY BoundsAssumption DEF IInv, TypeOK, Versions
  <2>2. /\ row' \in EntryRow(Versions, 0..Len(server), Nat)
        /\ row'.localDeleted = row.localDeleted
        /\ row'.syncedContentHash \in {row.syncedContentHash, disk}
        /\ row'.contentHash \in {row.contentHash, disk}
    <3>1. row \in EntryRow(Versions, 0..Len(server), Nat)
      BY <1>17 DEF Fetched, FetchedIsStored, IInv, TypeOK
    <3>2. CASE disk = 0
      BY <1>17, <3>1, <3>2 DEF Fetched
    <3>3. CASE disk # 0
      BY <1>17, <2>1, <3>1, <3>3 DEF Fetched, EntryRow
    <3> QED BY <3>2, <3>3
  <2>3. misread' \subseteq Versions
    BY <1>17, <2>1 DEF Fetched, IInv, TypeOK
  <2>4. TypeOK'
    BY <1>17, <2>1, <2>2, <2>3 DEF Fetched, IInv, TypeOK
  <2>5. NotLocallyDeleted'
    BY <1>17, <2>2 DEF Fetched, IInv, NotLocallyDeleted, FetchedIsStored
  <2>6. SyncedWasStored'
    <3>1. disk = 0 \/ disk \in stored' \cup misread'
      BY <1>17 DEF Fetched, FetchedIsStored, IInv
    <3> QED BY <1>17, <2>2, <3>1 DEF Fetched, IInv, SyncedWasStored, FetchedIsStored, NULL
  <2>7. pc' \notin {"fetch", "fetched", "upload", "uploaded"}
    BY <1>17 DEF Fetched, IInv, TypeOK
  <2>8. SavedByNow'
    BY <1>17, <2>2, RowSavedByNow DEF Fetched, IInv, SavedByNow
  <2> QED BY <1>17, <2>4, <2>5, <2>6, <2>7, <2>8, Untouched DEF Fetched, IInv
<1>18. CASE PrepareUpload
  <2>1. TypeOK'
    BY <1>18 DEF PrepareUpload, IInv, TypeOK
  <2>2. UploadOfHashedRow'
    BY <1>18 DEF PrepareUpload, Uploadable, WantsUpload, UploadOfHashedRow, NULL
  <2>3. pc' \notin {"fetch", "fetched", "uploaded"}
    BY <1>18 DEF PrepareUpload
  <2>4. UploadRead'
    BY <2>3 DEF UploadRead
  <2> QED BY <1>18, <2>1, <2>2, <2>3, <2>4, Untouched DEF PrepareUpload, IInv
<1>19. CASE Upload
  <2> DEFINE f == RemoteFile(disk, TRUE)
  <2>1. disk \in Versions /\ now + 1 \in Nat /\ server \in Seq(RemoteFiles)
    BY DEF IInv, TypeOK
  <2>2. f \in RemoteFiles /\ f.content \in stored'
    BY <1>19, <2>1 DEF Upload, RemoteFile, RemoteFiles
  <2>3. server' = Append(server, f)
    BY <1>19 DEF Upload
  <2> HIDE DEF f
  <2>4. /\ server' \in Seq(RemoteFiles) /\ Len(server') = Len(server) + 1
        /\ \A i \in DOMAIN server' :
             server'[i] = f \/ (i \in DOMAIN server /\ server'[i] = server[i])
    BY <2>1, <2>2, <2>3, AppendedSeq
  <2>5. Len(server) \in Nat /\ Len(server') \in 0..Len(server')
    BY <2>1, <2>4
  <2>6. TypeOK'
    <3>1. row' \in EntryRow(Versions, 0..Len(server'), Nat) \cup {NoEntry}
      BY <1>19, <2>4, <2>5 DEF Upload, IInv, TypeOK, EntryRow
    <3> QED BY <1>19, <2>1, <2>4, <2>5, <3>1 DEF Upload, IInv, TypeOK
  <2>7. ServerIsStored'
    BY <1>19, <2>2, <2>4 DEF Upload, IInv, ServerIsStored
  <2>8. SavedByNow' /\ RacedIsGone'
    BY <1>19 DEF Upload, IInv, SavedByNow, RacedIsGone
  <2>9. UploadOfHashedRow' /\ UploadRead'
    BY <1>19 DEF Upload, IInv, UploadOfHashedRow, UploadRead
  <2> QED BY <1>19, <2>6, <2>7, <2>8, <2>9, Untouched DEF Upload, IInv
<1>20. CASE UploadFails
  <2>1. 0 \in Versions /\ 0 \in 0..Len(server)
    BY BoundsAssumption DEF IInv, TypeOK, Versions
  <2>2. TypeOK'
    BY <1>20, <2>1 DEF UploadFails, IInv, TypeOK
  <2> QED BY <1>20, <2>2, Untouched DEF UploadFails, IInv
<1>21. CASE MarkUploaded
  <2>1. /\ row # NoEntry /\ row \in EntryRow(Versions, 0..Len(server), Nat)
        /\ row.contentHash # NULL /\ row.contentHash \in Versions
    BY <1>21 DEF MarkUploaded, IInv, TypeOK, UploadOfHashedRow, EntryRow
  <2>2. 0 \in Versions /\ 0 \in 0..Len(server) /\ sent \in 0..Len(server)
    BY BoundsAssumption DEF IInv, TypeOK, Versions
  <2>3. /\ row' \in EntryRow(Versions, 0..Len(server), Nat)
        /\ row'.contentHash = row.contentHash
        /\ row'.syncedContentHash = row.contentHash
        /\ ~row'.localDeleted
    <3>1. row' = Uploaded(row, sent)
      BY <1>21 DEF MarkUploaded
    <3> QED BY <2>1, <2>2, <3>1 DEF Uploaded, EntryRow
  <2>4. TypeOK'
    BY <1>21, <2>1, <2>2, <2>3 DEF MarkUploaded, IInv, TypeOK
  <2>5. NotLocallyDeleted'
    BY <2>3 DEF NotLocallyDeleted
  <2>6. SyncedWasStored'
    BY <1>21, <2>3 DEF MarkUploaded, IInv, UploadRead, SyncedWasStored
  <2>7. RacedIsGone'
    BY <1>21 DEF MarkUploaded, IInv, UploadRead, RacedIsGone
  <2>8. SavedByNow'
    <3>1. row.contentHash \in 1..latest
      BY <2>1 DEF IInv, TypeOK, Versions, SavedByNow, NULL
    <3>2. raced' \subseteq 1..latest
      BY <1>21, <3>1 DEF MarkUploaded, IInv, SavedByNow
    <3>3. row'.contentHash \in 0..latest
      BY <2>3, <3>1
    <3> QED BY <1>21, <3>2, <3>3 DEF MarkUploaded, IInv, SavedByNow
  <2> QED BY <1>21, <2>4, <2>5, <2>6, <2>7, <2>8, Untouched DEF MarkUploaded, IInv
<1>22. CASE JobDone
  <2>1. TypeOK'
    BY <1>22 DEF JobDone, IInv, TypeOK
  <2> QED BY <1>22, <2>1, Untouched DEF JobDone, IInv
<1>23. CASE UNCHANGED vars
  <2>1. TypeOK'
    BY <1>23 DEF vars, IInv, TypeOK
  <2>2. FetchedIsStored' /\ FetchOfCleanRow' /\ UploadOfHashedRow' /\ UploadRead'
    BY <1>23, PhasesUntouched DEF vars
  <2> QED BY <1>23, <2>1, <2>2, Untouched DEF vars, IInv
<1> QED BY <1>1, <1>2, <1>3, <1>4, <1>5, <1>6, <1>7, <1>8, <1>9, <1>10, <1>11, <1>12,
           <1>13, <1>14, <1>15, <1>16, <1>17, <1>18, <1>19, <1>20, <1>21, <1>22, <1>23
        DEF Next, Loop

LEMMA SpecIInv == Spec => []IInv
BY InitIInv, NextIInv, PTL DEF Spec

-----------------------------------------------------------------------------

\* Every version on disk, in the row and on the server is one that was saved,
\* and the row's remote id names a file of the server (or is NULL).
THEOREM TypeCorrect == Spec => []TypeOK
BY SpecIInv, PTL DEF IInv

\* markEntryUploaded and markEntryDownloaded never call synced what the server
\* has not had, except in the three windows that SyncedWasStored names: a save
\* between a download and its hash, a save of the other device over an upload
\* before its first scan, and a save between preparing an upload and its reading.
THEOREM SyncedHashIsHonest == Spec => []SyncedWasStored
BY SpecIInv, PTL DEF IInv

\* A step of the daemon replaces or removes the file on disk only in Fetch and
\* in Reconcile, both for a row without local changes: an edit that the scanner
\* has hashed is on the server, or was misread, before it is overwritten.
THEOREM NoScannedEditLost == Spec => ScannedEditsSurvive
<1> DEFINE Survives ==
      pc' # pc /\ disk' # disk =>
        \/ disk \in stored \cup misread \cup {0}
        \/ row = NoEntry \/ disk # row.contentHash
<1> USE DEF userVars, remoteVars, dbVars, loopVars, history
<1>1. ASSUME IInv, [Next]_vars PROVE [Survives]_vars
  <2> SUFFICES ASSUME Next, pc' # pc, disk' # disk, disk # 0,
                      row # NoEntry, disk = row.contentHash
               PROVE  disk \in stored \cup misread
    BY <1>1
  <2>1. row.contentHash = row.syncedContentHash
    <3>1. CASE Reconcile
      <4>1. row \in AnyRow /\ ~row.localDeleted
        BY <1>1 DEF IInv, TypeOK, NotLocallyDeleted, AnyRow, EntryRow
      <4>2. DecideRow(row, "two_way") = "delete_local"
        BY <3>1 DEF Reconcile, RowDecision
      <4> QED BY <4>1, <4>2, OverwritesOnlyClean
    <3>2. CASE Fetch
      BY <1>1, <3>2 DEF Fetch, IInv, FetchOfCleanRow
    <3>3. CASE \/ UserSave \/ UserDelete \/ PeerSave \/ PeerDelete \/ Start \/ Crash
               \/ RemoteTick \/ RemoteSkip \/ Watch \/ ScanDirty \/ ScanOther \/ DirtyDone
               \/ Download \/ FetchFails \/ Fetched \/ PrepareUpload \/ Upload
               \/ UploadFails \/ MarkUploaded \/ JobDone
      BY <3>3 DEF UserSave, UserDelete, PeerSave, PeerDelete, Start, Crash,
                  RemoteTick, RemoteSkip, Watch, ScanDirty, ScanOther, DirtyDone,
                  Download, FetchFails, Fetched, PrepareUpload, Upload, UploadFails,
                  MarkUploaded, JobDone
    <3> QED BY <3>1, <3>2, <3>3 DEF Next, Loop
  <2> QED BY <1>1, <2>1 DEF IInv, SyncedWasStored, RacedIsGone, NULL
<1> QED BY <1>1, SpecIInv, PTL DEF Spec, ScannedEditsSurvive
=============================================================================
