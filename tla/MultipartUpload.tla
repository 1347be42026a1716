--------------------------- MODULE MultipartUpload ---------------------------
(***************************************************************************)
(* The upload of one file: UploadService looks for a session to resume,    *)
(* starts one if there is none, lets MultipartUploader's threads encrypt   *)
(* and store the parts through StoragePutTransport, completes the session  *)
(* on the server and forgets it.  The process may die between any two      *)
(* steps; UploadResumeRepo's two tables survive.                           *)
(*                                                                         *)
(* A content of the file is a version, and so is its hash.  Every upload   *)
(* encrypts anew: a ciphertext is known by the version it holds, the call  *)
(* and the thread that made it.  The file keeps its size; chunks of a part *)
(* are read in one step.  The server (external) drops sessions and answers *)
(* requests for a session that is not open with 404 or 409 ("gone").       *)
(* Thumbnails, whose failure is ignored, are left out.                     *)
(***************************************************************************)
EXTENDS Naturals, FiniteSets

CONSTANTS
  Contents,      \* versions of the file, positive numbers
  Threads,       \* kDefaultDesktopPartConcurrency, or the server's limit
  Sizes,         \* possible sizes of the file, in bytes
  ChunkSize,     \* kChunkSize
  PartSize,      \* kMultipartUploadPartSize
  MaxParts,      \* no size needs more parts
  MaxCalls,      \* bound on uploads of the file; each starts one session at most
  MaxEdits,      \* bound on the user's saves
  MaxTrouble     \* bound on failing requests, dropped sessions and crashes

ASSUME ContentsAssumption == Contents \subseteq Nat \ {0} /\ 1 \in Contents

ASSUME SizesAssumption ==
  /\ ChunkSize \in Nat \ {0} /\ PartSize \in Nat \ {0} /\ MaxParts \in Nat \ {0}
  /\ Sizes \subseteq Nat /\ Threads \in Nat \ {0}
  /\ PartSize % ChunkSize = 0  \* 8 MiB and 4 MiB

ASSUME BoundsAssumption ==
  MaxCalls \in Nat /\ MaxEdits \in Nat /\ MaxTrouble \in Nat

VARIABLES
  disk, row, synced, \* content of the file, content_hash and synced_content_hash
  scanned,       \* size and mtime in the row are those of the file
  size,          \* size of the file
  session,       \* upload_resume_sessions: the row of this file, or NoSession
  partRows,      \* upload_resume_parts: [Sessions -> [Parts -> Cipher]]
  server,        \* [Sessions -> state of the upload session on the server]
  storage,       \* [Sessions -> [Parts -> Cipher]], the provider's storage
  files,         \* [Sessions -> the file a completed session has become]
  proc,          \* the process: "up", "ending" or "down"
  pc, goal,      \* where UploadService is, and where it goes after a deletion
  attempt, used, \* attempt of uploadFile, usedResumeSession
  cur, hash,     \* the session and the entry's hash it works with
  results,       \* uploadedParts
  next, stop, error, \* nextPartNumber, stopWorkers, firstError
  worker,        \* [Workers -> step, part and ciphertext of the thread]
  req, notify, stopping, thread, \* the transport, see StoragePutTransport
  calls, edits, trouble, \* counters for the bounds
  outcome,       \* how the last upload ended
  raced,         \* history: the calls during which the user saved the file
  faulted        \* history: something failed during this call

Parts == 1..MaxParts
Workers == 1..Threads
Sessions == 1..MaxCalls

fileVars == <<disk, row, scanned, edits>>
resumeVars == <<session, partRows>>
serverVars == <<server, storage, files>>
callVars == <<pc, goal, attempt, used, cur, hash, outcome, synced>>
poolVars == <<results, next, stop, error, worker>>
tvars == <<req, notify, stopping, thread>>
histVars == <<calls, trouble, raced, faulted>>
vars == <<fileVars, size, resumeVars, serverVars, proc, callVars, poolVars, tvars,
          histVars>>

T == INSTANCE StoragePutTransport WITH Callers <- Workers, Stopper <- 0

-----------------------------------------------------------------------------
(***************************************************************************)
(* UploadPlanner and the windows of the parts.                             *)
(***************************************************************************)

AtLeastOne(n) == IF n = 0 THEN 1 ELSE n
DivideUp(a, b) == (a + b - 1) \div b
Least(a, b) == IF a < b THEN a ELSE b

\* UploadPlanner::createPlan
TotalChunks(n) == AtLeastOne(DivideUp(n, ChunkSize))
UploadPartSize(n) == IF TotalChunks(n) > 1 THEN PartSize ELSE ChunkSize
ChunksPerPart(n) == AtLeastOne(UploadPartSize(n) \div ChunkSize)
PartCount(n) == AtLeastOne(DivideUp(TotalChunks(n), ChunksPerPart(n)))

ASSUME MaxPartsAssumption == \A n \in Sizes : PartCount(n) <= MaxParts

\* makePartPlan, and the window of chunks uploadParts hands to the reader.
PartStart(p, n) == (p - 1) * UploadPartSize(n)
PartEnd(p, n) == Least(PartStart(p, n) + UploadPartSize(n), n)
FirstChunk(p, n) == (PartStart(p, n) \div ChunkSize) + 1
PartChunks(p, n) == DivideUp(PartEnd(p, n) - PartStart(p, n), ChunkSize)

\* The chunk reader's constructor accepts the window.
ReadablePart(p, n) ==
  /\ PartChunks(p, n) # 0
  /\ FirstChunk(p, n) - 1 < TotalChunks(n)
  /\ FirstChunk(p, n) - 1 + PartChunks(p, n) <= TotalChunks(n)

\* One chunk needs no multipart upload: the server gives no providerUploadId.
SinglePart == TotalChunks(size) = 1

-----------------------------------------------------------------------------
NoCipher == [ver |-> 0, call |-> 0, by |-> 0]
Cipher == [ver : Contents, call : 1..MaxCalls, by : Workers]
NoParts == [p \in Parts |-> NoCipher]
NoSession == [id |-> 0, hash |-> 0]
NoFile == [hash |-> 0, parts |-> NoParts]
Ended == [step |-> "exit", part |-> 0, cipher |-> NoCipher]
Ready == [Ended EXCEPT !.step = "take"]

Init ==
  /\ disk = 1 /\ row = disk /\ synced = 0 /\ scanned = TRUE
  /\ size \in Sizes
  /\ session = NoSession /\ partRows = [s \in Sessions |-> NoParts]
  /\ server = [s \in Sessions |-> "none"]
  /\ storage = [s \in Sessions |-> NoParts]
  /\ files = [s \in Sessions |-> NoFile]
  /\ proc = "up"
  /\ pc = "idle" /\ goal = "none" /\ attempt = 0 /\ used = FALSE
  /\ cur = 0 /\ hash = 0 /\ results = NoParts
  /\ next = 1 /\ stop = FALSE /\ error = "none"
  /\ worker = [w \in Workers |-> Ended]
  /\ T!Init
  /\ calls = 0 /\ edits = 0 /\ trouble = 0
  /\ outcome = "none" /\ raced = {} /\ faulted = FALSE

-----------------------------------------------------------------------------
(***************************************************************************)
(* The user, the scanner, the process and the server's own doings.         *)
(***************************************************************************)

Running == pc # "idle"

\* A save at another moment of an upload is one made when the upload is over:
\* the file is looked at by the threads that read it and by scans.
Edit ==
  /\ edits < MaxEdits
  /\ Running => \E w \in Workers : worker[w].step = "read"
  /\ edits' = edits + 1
  /\ disk' \in Contents \ {disk}
  /\ scanned' = FALSE
  /\ raced' = IF Running THEN raced \cup {calls} ELSE raced
  /\ UNCHANGED <<row, size, resumeVars, serverVars, proc, callVars, poolVars, tvars,
                 calls, trouble, faulted>>

\* The daemon's loop scans between uploads.
Scan ==
  /\ proc = "up" /\ ~Running
  /\ row' = disk /\ scanned' = TRUE
  /\ UNCHANGED <<disk, edits, size, resumeVars, serverVars, proc, callVars, poolVars,
                 tvars, histVars>>

\* The server gives up an upload session that was never completed.
Expire(s) ==
  /\ trouble < MaxTrouble
  /\ server[s] = "open"
  /\ server' = [server EXCEPT ![s] = "expired"]
  /\ trouble' = trouble + 1
  /\ faulted' = (faulted \/ (Running /\ s = cur /\ ~used))
  /\ UNCHANGED <<fileVars, size, resumeVars, storage, files, proc, callVars, poolVars,
                 tvars, calls, raced>>

ForgetCall ==
  /\ pc' = "idle" /\ goal' = "none" /\ attempt' = 0 /\ used' = FALSE
  /\ cur' = 0 /\ hash' = 0 /\ results' = NoParts
  /\ next' = 1 /\ stop' = FALSE /\ error' = "none"
  /\ worker' = [w \in Workers |-> Ended]

\* Memory is lost with the process.
Crash ==
  /\ proc # "down" /\ trouble < MaxTrouble
  /\ trouble' = trouble + 1
  /\ proc' = "down"
  /\ T!Die
  /\ ForgetCall /\ outcome' = "none" /\ faulted' = FALSE
  /\ UNCHANGED <<fileVars, size, resumeVars, serverVars, synced, calls, raced>>

\* A daemon that ends in good order destroys its transport between uploads:
\* it tells the transport's thread, which may have ended already, to stop, and
\* the destructor returns when the thread has ended.
Shutdown ==
  /\ proc = "up" /\ ~Running
  /\ proc' = "ending"
  /\ T!Stop \/ (stopping /\ UNCHANGED tvars)
  /\ UNCHANGED <<fileVars, size, resumeVars, serverVars, callVars, poolVars, histVars>>

NotifyStop ==
  /\ proc = "ending" /\ T!Notify(0)
  /\ UNCHANGED <<fileVars, size, resumeVars, serverVars, proc, callVars, poolVars,
                 histVars>>

Exit ==
  /\ proc = "ending" /\ thread = "down" /\ notify = {}
  /\ proc' = "down"
  /\ T!Die
  /\ ForgetCall /\ outcome' = "none" /\ faulted' = FALSE
  /\ UNCHANGED <<fileVars, size, resumeVars, serverVars, synced, calls, trouble, raced>>

\* The daemon starts with a scan.
Boot ==
  /\ proc = "down"
  /\ proc' = "up" /\ row' = disk /\ scanned' = TRUE
  /\ UNCHANGED <<disk, edits, size, resumeVars, serverVars, callVars, poolVars, tvars,
                 histVars>>

-----------------------------------------------------------------------------
(***************************************************************************)
(* UploadService::uploadFilesBatch for a file, with uploadFile for one     *)
(* that resumes.                                                           *)
(***************************************************************************)

\* A job is prepared: the row asks for an upload and describes the file.
Begin ==
  /\ proc = "up" /\ ~Running /\ calls < MaxCalls
  /\ scanned /\ synced # row
  /\ calls' = calls + 1
  /\ hash' = row
  /\ pc' = "lookup" /\ outcome' = "none" /\ faulted' = FALSE
  /\ UNCHANGED <<fileVars, size, resumeVars, serverVars, proc, goal, attempt, used, cur,
                 synced, poolVars, tvars, trouble, raced>>

sessionMatchesAny == session.hash # 0

\* Path, size, folder and plan are those of the file; both hashes are known.
sessionMatchesEntry == session.hash = hash

\* One thread per part at most (resolvePartConcurrency).
StartWorkers(parts) ==
  /\ pc' = "parts"
  /\ results' = parts
  /\ next' = 1 /\ stop' = FALSE /\ error' = "none"
  /\ worker' = [w \in Workers |-> IF w <= PartCount(size) THEN Ready ELSE Ended]

\* getSessionByLocalPath; a session that matches is resumed with its parts.
LookupSession ==
  /\ pc = "lookup"
  /\ \/ /\ session = NoSession
        /\ pc' = "start"
        /\ UNCHANGED <<goal, used, cur, poolVars>>
     \/ /\ session # NoSession /\ sessionMatchesEntry
        /\ used' = TRUE /\ cur' = session.id
        /\ StartWorkers(partRows[session.id])
        /\ UNCHANGED goal
     \/ /\ session # NoSession /\ ~sessionMatchesEntry
        /\ pc' = "deleteParts" /\ goal' = "start"
        /\ UNCHANGED <<used, cur, poolVars>>
  /\ UNCHANGED <<fileVars, size, resumeVars, serverVars, proc, attempt, hash, outcome,
                 synced, tvars, histVars>>

\* The session row alone goes, as if its parts were deleted by a cascade.
DeletePartsSkipped ==
  /\ pc = "deleteParts"
  /\ pc' = "deleteSession"
  /\ UNCHANGED <<fileVars, size, resumeVars, serverVars, proc, goal, attempt, used, cur,
                 hash, outcome, synced, poolVars, tvars, histVars>>

\* deleteSessionByUploadSessionId, in two statements.
DeleteParts ==
  /\ pc = "deleteParts"
  /\ partRows' = [partRows EXCEPT ![session.id] = NoParts]
  /\ pc' = "deleteSession"
  /\ UNCHANGED <<fileVars, size, session, serverVars, proc, goal, attempt, used, cur,
                 hash, outcome, synced, poolVars, tvars, histVars>>

\* "done" is the end of a successful upload, which UploadJobRunner records.
DeleteSession ==
  /\ pc = "deleteSession"
  /\ session' = NoSession
  /\ IF goal = "done"
     THEN ForgetCall /\ outcome' = "ok" /\ synced' = hash
     ELSE /\ pc' = goal /\ goal' = "none" /\ used' = FALSE /\ cur' = 0
          /\ UNCHANGED <<attempt, hash, outcome, synced, poolVars>>
  /\ UNCHANGED <<fileVars, size, partRows, serverVars, proc, tvars, histVars>>

neverResetResumeSession(e) == FALSE

shouldResetResumeSession(e) == e = "gone"

\* What uploadFile's handlers do with an error: reset the session once, or
\* give up.
OnError(e) ==
  IF attempt = 0 /\ used /\ shouldResetResumeSession(e)
  THEN /\ pc' = "deleteParts" /\ goal' = "lookup" /\ attempt' = 1
       /\ UNCHANGED <<used, cur, hash, outcome, poolVars>>
  ELSE ForgetCall /\ outcome' = "failed"

\* A request fails, though its session is open.
Fault ==
  /\ trouble < MaxTrouble
  /\ trouble' = trouble + 1 /\ faulted' = TRUE

NoFault == UNCHANGED <<trouble, faulted>>

\* api_.startUpload; a lost answer leaves a session on the server.
StartUpload ==
  LET s == calls IN
  /\ pc = "start"
  /\ \/ /\ NoFault
        /\ server' = [server EXCEPT ![s] = "open"]
        /\ cur' = s /\ pc' = "save"
        /\ UNCHANGED <<goal, attempt, used, hash, outcome, poolVars>>
     \/ /\ Fault
        /\ \/ server' = [server EXCEPT ![s] = "open"]
           \/ UNCHANGED server
        /\ OnError("fault")
  /\ UNCHANGED <<fileVars, size, resumeVars, storage, files, proc, synced, tvars, calls,
                 raced>>

\* replaceSession; there is no older row by now.
ReplaceSession ==
  /\ pc = "save"
  /\ session' = [id |-> cur, hash |-> hash]
  /\ StartWorkers(NoParts)
  /\ UNCHANGED <<fileVars, size, partRows, serverVars, proc, goal, attempt, used, cur,
                 hash, outcome, synced, tvars, histVars>>

\* All threads are joined, and the first error is thrown.
JoinWorkers ==
  /\ pc = "parts"
  /\ \A w \in Workers : worker[w].step = "exit"
  /\ \/ /\ error = "none"
        /\ pc' = "complete"
        /\ UNCHANGED <<goal, attempt, used, cur, hash, outcome, poolVars>>
     \/ error # "none" /\ OnError(error)
  /\ UNCHANGED <<fileVars, size, resumeVars, serverVars, proc, synced, tvars, histVars>>

\* prepareCompletion and uploadComplete with the manifest of all parts.
Completed(s) ==
  /\ server' = [server EXCEPT ![s] = "completed"]
  /\ files' = [files EXCEPT ![s] = [hash |-> hash, parts |-> results]]

CompleteUpload ==
  /\ pc = "complete"
  /\ \/ /\ server[cur] = "open" /\ NoFault /\ Completed(cur)
        /\ pc' = "deleteParts" /\ goal' = "done"
        /\ UNCHANGED <<attempt, used, cur, hash, outcome, poolVars>>
     \/ /\ server[cur] # "open" /\ NoFault
        /\ OnError("gone")
        /\ UNCHANGED <<server, files>>
     \/ /\ server[cur] = "open" /\ Fault
        /\ Completed(cur) \/ UNCHANGED <<server, files>>
        /\ OnError("fault")
  /\ UNCHANGED <<fileVars, size, resumeVars, storage, proc, synced, tvars, calls, raced>>

-----------------------------------------------------------------------------
(***************************************************************************)
(* The threads of MultipartUploader::uploadParts.                          *)
(***************************************************************************)

At(w, step) == pc = "parts" /\ worker[w].step = step

Goto(w, step) == worker' = [worker EXCEPT ![w].step = step]

\* The handler of a thread's errors: stop the others, keep the first error.
\* The thread itself goes back to its loop, which it leaves.
WorkerFails(w, e) ==
  /\ stop' = TRUE
  /\ error' = IF error = "none" THEN e ELSE error
  /\ worker' = [worker EXCEPT ![w] = Ready]

\* As if the counter were read and written in two steps.
TakeSamePart(w) ==
  /\ At(w, "take")
  /\ \/ /\ stop
        /\ worker' = [worker EXCEPT ![w] = Ended]
        /\ UNCHANGED next
     \/ /\ ~stop /\ next' \in {next, next + 1}
        /\ worker' = [worker EXCEPT ![w] =
             IF next > PartCount(size) THEN Ended
             ELSE IF results[next] # NoCipher THEN Ready
             ELSE [Ready EXCEPT !.step = "read", !.part = next]]
  /\ UNCHANGED <<fileVars, size, resumeVars, serverVars, proc, callVars, results, stop,
                 error, tvars, histVars>>

\* Part numbers as indices.
TakePartFromZero(w) ==
  /\ At(w, "take") /\ ~stop /\ next' = next + 1
  /\ worker' = [worker EXCEPT ![w] = IF next > PartCount(size) THEN Ended
                  ELSE [Ready EXCEPT !.step = "read", !.part = next - 1]]
  /\ UNCHANGED <<fileVars, size, resumeVars, serverVars, proc, callVars, results, stop,
                 error, tvars, histVars>>

\* nextPartNumber.fetch_add, and the parts a resumed session has.
TakePart(w) ==
  /\ At(w, "take")
  /\ \/ /\ stop
        /\ worker' = [worker EXCEPT ![w] = Ended]
        /\ UNCHANGED next
     \/ /\ ~stop /\ next' = next + 1
        /\ worker' = [worker EXCEPT ![w] =
             IF next > PartCount(size) THEN Ended
             ELSE IF results[next] # NoCipher THEN Ready
             ELSE [Ready EXCEPT !.step = "read", !.part = next]]
  /\ UNCHANGED <<fileVars, size, resumeVars, serverVars, proc, callVars, results, stop,
                 error, tvars, histVars>>

\* What a request about the open or closed session comes to.
Answers(yes, no(_)) ==
  \/ server[cur] = "open" /\ NoFault /\ yes
  \/ server[cur] # "open" /\ NoFault /\ no("gone")
  \/ server[cur] = "open" /\ Fault /\ no("fault")

\* Chunks are read and encrypted, and the part's URL is asked for.  Failing to
\* read the file is one of the faults; an empty part always fails.
ReadPart(w) ==
  /\ At(w, "read")
  /\ IF ReadablePart(worker[w].part, size)
     THEN Answers(/\ worker' = [worker EXCEPT ![w].step = "put",
                       ![w].cipher = [ver |-> disk, call |-> calls, by |-> w]]
                  /\ UNCHANGED <<stop, error>>,
                  LAMBDA e : WorkerFails(w, e))
     ELSE WorkerFails(w, "fault") /\ NoFault
  /\ UNCHANGED <<fileVars, size, resumeVars, serverVars, proc, callVars, results, next,
                 tvars, calls, raced>>

\* The body is handed to the transport, which may have stopped.
PutPart(w) ==
  /\ At(w, "put")
  /\ \/ T!Push(w) /\ Goto(w, "wait") /\ UNCHANGED <<stop, error>>
     \/ stopping /\ WorkerFails(w, "fault") /\ UNCHANGED tvars
  /\ UNCHANGED <<fileVars, size, resumeVars, serverVars, proc, callVars, results, next,
                 histVars>>

NotifyTransport(w) ==
  /\ At(w, "wait")
  /\ T!Notify(w)
  /\ UNCHANGED <<fileVars, size, resumeVars, serverVars, proc, callVars, poolVars, histVars>>

\* The answer; of a multipart upload the part is then registered (uploadPart).
PutAnswered(w) ==
  /\ At(w, "wait")
  /\ T!Take(w)
  /\ \/ /\ req[w] = "failed" /\ NoFault
        /\ WorkerFails(w, IF server[cur] = "open" THEN "fault" ELSE "gone")
     \/ req[w] = "ok" /\ SinglePart /\ NoFault
        /\ Goto(w, "record") /\ UNCHANGED <<stop, error>>
     \/ req[w] = "ok" /\ ~SinglePart
        /\ Answers(Goto(w, "record") /\ UNCHANGED <<stop, error>>,
                   LAMBDA e : WorkerFails(w, e))
  /\ UNCHANGED <<fileVars, size, resumeVars, serverVars, proc, callVars, results, next,
                 calls, raced>>

\* onPartUploaded (upsertPart) for a multipart upload, then the result, which
\* is lost with the process if that dies in between.
StoreResult(w) ==
  /\ At(w, "record")
  /\ partRows' = IF SinglePart THEN partRows
                 ELSE [partRows EXCEPT ![cur][worker[w].part] = worker[w].cipher]
  /\ results' = [results EXCEPT ![worker[w].part] = worker[w].cipher]
  /\ worker' = [worker EXCEPT ![w] = Ready]
  /\ UNCHANGED <<fileVars, size, session, serverVars, proc, callVars, next, stop, error,
                 tvars, histVars>>

-----------------------------------------------------------------------------
(***************************************************************************)
(* The transport at work.                                                  *)
(***************************************************************************)

\* The storage takes a body that is on its way, if the upload still exists,
\* and answers.
Land(w) ==
  /\ req[w] = "active" /\ server[cur] = "open"
  /\ storage[cur][worker[w].part] # worker[w].cipher
  /\ storage' = [storage EXCEPT ![cur][worker[w].part] = worker[w].cipher]
  /\ UNCHANGED <<fileVars, size, resumeVars, server, files, proc, callVars, poolVars,
                 tvars, histVars>>

Landed(w) == storage[cur][worker[w].part] = worker[w].cipher

\* A transfer ends with the storage's answer; that of an upload that is gone
\* fails, and others do by a fault.
Faulty(ws) ==
  IF ws = {} THEN NoFault
  ELSE trouble < MaxTrouble /\ trouble' = trouble + 1 /\ faulted' = TRUE

Transfer(done, ok) ==
  /\ T!Perform(done, ok)
  /\ \A w \in ok : Landed(w)
  /\ \A w \in T!Active : Landed(w) \/ server[cur] # "open" => w \in done
  /\ Faulty({w \in done \ ok : server[cur] = "open"})

TransportStep ==
  /\ proc # "down"
  /\ \/ (T!InitMulti \/ T!Wait) /\ NoFault
     \/ T!InitFails /\ Fault
     \/ \E bad \in SUBSET T!Pending : T!AddPending(bad) /\ Faulty(bad)
     \/ \E done \in SUBSET T!Active : \E ok \in SUBSET done : Transfer(done, ok)
  /\ UNCHANGED <<fileVars, size, resumeVars, serverVars, proc, callVars, poolVars, calls,
                 raced>>

-----------------------------------------------------------------------------
Service ==
  \/ LookupSession \/ DeleteParts \/ DeleteSession \/ StartUpload \/ ReplaceSession
  \/ JoinWorkers \/ CompleteUpload

Worker(w) ==
  \/ TakePart(w) \/ ReadPart(w) \/ PutPart(w) \/ NotifyTransport(w)
  \/ PutAnswered(w) \/ StoreResult(w)

Next ==
  \/ Edit \/ Scan \/ Crash \/ Shutdown \/ NotifyStop \/ Exit \/ Boot \/ Begin
  \/ \E s \in Sessions : Expire(s)
  \/ Service
  \/ \E w \in Workers : Worker(w) \/ Land(w)
  \/ TransportStep

\* Threads are scheduled, and the storage answers, or the kernel closes the
\* connection: the transport sets no timeout of its own.  No step of the first
\* group keeps the others of the group from being taken later.
Fairness ==
  /\ WF_vars(Service \/ \E w \in Workers : Worker(w) \/ Land(w))
  /\ WF_vars(TransportStep)

Spec == Init /\ [][Next]_vars /\ Fairness

-----------------------------------------------------------------------------
CipherOrNone == Cipher \cup {NoCipher}
PartTable == [Parts -> CipherOrNone]

WorkerState == [step : {"take", "read", "put", "wait", "record", "exit"},
                part : Parts \cup {0}, cipher : CipherOrNone]
FileState == [hash : Contents \cup {0}, parts : PartTable]
SessionRow == [id : Sessions, hash : Contents]

TypeOK ==
  /\ disk \in Contents /\ row \in Contents /\ synced \in Contents \cup {0}
  /\ scanned \in BOOLEAN /\ size \in Sizes /\ proc \in {"up", "ending", "down"}
  /\ session \in SessionRow \cup {NoSession}
  /\ partRows \in [Sessions -> PartTable] /\ storage \in [Sessions -> PartTable]
  /\ server \in [Sessions -> {"none", "open", "expired", "completed"}]
  /\ files \in [Sessions -> FileState]
  /\ pc \in {"idle", "lookup", "deleteParts", "deleteSession", "start", "save",
             "parts", "complete"}
  /\ goal \in {"none", "start", "lookup", "done"} /\ attempt \in {0, 1}
  /\ used \in BOOLEAN /\ cur \in Sessions \cup {0} /\ hash \in Contents \cup {0}
  /\ results \in PartTable /\ next \in Nat /\ stop \in BOOLEAN
  /\ error \in {"none", "fault", "gone"}
  /\ worker \in [Workers -> WorkerState]
  /\ \A w \in Workers : worker[w].step \notin {"take", "exit"} => worker[w].part \in Parts
  /\ T!TypeOK
  /\ outcome \in {"none", "ok", "failed"} /\ faulted \in BOOLEAN
  /\ raced \subseteq 1..MaxCalls
  /\ calls \in Nat /\ edits \in Nat /\ trouble \in Nat

\* A completed file can be decrypted: its manifest describes, part by part,
\* the very ciphertext that the storage holds, and no part is missing.  The
\* manifest is put together from what threads uploaded now and what records
\* of earlier processes say (uploadParts, listParts, prepareCompletion).
ManifestMatchesStorage ==
  \A s \in Sessions : files[s] # NoFile =>
    \A p \in 1..PartCount(size) :
      files[s].parts[p] # NoCipher /\ files[s].parts[p] = storage[s][p]

\* A file is what the entry's hash says, as far as it was read while nobody
\* saved it: parts an earlier process uploaded are taken over only for the
\* content they were cut from (sessionMatchesEntry).
WholeFile ==
  \A s \in Sessions : files[s] # NoFile =>
    \A p \in 1..PartCount(size) :
      files[s].parts[p].call \in raced \/ files[s].parts[p].ver = files[s].hash

\* What the resume tables hold is true after every crash: a recorded part of
\* the file's session is in the storage, and there are no parts of other
\* sessions (upsertPart, deleteSessionByUploadSessionId).
ResumeTablesTrue ==
  \A s \in Sessions, p \in Parts : partRows[s][p] # NoCipher =>
    s = session.id /\ partRows[s][p] = storage[s][p]

\* An upload fails only because something failed while it ran: a session that
\* was completed or dropped since the last run costs an attempt and no more.
\* Two exceptions: an empty file is planned as a part without chunks, which
\* the reader rejects every time; and nothing is uploaded by a process whose
\* transport did not start.
FailsOnlyOnTrouble ==
  outcome = "failed" => faulted \/ size = 0 \/ thread = "down"

\* The transport keeps the promise of StoragePuts while it carries parts.
ImplementsStoragePuts == T!Puts!Spec

\* No thread waits for ever: an upload that has begun ends, well or not.
UploadEnds == Running ~> ~Running
=============================================================================
