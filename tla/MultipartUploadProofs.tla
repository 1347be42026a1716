------------------------ MODULE MultipartUploadProofs ------------------------
(***************************************************************************)
(* What is proved of the upload of a file.  First the transport under it:  *)
(* whatever UploadService, its threads, the user, crashes and shutdowns    *)
(* do, the transport's variables change only by the transport's own steps, *)
(* and so the threads see an implementation of StoragePuts.  Then the      *)
(* upload itself: an inductive invariant IInv in parts, a lemma for each   *)
(* part, and from it that manifests, files, resume tables and failures are *)
(* what they should be.                                                    *)
(***************************************************************************)
EXTENDS MultipartUpload, TLAPS

\* What the upload does to the transport is a step of the transport or none.
LEMMA UploadStepIsTransportStep == [Next]_vars => [T!Next]_tvars
<1> SUFFICES ASSUME [Next]_vars PROVE [T!Next]_tvars
    OBVIOUS
<1>1. CASE Edit \/ Scan \/ Boot \/ Begin \/ \E s \in Sessions : Expire(s)
      BY <1>1 DEF Edit, Scan, Boot, Begin, Expire
<1>2. CASE Crash \/ Exit
      BY <1>2 DEF Crash, Exit, T!Next
<1>3. CASE Shutdown \/ NotifyStop
      BY <1>3 DEF Shutdown, NotifyStop, T!Next
<1>4. CASE Service
      BY <1>4 DEF Service, LookupSession, DeleteParts, DeleteSession, StartUpload,
                  ReplaceSession, JoinWorkers, CompleteUpload
<1>5. ASSUME NEW w \in Workers, Worker(w) \/ Land(w) PROVE [T!Next]_tvars
      <2>1. CASE PutPart(w)
            BY <2>1 DEF PutPart, T!Next
      <2>2. CASE NotifyTransport(w)
            BY <2>2 DEF NotifyTransport, T!Next
      <2>3. CASE PutAnswered(w)
            BY <2>3 DEF PutAnswered, T!Next
      <2>4. CASE TakePart(w) \/ ReadPart(w) \/ StoreResult(w) \/ Land(w)
            BY <2>4 DEF TakePart, ReadPart, StoreResult, Land
      <2> QED BY <1>5, <2>1, <2>2, <2>3, <2>4 DEF Worker
<1>6. CASE TransportStep
      BY <1>6 DEF TransportStep, Transfer, T!Next
<1>7. CASE UNCHANGED vars
      BY <1>7 DEF vars
<1> QED BY <1>1, <1>2, <1>3, <1>4, <1>5, <1>6, <1>7 DEF Next

LEMMA TransportTypeOK == T!TypeOK /\ [T!Next]_tvars => T!TypeOK'
<1> SUFFICES ASSUME T!TypeOK, [T!Next]_tvars PROVE T!TypeOK'
    OBVIOUS
<1> USE DEF T!TypeOK, T!Request
<1>1. ASSUME NEW w \in Workers, T!Push(w) \/ T!Take(w) PROVE T!TypeOK'
      BY <1>1 DEF T!Push, T!Take
<1>2. ASSUME NEW w \in Workers \cup {0}, T!Notify(w) PROVE T!TypeOK'
      BY <1>2 DEF T!Notify
<1>3. CASE T!Stop \/ T!InitMulti \/ T!Wait \/ T!Die
      BY <1>3 DEF T!Stop, T!InitMulti, T!Wait, T!Die
<1>4. CASE T!InitFails
      BY <1>4 DEF T!InitFails, T!Fail, T!Pending
<1>5. ASSUME NEW bad \in SUBSET T!Pending, T!AddPending(bad) PROVE T!TypeOK'
      BY <1>5 DEF T!AddPending, T!Pending
<1>6. ASSUME NEW done \in SUBSET T!Active, NEW ok \in SUBSET done, T!Perform(done, ok)
      PROVE T!TypeOK'
      BY <1>6 DEF T!Perform, T!AfterRound, T!Active
<1>7. CASE UNCHANGED tvars BY <1>7 DEF tvars
<1> QED BY <1>1, <1>2, <1>3, <1>4, <1>5, <1>6, <1>7 DEF T!Next

LEMMA TransportStepRefines == T!TypeOK /\ [T!Next]_tvars => [T!Puts!Next]_(T!putState)
<1> SUFFICES ASSUME T!TypeOK, [T!Next]_tvars PROVE [T!Puts!Next]_(T!putState)
    OBVIOUS
<1> USE DEF T!TypeOK, T!Request, T!putState
<1>1. ASSUME NEW w \in Workers, T!Push(w) PROVE T!Puts!Submit(w)
      BY <1>1 DEF T!Push, T!Puts!Submit
<1>2. ASSUME NEW w \in Workers, T!Take(w) PROVE T!Puts!Take(w)
      BY <1>2 DEF T!Take, T!Puts!Take
<1>3. ASSUME NEW w \in Workers \cup {0}, T!Notify(w) PROVE UNCHANGED T!putState
      BY <1>3 DEF T!Notify
<1>4. CASE T!Stop \/ T!InitMulti \/ T!Wait
      BY <1>4 DEF T!Stop, T!InitMulti, T!Wait
<1>5. ASSUME T!InitFails PROVE T!Puts!Answer
      BY <1>5 DEF T!InitFails, T!Fail, T!Pending, T!Puts!Answer
<1>6. ASSUME T!Die PROVE T!Puts!Die
      BY <1>6 DEF T!Die, T!Puts!Die
<1>7. ASSUME NEW bad \in SUBSET T!Pending, T!AddPending(bad) PROVE T!Puts!Answer
      BY <1>7 DEF T!AddPending, T!Pending, T!Puts!Answer
<1>8. ASSUME NEW done \in SUBSET T!Active, NEW ok \in SUBSET done, T!Perform(done, ok)
      PROVE T!Puts!Answer
      BY <1>8 DEF T!Perform, T!Active, T!Puts!Answer
<1>9. CASE UNCHANGED tvars BY <1>9 DEF tvars
<1> QED BY <1>1, <1>2, <1>3, <1>4, <1>5, <1>6, <1>7, <1>8, <1>9 DEF T!Next, T!Puts!Next

\* The threads of an upload see StoragePuts: each part handed over is answered
\* once, and its thread gets on only with the answer, for every number of
\* threads, parts, uploads and crashes (StoragePutTransport::put).
THEOREM UploadImplementsStoragePuts == Spec => ImplementsStoragePuts
<1>1. Init => T!TypeOK /\ T!Puts!Init
      BY DEF Init, T!Init, T!TypeOK, T!Request, T!Puts!Init, T!putState
<1>2. T!TypeOK /\ [Next]_vars => T!TypeOK' /\ [T!Puts!Next]_(T!putState)
      BY UploadStepIsTransportStep, TransportTypeOK, TransportStepRefines
<1> QED BY <1>1, <1>2, PTL DEF Spec, ImplementsStoragePuts, T!Puts!Spec
-----------------------------------------------------------------------------
(***************************************************************************)
(* The inductive invariant of the upload, in parts.                        *)
(***************************************************************************)

Busy(w) == worker[w].step \in {"read", "put", "wait", "record"}
Holds(w) == worker[w].step \in {"put", "wait", "record"}
Uploading == pc \in {"parts", "complete"}

\* Where the service is, and what it knows of the session there.
Control ==
  /\ calls <= MaxCalls
  /\ Running => proc = "up" /\ calls \in Sessions /\ hash \in Contents
  /\ ~Running => goal = "none" /\ attempt = 0 /\ ~used
  /\ goal # "none" <=> pc \in {"deleteParts", "deleteSession"}
  /\ goal # "none" => session # NoSession
  /\ goal = "lookup" => attempt = 1
  /\ pc \in {"save", "parts", "complete"} => cur \in Sessions
  /\ Uploading => session = [id |-> cur, hash |-> hash]
  /\ pc \in {"start", "save"} => session = NoSession /\ ~used
  /\ pc = "lookup" => ~used /\ (attempt = 1 => session = NoSession)
  /\ goal = "start" => ~used
  /\ Uploading /\ used => attempt = 0

\* The threads: each busy one has a part of its own that is not uploaded yet,
\* and waits for the transport exactly while the transport has its request.
Pool ==
  /\ pc # "parts" => \A w \in Workers : worker[w].step = "exit"
  /\ \A w \in Workers : worker[w].step = "wait" <=> req[w] # "none"
  /\ next # 0
  /\ stop <=> error # "none"
  /\ \A w \in Workers : Busy(w) =>
       /\ worker[w].part \in 1..PartCount(size) /\ worker[w].part < next
       /\ results[worker[w].part] = NoCipher
  /\ \A w, v \in Workers : Busy(w) /\ Busy(v) /\ worker[w].part = worker[v].part => w = v
  /\ \A w \in Workers : Holds(w) => worker[w].cipher \in Cipher

\* A session is started once, by the call whose number it has, and a call
\* that resumes one has not started its own.
OneSessionPerCall ==
  /\ \A s \in Sessions : server[s] # "none" => s <= calls
  /\ session # NoSession => server[session.id] # "none"
  /\ pc = "save" => server[cur] # "none"
  /\ Running /\ (used \/ pc \in {"lookup", "start"} \/ goal \in {"start", "lookup"})
       => server[calls] = "none"
  /\ \A s \in Sessions : files[s] # NoFile => server[s] = "completed"

\* What is taken for uploaded, in memory or in the tables, is in the storage.
Stored ==
  /\ Uploading => \A p \in Parts :
       /\ results[p] # NoCipher => results[p] = storage[cur][p]
       /\ partRows[cur][p] # NoCipher => results[p] = partRows[cur][p]
  /\ \A w \in Workers : worker[w].step = "record" \/ req[w] = "ok" => Landed(w)
  /\ pc = "deleteSession" => partRows[session.id] = NoParts

\* No part is passed over as long as no thread has failed.
AllParts ==
  /\ pc = "parts" /\ ~stop => \A p \in 1..PartCount(size) : p < next =>
       results[p] # NoCipher \/ \E w \in Workers : Busy(w) /\ worker[w].part = p
  /\ pc = "parts" /\ ~stop => \A w \in Workers :
       w <= PartCount(size) /\ worker[w].step = "exit" => next > PartCount(size)
  /\ pc = "complete" => \A p \in 1..PartCount(size) : results[p] # NoCipher

\* A ciphertext is of the content with the hash, or of a call in which the
\* user saved the file.
Honest(c, h) == c.call \in raced \/ c.ver = h

HonestParts ==
  /\ scanned => row = disk
  /\ Running => disk = hash \/ calls \in raced
  /\ session # NoSession => \A p \in Parts :
       partRows[session.id][p] # NoCipher => Honest(partRows[session.id][p], session.hash)
  /\ Uploading => \A p \in Parts : results[p] # NoCipher => Honest(results[p], hash)
  /\ \A w \in Workers : Holds(w) => Honest(worker[w].cipher, hash)

\* Every error has its reason, and a resumed session that is gone is one.
Reasons ==
  /\ proc = "up" /\ stopping => thread = "down"
  /\ proc = "down" => ~stopping
  /\ pc \in {"save", "parts", "complete"} /\ server[cur] # "open" => used \/ faulted
  /\ pc = "parts" /\ error = "gone" => used \/ faulted
  /\ pc = "parts" /\ error = "fault" => faulted \/ size = 0 \/ thread = "down"
  /\ \A w \in Workers : req[w] = "failed" =>
       faulted \/ thread = "down" \/ server[cur] # "open"

IInv ==
  /\ TypeOK /\ Control /\ Pool /\ OneSessionPerCall
  /\ Stored /\ ResumeTablesTrue /\ AllParts /\ ManifestMatchesStorage
  /\ HonestParts /\ WholeFile
  /\ Reasons /\ FailsOnlyOnTrouble

-----------------------------------------------------------------------------
(***************************************************************************)
(* Ciphertexts, plans and threads.                                         *)
(***************************************************************************)

LEMMA CipherTypes ==
  /\ NoCipher \in CipherOrNone /\ NoCipher \notin Cipher
  /\ Cipher \subseteq CipherOrNone /\ NoParts \in PartTable
  /\ \A p \in Parts : NoParts[p] = NoCipher
  /\ \A c \in CipherOrNone : c # NoCipher => c \in Cipher
BY ContentsAssumption DEF NoCipher, Cipher, CipherOrNone, NoParts, PartTable

LEMMA WorkerTypes ==
  /\ Ended \in WorkerState /\ Ended.step = "exit" /\ Ended.part = 0 /\ Ended.cipher = NoCipher
  /\ Ready \in WorkerState /\ Ready.step = "take" /\ Ready.part = 0 /\ Ready.cipher = NoCipher
BY CipherTypes DEF Ended, Ready, WorkerState

LEMMA SessionTypes ==
  /\ NoSession.id = 0 /\ NoSession \notin SessionRow
  /\ \A s \in SessionRow : s.id \in Sessions /\ s.hash \in Contents
BY DEF NoSession, SessionRow, Sessions

LEMMA FileTypes == NoFile \in FileState
BY CipherTypes DEF NoFile, FileState

\* Every part a thread can take is one of the tables', and there is one.
LEMMA PlanTypes ==
  ASSUME NEW n \in Sizes
  PROVE  PartCount(n) \in Nat \ {0} /\ PartCount(n) <= MaxParts
<1>1. DivideUp(n, ChunkSize) \in Nat
      BY SizesAssumption DEF DivideUp
<1>2. TotalChunks(n) \in Nat \ {0}
      BY <1>1 DEF TotalChunks, AtLeastOne
<1>3. UploadPartSize(n) \div ChunkSize \in Nat
      BY SizesAssumption DEF UploadPartSize
<1>4. ChunksPerPart(n) \in Nat \ {0}
      BY <1>3 DEF ChunksPerPart, AtLeastOne
<1>5. DivideUp(TotalChunks(n), ChunksPerPart(n)) \in Nat
      BY <1>2, <1>4 DEF DivideUp
<1> QED BY <1>5, MaxPartsAssumption DEF PartCount, AtLeastOne

LEMMA PartsOfPlan ==
  ASSUME NEW n \in Sizes
  PROVE  PartCount(n) \in Nat /\ 1..PartCount(n) \subseteq Parts
BY PlanTypes, SizesAssumption DEF Parts

LEMMA DivideUpBounds ==
  ASSUME NEW a \in Nat, NEW b \in Nat \ {0}
  PROVE  /\ DivideUp(a, b) \in Nat
         /\ \A q \in Nat : DivideUp(a, b) <= q <=> a <= q * b
<1>1. DivideUp(a, b) \in Nat
      BY DEF DivideUp
<1>2. ASSUME NEW q \in Nat, a <= q * b PROVE DivideUp(a, b) <= q
      BY <1>2 DEF DivideUp
<1>3. ASSUME NEW q \in Nat, a > q * b PROVE DivideUp(a, b) > q
      BY <1>3 DEF DivideUp
<1>4. \A q \in Nat : q * b \in Nat
      OBVIOUS
<1> QED BY <1>1, <1>2, <1>3, <1>4

LEMMA DivideUpPositive ==
  ASSUME NEW a \in Nat \ {0}, NEW b \in Nat \ {0}
  PROVE  DivideUp(a, b) \in Nat \ {0}
<1>1. a \in Nat /\ DivideUp(a, b) \in Nat /\ 0 \in Nat /\ 0 * b = 0
      BY DivideUpBounds
<1>2. DivideUp(a, b) <= 0 <=> a <= 0 * b
      BY <1>1, DivideUpBounds
<1> QED BY <1>1, <1>2

\* The chunk reader takes the window of every part of a file that is not
\* empty: the planner's parts and the reader's chunks fit together.
LEMMA PartsReadable ==
  ASSUME NEW n \in Sizes, n # 0, NEW p \in 1..PartCount(n)
  PROVE  ReadablePart(p, n)
<1> DEFINE c == ChunkSize
           t == TotalChunks(n)
           u == UploadPartSize(n)
           m == u \div c
           k == p - 1
<1>1. n \in Nat \ {0} /\ c \in Nat \ {0} /\ PartSize \in Nat \ {0} /\ PartSize % c = 0
      BY SizesAssumption
<1>2. DivideUp(n, c) \in Nat \ {0} /\ t = DivideUp(n, c)
      <2>1. DivideUp(n, c) \in Nat \ {0}
            BY <1>1, DivideUpPositive
      <2> QED BY <2>1 DEF TotalChunks, AtLeastOne
<1>3. u \in Nat \ {0} /\ m \in Nat \ {0} /\ u = m * c
      <2>1. PartSize = (PartSize \div c) * c /\ PartSize \div c \in Nat
            BY <1>1
      <2>2. PartSize \div c # 0
            BY <1>1, <2>1
      <2>3. c = 1 * c /\ c \div c = 1
            BY <1>1
      <2> QED BY <1>1, <2>1, <2>2, <2>3 DEF UploadPartSize
<1>4. ChunksPerPart(n) = m
      BY <1>3 DEF ChunksPerPart, AtLeastOne
<1>5. p \in Nat \ {0} /\ k \in Nat /\ k < p
      BY PlanTypes
<1> HIDE DEF c, t, u, m
<1>6. k * m < t
      <2>1. DivideUp(t, m) \in Nat /\ (DivideUp(t, m) <= k <=> t <= k * m)
            BY <1>2, <1>3, <1>5, DivideUpBounds
      <2>2. PartCount(n) = DivideUp(t, m) \/ (PartCount(n) = 1 /\ DivideUp(t, m) = 0)
            BY <1>4 DEF PartCount, AtLeastOne, t
      <2>3. DivideUp(t, m) # 0
            BY <1>2, <1>3, DivideUpPositive
      <2>4. k * m \in Nat
            BY <1>3, <1>5
      <2> QED BY <1>2, <1>5, <2>1, <2>2, <2>3, <2>4
<1>7. k * u = (k * m) * c /\ k * m \in Nat /\ k * u \in Nat
      BY <1>1, <1>3, <1>5
<1>8. k * u < n
      <2>1. DivideUp(n, c) <= k * m <=> n <= (k * m) * c
            BY <1>1, <1>7, DivideUpBounds
      <2> QED BY <1>1, <1>2, <1>6, <1>7, <2>1
<1>9. PartStart(p, n) = k * u
      BY DEF PartStart, u
<1>10. FirstChunk(p, n) - 1 = k * m
      <2>1. ((k * m) * c) \div c = k * m
            BY <1>1, <1>7
      <2> QED BY <1>7, <1>9, <2>1 DEF FirstChunk, c
<1> DEFINE e == PartEnd(p, n) - PartStart(p, n)
<1>11. e \in Nat \ {0} /\ e <= n - k * u
      BY <1>1, <1>3, <1>7, <1>8, <1>9 DEF PartEnd, Least, u
<1> HIDE DEF e
<1>12. PartChunks(p, n) = DivideUp(e, c)
      BY DEF PartChunks, e, c
<1>13. DivideUp(e, c) \in Nat /\ DivideUp(e, c) # 0
      BY <1>1, <1>11, DivideUpPositive
<1>14. DivideUp(e, c) <= t - k * m
      <2> DEFINE q == t - k * m
      <2>1. q \in Nat
            BY <1>2, <1>6, <1>7
      <2>2. n <= t * c
            BY <1>1, <1>2, DivideUpBounds
      <2>3. q * c = t * c - (k * m) * c
            BY <1>1, <1>2, <1>7
      <2>4. t * c \in Nat
            BY <1>1, <1>2
      <2>5. e <= q * c
            BY <1>1, <1>7, <1>11, <2>2, <2>3, <2>4
      <2> HIDE DEF q
      <2>6. DivideUp(e, c) <= q
            BY <1>1, <1>11, <2>1, <2>5, DivideUpBounds
      <2> QED BY <2>6 DEF q
<1> QED BY <1>2, <1>6, <1>7, <1>10, <1>12, <1>13, <1>14 DEF ReadablePart, t

\* A thread's record after a step; the other threads keep theirs.
Moved(w, step, part, cipher) ==
  /\ worker' \in [Workers -> WorkerState]
  /\ worker'[w].step = step /\ worker'[w].part = part /\ worker'[w].cipher = cipher
  /\ \A v \in Workers \ {w} : worker'[v] = worker[v]

Fails(w, e) ==
  /\ Moved(w, "take", 0, NoCipher)
  /\ stop' = TRUE /\ error' = IF error = "none" THEN e ELSE error

LEMMA FailMoves ==
  ASSUME TypeOK, NEW w \in Workers, NEW e, WorkerFails(w, e)
  PROVE  Fails(w, e)
BY WorkerTypes DEF TypeOK, WorkerFails, Fails, Moved

LEMMA GotoMoves ==
  ASSUME TypeOK, NEW w \in Workers, NEW step \in {"wait", "record"}, Goto(w, step)
  PROVE  Moved(w, step, worker[w].part, worker[w].cipher)
BY DEF TypeOK, Goto, Moved, WorkerState

\* What the steps of a thread do to its record, the counter and the error.
LEMMA TakeMoves ==
  ASSUME TypeOK, Pool, NEW w \in Workers, TakePart(w)
  PROVE  /\ pc = "parts" /\ worker[w].step = "take"
         /\ UNCHANGED <<results, stop, error>>
         /\ \/ stop /\ next' = next /\ Moved(w, "exit", 0, NoCipher)
            \/ /\ ~stop /\ next' = next + 1 /\ next > PartCount(size)
               /\ Moved(w, "exit", 0, NoCipher)
            \/ /\ ~stop /\ next' = next + 1 /\ next \in 1..PartCount(size)
               /\ results[next] # NoCipher /\ Moved(w, "take", 0, NoCipher)
            \/ /\ ~stop /\ next' = next + 1 /\ next \in 1..PartCount(size)
               /\ results[next] = NoCipher /\ Moved(w, "read", next, NoCipher)
<1>1. /\ pc = "parts" /\ worker[w].step = "take" /\ UNCHANGED <<results, stop, error>>
      BY DEF TakePart, At
<1>2. next \in Nat \ {0} /\ worker \in [Workers -> WorkerState] /\ stop \in BOOLEAN
      BY DEF TypeOK, Pool
<1>3. PartCount(size) \in Nat /\ 1..PartCount(size) \subseteq Parts
      BY PlanTypes, SizesAssumption DEF TypeOK, Parts
<1>4. CASE stop
      BY <1>1, <1>2, <1>4, WorkerTypes DEF TakePart, Moved
<1>5. CASE ~stop /\ next > PartCount(size)
      BY <1>1, <1>2, <1>3, <1>5, WorkerTypes DEF TakePart, Moved
<1>6. CASE ~stop /\ ~(next > PartCount(size)) /\ results[next] # NoCipher
      BY <1>1, <1>2, <1>3, <1>6, WorkerTypes DEF TakePart, Moved
<1>7. CASE ~stop /\ ~(next > PartCount(size)) /\ results[next] = NoCipher
      <2>1. next \in 1..PartCount(size) /\ next \in Parts /\ next' = next + 1
            BY <1>2, <1>3, <1>7 DEF TakePart
      <2>2. worker' = [worker EXCEPT ![w] = [Ready EXCEPT !.step = "read", !.part = next]]
            BY <1>7 DEF TakePart
      <2>3. /\ [Ready EXCEPT !.step = "read", !.part = next] \in WorkerState
            /\ [Ready EXCEPT !.step = "read", !.part = next].step = "read"
            /\ [Ready EXCEPT !.step = "read", !.part = next].part = next
            /\ [Ready EXCEPT !.step = "read", !.part = next].cipher = NoCipher
            BY <2>1, CipherTypes DEF WorkerState, Ready, Ended
      <2> QED BY <1>1, <1>2, <1>7, <2>1, <2>2, <2>3 DEF Moved
<1> QED BY <1>4, <1>5, <1>6, <1>7

LEMMA ReadMoves ==
  ASSUME TypeOK, Control, NEW w \in Workers, ReadPart(w)
  PROVE  /\ pc = "parts" /\ worker[w].step = "read"
         /\ UNCHANGED <<results, next>>
         /\ \/ /\ NoFault /\ UNCHANGED <<stop, error>>
               /\ \E c \in Cipher : /\ c = [ver |-> disk, call |-> calls, by |-> w]
                                    /\ Moved(w, "put", worker[w].part, c)
            \/ NoFault /\ server[cur] # "open" /\ Fails(w, "gone")
            \/ Fault /\ Fails(w, "fault")
            \/ NoFault /\ ~ReadablePart(worker[w].part, size) /\ Fails(w, "fault")
<1>1. pc = "parts" /\ worker[w].step = "read" /\ UNCHANGED <<results, next>>
      BY DEF ReadPart, At
<1>2. CASE ~ReadablePart(worker[w].part, size)
      BY <1>1, <1>2, FailMoves DEF ReadPart
<1>3. CASE ReadablePart(worker[w].part, size)
      <2>1. CASE server[cur] # "open" /\ NoFault /\ WorkerFails(w, "gone")
            BY <1>1, <2>1, FailMoves
      <2>2. CASE server[cur] = "open" /\ Fault /\ WorkerFails(w, "fault")
            BY <1>1, <2>2, FailMoves
      <2>3. CASE /\ NoFault /\ UNCHANGED <<stop, error>>
                 /\ worker' = [worker EXCEPT ![w].step = "put",
                       ![w].cipher = [ver |-> disk, call |-> calls, by |-> w]]
            <3> DEFINE c == [ver |-> disk, call |-> calls, by |-> w]
            <3>1. calls \in 1..MaxCalls
                  BY <1>1 DEF Control, Running, Sessions
            <3>2. c \in Cipher
                  BY <3>1 DEF TypeOK, Cipher
            <3> HIDE DEF c
            <3> DEFINE r == [worker[w] EXCEPT !.step = "put", !.cipher = c]
            <3>3. worker \in [Workers -> WorkerState] /\ worker' = [worker EXCEPT ![w] = r]
                  BY <2>3 DEF TypeOK, c
            <3>4. r \in WorkerState /\ r.step = "put" /\ r.part = worker[w].part /\ r.cipher = c
                  BY <3>2, <3>3, CipherTypes DEF WorkerState
            <3>5. Moved(w, "put", worker[w].part, c)
                  BY <3>3, <3>4 DEF Moved
            <3> QED BY <1>1, <2>3, <3>2, <3>5 DEF c
      <2> QED BY <1>3, <2>1, <2>2, <2>3 DEF ReadPart, Answers
<1> QED BY <1>2, <1>3

LEMMA PutMoves ==
  ASSUME TypeOK, NEW w \in Workers, PutPart(w)
  PROVE  /\ pc = "parts" /\ worker[w].step = "put"
         /\ UNCHANGED <<results, next>>
         /\ \/ /\ UNCHANGED <<stop, error>> /\ T!Push(w)
               /\ Moved(w, "wait", worker[w].part, worker[w].cipher)
            \/ stopping /\ UNCHANGED tvars /\ Fails(w, "fault")
BY FailMoves, GotoMoves DEF PutPart, At

LEMMA AnswerMoves ==
  ASSUME TypeOK, NEW w \in Workers, PutAnswered(w)
  PROVE  /\ pc = "parts" /\ worker[w].step = "wait"
         /\ UNCHANGED <<results, next>> /\ T!Take(w)
         /\ \/ /\ req[w] = "ok" /\ NoFault /\ UNCHANGED <<stop, error>>
               /\ Moved(w, "record", worker[w].part, worker[w].cipher)
            \/ NoFault /\ server[cur] # "open" /\ Fails(w, "gone")
            \/ Fault /\ Fails(w, "fault")
            \/ NoFault /\ server[cur] = "open" /\ req[w] = "failed" /\ Fails(w, "fault")
<1>1. /\ pc = "parts" /\ worker[w].step = "wait"
      /\ UNCHANGED <<results, next>> /\ T!Take(w)
      BY DEF PutAnswered, At
<1>2. CASE req[w] = "failed" /\ NoFault /\ server[cur] = "open" /\ WorkerFails(w, "fault")
      BY <1>1, <1>2, FailMoves
<1>3. CASE NoFault /\ server[cur] # "open" /\ WorkerFails(w, "gone")
      BY <1>1, <1>3, FailMoves
<1>4. CASE Fault /\ WorkerFails(w, "fault")
      BY <1>1, <1>4, FailMoves
<1>5. CASE req[w] = "ok" /\ NoFault /\ Goto(w, "record") /\ UNCHANGED <<stop, error>>
      BY <1>1, <1>5, GotoMoves
<1> QED BY <1>2, <1>3, <1>4, <1>5 DEF PutAnswered, Answers

LEMMA StoreMoves ==
  ASSUME TypeOK, NEW w \in Workers, StoreResult(w)
  PROVE  /\ pc = "parts" /\ worker[w].step = "record"
         /\ Moved(w, "take", 0, NoCipher) /\ UNCHANGED <<stop, error, next>>
         /\ results' \in PartTable
         /\ worker[w].part \in Parts /\ worker[w].cipher \in CipherOrNone
         /\ results'[worker[w].part] = worker[w].cipher
         /\ \A p \in Parts \ {worker[w].part} : results'[p] = results[p]
<1>1. worker \in [Workers -> WorkerState] /\ results \in PartTable
      BY DEF TypeOK
<1>2. /\ pc = "parts" /\ worker[w].step = "record" /\ UNCHANGED <<stop, error, next>>
      BY DEF StoreResult, At
<1>3. Moved(w, "take", 0, NoCipher)
      BY <1>1, WorkerTypes DEF StoreResult, Moved
<1>4. worker[w].part \in Parts /\ worker[w].cipher \in CipherOrNone
      BY <1>1, <1>2 DEF TypeOK, WorkerState
<1> QED BY <1>1, <1>2, <1>3, <1>4 DEF StoreResult, PartTable

\* What the transport's own steps do to the threads' requests.
LEMMA TransportMoves ==
  ASSUME T!TypeOK, TransportStep
  PROVE  /\ proc # "down"
         /\ \A w \in Workers : req[w] # "none" <=> req'[w] # "none"
         /\ \A w \in Workers : req'[w] = "ok" => req[w] = "ok" \/ Landed(w)
         /\ \A w \in Workers : req'[w] = "failed" =>
              req[w] = "failed" \/ faulted' \/ server[cur] # "open"
         /\ faulted => faulted'
         /\ stopping' => stopping \/ thread' = "down"
         /\ stopping => stopping'
         /\ thread = "down" => thread' = "down"
         /\ NoFault \/ Fault
<1> USE DEF T!TypeOK, T!Request
<1>1. CASE (T!InitMulti \/ T!Wait) /\ NoFault
      BY <1>1 DEF T!InitMulti, T!Wait, NoFault, TransportStep
<1>2. CASE T!InitFails /\ Fault
      BY <1>2 DEF T!InitFails, T!Fail, T!Pending, Fault, TransportStep
<1>3. ASSUME NEW bad \in SUBSET T!Pending, T!AddPending(bad), Faulty(bad)
      PROVE  \A w \in Workers : /\ req[w] # "none" <=> req'[w] # "none"
                                /\ req'[w] = "ok" => req[w] = "ok"
                                /\ req'[w] = "failed" => req[w] = "failed" \/ faulted'
      BY <1>3 DEF T!AddPending, T!Pending, Faulty
<1>4. ASSUME NEW bad \in SUBSET T!Pending, T!AddPending(bad), Faulty(bad)
      PROVE  /\ faulted => faulted'
             /\ stopping' = stopping /\ thread # "down"
             /\ NoFault \/ Fault
      BY <1>4 DEF T!AddPending, Faulty, Fault, NoFault
<1>5. ASSUME NEW done \in SUBSET T!Active, NEW ok \in SUBSET done, Transfer(done, ok)
      PROVE  \A w \in Workers : /\ req[w] # "none" <=> req'[w] # "none"
                                /\ req'[w] = "ok" => req[w] = "ok" \/ Landed(w)
                                /\ req'[w] = "failed" => req[w] = "failed" \/ faulted'
                                     \/ server[cur] # "open"
      <2>1. ASSUME NEW w \in Workers, w \in done \ ok, server[cur] = "open"
            PROVE  faulted'
            BY <1>5, <2>1 DEF Transfer, Faulty
      <2> QED BY <1>5, <2>1 DEF Transfer, T!Perform, T!Active
<1>6. ASSUME NEW done \in SUBSET T!Active, NEW ok \in SUBSET done, Transfer(done, ok)
      PROVE  /\ faulted => faulted'
             /\ stopping' = stopping /\ thread # "down"
             /\ NoFault \/ Fault
      BY <1>6 DEF Transfer, T!Perform, Faulty, Fault, NoFault
<1> QED BY <1>1, <1>2, <1>3, <1>4, <1>5, <1>6 DEF TransportStep

-----------------------------------------------------------------------------
LEMMA InitIInv == Init => IInv
<1> SUFFICES ASSUME Init PROVE IInv
    OBVIOUS
<1>1. TypeOK
      <2>1. T!TypeOK
            BY DEF Init, T!Init, T!TypeOK, T!Request
      <2> QED BY <2>1, CipherTypes, WorkerTypes, FileTypes, ContentsAssumption
             DEF Init, TypeOK
<1>2. Control
      BY BoundsAssumption DEF Init, Control, Running, Uploading
<1>3. Pool
      BY WorkerTypes DEF Init, T!Init, Pool, Busy, Holds
<1>4. OneSessionPerCall
      BY DEF Init, OneSessionPerCall, Running
<1>5. Stored /\ ResumeTablesTrue
      BY CipherTypes, WorkerTypes DEF Init, T!Init, Stored, ResumeTablesTrue, Uploading
<1>6. AllParts /\ ManifestMatchesStorage /\ WholeFile
      BY DEF Init, AllParts, ManifestMatchesStorage, WholeFile
<1>7. HonestParts
      BY WorkerTypes DEF Init, HonestParts, Running, Uploading, Holds
<1>8. Reasons /\ FailsOnlyOnTrouble
      BY DEF Init, T!Init, Reasons, FailsOnlyOnTrouble, Uploading
<1> QED BY <1>1, <1>2, <1>3, <1>4, <1>5, <1>6, <1>7, <1>8 DEF IInv


\* The types of the file, the tables and the server, the call, the threads
\* and the histories.
TypeFile ==
  disk \in Contents /\ row \in Contents /\ scanned \in BOOLEAN /\ size \in Sizes

TypeStores ==
  /\ session \in SessionRow \cup {NoSession}
  /\ partRows \in [Sessions -> PartTable] /\ storage \in [Sessions -> PartTable]
  /\ server \in [Sessions -> {"none", "open", "expired", "completed"}]
  /\ files \in [Sessions -> FileState]

TypeCall ==
  /\ pc \in {"idle", "lookup", "deleteParts", "deleteSession", "start", "save",
             "parts", "complete"}
  /\ goal \in {"none", "start", "lookup", "done"} /\ attempt \in {0, 1}
  /\ used \in BOOLEAN /\ cur \in Sessions \cup {0} /\ hash \in Contents \cup {0}
  /\ outcome \in {"none", "ok", "failed"} /\ synced \in Contents \cup {0}

TypePool ==
  /\ results \in PartTable /\ next \in Nat /\ stop \in BOOLEAN
  /\ error \in {"none", "fault", "gone"}
  /\ worker \in [Workers -> WorkerState]
  /\ \A w \in Workers : worker[w].step \notin {"take", "exit"} => worker[w].part \in Parts

TypeHist ==
  /\ raced \subseteq 1..MaxCalls /\ faulted \in BOOLEAN
  /\ proc \in {"up", "ending", "down"}

TypeCounts == calls \in Nat /\ trouble \in Nat /\ edits \in Nat

LEMMA TypeParts ==
  TypeOK <=> TypeFile /\ TypeStores /\ TypeCall /\ TypePool /\ TypeHist
              /\ TypeCounts /\ T!TypeOK
BY DEF TypeOK, TypeFile, TypeStores, TypeCall, TypePool, TypeHist, TypeCounts

LEMMA TypeFrames ==
  /\ TypeFile /\ UNCHANGED <<fileVars, size>> => TypeFile'
  /\ TypeStores /\ UNCHANGED <<resumeVars, serverVars>> => TypeStores'
  /\ TypeCall /\ UNCHANGED callVars => TypeCall'
  /\ TypePool /\ UNCHANGED poolVars => TypePool'
  /\ TypeHist /\ UNCHANGED <<raced, faulted, proc>> => TypeHist'
  /\ TypeHist /\ UNCHANGED <<histVars, proc>> => TypeHist'
  /\ TypeCounts /\ UNCHANGED <<calls, trouble, edits>> => TypeCounts'
  /\ TypeCounts /\ UNCHANGED <<fileVars, histVars>> => TypeCounts'
BY DEF TypeFile, TypeStores, TypeCall, TypePool, TypeHist, TypeCounts, fileVars, resumeVars,
       serverVars, callVars, poolVars, histVars

LEMMA ForgottenTypes == ForgetCall => TypePool'
<1> SUFFICES ASSUME ForgetCall PROVE TypePool'
    OBVIOUS
<1>1. stop' \in BOOLEAN
      BY DEF ForgetCall
<1>2. next' \in Nat /\ results' \in PartTable /\ error' = "none"
      BY CipherTypes DEF ForgetCall
<1>3. /\ worker' \in [Workers -> WorkerState]
      /\ \A w \in Workers : worker'[w].step = "exit"
      BY WorkerTypes DEF ForgetCall
<1> QED BY <1>1, <1>2, <1>3 DEF TypePool

LEMMA ForgottenCall ==
  ASSUME TypeCall, ForgetCall, outcome' \in {"none", "ok", "failed"},
         synced' \in Contents \cup {0}
  PROVE  TypeCall'
BY DEF ForgetCall, TypeCall

LEMMA OnErrorTypes ==
  ASSUME TypeCall, TypePool, NEW e, OnError(e), UNCHANGED synced
  PROVE  TypeCall' /\ TypePool'
<1>1. CASE ForgetCall /\ outcome' = "failed"
      BY <1>1, ForgottenTypes, ForgottenCall DEF TypeCall
<1>2. CASE /\ pc' = "deleteParts" /\ goal' = "lookup" /\ attempt' = 1
           /\ UNCHANGED <<used, cur, hash, outcome, poolVars>>
      <2>1. TypeCall'
            BY <1>2 DEF TypeCall
      <2> QED BY <1>2, <2>1, TypeFrames
<1> QED BY <1>1, <1>2 DEF OnError

LEMMA FaultTypes ==
  ASSUME TypeHist, TypeCounts, NoFault \/ Fault, UNCHANGED <<calls, edits, raced, proc>>
  PROVE  TypeHist' /\ TypeCounts'
<1>1. TypeHist'
      BY DEF TypeHist, NoFault, Fault
<1>2. TypeCounts'
      BY DEF TypeCounts, NoFault, Fault
<1> QED BY <1>1, <1>2

LEMMA NewWorkers ==
  ASSUME NEW parts \in PartTable, StartWorkers(parts)
  PROVE  TypePool'
BY WorkerTypes DEF StartWorkers, TypePool

LEMMA NextTypeOK == TypeOK /\ Control /\ Pool /\ [Next]_vars => TypeOK'
<1> SUFFICES ASSUME TypeOK, Control, Pool, [Next]_vars PROVE TypeOK'
    OBVIOUS
<1>0. T!TypeOK'
      BY UploadStepIsTransportStep, TransportTypeOK, TypeParts
<1> SUFFICES /\ TypeFile' /\ TypeStores' /\ TypeCall' /\ TypePool' /\ TypeHist'
             /\ TypeCounts'
    BY <1>0 DEF TypeOK, TypeFile, TypeStores, TypeCall, TypePool, TypeHist, TypeCounts
<1> USE TypeParts, TypeFrames
<1>1. CASE Edit
      <2>1. TypeFile'
            BY <1>1 DEF Edit, TypeFile
      <2>2. TypeHist'
            BY <1>1 DEF Edit, TypeHist, Control, Sessions
      <2>3. TypeCounts'
            BY <1>1 DEF Edit, TypeCounts
      <2> QED BY <1>1, <2>1, <2>2, <2>3 DEF Edit
<1>2. CASE Scan \/ Boot
      <2>1. TypeFile'
            BY <1>2 DEF Scan, Boot, TypeFile
      <2>2. TypeHist'
            BY <1>2 DEF Scan, Boot, TypeHist, histVars
      <2>3. TypeCounts'
            BY <1>2 DEF Scan, Boot, TypeCounts, histVars
      <2> QED BY <1>2, <2>1, <2>2, <2>3 DEF Scan, Boot
<1>3. ASSUME NEW s \in Sessions, Expire(s)
      PROVE  /\ TypeFile' /\ TypeStores' /\ TypeCall' /\ TypePool' /\ TypeHist'
             /\ TypeCounts'
      <2>1. TypeStores'
            BY <1>3 DEF Expire, TypeStores, resumeVars
      <2>2. TypeHist'
            BY <1>3 DEF Expire, TypeHist
      <2>3. TypeCounts'
            BY <1>3 DEF Expire, TypeCounts, fileVars
      <2> QED BY <1>3, <2>1, <2>2, <2>3 DEF Expire
<1>4. CASE Crash \/ Exit
      <2>1. ForgetCall /\ outcome' = "none" /\ UNCHANGED synced
            BY <1>4 DEF Crash, Exit
      <2>2. TypeCall' /\ TypePool'
            BY <2>1, ForgottenTypes, ForgottenCall DEF TypeCall
      <2>3. TypeHist'
            BY <1>4 DEF Crash, Exit, TypeHist
      <2>4. TypeCounts'
            BY <1>4 DEF Crash, Exit, TypeCounts, fileVars
      <2> QED BY <1>4, <2>2, <2>3, <2>4 DEF Crash, Exit
<1>5. CASE Shutdown \/ NotifyStop
      <2>1. TypeHist'
            BY <1>5 DEF Shutdown, NotifyStop, TypeHist, histVars
      <2> QED BY <1>5, <2>1 DEF Shutdown, NotifyStop
<1>6. CASE Begin
      <2>1. TypeCall'
            BY <1>6 DEF Begin, TypeCall, TypeFile
      <2>2. TypeHist'
            BY <1>6 DEF Begin, TypeHist
      <2>3. TypeCounts'
            BY <1>6 DEF Begin, TypeCounts, fileVars
      <2> QED BY <1>6, <2>1, <2>2, <2>3 DEF Begin
<1>7. CASE Service
      <2>1. CASE LookupSession
            <3>1. session # NoSession => session.id \in Sessions /\ partRows[session.id] \in PartTable
                  BY SessionTypes DEF TypeStores
            <3>2. TypeCall'
                  BY <2>1, <3>1 DEF LookupSession, StartWorkers, TypeCall
            <3>3. TypePool'
                  BY <2>1, <3>1, NewWorkers DEF LookupSession
            <3> QED BY <2>1, <3>2, <3>3 DEF LookupSession
      <2>2. CASE DeleteParts
            <3>1. TypeStores'
                  BY <2>2, CipherTypes DEF DeleteParts, TypeStores, serverVars
            <3>2. TypeCall'
                  BY <2>2 DEF DeleteParts, TypeCall
            <3> QED BY <2>2, <3>1, <3>2 DEF DeleteParts
      <2>3. CASE DeleteSession
            <3>1. TypeStores'
                  BY <2>3 DEF DeleteSession, TypeStores, serverVars
            <3>2. CASE goal = "done"
                  BY <2>3, <3>1, <3>2, ForgottenTypes, ForgottenCall DEF DeleteSession, TypeCall
            <3>3. CASE goal # "done"
                  <4>1. TypeCall'
                        BY <2>3, <3>3 DEF DeleteSession, TypeCall, Control
                  <4> QED BY <2>3, <3>1, <3>3, <4>1 DEF DeleteSession
            <3> QED BY <3>2, <3>3
      <2>4. CASE StartUpload
            <3>1. calls \in Sessions
                  BY <2>4 DEF StartUpload, Control, Running
            <3>2. TypeStores'
                  BY <2>4, <3>1 DEF StartUpload, TypeStores, resumeVars
            <3>3. TypeCall' /\ TypePool'
                  <4>1. CASE OnError("fault")
                        BY <2>4, <4>1, OnErrorTypes DEF StartUpload
                  <4>2. CASE /\ cur' = calls /\ pc' = "save"
                             /\ UNCHANGED <<goal, attempt, used, hash, outcome, poolVars>>
                        BY <2>4, <3>1, <4>2 DEF StartUpload, TypeCall
                  <4> QED BY <2>4, <4>1, <4>2 DEF StartUpload
            <3>4. TypeHist' /\ TypeCounts'
                  BY <2>4, FaultTypes DEF StartUpload, fileVars
            <3> QED BY <2>4, <3>2, <3>3, <3>4 DEF StartUpload
      <2>5. CASE ReplaceSession
            <3>1. TypeStores'
                  BY <2>5 DEF ReplaceSession, TypeStores, Control, Running, SessionRow, serverVars
            <3>2. TypeCall'
                  BY <2>5 DEF ReplaceSession, StartWorkers, TypeCall
            <3> QED BY <2>5, <3>1, <3>2, NewWorkers, CipherTypes DEF ReplaceSession
      <2>6. CASE JoinWorkers
            <3>1. CASE OnError(error)
                  BY <2>6, <3>1, OnErrorTypes DEF JoinWorkers
            <3>2. CASE pc' = "complete" /\ UNCHANGED <<goal, attempt, used, cur, hash, outcome, poolVars>>
                  <4>1. TypeCall'
                        BY <2>6, <3>2 DEF JoinWorkers, TypeCall
                  <4> QED BY <2>6, <3>2, <4>1 DEF JoinWorkers
            <3> QED BY <2>6, <3>1, <3>2 DEF JoinWorkers
      <2>7. CASE CompleteUpload
            <3>1. cur \in Sessions /\ hash \in Contents
                  BY <2>7 DEF CompleteUpload, Control, Running
            <3>2. Completed(cur) => /\ server' \in [Sessions -> {"none", "open", "expired", "completed"}]
                                    /\ files' \in [Sessions -> FileState]
                  BY <3>1 DEF Completed, TypeStores, TypePool, FileState
            <3>3. TypeStores'
                  BY <2>7, <3>2 DEF CompleteUpload, TypeStores, resumeVars
            <3>4. TypeCall' /\ TypePool'
                  <4>1. ASSUME NEW e, OnError(e) PROVE TypeCall' /\ TypePool'
                        BY <2>7, <4>1, OnErrorTypes DEF CompleteUpload
                  <4>2. CASE /\ pc' = "deleteParts" /\ goal' = "done"
                             /\ UNCHANGED <<attempt, used, cur, hash, outcome, poolVars>>
                        BY <2>7, <4>2 DEF CompleteUpload, TypeCall
                  <4> QED BY <2>7, <4>1, <4>2 DEF CompleteUpload
            <3>5. TypeHist' /\ TypeCounts'
                  BY <2>7, FaultTypes DEF CompleteUpload, fileVars
            <3> QED BY <2>7, <3>3, <3>4, <3>5 DEF CompleteUpload
      <2> QED BY <1>7, <2>1, <2>2, <2>3, <2>4, <2>5, <2>6, <2>7 DEF Service
<1>8. ASSUME NEW w \in Workers, Worker(w)
      PROVE  /\ TypeFile' /\ TypeStores' /\ TypeCall' /\ TypePool' /\ TypeHist'
             /\ TypeCounts'
      <2>1. TypePool /\ 1..PartCount(size) \subseteq Parts
            BY PartsOfPlan DEF TypeFile
      <2>2. ASSUME NEW e \in {"fault", "gone"}, Fails(w, e), UNCHANGED <<results, next>>
            PROVE  TypePool'
            BY <2>1, <2>2 DEF Fails, Moved, TypePool
      <2>3. ASSUME NEW step, NEW part \in Parts, NEW c, Moved(w, step, part, c),
                   UNCHANGED <<results, next, stop, error>>
            PROVE  TypePool'
            BY <2>1, <2>3 DEF Moved, TypePool
      <2>4. worker[w].step \notin {"take", "exit"} => worker[w].part \in Parts
            BY <2>1 DEF TypePool
      <2>5. CASE TakePart(w)
            <3>1. TypePool'
                  BY <2>1, <2>5, TakeMoves DEF Moved, TypePool
            <3> QED BY <2>5, <3>1 DEF TakePart
      <2>6. CASE ReadPart(w)
            <3>1. TypePool'
                  BY <2>2, <2>3, <2>4, <2>6, ReadMoves
            <3>2. TypeHist' /\ TypeCounts'
                  BY <2>6, ReadMoves, FaultTypes DEF ReadPart, fileVars
            <3> QED BY <2>6, <3>1, <3>2 DEF ReadPart
      <2>7. CASE PutPart(w)
            <3>1. TypePool'
                  BY <2>2, <2>3, <2>4, <2>7, PutMoves
            <3> QED BY <2>7, <3>1 DEF PutPart
      <2>8. CASE NotifyTransport(w)
            BY <2>8 DEF NotifyTransport
      <2>9. CASE PutAnswered(w)
            <3>1. TypePool'
                  BY <2>2, <2>3, <2>4, <2>9, AnswerMoves
            <3>2. TypeHist' /\ TypeCounts'
                  BY <2>9, AnswerMoves, FaultTypes DEF PutAnswered, fileVars
            <3> QED BY <2>9, <3>1, <3>2 DEF PutAnswered
      <2>10. CASE StoreResult(w)
            <3>1. TypePool'
                  BY <2>1, <2>10, StoreMoves DEF Moved, TypePool
            <3>2. partRows' \in [Sessions -> PartTable]
                  BY <2>10, StoreMoves DEF StoreResult, TypeStores, PartTable
            <3>3. TypeStores'
                  BY <2>10, <3>2 DEF StoreResult, TypeStores, serverVars
            <3> QED BY <2>10, <3>1, <3>3 DEF StoreResult
      <2> QED BY <1>8, <2>5, <2>6, <2>7, <2>8, <2>9, <2>10 DEF Worker
<1>9. ASSUME NEW w \in Workers, Land(w)
      PROVE  /\ TypeFile' /\ TypeStores' /\ TypeCall' /\ TypePool' /\ TypeHist'
             /\ TypeCounts'
      <2>1. worker[w].part \in Parts /\ worker[w].cipher \in CipherOrNone
            BY <1>9 DEF Land, Pool, TypePool, WorkerState
      <2>2. storage' \in [Sessions -> PartTable]
            BY <1>9, <2>1 DEF Land, TypeStores, PartTable
      <2>3. TypeStores'
            BY <1>9, <2>2 DEF Land, TypeStores, resumeVars
      <2> QED BY <1>9, <2>3 DEF Land
<1>10. CASE TransportStep
      <2>1. TypeHist' /\ TypeCounts'
            BY <1>10, TransportMoves, FaultTypes DEF TransportStep, fileVars
      <2> QED BY <1>10, <2>1 DEF TransportStep
<1>11. CASE UNCHANGED vars
      BY <1>11 DEF vars
<1> QED BY <1>1, <1>2, <1>3, <1>4, <1>5, <1>6, <1>7, <1>8, <1>9, <1>10, <1>11 DEF Next

-----------------------------------------------------------------------------
(***************************************************************************)
(* Each part of the invariant is kept by every step.                       *)
(***************************************************************************)

\* Steps of the threads, of the storage and of the transport.
Below ==
  \/ \E w \in Workers : Worker(w) \/ Land(w)
  \/ TransportStep \/ NotifyStop

LEMMA BelowFrame ==
  Below => UNCHANGED <<disk, row, scanned, size, session, server, files, proc, callVars,
                       calls, raced>>
BY DEF Below, Worker, TakePart, ReadPart, PutPart, NotifyTransport, PutAnswered,
       StoreResult, Land, TransportStep, NotifyStop, fileVars, resumeVars, serverVars,
       callVars, histVars

LEMMA NextCases ==
  ASSUME [Next]_vars
  PROVE  \/ Edit \/ Scan \/ Crash \/ Shutdown \/ Exit \/ Boot \/ Begin
         \/ \E s \in Sessions : Expire(s)
         \/ LookupSession \/ DeleteParts \/ DeleteSession \/ StartUpload \/ ReplaceSession
         \/ JoinWorkers \/ CompleteUpload
         \/ Below
         \/ UNCHANGED vars
BY DEF Next, Service, Below

LEMMA NextControl == TypeOK /\ Control /\ [Next]_vars => Control'
<1> SUFFICES ASSUME TypeOK, Control, [Next]_vars PROVE Control'
    OBVIOUS
<1> USE DEF Control, Running, Uploading
<1>1. ASSUME UNCHANGED <<callVars, session, proc, calls>> PROVE Control'
      BY <1>1 DEF callVars
<1>2. CASE Edit \/ Scan \/ (\E s \in Sessions : Expire(s)) \/ Below \/ UNCHANGED vars
      BY <1>1, <1>2, BelowFrame DEF Edit, Scan, Expire, vars, histVars, resumeVars
<1>3. ASSUME ForgetCall, UNCHANGED calls PROVE Control'
      BY <1>3 DEF ForgetCall
<1>4. CASE Crash \/ Exit
      BY <1>3, <1>4 DEF Crash, Exit
<1>5. CASE Shutdown \/ Boot
      BY <1>5 DEF Shutdown, Boot, callVars, resumeVars, histVars
<1>6. CASE Begin
      <2>1. calls' \in Sessions /\ calls' <= MaxCalls /\ hash' \in Contents
            BY <1>6, BoundsAssumption DEF Begin, TypeOK, Sessions
      <2> QED BY <1>6, <2>1 DEF Begin, resumeVars
<1>7. CASE LookupSession
      <2>1. /\ session # NoSession => session.id \in Sessions
            /\ session # NoSession /\ sessionMatchesEntry => session = [id |-> session.id, hash |-> hash]
            BY SessionTypes DEF TypeOK, SessionRow, sessionMatchesEntry
      <2>2. attempt \in {0, 1}
            BY DEF TypeOK
      <2>3. CASE session = NoSession
            BY <1>7, <2>3 DEF LookupSession, resumeVars, histVars
      <2>4. CASE session # NoSession /\ sessionMatchesEntry
            BY <1>7, <2>1, <2>2, <2>4 DEF LookupSession, StartWorkers, resumeVars, histVars
      <2>5. CASE session # NoSession /\ ~sessionMatchesEntry
            BY <1>7, <2>5 DEF LookupSession, resumeVars, histVars
      <2> QED BY <2>3, <2>4, <2>5
<1>8. CASE DeleteParts
      BY <1>8 DEF DeleteParts, histVars
<1>9. CASE DeleteSession
      BY <1>3, <1>9 DEF DeleteSession, histVars, TypeOK
<1>10. ASSUME NEW e, OnError(e), UNCHANGED <<session, proc, calls>>, Uploading
      PROVE  Control'
      BY <1>3, <1>10, SessionTypes DEF OnError, SessionRow, NoSession, TypeOK
<1>11. CASE StartUpload
      <2>1. ~used
            BY <1>11 DEF StartUpload
      <2>2. OnError("fault") => ForgetCall
            BY <2>1 DEF OnError
      <2> QED BY <1>3, <1>11, <2>2 DEF StartUpload, resumeVars
<1>12. CASE ReplaceSession
      BY <1>12 DEF ReplaceSession, StartWorkers, histVars
<1>13. CASE JoinWorkers
      BY <1>10, <1>13 DEF JoinWorkers, resumeVars, histVars
<1>14. CASE CompleteUpload
      <2>1. session # NoSession
            BY <1>14, SessionTypes DEF CompleteUpload, NoSession, Sessions
      <2> QED BY <1>10, <1>14, <2>1 DEF CompleteUpload, resumeVars
<1> QED BY <1>2, <1>4, <1>5, <1>6, <1>7, <1>8, <1>9, <1>11, <1>12, <1>13, <1>14, NextCases

\* Threads, their parts and their requests.
LEMMA NextPool == TypeOK /\ Control /\ Pool /\ [Next]_vars => Pool'
<1> SUFFICES ASSUME TypeOK, Control, Pool, [Next]_vars PROVE Pool'
    OBVIOUS
<1>1. ASSUME UNCHANGED <<pc, size, poolVars, req>> PROVE Pool'
      BY <1>1 DEF Pool, Busy, Holds, poolVars
<1>2. ASSUME pc # "parts", pc' # "parts", UNCHANGED <<size, poolVars>>, UNCHANGED req
      PROVE  Pool'
      BY <1>2 DEF Pool, Busy, Holds, poolVars
<1>3. ASSUME ForgetCall, \A w \in Workers : req'[w] = "none" PROVE Pool'
      BY <1>3, WorkerTypes DEF ForgetCall, Pool, Busy, Holds
<1>4. ASSUME \A w \in Workers : worker[w].step = "exit" PROVE \A w \in Workers : req[w] = "none"
      BY <1>4 DEF Pool
<1>5. ASSUME NEW parts, StartWorkers(parts), pc # "parts", UNCHANGED req PROVE Pool'
      BY <1>4, <1>5, WorkerTypes DEF StartWorkers, Pool, Busy, Holds
<1>6. CASE Edit \/ Scan \/ (\E s \in Sessions : Expire(s)) \/ Shutdown \/ Boot \/ UNCHANGED vars
      BY <1>1, <1>6 DEF Edit, Scan, Expire, Shutdown, Boot, T!Stop, vars, callVars, tvars
<1>7. CASE Crash \/ Exit
      BY <1>3, <1>7 DEF Crash, Exit, T!Die
<1>8. CASE Begin
      BY <1>2, <1>8 DEF Begin, Running, tvars
<1>9. CASE LookupSession
      BY <1>2, <1>5, <1>9 DEF LookupSession, tvars
<1>10. CASE DeleteParts
      BY <1>2, <1>10 DEF DeleteParts, tvars
<1>11. ASSUME pc # "parts" PROVE \A w \in Workers : worker[w].step = "exit"
      BY <1>11 DEF Pool
<1>12. ASSUME NEW e, OnError(e), \A w \in Workers : worker[w].step = "exit",
              UNCHANGED <<req, size>>
       PROVE  Pool'
      <2>1. CASE ForgetCall
            BY <1>3, <1>4, <1>12, <2>1
      <2>2. CASE pc' = "deleteParts" /\ UNCHANGED poolVars
            BY <1>12, <2>2 DEF Pool, Busy, Holds, poolVars
      <2> QED BY <1>12, <2>1, <2>2 DEF OnError
<1>13. CASE DeleteSession
      <2>1. CASE ForgetCall
            BY <1>3, <1>4, <1>11, <1>13, <2>1 DEF DeleteSession, tvars
      <2>2. CASE pc' = goal /\ UNCHANGED poolVars
            BY <1>2, <1>13, <2>2 DEF DeleteSession, TypeOK, tvars
      <2> QED BY <1>13, <2>1, <2>2 DEF DeleteSession
<1>14. CASE StartUpload
      BY <1>2, <1>11, <1>12, <1>14 DEF StartUpload, tvars
<1>15. CASE ReplaceSession
      BY <1>5, <1>15 DEF ReplaceSession, tvars
<1>16. CASE JoinWorkers
      <2>1. CASE pc' = "complete" /\ UNCHANGED poolVars
            BY <1>16, <2>1 DEF JoinWorkers, Pool, Busy, Holds, poolVars, tvars
      <2> QED BY <1>12, <1>16, <2>1 DEF JoinWorkers, tvars
<1>17. CASE CompleteUpload
      BY <1>2, <1>11, <1>12, <1>17 DEF CompleteUpload, tvars
<1>18. ASSUME NEW w \in Workers, Worker(w) PROVE Pool'
      <2>1. next \in Nat \ {0} /\ stop \in BOOLEAN /\ worker \in [Workers -> WorkerState]
            /\ PartCount(size) \in Nat /\ req \in [Workers -> T!Request]
            BY PartsOfPlan DEF Pool, TypeOK, T!TypeOK
      <2>2. ASSUME NEW e \in {"fault", "gone"}, Fails(w, e), pc = "parts", req'[w] = "none",
                   \A v \in Workers \ {w} : req'[v] = req[v],
                   UNCHANGED <<pc, size, results, next>>
            PROVE  Pool'
            BY <2>1, <2>2 DEF Fails, Moved, Pool, Busy, Holds
      <2>3. ASSUME NEW step \in {"put", "wait", "record"}, NEW c \in Cipher, Busy(w),
                   Moved(w, step, worker[w].part, c), pc = "parts",
                   step = "wait" <=> req'[w] # "none",
                   \A v \in Workers \ {w} : req'[v] = req[v],
                   UNCHANGED <<pc, size, results, next, stop, error>>
            PROVE  Pool'
            BY <2>1, <2>3 DEF Moved, Pool, Busy, Holds
      <2>4. CASE TakePart(w)
            <3>1. UNCHANGED <<pc, size, req, results, stop, error>> /\ pc = "parts"
                  /\ worker[w].step = "take" /\ req[w] = "none"
                  BY <2>4, TakeMoves DEF TakePart, Pool, callVars, tvars
            <3>2. ASSUME NEW step \in {"take", "exit"}, Moved(w, step, 0, NoCipher),
                         next' \in {next, next + 1}
                  PROVE  Pool'
                  BY <2>1, <3>1, <3>2 DEF Moved, Pool, Busy, Holds
            <3>3. ASSUME Moved(w, "read", next, NoCipher), next' = next + 1,
                         next \in 1..PartCount(size), results[next] = NoCipher
                  PROVE  Pool'
                  BY <2>1, <3>1, <3>3 DEF Moved, Pool, Busy, Holds
            <3> QED BY <2>4, <3>2, <3>3, TakeMoves
      <2>5. CASE ReadPart(w)
            <3>1. UNCHANGED <<pc, size, req>> /\ pc = "parts" /\ Busy(w) /\ req[w] = "none"
                  BY <2>5, ReadMoves DEF ReadPart, Pool, Busy, callVars, tvars
            <3> QED BY <2>2, <2>3, <2>5, <3>1, ReadMoves
      <2>6. CASE PutPart(w)
            <3>1. /\ UNCHANGED <<pc, size>> /\ pc = "parts" /\ Busy(w) /\ req[w] = "none"
                  /\ worker[w].cipher \in Cipher
                  BY <2>6, PutMoves DEF PutPart, Pool, Busy, Holds, callVars
            <3>2. T!Push(w) => req'[w] # "none" /\ \A v \in Workers \ {w} : req'[v] = req[v]
                  BY <2>1 DEF T!Push
            <3> QED BY <2>2, <2>3, <2>6, <3>1, <3>2, PutMoves DEF tvars
      <2>7. CASE NotifyTransport(w)
            BY <1>1, <2>7 DEF NotifyTransport, T!Notify, callVars
      <2>8. CASE PutAnswered(w)
            <3>1. /\ UNCHANGED <<pc, size>> /\ pc = "parts" /\ Busy(w)
                  /\ worker[w].cipher \in Cipher
                  BY <2>8, AnswerMoves DEF PutAnswered, Pool, Busy, Holds, callVars
            <3>2. req'[w] = "none" /\ \A v \in Workers \ {w} : req'[v] = req[v]
                  BY <2>1, <2>8 DEF PutAnswered, T!Take
            <3> QED BY <2>2, <2>3, <2>8, <3>1, <3>2, AnswerMoves
      <2>9. CASE StoreResult(w)
            <3>1. UNCHANGED <<pc, size, req>> /\ pc = "parts" /\ Busy(w) /\ req[w] = "none"
                  BY <2>9, StoreMoves DEF StoreResult, Pool, Busy, callVars, tvars
            <3> QED BY <2>1, <2>9, <3>1, StoreMoves DEF Moved, Pool, Busy, Holds, TypeOK
      <2> QED BY <1>18, <2>4, <2>5, <2>6, <2>7, <2>8, <2>9 DEF Worker
<1>19. ASSUME NEW w \in Workers, Land(w) PROVE Pool'
      BY <1>1, <1>19 DEF Land, callVars, tvars
<1>20. CASE TransportStep
      <2>1. \A w \in Workers : req[w] # "none" <=> req'[w] # "none"
            BY <1>20, TransportMoves DEF TypeOK
      <2>2. UNCHANGED <<pc, size, poolVars>>
            BY <1>20 DEF TransportStep, callVars
      <2> QED BY <2>1, <2>2 DEF Pool, Busy, Holds, poolVars
<1>21. CASE NotifyStop
      BY <1>1, <1>21 DEF NotifyStop, T!Notify, callVars
<1> QED BY <1>6, <1>7, <1>8, <1>9, <1>10, <1>13, <1>14, <1>15, <1>16, <1>17, <1>18, <1>19,
       <1>20, <1>21, NextCases DEF Below

\* Sessions and the calls that start them.
LEMMA NextSessions ==
  TypeOK /\ Control /\ OneSessionPerCall /\ [Next]_vars => OneSessionPerCall'
<1> SUFFICES ASSUME TypeOK, Control, OneSessionPerCall, [Next]_vars
             PROVE  OneSessionPerCall'
    OBVIOUS
<1> USE DEF OneSessionPerCall, Running
<1>1. /\ server \in [Sessions -> {"none", "open", "expired", "completed"}]
      /\ session # NoSession => session.id \in Sessions
      /\ calls \in Nat /\ Sessions \subseteq Nat
      /\ Running => calls \in Sessions
      BY SessionTypes DEF TypeOK, Sessions, Control
<1>2. ASSUME UNCHANGED <<calls, server, session, pc, cur, used, goal, files>>
      PROVE  OneSessionPerCall'
      BY <1>2
<1>3. CASE Edit \/ Scan \/ Shutdown \/ Boot \/ Below \/ UNCHANGED vars
      BY <1>2, <1>3, BelowFrame
         DEF Edit, Scan, Shutdown, Boot, vars, resumeVars, serverVars, callVars, histVars
<1>4. ASSUME NEW s \in Sessions, Expire(s) PROVE OneSessionPerCall'
      BY <1>1, <1>4 DEF Expire, resumeVars, callVars
<1>5. ASSUME ForgetCall, UNCHANGED <<calls, server, session, files>> PROVE OneSessionPerCall'
      BY <1>5 DEF ForgetCall
<1>6. CASE Crash \/ Exit
      BY <1>5, <1>6 DEF Crash, Exit, resumeVars, serverVars
<1>7. CASE Begin
      <2>1. calls' \in Sessions /\ calls' = calls + 1
            BY <1>7, BoundsAssumption DEF Begin, TypeOK, Sessions
      <2>2. server[calls'] = "none"
            BY <1>1, <2>1
      <2> QED BY <1>1, <1>7, <2>1, <2>2 DEF Begin, Control, resumeVars, serverVars
<1>8. CASE LookupSession
      BY <1>8 DEF LookupSession, StartWorkers, Control, resumeVars, serverVars, histVars
<1>9. CASE DeleteParts
      BY <1>9 DEF DeleteParts, serverVars, histVars
<1>10. CASE DeleteSession
      BY <1>10 DEF DeleteSession, ForgetCall, Control, TypeOK, serverVars, histVars
<1>11. CASE StartUpload
      <2>1. calls \in Sessions /\ ~used /\ server[calls] = "none" /\ goal = "none"
            BY <1>11 DEF StartUpload, Control
      <2>2. OnError("fault") => ForgetCall
            BY <2>1 DEF OnError
      <2> QED BY <1>1, <1>11, <2>1, <2>2 DEF StartUpload, ForgetCall, Control, resumeVars
<1>12. CASE ReplaceSession
      BY <1>12 DEF ReplaceSession, StartWorkers, Control, serverVars, histVars
<1>13. CASE JoinWorkers
      BY <1>13 DEF JoinWorkers, OnError, ForgetCall, Control, Uploading, resumeVars,
         serverVars, histVars
<1>14. CASE CompleteUpload
      <2>1. /\ cur \in Sessions /\ calls \in Sessions /\ goal = "none"
            BY <1>14 DEF CompleteUpload, Control
      <2>2. UNCHANGED <<server, files>> \/ (server[cur] = "open" /\ Completed(cur))
            BY <1>14 DEF CompleteUpload
      <2>3. /\ \A s \in Sessions : server'[s] # "none" <=> server[s] # "none"
            /\ \A s \in Sessions : files'[s] # NoFile => server'[s] = "completed"
            BY <1>1, <2>1, <2>2 DEF Completed, TypeOK
      <2>4. \/ ForgetCall
            \/ pc' = "deleteParts" /\ goal' = "done" /\ used' = used
            \/ pc' = "deleteParts" /\ goal' = "lookup" /\ used /\ used' = used
            BY <1>14 DEF CompleteUpload, OnError
      <2>5. UNCHANGED <<calls, session>>
            BY <1>14 DEF CompleteUpload, resumeVars
      <2>6. used => server[calls] = "none"
            BY <1>14 DEF CompleteUpload
      <2>7. /\ \A s \in Sessions : server'[s] # "none" => s <= calls'
            /\ session' # NoSession => server'[session'.id] # "none"
            BY <1>1, <2>3, <2>5
      <2>8. CASE ForgetCall
            BY <2>3, <2>7, <2>8 DEF ForgetCall
      <2>9. CASE pc' = "deleteParts" /\ goal' = "done" /\ used' = used
            BY <2>1, <2>3, <2>5, <2>6, <2>7, <2>9
      <2>10. CASE pc' = "deleteParts" /\ goal' = "lookup" /\ used /\ used' = used
            BY <2>1, <2>3, <2>5, <2>6, <2>7, <2>10
      <2> QED BY <2>4, <2>8, <2>9, <2>10
<1> QED BY <1>3, <1>4, <1>6, <1>7, <1>8, <1>9, <1>10, <1>11, <1>12, <1>13, <1>14, NextCases

\* What memory and the tables say of the storage.
LEMMA NextStored ==
  TypeOK /\ Control /\ Pool /\ Stored /\ ResumeTablesTrue /\ [Next]_vars
    => Stored' /\ ResumeTablesTrue'
<1> SUFFICES ASSUME TypeOK, Control, Pool, Stored, ResumeTablesTrue, [Next]_vars
             PROVE  Stored' /\ ResumeTablesTrue'
    OBVIOUS
<1> USE DEF Uploading, Landed
<1>1. /\ partRows \in [Sessions -> PartTable] /\ storage \in [Sessions -> PartTable]
      /\ results \in PartTable /\ worker \in [Workers -> WorkerState]
      /\ req \in [Workers -> T!Request]
      /\ session # NoSession => session.id \in Sessions
      /\ 0 \notin Sessions
      BY SessionTypes DEF TypeOK, T!TypeOK, Sessions
<1>2. ASSUME UNCHANGED <<resumeVars, storage>> PROVE ResumeTablesTrue'
      BY <1>2 DEF ResumeTablesTrue, resumeVars
<1>3. ASSUME UNCHANGED <<pc, cur, poolVars, req, resumeVars, storage>>
      PROVE  Stored' /\ ResumeTablesTrue'
      BY <1>2, <1>3 DEF Stored, poolVars, resumeVars
<1>4. ASSUME \A w \in Workers : worker'[w].step = "exit",
             \A w \in Workers : req'[w] = "none",
             pc' \notin {"parts", "complete", "deleteSession"}
      PROVE  Stored'
      BY <1>4 DEF Stored
<1>5. ASSUME pc # "parts"
      PROVE  \A w \in Workers : worker[w].step = "exit" /\ req[w] = "none"
      BY <1>5 DEF Pool
<1>6. ASSUME ForgetCall PROVE pc' = "idle" /\ \A w \in Workers : worker'[w].step = "exit"
      BY <1>6, WorkerTypes DEF ForgetCall
<1>7. CASE \/ Edit \/ Scan \/ (\E s \in Sessions : Expire(s)) \/ Shutdown \/ Boot
           \/ UNCHANGED vars
      BY <1>3, <1>7 DEF Edit, Scan, Expire, Shutdown, Boot, T!Stop, vars, callVars, tvars,
         serverVars
<1>8. CASE Crash \/ Exit
      BY <1>2, <1>4, <1>6, <1>8 DEF Crash, Exit, T!Die, serverVars
<1>9. CASE Begin
      BY <1>2, <1>4, <1>5, <1>9 DEF Begin, Running, poolVars, tvars, serverVars
<1>10. CASE LookupSession
      <2>1. UNCHANGED <<resumeVars, storage, req>> /\ pc = "lookup"
            BY <1>10 DEF LookupSession, tvars, serverVars
      <2>2. CASE pc' \in {"start", "deleteParts"} /\ UNCHANGED poolVars
            BY <1>2, <1>4, <1>5, <2>1, <2>2 DEF poolVars
      <2>3. CASE /\ session # NoSession /\ cur' = session.id
                 /\ StartWorkers(partRows[session.id])
            <3>1. \A w \in Workers : worker'[w].step # "record" /\ req'[w] = "none"
                  BY <1>5, <2>1, <2>3, WorkerTypes DEF StartWorkers
            <3>2. /\ session.id \in Sessions /\ pc' = "parts" /\ results' = partRows[session.id]
                  BY <1>1, <2>3 DEF StartWorkers
            <3>3. \A p \in Parts : results'[p] # NoCipher => results'[p] = storage[session.id][p]
                  BY <3>2 DEF ResumeTablesTrue
            <3> QED BY <1>2, <2>1, <2>3, <3>1, <3>2, <3>3 DEF Stored, resumeVars
      <2> QED BY <1>10, <2>2, <2>3 DEF LookupSession
<1>11. CASE DeleteParts
      <2>1. session.id \in Sessions /\ session' = session
            BY <1>1, <1>11 DEF DeleteParts, Control
      <2>2. partRows'[session.id] = NoParts
            BY <1>1, <1>11, <2>1 DEF DeleteParts
      <2>3. ResumeTablesTrue'
            BY <1>1, <1>11, <2>1, CipherTypes DEF DeleteParts, ResumeTablesTrue, serverVars
      <2> QED BY <1>5, <1>11, <2>1, <2>2, <2>3 DEF DeleteParts, Stored, poolVars, tvars
<1>12. CASE DeleteSession
      <2>1. \A s \in Sessions, p \in Parts : partRows[s][p] = NoCipher
            BY <1>1, <1>12, CipherTypes DEF DeleteSession, Stored, ResumeTablesTrue, Control
      <2>2. ResumeTablesTrue'
            BY <1>12, <2>1 DEF DeleteSession, ResumeTablesTrue
      <2>3. CASE ForgetCall
            BY <1>4, <1>5, <1>6, <1>12, <2>2, <2>3 DEF DeleteSession, tvars
      <2>4. CASE pc' = goal /\ UNCHANGED poolVars
            BY <1>4, <1>5, <1>12, <2>2, <2>4 DEF DeleteSession, TypeOK, tvars, poolVars
      <2> QED BY <1>12, <2>3, <2>4 DEF DeleteSession
<1>13. ASSUME NEW e, OnError(e), UNCHANGED <<req, resumeVars, storage>>,
              \A w \in Workers : worker[w].step = "exit" /\ req[w] = "none"
       PROVE  Stored' /\ ResumeTablesTrue'
      <2>1. CASE ForgetCall
            BY <1>2, <1>4, <1>6, <1>13, <2>1
      <2>2. CASE pc' = "deleteParts" /\ UNCHANGED poolVars
            BY <1>2, <1>4, <1>13, <2>2 DEF poolVars
      <2> QED BY <1>13, <2>1, <2>2 DEF OnError
<1>14. CASE StartUpload
      <2>1. CASE pc' = "save" /\ UNCHANGED poolVars
            BY <1>2, <1>4, <1>5, <1>14, <2>1 DEF StartUpload, poolVars, tvars
      <2> QED BY <1>5, <1>13, <1>14, <2>1 DEF StartUpload, tvars
<1>15. CASE ReplaceSession
      <2>1. \A s \in Sessions, p \in Parts : partRows[s][p] = NoCipher
            BY <1>1, <1>15, SessionTypes DEF ReplaceSession, ResumeTablesTrue, Control
      <2>2. ResumeTablesTrue'
            BY <1>15, <2>1 DEF ReplaceSession, ResumeTablesTrue
      <2>3. \A w \in Workers : worker'[w].step # "record" /\ req'[w] = "none"
            BY <1>5, <1>15, WorkerTypes DEF ReplaceSession, StartWorkers, tvars
      <2>4. cur \in Sessions
            BY <1>15 DEF ReplaceSession, Control
      <2> QED BY <1>15, <2>1, <2>2, <2>3, <2>4, CipherTypes
             DEF ReplaceSession, StartWorkers, Stored
<1>16. CASE JoinWorkers
      <2>1. \A w \in Workers : worker[w].step = "exit" /\ req[w] = "none"
            BY <1>16 DEF JoinWorkers, Pool
      <2>2. CASE pc' = "complete" /\ UNCHANGED <<cur, poolVars>>
            BY <1>2, <1>16, <2>1, <2>2 DEF JoinWorkers, Stored, poolVars, resumeVars, tvars,
               serverVars
      <2> QED BY <1>13, <1>16, <2>1, <2>2 DEF JoinWorkers, tvars, serverVars
<1>17. CASE CompleteUpload
      <2>1. CASE pc' = "deleteParts" /\ UNCHANGED poolVars
            BY <1>2, <1>4, <1>5, <1>17, <2>1 DEF CompleteUpload, poolVars, tvars
      <2> QED BY <1>5, <1>13, <1>17, <2>1 DEF CompleteUpload, tvars
<1>18. ASSUME NEW w \in Workers, Worker(w) PROVE Stored' /\ ResumeTablesTrue'
      <2>1. ASSUME UNCHANGED <<pc, cur, results, resumeVars, storage>>, pc = "parts",
                   \A v \in Workers \ {w} : worker'[v] = worker[v] /\ req'[v] = req[v],
                   \/ worker'[w].step # "record" /\ req'[w] # "ok"
                   \/ /\ worker'[w].part = worker[w].part /\ worker'[w].cipher = worker[w].cipher
                      /\ req[w] = "ok"
            PROVE  Stored' /\ ResumeTablesTrue'
            BY <1>2, <2>1 DEF Stored, resumeVars
      <2>2. CASE TakePart(w)
            BY <1>1, <2>1, <2>2, TakeMoves DEF TakePart, Moved, Pool, callVars, serverVars, tvars
      <2>3. CASE ReadPart(w)
            BY <1>1, <2>1, <2>3, ReadMoves DEF ReadPart, Moved, Fails, Pool, callVars,
               serverVars, tvars
      <2>4. CASE PutPart(w)
            <3>1. /\ req'[w] # "ok" /\ \A v \in Workers \ {w} : req'[v] = req[v]
                  BY <1>1, <2>4, PutMoves DEF T!Push, Pool, tvars
            <3> QED BY <2>1, <2>4, <3>1, PutMoves DEF PutPart, Moved, Fails, callVars,
                  serverVars
      <2>5. CASE NotifyTransport(w)
            BY <1>3, <2>5 DEF NotifyTransport, T!Notify, callVars, serverVars
      <2>6. CASE PutAnswered(w)
            <3>1. /\ req'[w] = "none" /\ \A v \in Workers \ {w} : req'[v] = req[v]
                  BY <1>1, <2>6 DEF PutAnswered, T!Take
            <3> QED BY <2>1, <2>6, <3>1, AnswerMoves DEF PutAnswered, Moved, Fails,
                  callVars, serverVars
      <2>7. CASE StoreResult(w)
            <3> DEFINE q == worker[w].part
                       c == worker[w].cipher
            <3>0. /\ pc = "parts" /\ worker[w].step = "record" /\ Busy(w) /\ q \in Parts
                  /\ cur' = cur /\ pc' = pc
                  /\ session' = session /\ storage' = storage /\ req' = req
                  BY <2>7, StoreMoves DEF StoreResult, Busy, callVars, serverVars, tvars
            <3>1. /\ pc = "parts" /\ worker[w].step = "record" /\ Busy(w) /\ q \in Parts
                  /\ cur \in Sessions /\ session.id = cur /\ cur' = cur /\ pc' = pc
                  /\ session' = session /\ storage' = storage /\ req' = req /\ req[w] = "none"
                  BY <3>0 DEF Control, Pool
            <3>2. results[q] = NoCipher /\ partRows[cur][q] = NoCipher
                  BY <3>1 DEF Pool, Stored
            <3>3. storage[cur][q] = c
                  BY <3>1 DEF Stored
            <3>4. /\ \A s \in Sessions, p \in Parts : s # cur \/ p # q => partRows'[s][p] = partRows[s][p]
                  /\ partRows'[cur][q] \in {NoCipher, c}
                  BY <1>1, <2>7, <3>1, <3>2 DEF StoreResult, PartTable
            <3>5. ResumeTablesTrue'
                  BY <3>1, <3>3, <3>4 DEF ResumeTablesTrue
            <3>6. results'[q] = c /\ \A p \in Parts \ {q} : results'[p] = results[p]
                  BY <2>7, StoreMoves
            <3>7. \A v \in Workers : worker'[v].step = "record" \/ req'[v] = "ok" => Landed(v)'
                  BY <2>7, <3>1, StoreMoves DEF Moved, Stored
            <3> HIDE DEF q, c
            <3>8. \A p \in Parts :
                    /\ results'[p] # NoCipher => results'[p] = storage'[cur'][p]
                    /\ partRows'[cur'][p] # NoCipher => results'[p] = partRows'[cur'][p]
                  BY <3>1, <3>3, <3>4, <3>6 DEF Stored
            <3> QED BY <3>1, <3>5, <3>7, <3>8 DEF Stored
      <2> QED BY <1>18, <2>2, <2>3, <2>4, <2>5, <2>6, <2>7 DEF Worker
<1>19. ASSUME NEW w \in Workers, Land(w) PROVE Stored' /\ ResumeTablesTrue'
      <2> DEFINE q == worker[w].part
                 c == worker[w].cipher
      <2>1. /\ worker[w].step = "wait" /\ pc = "parts" /\ Busy(w)
            BY <1>19 DEF Land, Pool, Busy
      <2>2. /\ cur \in Sessions /\ q \in Parts
            /\ UNCHANGED <<pc, cur, poolVars, req, resumeVars>>
            BY <1>19, <2>1 DEF Land, Control, TypeOK, callVars, tvars
      <2>3. results[q] = NoCipher /\ partRows[cur][q] = NoCipher
            BY <2>1, <2>2 DEF Pool, Stored
      <2>4. /\ \A s \in Sessions, p \in Parts : s # cur \/ p # q => storage'[s][p] = storage[s][p]
            /\ storage'[cur][q] = c
            BY <1>1, <1>19, <2>2 DEF Land, PartTable
      <2>5. ResumeTablesTrue'
            BY <2>2, <2>3, <2>4 DEF ResumeTablesTrue, resumeVars
      <2>6. ASSUME NEW v \in Workers, worker[v].step = "record" \/ req[v] = "ok" PROVE Landed(v)'
            <3>1. Landed(v) /\ Busy(v) /\ worker[v].part \in Parts
                  BY <2>6 DEF Stored, Pool, Busy, TypeOK
            <3>2. CASE v = w
                  BY <2>2, <2>4, <3>2 DEF poolVars
            <3>3. CASE v # w
                  <4>1. worker[v].part # q
                        BY <2>1, <3>1, <3>3 DEF Pool
                  <4> QED BY <2>2, <2>4, <3>1, <4>1 DEF poolVars
            <3> QED BY <3>2, <3>3
      <2> HIDE DEF q, c
      <2>7. \A p \in Parts :
              /\ results[p] # NoCipher => results[p] = storage'[cur][p]
              /\ partRows[cur][p] # NoCipher => results[p] = partRows[cur][p]
            BY <2>1, <2>2, <2>3, <2>4 DEF Stored
      <2> QED BY <2>1, <2>2, <2>5, <2>6, <2>7 DEF Stored, poolVars, resumeVars
<1>20. CASE TransportStep
      <2>1. UNCHANGED <<pc, cur, poolVars, resumeVars, storage>>
            BY <1>20 DEF TransportStep, callVars, serverVars
      <2>2. \A w \in Workers : req'[w] = "ok" => Landed(w)
            BY <1>20, TransportMoves DEF TypeOK, Stored
      <2> QED BY <1>2, <2>1, <2>2 DEF Stored, poolVars, resumeVars
<1>21. CASE NotifyStop
      BY <1>3, <1>21 DEF NotifyStop, T!Notify, callVars, serverVars
<1> QED BY <1>7, <1>8, <1>9, <1>10, <1>11, <1>12, <1>14, <1>15, <1>16, <1>17, <1>18, <1>19,
       <1>20, <1>21, NextCases DEF Below

\* No part of the plan is passed over, and a manifest is what was stored.
LEMMA NextAllParts ==
  TypeOK /\ Control /\ Pool /\ AllParts /\ [Next]_vars => AllParts'
<1> SUFFICES ASSUME TypeOK, Control, Pool, AllParts, [Next]_vars PROVE AllParts'
    OBVIOUS
<1>1. /\ next \in Nat \ {0} /\ stop \in BOOLEAN /\ worker \in [Workers -> WorkerState]
      /\ PartCount(size) \in Nat /\ 1..PartCount(size) \subseteq Parts
      BY PartsOfPlan DEF Pool, TypeOK
<1>2. ASSUME UNCHANGED <<pc, size, poolVars>> PROVE AllParts'
      BY <1>2 DEF AllParts, Busy, poolVars
<1>3. ASSUME pc' \notin {"parts", "complete"} PROVE AllParts'
      BY <1>3 DEF AllParts
<1>4. ASSUME NEW parts, StartWorkers(parts), UNCHANGED size PROVE AllParts'
      <2>1. pc' = "parts" /\ next' = 1
            BY <1>4 DEF StartWorkers
      <2>2. \A w \in Workers : w <= PartCount(size) => worker'[w].step = "take"
            BY <1>4, WorkerTypes DEF StartWorkers
      <2> QED BY <1>1, <1>4, <2>1, <2>2 DEF AllParts
<1>5. CASE \/ Edit \/ Scan \/ (\E s \in Sessions : Expire(s)) \/ Shutdown \/ Boot
           \/ NotifyStop \/ TransportStep \/ (\E w \in Workers : Land(w) \/ NotifyTransport(w))
           \/ UNCHANGED vars
      BY <1>2, <1>5 DEF Edit, Scan, Expire, Shutdown, Boot, NotifyStop, TransportStep, Land,
         NotifyTransport, vars, callVars
<1>6. CASE Crash \/ Exit \/ Begin \/ DeleteParts \/ DeleteSession \/ StartUpload
      BY <1>3, <1>6 DEF Crash, Exit, Begin, DeleteParts, DeleteSession, StartUpload, OnError,
         ForgetCall, TypeOK
<1>7. CASE LookupSession
      BY <1>3, <1>4, <1>7 DEF LookupSession
<1>8. CASE ReplaceSession
      BY <1>4, <1>8 DEF ReplaceSession
<1>9. CASE JoinWorkers
      <2>1. CASE OnError(error)
            BY <1>3, <2>1 DEF OnError, ForgetCall
      <2>2. CASE error = "none" /\ pc' = "complete" /\ UNCHANGED poolVars
            <3>1. ~stop /\ pc = "parts" /\ \A w \in Workers : worker[w].step = "exit"
                  BY <1>9, <2>2 DEF JoinWorkers, Pool
            <3>2. 1 \in Workers /\ 1 <= PartCount(size)
                  BY SizesAssumption, PlanTypes DEF Workers, TypeOK
            <3>3. next > PartCount(size)
                  BY <3>1, <3>2 DEF AllParts
            <3>4. \A p \in 1..PartCount(size) : results[p] # NoCipher
                  BY <1>1, <3>1, <3>3 DEF AllParts, Busy
            <3> QED BY <1>9, <2>2, <3>4 DEF JoinWorkers, AllParts, poolVars
      <2> QED BY <1>9, <2>1, <2>2 DEF JoinWorkers
<1>10. CASE CompleteUpload
      BY <1>3, <1>10 DEF CompleteUpload, OnError, ForgetCall
<1>11. ASSUME NEW w \in Workers, Worker(w), ~NotifyTransport(w) PROVE AllParts'
      <2>1. ASSUME NEW e \in {"fault", "gone"}, Fails(w, e), pc' = "parts" PROVE AllParts'
            BY <2>1 DEF Fails, AllParts
      <2>2. ASSUME NEW step \in {"put", "wait", "record"}, NEW c, Busy(w),
                   Moved(w, step, worker[w].part, c), pc = "parts", pc' = "parts",
                   UNCHANGED <<size, results, next, stop>>
            PROVE  AllParts'
            <3>1. \A v \in Workers : (Busy(v) <=> Busy(v)') /\ worker'[v].part = worker[v].part
                                     /\ (worker'[v].step = "exit" <=> worker[v].step = "exit")
                  BY <2>2 DEF Moved, Busy
            <3> QED BY <2>2, <3>1 DEF AllParts
      <2>3. CASE TakePart(w)
            <3>1. /\ UNCHANGED <<pc, size, results, stop>> /\ pc = "parts" /\ ~Busy(w)
                  BY <2>3, TakeMoves DEF TakePart, Busy, callVars
            <3>2. CASE stop
                  BY <3>1, <3>2 DEF AllParts
            <3>3. CASE ~stop /\ next' = next + 1 /\ next > PartCount(size)
                       /\ Moved(w, "exit", 0, NoCipher)
                  BY <1>1, <3>1, <3>3 DEF AllParts, Moved, Busy
            <3>4. CASE ~stop /\ next' = next + 1 /\ next \in 1..PartCount(size)
                       /\ results[next] # NoCipher /\ Moved(w, "take", 0, NoCipher)
                  BY <1>1, <3>1, <3>4 DEF AllParts, Moved, Busy
            <3>5. CASE ~stop /\ next' = next + 1 /\ next \in 1..PartCount(size)
                       /\ results[next] = NoCipher /\ Moved(w, "read", next, NoCipher)
                  <4>1. \A v \in Workers : Busy(v) => Busy(v)' /\ worker'[v].part = worker[v].part
                        BY <3>1, <3>5 DEF Moved, Busy
                  <4>2. Busy(w)' /\ worker'[w].part = next
                        BY <3>5 DEF Moved, Busy
                  <4>3. ASSUME NEW p \in 1..PartCount(size), p < next'
                        PROVE  results[p] # NoCipher \/ \E v \in Workers : Busy(v)' /\ worker'[v].part = p
                        BY <1>1, <3>1, <3>5, <4>1, <4>2, <4>3 DEF AllParts
                  <4>4. \A v \in Workers : worker'[v].step = "exit" => worker[v].step = "exit"
                        BY <3>5 DEF Moved
                  <4> QED BY <1>1, <3>1, <3>5, <4>3, <4>4 DEF AllParts
            <3> QED BY <2>3, <3>2, <3>3, <3>4, <3>5, TakeMoves
      <2>4. CASE ReadPart(w)
            <3>1. UNCHANGED <<pc, size>> /\ pc = "parts" /\ Busy(w)
                  BY <2>4, ReadMoves DEF ReadPart, Busy, callVars
            <3> QED BY <2>1, <2>2, <2>4, <3>1, ReadMoves
      <2>5. CASE PutPart(w)
            BY <2>1, <2>2, <2>5, PutMoves DEF PutPart, Busy, callVars
      <2>6. CASE PutAnswered(w)
            <3>1. UNCHANGED <<pc, size>> /\ pc = "parts" /\ Busy(w)
                  BY <2>6, AnswerMoves DEF PutAnswered, Busy, callVars
            <3> QED BY <2>1, <2>2, <2>6, <3>1, AnswerMoves
      <2>7. CASE StoreResult(w)
            <3> DEFINE q == worker[w].part
            <3>1. /\ UNCHANGED <<pc, size, next, stop>> /\ pc = "parts" /\ Busy(w)
                  BY <2>7, StoreMoves DEF StoreResult, Busy, callVars
            <3>2. /\ q \in Parts /\ results'[q] # NoCipher
                  /\ \A p \in Parts \ {q} : results'[p] = results[p]
                  BY <2>7, StoreMoves, CipherTypes DEF Pool, Holds
            <3>3. \A v \in Workers \ {w} : worker'[v] = worker[v] /\ (Busy(v)' <=> Busy(v))
                  BY <2>7, StoreMoves DEF Moved, Busy
            <3>4. worker'[w].step = "take"
                  BY <2>7, StoreMoves DEF Moved
            <3> HIDE DEF q
            <3>5. ASSUME ~stop, NEW p \in 1..PartCount(size), p < next
                  PROVE  results'[p] # NoCipher \/ \E v \in Workers : Busy(v)' /\ worker'[v].part = p
                  <4>1. CASE p = q
                        BY <3>2, <4>1
                  <4>2. CASE p # q
                        <5>1. results[p] # NoCipher \/ \E v \in Workers : Busy(v) /\ worker[v].part = p
                              BY <3>1, <3>5 DEF AllParts
                        <5> QED BY <1>1, <3>2, <3>3, <4>2, <5>1 DEF q
                  <4> QED BY <4>1, <4>2
            <3> QED BY <3>1, <3>3, <3>4, <3>5 DEF AllParts
      <2> QED BY <1>11, <2>3, <2>4, <2>5, <2>6, <2>7 DEF Worker
<1> QED BY <1>5, <1>6, <1>7, <1>8, <1>9, <1>10, <1>11, NextCases DEF Below

\* Files change only when a session is completed, the storage of a session
\* only while it is open.
LEMMA FilesAndStorage ==
  ASSUME TypeOK, Control, Pool, [Next]_vars
  PROVE  /\ UNCHANGED size
         /\ \/ UNCHANGED files
            \/ /\ pc = "complete" /\ cur \in Sessions /\ UNCHANGED storage
               /\ files' = [files EXCEPT ![cur] = [hash |-> hash, parts |-> results]]
         /\ \/ UNCHANGED storage
            \/ /\ UNCHANGED files /\ cur \in Sessions /\ server[cur] = "open"
               /\ \A s \in Sessions \ {cur} : storage'[s] = storage[s]
<1>1. CASE CompleteUpload
      BY <1>1 DEF CompleteUpload, Completed, Control
<1>2. ASSUME NEW w \in Workers, Land(w)
      PROVE  /\ UNCHANGED <<size, files>> /\ cur \in Sessions /\ server[cur] = "open"
             /\ \A s \in Sessions \ {cur} : storage'[s] = storage[s]
      <2>1. cur \in Sessions
            BY <1>2 DEF Land, Pool, Control
      <2> QED BY <1>2, <2>1 DEF Land, TypeOK
<1>3. ASSUME NEW w \in Workers, Worker(w) PROVE UNCHANGED <<size, files, storage>>
      BY <1>3 DEF Worker, TakePart, ReadPart, PutPart, NotifyTransport, PutAnswered,
         StoreResult, serverVars
<1>4. CASE TransportStep \/ NotifyStop
      BY <1>4 DEF TransportStep, NotifyStop, serverVars
<1>5. CASE \/ Edit \/ Scan \/ Crash \/ Shutdown \/ Exit \/ Boot \/ Begin
           \/ \E s \in Sessions : Expire(s)
      BY <1>5 DEF Edit, Scan, Crash, Shutdown, Exit, Boot, Begin, Expire, serverVars
<1>6. CASE \/ LookupSession \/ DeleteParts \/ DeleteSession \/ StartUpload \/ ReplaceSession
           \/ JoinWorkers
      BY <1>6 DEF LookupSession, DeleteParts, DeleteSession, StartUpload, ReplaceSession,
         JoinWorkers, serverVars
<1>7. CASE UNCHANGED vars
      BY <1>7 DEF vars, serverVars
<1> QED BY <1>1, <1>2, <1>3, <1>4, <1>5, <1>6, <1>7, NextCases DEF Below

LEMMA NextManifest ==
  IInv /\ [Next]_vars => ManifestMatchesStorage'
<1> SUFFICES ASSUME IInv, [Next]_vars,
                    NEW s \in Sessions, files'[s] # NoFile, NEW p \in 1..PartCount(size')
             PROVE  files'[s].parts[p] # NoCipher /\ files'[s].parts[p] = storage'[s][p]
    BY DEF ManifestMatchesStorage
<1>1. /\ size' = size /\ p \in Parts /\ files \in [Sessions -> FileState]
      BY FilesAndStorage, PartsOfPlan DEF IInv, TypeOK
<1>2. CASE files'[s] = files[s] /\ storage'[s] = storage[s]
      BY <1>1, <1>2 DEF IInv, ManifestMatchesStorage
<1>3. CASE UNCHANGED files /\ server[s] = "open"
      BY <1>3 DEF IInv, OneSessionPerCall
<1>4. CASE /\ pc = "complete" /\ s = cur /\ UNCHANGED storage
           /\ files' = [files EXCEPT ![cur] = [hash |-> hash, parts |-> results]]
      <2>1. files'[s].parts = results
            BY <1>1, <1>4
      <2>2. results[p] # NoCipher /\ results[p] = storage[cur][p]
            BY <1>1, <1>4 DEF IInv, AllParts, Stored, Uploading
      <2> QED BY <1>4, <2>1, <2>2
<1> QED BY <1>1, <1>2, <1>3, <1>4, FilesAndStorage DEF IInv

LEMMA NextWholeFile == IInv /\ [Next]_vars => WholeFile'
<1> SUFFICES ASSUME IInv, [Next]_vars,
                    NEW s \in Sessions, files'[s] # NoFile, NEW p \in 1..PartCount(size')
             PROVE  files'[s].parts[p].call \in raced' \/ files'[s].parts[p].ver = files'[s].hash
    BY DEF WholeFile
<1>1. /\ size' = size /\ p \in Parts /\ files \in [Sessions -> FileState]
      BY FilesAndStorage, PartsOfPlan DEF IInv, TypeOK
<1>2. raced \subseteq raced'
      BY NextCases, BelowFrame
         DEF Edit, Scan, Crash, Shutdown, Exit, Boot, Begin, Expire, LookupSession,
             DeleteParts, DeleteSession, StartUpload, ReplaceSession, JoinWorkers,
             CompleteUpload, vars, histVars
<1>3. CASE files'[s] = files[s]
      BY <1>1, <1>2, <1>3 DEF IInv, WholeFile
<1>4. CASE /\ pc = "complete" /\ s = cur
           /\ files' = [files EXCEPT ![cur] = [hash |-> hash, parts |-> results]]
      <2>1. files'[s].parts = results /\ files'[s].hash = hash
            BY <1>1, <1>4
      <2>2. Honest(results[p], hash)
            BY <1>1, <1>4 DEF IInv, AllParts, HonestParts, Uploading
      <2> QED BY <1>2, <2>1, <2>2 DEF Honest
<1> QED BY <1>1, <1>3, <1>4, FilesAndStorage DEF IInv

\* Ciphertexts are of the content whose hash the session has.
LEMMA NextHonest ==
  TypeOK /\ Control /\ Pool /\ ResumeTablesTrue /\ HonestParts /\ [Next]_vars => HonestParts'
<1> SUFFICES ASSUME TypeOK, Control, Pool, ResumeTablesTrue, HonestParts, [Next]_vars
             PROVE  HonestParts'
    OBVIOUS
<1> USE DEF Uploading, Honest, Running
<1>1. /\ partRows \in [Sessions -> PartTable]
      /\ results \in PartTable /\ worker \in [Workers -> WorkerState]
      /\ session # NoSession => session.id \in Sessions
      /\ 0 \notin Sessions
      BY SessionTypes DEF TypeOK, Sessions
<1> DEFINE
     FileHonest == (scanned => row = disk) /\ (Running => disk = hash \/ calls \in raced)
     RowsHonest == session # NoSession => \A p \in Parts :
       partRows[session.id][p] # NoCipher => Honest(partRows[session.id][p], session.hash)
     ResultsHonest == Uploading => \A p \in Parts : results[p] # NoCipher => Honest(results[p], hash)
     HandsHonest == \A w \in Workers : Holds(w) => Honest(worker[w].cipher, hash)
<1>2. FileHonest /\ RowsHonest /\ ResultsHonest /\ HandsHonest
      BY DEF HonestParts
<1>3. ASSUME FileHonest', RowsHonest', ResultsHonest', HandsHonest' PROVE HonestParts'
      BY <1>3 DEF HonestParts
<1>4. ASSUME UNCHANGED resumeVars, raced \subseteq raced' PROVE RowsHonest'
      BY <1>2, <1>4 DEF resumeVars
<1>5. ASSUME UNCHANGED <<pc, hash, poolVars>>, raced \subseteq raced'
      PROVE  ResultsHonest' /\ HandsHonest'
      BY <1>2, <1>5 DEF poolVars, Holds
<1>6. ASSUME pc' \notin {"parts", "complete"}, \A w \in Workers : worker'[w].step = "exit"
      PROVE  ResultsHonest' /\ HandsHonest'
      BY <1>6 DEF Holds
<1>7. ASSUME pc # "parts" PROVE \A w \in Workers : worker[w].step = "exit"
      BY <1>7 DEF Pool
<1>8. ASSUME ForgetCall, UNCHANGED <<scanned, row, disk>>
      PROVE  FileHonest' /\ ResultsHonest' /\ HandsHonest'
      <2>1. pc' = "idle" /\ \A w \in Workers : worker'[w].step = "exit"
            BY <1>8, WorkerTypes DEF ForgetCall
      <2>2. FileHonest'
            BY <1>2, <1>8, <2>1
      <2> QED BY <1>6, <2>1, <2>2
<1>9. ASSUME pc # "idle", UNCHANGED <<scanned, row, disk, hash, calls, raced>> PROVE FileHonest'
      BY <1>2, <1>9
<1>10. ASSUME NEW parts, StartWorkers(parts) PROVE HandsHonest'
      BY <1>10, WorkerTypes DEF StartWorkers, Holds
<1>11. CASE Edit
      <2>1. raced \subseteq raced' /\ FileHonest' /\ UNCHANGED <<resumeVars, pc, hash, poolVars>>
            BY <1>11 DEF Edit, callVars
      <2> QED BY <1>3, <1>4, <1>5, <2>1
<1>12. CASE Scan \/ Boot
      <2>1. UNCHANGED <<raced, resumeVars, pc, hash, poolVars>>
            BY <1>12 DEF Scan, Boot, callVars, histVars
      <2>2. pc = "idle"
            BY <1>12 DEF Scan, Boot, Control
      <2>3. FileHonest'
            BY <1>12, <2>1, <2>2 DEF Scan, Boot
      <2> QED BY <1>3, <1>4, <1>5, <2>1, <2>3
<1>13. CASE Shutdown \/ (\E s \in Sessions : Expire(s)) \/ UNCHANGED vars
      <2>1. UNCHANGED <<raced, calls, scanned, row, disk, resumeVars, pc, hash, poolVars>>
            BY <1>13 DEF Shutdown, Expire, vars, callVars, histVars, fileVars
      <2>2. FileHonest'
            BY <1>2, <2>1
      <2> QED BY <1>3, <1>4, <1>5, <2>1, <2>2
<1>14. CASE Crash \/ Exit
      BY <1>3, <1>4, <1>8, <1>14 DEF Crash, Exit, fileVars
<1>15. CASE Begin
      <2>1. FileHonest'
            BY <1>2, <1>15 DEF Begin, fileVars
      <2>2. UNCHANGED <<raced, resumeVars, worker>> /\ pc' = "lookup" /\ pc = "idle"
            BY <1>15 DEF Begin, poolVars
      <2> QED BY <1>3, <1>4, <1>6, <1>7, <2>1, <2>2
<1>16. CASE LookupSession
      <2>1. /\ pc = "lookup" /\ UNCHANGED <<scanned, row, disk, hash, calls, raced, resumeVars>>
            BY <1>16 DEF LookupSession, fileVars, histVars
      <2>2. FileHonest' /\ RowsHonest'
            BY <1>4, <1>9, <2>1
      <2>3. CASE pc' \in {"start", "deleteParts"} /\ UNCHANGED poolVars
            BY <1>3, <1>6, <1>7, <2>1, <2>2, <2>3 DEF poolVars
      <2>4. CASE /\ session # NoSession /\ session.hash = hash
                 /\ StartWorkers(partRows[session.id])
            <3>1. ResultsHonest'
                  BY <1>2, <2>1, <2>4 DEF StartWorkers
            <3> QED BY <1>3, <1>10, <2>2, <2>4, <3>1
      <2> QED BY <1>16, <2>3, <2>4 DEF LookupSession, sessionMatchesEntry
<1>17. CASE DeleteParts
      <2>1. /\ pc = "deleteParts" /\ pc' = "deleteSession"
            /\ UNCHANGED <<scanned, row, disk, hash, calls, raced, session, worker>>
            BY <1>17 DEF DeleteParts, fileVars, histVars, poolVars
      <2>2. RowsHonest'
            BY <1>1, <1>17, <2>1, CipherTypes DEF DeleteParts
      <2> QED BY <1>3, <1>6, <1>7, <1>9, <2>1, <2>2
<1>18. CASE DeleteSession
      <2>1. /\ pc = "deleteSession" /\ session' = NoSession
            /\ UNCHANGED <<scanned, row, disk, calls, raced>>
            BY <1>18 DEF DeleteSession, fileVars, histVars
      <2>2. RowsHonest'
            BY <2>1
      <2>3. CASE ForgetCall
            BY <1>3, <1>8, <2>1, <2>2, <2>3
      <2>4. CASE pc' = goal /\ UNCHANGED <<hash, poolVars>>
            <3>1. goal \notin {"parts", "complete"}
                  BY DEF TypeOK
            <3> QED BY <1>3, <1>6, <1>7, <1>9, <2>1, <2>2, <2>4, <3>1 DEF poolVars
      <2> QED BY <1>18, <2>3, <2>4 DEF DeleteSession
<1>19. ASSUME NEW e, OnError(e), \A w \in Workers : worker[w].step = "exit", pc # "idle",
              UNCHANGED <<scanned, row, disk, calls, raced, resumeVars>>
       PROVE  HonestParts'
      <2>1. RowsHonest'
            BY <1>4, <1>19
      <2>2. CASE ForgetCall
            BY <1>3, <1>8, <1>19, <2>1, <2>2
      <2>3. CASE pc' = "deleteParts" /\ UNCHANGED <<hash, poolVars>>
            BY <1>3, <1>6, <1>9, <1>19, <2>1, <2>3 DEF poolVars
      <2> QED BY <1>19, <2>2, <2>3 DEF OnError
<1>20. CASE StartUpload
      <2>1. /\ pc = "start" /\ UNCHANGED <<scanned, row, disk, calls, raced, resumeVars>>
            BY <1>20 DEF StartUpload, fileVars
      <2>2. CASE pc' = "save" /\ UNCHANGED <<hash, poolVars>>
            BY <1>3, <1>4, <1>6, <1>7, <1>9, <2>1, <2>2 DEF poolVars
      <2> QED BY <1>7, <1>19, <1>20, <2>1, <2>2 DEF StartUpload
<1>21. CASE ReplaceSession
      <2>1. /\ pc = "save" /\ UNCHANGED <<scanned, row, disk, hash, calls, raced, partRows>>
            /\ session' = [id |-> cur, hash |-> hash] /\ StartWorkers(NoParts)
            BY <1>21 DEF ReplaceSession, fileVars, histVars
      <2>2. \A s \in Sessions, p \in Parts : partRows[s][p] = NoCipher
            BY <1>1, <2>1, SessionTypes DEF ResumeTablesTrue, Control
      <2>3. cur \in Sessions
            BY <2>1 DEF Control
      <2>4. RowsHonest'
            BY <2>1, <2>2, <2>3
      <2>5. ResultsHonest'
            BY <2>1, CipherTypes DEF StartWorkers
      <2> QED BY <1>3, <1>9, <1>10, <2>1, <2>4, <2>5
<1>22. CASE JoinWorkers
      <2>1. /\ pc = "parts" /\ UNCHANGED <<scanned, row, disk, calls, raced, resumeVars>>
            /\ \A w \in Workers : worker[w].step = "exit"
            BY <1>22 DEF JoinWorkers, fileVars, histVars
      <2>2. CASE pc' = "complete" /\ UNCHANGED <<hash, poolVars>>
            <3>1. ResultsHonest' /\ HandsHonest'
                  BY <1>2, <2>1, <2>2 DEF poolVars, Holds
            <3> QED BY <1>3, <1>4, <1>9, <2>1, <2>2, <3>1
      <2> QED BY <1>19, <1>22, <2>1, <2>2 DEF JoinWorkers
<1>23. CASE CompleteUpload
      <2>1. /\ pc = "complete" /\ UNCHANGED <<scanned, row, disk, calls, raced, resumeVars>>
            BY <1>23 DEF CompleteUpload, fileVars
      <2>2. CASE pc' = "deleteParts" /\ UNCHANGED <<hash, poolVars>>
            BY <1>3, <1>4, <1>6, <1>7, <1>9, <2>1, <2>2 DEF poolVars
      <2> QED BY <1>7, <1>19, <1>23, <2>1, <2>2 DEF CompleteUpload
<1>24. CASE Below
      <2>1. /\ UNCHANGED <<scanned, row, disk, hash, calls, raced, session, pc>>
            BY <1>24, BelowFrame DEF callVars
      <2>2. FileHonest'
            BY <1>2, <2>1
      <2>3. CASE \/ TransportStep \/ NotifyStop
                 \/ \E w \in Workers : Land(w) \/ NotifyTransport(w)
            <3>1. UNCHANGED <<resumeVars, poolVars>>
                  BY <2>3 DEF TransportStep, NotifyStop, Land, NotifyTransport
            <3> QED BY <1>3, <1>4, <1>5, <2>1, <2>2, <3>1
      <2>4. ASSUME NEW w \in Workers, UNCHANGED <<resumeVars, results>>,
                   \A v \in Workers \ {w} : worker'[v] = worker[v],
                   Holds(w)' => Honest(worker'[w].cipher, hash)
            PROVE  HonestParts'
            <3>1. ResultsHonest' /\ HandsHonest'
                  BY <1>2, <2>1, <2>4 DEF Holds
            <3> QED BY <1>3, <1>4, <2>1, <2>2, <2>4, <3>1
      <2>5. ASSUME NEW w \in Workers, TakePart(w) PROVE HonestParts'
            BY <2>4, <2>5, TakeMoves DEF TakePart, Moved, Holds
      <2>6. ASSUME NEW w \in Workers, ReadPart(w) PROVE HonestParts'
            <3>1. UNCHANGED <<resumeVars, results>> /\ (disk = hash \/ calls \in raced)
                  BY <1>2, <2>6, ReadMoves DEF ReadPart
            <3>2. ASSUME NEW c \in Cipher, c = [ver |-> disk, call |-> calls, by |-> w],
                         Moved(w, "put", worker[w].part, c)
                  PROVE  HonestParts'
                  BY <2>4, <3>1, <3>2 DEF Moved
            <3>3. ASSUME NEW e, Fails(w, e) PROVE HonestParts'
                  BY <2>4, <3>1, <3>3 DEF Fails, Moved, Holds
            <3> QED BY <2>6, <3>2, <3>3, ReadMoves
      <2>7. ASSUME NEW w \in Workers, PutPart(w) PROVE HonestParts'
            <3>1. UNCHANGED <<resumeVars, results>> /\ Honest(worker[w].cipher, hash)
                  BY <1>2, <2>7, PutMoves DEF PutPart, Holds
            <3> QED BY <2>4, <2>7, <3>1, PutMoves DEF Fails, Moved, Holds
      <2>8. ASSUME NEW w \in Workers, PutAnswered(w) PROVE HonestParts'
            <3>1. UNCHANGED <<resumeVars, results>> /\ Honest(worker[w].cipher, hash)
                  BY <1>2, <2>8, AnswerMoves DEF PutAnswered, Holds
            <3> QED BY <2>4, <2>8, <3>1, AnswerMoves DEF Fails, Moved, Holds
      <2>9. ASSUME NEW w \in Workers, StoreResult(w) PROVE HonestParts'
            <3> DEFINE q == worker[w].part
                       c == worker[w].cipher
            <3>1. pc = "parts" /\ q \in Parts /\ worker[w].step = "record"
                  BY <2>9, StoreMoves
            <3>2. cur \in Sessions /\ session.id = cur /\ session.hash = hash /\ session # NoSession
                  BY <1>1, <3>1, SessionTypes DEF Control
            <3>3. Honest(c, hash)
                  BY <1>2, <3>1 DEF Holds
            <3>4. \A p \in Parts : \/ partRows'[cur][p] = partRows[cur][p]
                                   \/ p = q /\ partRows'[cur][p] = c
                  BY <1>1, <2>9, <3>1, <3>2 DEF StoreResult, PartTable
            <3>5. RowsHonest'
                  BY <1>2, <2>1, <3>2, <3>3, <3>4
            <3>6. results'[q] = c /\ \A p \in Parts \ {q} : results'[p] = results[p]
                  BY <2>9, StoreMoves
            <3>7. ResultsHonest'
                  BY <1>2, <2>1, <3>1, <3>3, <3>6
            <3>8. HandsHonest'
                  BY <1>2, <2>1, <2>9, StoreMoves DEF Moved, Holds
            <3> QED BY <1>3, <2>2, <3>5, <3>7, <3>8
      <2> QED BY <1>24, <2>3, <2>5, <2>6, <2>7, <2>8, <2>9 DEF Below, Worker
<1> QED BY <1>11, <1>12, <1>13, <1>14, <1>15, <1>16, <1>17, <1>18, <1>20, <1>21, <1>22,
       <1>23, <1>24, NextCases

\* Errors and their reasons.
LEMMA NextReasons ==
  TypeOK /\ Control /\ Pool /\ Reasons /\ FailsOnlyOnTrouble /\ [Next]_vars
    => Reasons' /\ FailsOnlyOnTrouble'
<1> SUFFICES ASSUME TypeOK, Control, Pool, Reasons, FailsOnlyOnTrouble, [Next]_vars
             PROVE  Reasons' /\ FailsOnlyOnTrouble'
    OBVIOUS
<1> DEFINE
     StopReason == (proc = "up" /\ stopping => thread = "down") /\ (proc = "down" => ~stopping)
     GoneReason == pc \in {"save", "parts", "complete"} /\ server[cur] # "open" => used \/ faulted
     ErrorReason ==
       /\ pc = "parts" /\ error = "gone" => used \/ faulted
       /\ pc = "parts" /\ error = "fault" => faulted \/ size = 0 \/ thread = "down"
     AnswerReason == \A w \in Workers : req[w] = "failed" =>
       faulted \/ thread = "down" \/ server[cur] # "open"
<1>1. StopReason /\ GoneReason /\ ErrorReason /\ AnswerReason
      BY DEF Reasons
<1>2. ASSUME StopReason', GoneReason', ErrorReason', AnswerReason' PROVE Reasons'
      BY <1>2 DEF Reasons
<1>3. /\ Running => proc = "up"
      /\ server \in [Sessions -> {"none", "open", "expired", "completed"}]
      /\ req \in [Workers -> T!Request]
      /\ pc \in {"save", "parts", "complete"} => cur \in Sessions
      BY DEF Control, TypeOK, T!TypeOK
<1>4. ASSUME pc # "parts" PROVE \A w \in Workers : req[w] = "none"
      BY <1>4 DEF Pool
<1>5. ASSUME faulted => faulted', thread = "down" => thread' = "down", UNCHANGED <<outcome, size>>
      PROVE  FailsOnlyOnTrouble'
      BY <1>5 DEF FailsOnlyOnTrouble
<1>6. ASSUME \A w \in Workers : req'[w] = "none" PROVE AnswerReason'
      BY <1>6
<1>7. CASE Edit \/ Scan \/ UNCHANGED vars
      <2>1. UNCHANGED <<proc, pc, server, cur, used, faulted, error, size, outcome, tvars>>
            BY <1>7 DEF Edit, Scan, vars, callVars, serverVars, poolVars, histVars
      <2> QED BY <1>1, <1>2, <1>5, <2>1 DEF tvars
<1>8. ASSUME NEW s \in Sessions, Expire(s) PROVE Reasons' /\ FailsOnlyOnTrouble'
      <2>1. /\ UNCHANGED <<proc, pc, cur, used, error, size, outcome, tvars>>
            /\ faulted' = (faulted \/ (Running /\ s = cur /\ ~used))
            BY <1>8 DEF Expire, callVars, poolVars
      <2>2. /\ \A r \in Sessions \ {s} : server'[r] = server[r]
            /\ server'[s] = "expired"
            BY <1>3, <1>8 DEF Expire
      <2>3. GoneReason'
            BY <1>1, <1>3, <2>1, <2>2 DEF Running
      <2>4. StopReason' /\ ErrorReason'
            BY <1>1, <2>1 DEF tvars
      <2>5. AnswerReason'
            BY <1>1, <1>3, <1>4, <2>1, <2>2 DEF tvars
      <2> QED BY <1>2, <1>5, <2>1, <2>3, <2>4, <2>5 DEF tvars
<1>9. CASE Crash \/ Exit
      <2>1. pc' = "idle" /\ outcome' = "none" /\ T!Die
            BY <1>9 DEF Crash, Exit, ForgetCall
      <2> QED BY <1>2, <2>1 DEF T!Die, FailsOnlyOnTrouble
<1>10. CASE Shutdown
      <2>1. /\ UNCHANGED <<pc, server, cur, used, faulted, error, size, outcome, req, thread>>
            /\ proc' = "ending"
            BY <1>10 DEF Shutdown, T!Stop, callVars, serverVars, poolVars, histVars, tvars
      <2> QED BY <1>1, <1>2, <1>5, <2>1
<1>11. CASE Boot
      <2>1. /\ UNCHANGED <<pc, server, cur, used, faulted, error, size, outcome, tvars>>
            /\ proc = "down" /\ proc' = "up"
            BY <1>11 DEF Boot, callVars, serverVars, poolVars, histVars
      <2> QED BY <1>1, <1>2, <1>5, <2>1 DEF tvars
<1>12. CASE Begin
      <2>1. /\ UNCHANGED <<proc, size, tvars>> /\ pc' = "lookup" /\ outcome' = "none" /\ pc = "idle"
            BY <1>12 DEF Begin, Running
      <2> QED BY <1>1, <1>2, <1>4, <2>1 DEF tvars, FailsOnlyOnTrouble
<1>13. ASSUME UNCHANGED <<proc, tvars>>, pc # "parts", pc' \notin {"save", "parts", "complete"}
       PROVE  Reasons'
      BY <1>1, <1>2, <1>4, <1>13 DEF tvars
<1>14. CASE LookupSession
      <2>1. UNCHANGED <<proc, tvars, faulted, outcome, size>> /\ pc = "lookup"
            BY <1>14 DEF LookupSession, histVars
      <2>2. CASE pc' \in {"start", "deleteParts"}
            BY <1>5, <1>13, <2>1, <2>2 DEF tvars
      <2>3. CASE used' = TRUE /\ StartWorkers(partRows[session.id])
            BY <1>1, <1>2, <1>4, <1>5, <2>1, <2>3 DEF StartWorkers, tvars
      <2> QED BY <1>14, <2>2, <2>3 DEF LookupSession
<1>15. CASE DeleteParts
      BY <1>5, <1>13, <1>15 DEF DeleteParts, tvars, histVars
<1>16. CASE DeleteSession
      <2>1. UNCHANGED <<proc, tvars, faulted, size>> /\ pc = "deleteSession"
            BY <1>16 DEF DeleteSession, histVars
      <2>2. pc' \notin {"save", "parts", "complete"} /\ (outcome' = "ok" \/ UNCHANGED outcome)
            BY <1>16 DEF DeleteSession, ForgetCall, TypeOK
      <2> QED BY <1>5, <1>13, <2>1, <2>2 DEF FailsOnlyOnTrouble, tvars
<1>17. CASE StartUpload
      <2>1. UNCHANGED <<proc, tvars, size>> /\ pc = "start" /\ calls \in Sessions /\ ~used
            BY <1>17 DEF StartUpload, Control, Running
      <2>2. CASE /\ NoFault /\ server' = [server EXCEPT ![calls] = "open"]
                 /\ cur' = calls /\ pc' = "save" /\ UNCHANGED <<outcome, used, error>>
            <3>1. server'[cur'] = "open"
                  BY <1>3, <2>1, <2>2
            <3> QED BY <1>1, <1>2, <1>4, <1>5, <2>1, <2>2, <3>1 DEF tvars, NoFault
      <2>3. CASE Fault /\ OnError("fault")
            <3>1. faulted' = TRUE /\ pc' = "idle"
                  BY <2>1, <2>3 DEF OnError, ForgetCall, Fault
            <3> QED BY <1>13, <2>1, <3>1 DEF FailsOnlyOnTrouble
      <2> QED BY <1>17, <2>2, <2>3 DEF StartUpload, poolVars
<1>18. CASE ReplaceSession
      <2>1. /\ UNCHANGED <<proc, tvars, faulted, outcome, size, used, cur, server>>
            /\ pc = "save" /\ pc' = "parts" /\ error' = "none"
            BY <1>18 DEF ReplaceSession, StartWorkers, histVars, serverVars
      <2> QED BY <1>1, <1>2, <1>4, <1>5, <2>1 DEF tvars
\* A handler gives up on an error that has a reason: a session that was
\* resumed and is gone is looked up again instead.
<1>19. ASSUME NEW e \in {"fault", "gone"}, OnError(e), pc \in {"parts", "complete"},
              \A w \in Workers : req[w] = "none", UNCHANGED <<proc, tvars, size>>,
              faulted => faulted',
              e = "gone" => used \/ faulted',
              e = "fault" => faulted' \/ size = 0 \/ thread = "down"
       PROVE  Reasons' /\ FailsOnlyOnTrouble'
      <2>1. used => attempt = 0
            BY <1>19 DEF Control, Uploading
      <2>2. CASE ForgetCall /\ outcome' = "failed" /\ ~(used /\ e = "gone")
            <3>1. FailsOnlyOnTrouble'
                  BY <1>19, <2>2 DEF FailsOnlyOnTrouble, tvars
            <3> QED BY <1>1, <1>2, <1>19, <2>2, <3>1 DEF ForgetCall, tvars
      <2>3. CASE pc' = "deleteParts" /\ UNCHANGED outcome
            BY <1>1, <1>2, <1>5, <1>19, <2>3 DEF tvars
      <2> QED BY <1>19, <2>1, <2>2, <2>3 DEF OnError, shouldResetResumeSession
<1>20. CASE JoinWorkers
      <2>1. /\ UNCHANGED <<proc, tvars, size, faulted, server>> /\ pc = "parts"
            /\ \A w \in Workers : req[w] = "none"
            /\ error \in {"none", "fault", "gone"}
            BY <1>20 DEF JoinWorkers, Pool, TypeOK, histVars, serverVars
      <2>2. CASE pc' = "complete" /\ UNCHANGED <<used, cur, outcome>>
            BY <1>1, <1>2, <1>5, <2>1, <2>2 DEF tvars
      <2>3. CASE error # "none" /\ OnError(error)
            BY <1>1, <1>19, <2>1, <2>3
      <2> QED BY <1>20, <2>2, <2>3 DEF JoinWorkers
<1>21. CASE CompleteUpload
      <2>1. /\ UNCHANGED <<proc, tvars, size>> /\ pc = "complete"
            /\ \A w \in Workers : req[w] = "none"
            BY <1>4, <1>21 DEF CompleteUpload
      <2>2. CASE NoFault /\ pc' = "deleteParts" /\ UNCHANGED outcome
            BY <1>5, <1>13, <2>1, <2>2 DEF NoFault, tvars
      <2>3. CASE server[cur] # "open" /\ NoFault /\ OnError("gone")
            BY <1>1, <1>19, <2>1, <2>3 DEF NoFault
      <2>4. CASE Fault /\ OnError("fault")
            BY <1>19, <2>1, <2>4 DEF Fault
      <2> QED BY <1>21, <2>2, <2>3, <2>4 DEF CompleteUpload
<1>22. CASE Below
      <2>1. UNCHANGED <<proc, pc, server, cur, used, size, outcome>>
            BY <1>22, BelowFrame DEF callVars
      <2>2. CASE NotifyStop \/ \E w \in Workers : NotifyTransport(w)
            <3>1. /\ UNCHANGED <<faulted, error, req, stopping>>
                  /\ thread = "down" => thread' = "down"
                  BY <2>2 DEF NotifyStop, NotifyTransport, T!Notify, poolVars, histVars
            <3> QED BY <1>1, <1>2, <1>5, <2>1, <3>1
      <2>3. CASE \E w \in Workers : Land(w) \/ TakePart(w) \/ StoreResult(w)
            <3>1. UNCHANGED <<faulted, error, tvars>>
                  BY <2>3 DEF Land, TakePart, StoreResult, poolVars, histVars
            <3> QED BY <1>1, <1>2, <1>5, <2>1, <3>1 DEF tvars
      <2>4. CASE TransportStep
            <3>1. /\ UNCHANGED error
                  /\ faulted => faulted'
                  /\ stopping' => stopping \/ thread' = "down"
                  /\ thread = "down" => thread' = "down"
                  /\ proc # "down"
                  /\ \A w \in Workers : req'[w] = "failed" =>
                       req[w] = "failed" \/ faulted' \/ server[cur] # "open"
                  BY <2>4, TransportMoves DEF TransportStep, TypeOK, poolVars
            <3> QED BY <1>1, <1>2, <1>5, <2>1, <3>1
      <2>5. ASSUME NEW w \in Workers, ReadPart(w) \/ PutPart(w) \/ PutAnswered(w)
            PROVE  Reasons' /\ FailsOnlyOnTrouble'
            <3>1. /\ pc = "parts" /\ proc = "up" /\ UNCHANGED <<stopping, thread>>
                  /\ \A v \in Workers : req'[v] = "failed" => req[v] = "failed"
                  /\ faulted => faulted'
                  BY <1>3, <2>5, ReadMoves, PutMoves, AnswerMoves
                     DEF ReadPart, PutPart, T!Push, T!Take, tvars, histVars, Running, NoFault, Fault
            <3>2. ErrorReason' => Reasons' /\ FailsOnlyOnTrouble'
                  BY <1>1, <1>2, <1>5, <2>1, <3>1
            <3>3. ASSUME UNCHANGED error PROVE ErrorReason'
                  BY <1>1, <2>1, <3>1, <3>3
            <3>4. ASSUME NEW e \in {"fault", "gone"}, Fails(w, e),
                         e = "gone" => used \/ faulted',
                         e = "fault" => faulted' \/ size = 0 \/ thread = "down"
                  PROVE  ErrorReason'
                  BY <1>1, <2>1, <3>1, <3>4 DEF Fails
            <3>5. CASE ReadPart(w)
                  <4>1. ~ReadablePart(worker[w].part, size) => size = 0
                        BY <3>5, ReadMoves, PartsReadable DEF Pool, Busy, TypeOK
                  <4>2. CASE UNCHANGED <<stop, error>>
                        BY <3>2, <3>3, <4>2
                  <4>3. CASE server[cur] # "open" /\ Fails(w, "gone")
                        BY <1>1, <3>1, <3>2, <3>4, <4>3
                  <4>4. CASE Fault /\ Fails(w, "fault")
                        BY <3>2, <3>4, <4>4 DEF Fault
                  <4>5. CASE ~ReadablePart(worker[w].part, size) /\ Fails(w, "fault")
                        BY <3>2, <3>4, <4>1, <4>5
                  <4> QED BY <3>5, <4>2, <4>3, <4>4, <4>5, ReadMoves
            <3>6. CASE PutPart(w)
                  <4>1. CASE UNCHANGED <<stop, error>>
                        BY <3>2, <3>3, <4>1
                  <4>2. CASE stopping /\ Fails(w, "fault")
                        BY <1>1, <3>1, <3>2, <3>4, <4>2
                  <4> QED BY <3>6, <4>1, <4>2, PutMoves
            <3>7. CASE PutAnswered(w)
                  <4>1. CASE UNCHANGED <<stop, error>>
                        BY <3>2, <3>3, <4>1
                  <4>2. CASE server[cur] # "open" /\ Fails(w, "gone")
                        BY <1>1, <3>1, <3>2, <3>4, <4>2
                  <4>3. CASE Fault /\ Fails(w, "fault")
                        BY <3>2, <3>4, <4>3 DEF Fault
                  <4>4. CASE server[cur] = "open" /\ req[w] = "failed" /\ Fails(w, "fault")
                        BY <1>1, <3>1, <3>2, <3>4, <4>4
                  <4> QED BY <3>7, <4>1, <4>2, <4>3, <4>4, AnswerMoves
            <3> QED BY <2>5, <3>5, <3>6, <3>7
      <2> QED BY <1>22, <2>2, <2>3, <2>4, <2>5 DEF Below, Worker
<1> QED BY <1>7, <1>8, <1>9, <1>10, <1>11, <1>12, <1>14, <1>15, <1>16, <1>17, <1>18, <1>20,
       <1>21, <1>22, NextCases

-----------------------------------------------------------------------------
LEMMA NextIInv == IInv /\ [Next]_vars => IInv'
<1> SUFFICES ASSUME IInv, [Next]_vars PROVE IInv'
    OBVIOUS
<1>1. TypeOK' /\ Control' /\ Pool'
      BY NextTypeOK, NextControl, NextPool DEF IInv
<1>2. OneSessionPerCall' /\ Stored' /\ ResumeTablesTrue' /\ AllParts'
      BY NextSessions, NextStored, NextAllParts DEF IInv
<1>3. ManifestMatchesStorage' /\ HonestParts' /\ WholeFile'
      BY NextManifest, NextHonest, NextWholeFile DEF IInv
<1>4. Reasons' /\ FailsOnlyOnTrouble'
      BY NextReasons DEF IInv
<1> QED BY <1>1, <1>2, <1>3, <1>4 DEF IInv

LEMMA InvariantHolds == Spec => []IInv
<1> QED BY InitIInv, NextIInv, PTL DEF Spec

\* The variables keep their types: a thread past its loop's head has a part
\* of the plan, and what it holds is a ciphertext (uploadParts).
THEOREM UploadTypeCorrect == Spec => []TypeOK
<1>1. IInv => TypeOK
      BY DEF IInv
<1> QED BY <1>1, InvariantHolds, PTL

\* Every completed file can be decrypted, whatever crashed, was resumed or was
\* dropped on the way: its manifest names for each part of the plan the very
\* ciphertext the storage holds (uploadParts, listParts, prepareCompletion).
THEOREM ManifestIsTrue == Spec => []ManifestMatchesStorage
<1>1. IInv => ManifestMatchesStorage
      BY DEF IInv
<1> QED BY <1>1, InvariantHolds, PTL

\* No file is mixed from two contents: a part is of the content whose hash the
\* session has, unless the user saved the file during the upload that read it
\* (sessionMatchesEntry).
THEOREM NoMixedFile == Spec => []WholeFile
<1>1. IInv => WholeFile
      BY DEF IInv
<1> QED BY <1>1, InvariantHolds, PTL

\* What the resume tables say after any crash is true of the storage
\* (upsertPart, deleteSessionByUploadSessionId).
THEOREM TablesAreTrue == Spec => []ResumeTablesTrue
<1>1. IInv => ResumeTablesTrue
      BY DEF IInv
<1> QED BY <1>1, InvariantHolds, PTL

\* An upload that fails has met a fault in its own run, is of an empty file,
\* or belongs to a process whose transport is down: a session that is gone
\* costs an attempt and no more (uploadFile, shouldResetResumeSession).
THEOREM FailuresHaveReasons == Spec => []FailsOnlyOnTrouble
<1>1. IInv => FailsOnlyOnTrouble
      BY DEF IInv
<1> QED BY <1>1, InvariantHolds, PTL
=============================================================================
