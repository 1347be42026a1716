------------------------- MODULE StoragePutTransport -------------------------
(***************************************************************************)
(* The transport of encrypted parts: callers push requests to a queue and  *)
(* wait for a future, one thread moves the requests into a curl multi      *)
(* handle, drives it, and sleeps on a condition variable when there is     *)
(* nothing to do.  The queue is taken as a whole, so its order does not    *)
(* matter and it is the set of callers in state "pending".                 *)
(*                                                                         *)
(* Waking up without being notified is left out: the wait has a predicate, *)
(* which sends the thread back to sleep.                                   *)
(***************************************************************************)
CONSTANTS
  Callers,  \* threads that put
  Stopper   \* the thread that runs the destructor

VARIABLES
  req,       \* [Callers -> the state of the caller's request]
  notify,    \* those who have yet to call notify_one
  stopping,  \* stopping_
  thread     \* where the worker thread is

tvars == <<req, notify, stopping, thread>>

Request == {"none", "pending", "active", "ok", "failed"}

Pending == {c \in Callers : req[c] = "pending"}  \* pending_
Active == {c \in Callers : req[c] = "active"}    \* active_

\* A process starts with a transport nobody has used yet.
Init ==
  /\ req = [c \in Callers |-> "none"]
  /\ notify = {}
  /\ stopping = FALSE
  /\ thread = "init"

-----------------------------------------------------------------------------
(***************************************************************************)
(* The callers: put in three steps, and the destructor in two.             *)
(***************************************************************************)

\* Under the lock.  A transport that is stopping throws instead.
Push(c) ==
  /\ req[c] = "none" /\ ~stopping
  /\ req' = [req EXCEPT ![c] = "pending"]
  /\ notify' = notify \cup {c}
  /\ UNCHANGED <<stopping, thread>>

\* notify_one, after the lock is released.
Notify(c) ==
  /\ c \in notify
  /\ notify' = notify \ {c}
  /\ thread' = IF thread = "asleep" THEN "wait" ELSE thread
  /\ UNCHANGED <<req, stopping>>

\* result.get() returns or throws.
Take(c) ==
  /\ c \notin notify
  /\ req[c] \in {"ok", "failed"}
  /\ req' = [req EXCEPT ![c] = "none"]
  /\ UNCHANGED <<notify, stopping, thread>>

Stop ==
  /\ ~stopping
  /\ stopping' = TRUE
  /\ notify' = notify \cup {Stopper}
  /\ UNCHANGED <<req, thread>>

-----------------------------------------------------------------------------
(***************************************************************************)
(* The thread.                                                             *)
(***************************************************************************)

Fail(cs) == [c \in Callers |-> IF c \in cs THEN "failed" ELSE req[c]]

InitMulti == thread = "init" /\ thread' = "add" /\ UNCHANGED <<req, notify, stopping>>

\* curl_multi_init fails: the requests so far fail, later ones are refused.
InitFails ==
  /\ thread = "init"
  /\ thread' = "down" /\ stopping' = TRUE
  /\ req' = Fail(Pending)
  /\ UNCHANGED notify

AddPendingDropsBad(bad) ==
  /\ thread = "add" /\ bad \subseteq Pending
  /\ req' = [c \in Callers |-> IF c \in bad THEN "none"
                               ELSE IF c \in Pending THEN "active" ELSE req[c]]
  /\ thread' = "perform"
  /\ UNCHANGED <<notify, stopping>>

\* Requests whose curl handle cannot be set up are answered at once.
AddPending(bad) ==
  /\ thread = "add" /\ bad \subseteq Pending
  /\ req' = [c \in Callers |-> IF c \in bad THEN "failed"
                               ELSE IF c \in Pending THEN "active" ELSE req[c]]
  /\ thread' = "perform"
  /\ UNCHANGED <<notify, stopping>>

\* Where the thread goes at the end of an iteration in which the requests
\* have become r: out, to poll and around again, or to wait.  Nobody can push
\* between the break and the last failAll, which has nothing left to fail.
AfterRound(r) ==
  LET busy == \E c \in Callers : r[c] \in {"pending", "active"}
  IN IF busy THEN "add" ELSE IF stopping THEN "down" ELSE "wait"

\* curl_multi_perform, collectCompleted for the transfers that have ended, and
\* the look at the queue that ends the iteration.
Perform(done, ok) ==
  /\ thread = "perform"
  /\ done \subseteq Active /\ ok \subseteq done
  /\ req' = [c \in Callers |-> IF c \notin done THEN req[c]
                               ELSE IF c \in ok THEN "ok" ELSE "failed"]
  /\ thread' = AfterRound(req')
  /\ UNCHANGED <<notify, stopping>>

\* As if the thread trusted what it saw before it released the lock.
WaitWithoutPredicate ==
  /\ thread = "wait"
  /\ thread' = "asleep"
  /\ UNCHANGED <<req, notify, stopping>>

\* condition_.wait takes the lock again and looks at the predicate.
Wait ==
  /\ thread = "wait"
  /\ thread' = IF stopping \/ Pending # {} THEN "add" ELSE "asleep"
  /\ UNCHANGED <<req, notify, stopping>>

\* The process ends, and a later one begins with a new transport.
Die ==
  /\ req' = [c \in Callers |-> "none"]
  /\ notify' = {} /\ stopping' = FALSE /\ thread' = "init"

Next ==
  \/ \E c \in Callers : Push(c) \/ Take(c)
  \/ \E c \in Callers \cup {Stopper} : Notify(c)
  \/ Stop \/ InitMulti \/ InitFails \/ Wait \/ Die
  \/ \E bad \in SUBSET Pending : AddPending(bad)
  \/ \E done \in SUBSET Active : \E ok \in SUBSET done : Perform(done, ok)

Spec == Init /\ [][Next]_tvars

-----------------------------------------------------------------------------
TypeOK ==
  /\ req \in [Callers -> Request]
  /\ notify \subseteq Callers \cup {Stopper}
  /\ stopping \in BOOLEAN
  /\ thread \in {"init", "add", "perform", "wait", "asleep", "down"}

\* A request in the hands of the transport is waiting for its answer.
putState ==
  [c \in Callers |-> IF req[c] \in {"pending", "active"} THEN "waiting" ELSE req[c]]

Puts == INSTANCE StoragePuts WITH put <- putState

\* Nothing is left behind by the thread: it is gone only when no request is,
\* and asleep with a request waiting only if its caller is about to notify.
NobodyForgotten ==
  /\ thread = "down" => stopping /\ Pending = {} /\ Active = {}
  /\ thread \in {"init", "wait", "asleep"} => Active = {}
  /\ thread = "asleep" => Pending \subseteq notify
  /\ thread = "asleep" /\ stopping => Stopper \in notify
=============================================================================
