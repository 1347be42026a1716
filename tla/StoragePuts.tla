----------------------------- MODULE StoragePuts -----------------------------
(***************************************************************************)
(* What StoragePutTransport::put promises to its callers, each a thread    *)
(* that has at most one put under way: a body handed over is answered      *)
(* once, with the result of the transfer or with an error, and a caller    *)
(* gets on only with its answer.                                           *)
(***************************************************************************)
CONSTANT Callers

VARIABLE put  \* [Callers -> the state of the caller's put]

Init == put = [c \in Callers |-> "none"]

Submit(c) == put[c] = "none" /\ put' = [put EXCEPT ![c] = "waiting"]

\* One or several transfers have ended.
Answer ==
  /\ put' \in [Callers -> {"none", "waiting", "ok", "failed"}]
  /\ \A c \in Callers :
       put'[c] = put[c] \/ (put[c] = "waiting" /\ put'[c] \in {"ok", "failed"})

Take(c) == put[c] \in {"ok", "failed"} /\ put' = [put EXCEPT ![c] = "none"]

\* The process ends; its threads end with it.
Die == put' = [c \in Callers |-> "none"]

Next ==
  \/ \E c \in Callers : Submit(c) \/ Take(c)
  \/ Answer \/ Die

Spec == Init /\ [][Next]_put
=============================================================================
