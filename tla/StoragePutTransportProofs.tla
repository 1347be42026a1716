---------------------- MODULE StoragePutTransportProofs ----------------------
(***************************************************************************)
(* The transport keeps its promise for every number of callers: it forgets *)
(* no request, and seen from its callers it is StoragePuts.                *)
(***************************************************************************)
EXTENDS StoragePutTransport, TLAPS

IInv == TypeOK /\ NobodyForgotten

LEMMA InitIInv == Init => IInv
  BY DEF Init, IInv, TypeOK, NobodyForgotten, Pending, Active, Request

LEMMA NextTypeOK == TypeOK /\ [Next]_tvars => TypeOK'
<1> SUFFICES ASSUME TypeOK, [Next]_tvars PROVE TypeOK'
    OBVIOUS
<1> USE DEF TypeOK, Request
<1>1. ASSUME NEW c \in Callers, Push(c) \/ Take(c) PROVE TypeOK'
      BY <1>1 DEF Push, Take
<1>2. ASSUME NEW c \in Callers \cup {Stopper}, Notify(c) PROVE TypeOK'
      BY <1>2 DEF Notify
<1>3. CASE Stop BY <1>3 DEF Stop
<1>4. CASE InitMulti BY <1>4 DEF InitMulti
<1>5. CASE InitFails BY <1>5 DEF InitFails, Fail, Pending
<1>6. CASE Wait BY <1>6 DEF Wait
<1>7. CASE Die BY <1>7 DEF Die
<1>8. ASSUME NEW bad \in SUBSET Pending, AddPending(bad) PROVE TypeOK'
      BY <1>8 DEF AddPending, Pending
<1>9. ASSUME NEW done \in SUBSET Active, NEW ok \in SUBSET done, Perform(done, ok)
      PROVE TypeOK'
      BY <1>9 DEF Perform, AfterRound, Active
<1>10. CASE UNCHANGED tvars BY <1>10 DEF tvars
<1> QED BY <1>1, <1>2, <1>3, <1>4, <1>5, <1>6, <1>7, <1>8, <1>9, <1>10 DEF Next

LEMMA NextNobodyForgotten == IInv /\ [Next]_tvars => NobodyForgotten'
<1> SUFFICES ASSUME IInv, [Next]_tvars PROVE NobodyForgotten'
    OBVIOUS
<1> USE DEF IInv, TypeOK, NobodyForgotten, Pending, Active, Request
<1>1. ASSUME NEW c \in Callers, Push(c) \/ Take(c) PROVE NobodyForgotten'
      BY <1>1 DEF Push, Take
<1>2. ASSUME NEW c \in Callers \cup {Stopper}, Notify(c) PROVE NobodyForgotten'
      BY <1>2 DEF Notify
<1>3. CASE Stop BY <1>3 DEF Stop
<1>4. CASE InitMulti BY <1>4 DEF InitMulti
<1>5. CASE InitFails BY <1>5 DEF InitFails, Fail
<1>6. CASE Wait BY <1>6 DEF Wait
<1>7. CASE Die BY <1>7 DEF Die
<1>8. ASSUME NEW bad \in SUBSET Pending, AddPending(bad) PROVE NobodyForgotten'
      BY <1>8 DEF AddPending
<1>9. ASSUME NEW done \in SUBSET Active, NEW ok \in SUBSET done, Perform(done, ok)
      PROVE NobodyForgotten'
      BY <1>9 DEF Perform, AfterRound
<1>10. CASE UNCHANGED tvars BY <1>10 DEF tvars
<1> QED BY <1>1, <1>2, <1>3, <1>4, <1>5, <1>6, <1>7, <1>8, <1>9, <1>10 DEF Next

\* The thread leaves no request behind, whatever the order of pushes,
\* notifications and the destructor (StoragePutTransport::run and put): it is
\* gone, or asleep with nobody about to wake it, only when no request is left.
THEOREM NothingLeftBehind == Spec => []NobodyForgotten
<1>1. IInv /\ [Next]_tvars => IInv'
      BY NextTypeOK, NextNobodyForgotten DEF IInv
<1>2. IInv => NobodyForgotten
      BY DEF IInv
<1> QED BY InitIInv, <1>1, <1>2, PTL DEF Spec

-----------------------------------------------------------------------------
\* Every step of the transport is one of StoragePuts for the callers, or none.
LEMMA StepRefines == TypeOK /\ [Next]_tvars => [Puts!Next]_putState
<1> SUFFICES ASSUME TypeOK, [Next]_tvars PROVE [Puts!Next]_putState
    OBVIOUS
<1> USE DEF TypeOK, Request, putState
<1>1. ASSUME NEW c \in Callers, Push(c) PROVE Puts!Submit(c)
      BY <1>1 DEF Push, Puts!Submit
<1>2. ASSUME NEW c \in Callers, Take(c) PROVE Puts!Take(c)
      BY <1>2 DEF Take, Puts!Take
<1>3. ASSUME NEW c \in Callers \cup {Stopper}, Notify(c) PROVE UNCHANGED putState
      BY <1>3 DEF Notify
<1>4. CASE Stop BY <1>4 DEF Stop
<1>5. CASE InitMulti BY <1>5 DEF InitMulti
<1>6. CASE InitFails
      <2>1. Puts!Answer BY <1>6 DEF InitFails, Fail, Pending, Puts!Answer
      <2> QED BY <2>1 DEF Puts!Next
<1>7. CASE Wait BY <1>7 DEF Wait
<1>8. CASE Die
      <2>1. Puts!Die BY <1>8 DEF Die, Puts!Die
      <2> QED BY <2>1 DEF Puts!Next
<1>9. ASSUME NEW bad \in SUBSET Pending, AddPending(bad) PROVE Puts!Answer
      BY <1>9 DEF AddPending, Pending, Puts!Answer
<1>10. ASSUME NEW done \in SUBSET Active, NEW ok \in SUBSET done, Perform(done, ok)
       PROVE Puts!Answer
       BY <1>10 DEF Perform, Active, Puts!Answer
<1>11. CASE UNCHANGED tvars BY <1>11 DEF tvars
<1> QED BY <1>1, <1>2, <1>3, <1>4, <1>5, <1>6, <1>7, <1>8, <1>9, <1>10, <1>11
        DEF Next, Puts!Next

\* The transport implements StoragePuts: a put that was handed over is answered
\* once, with a result or an error, and its caller gets on only then.
THEOREM TransportImplementsPuts == Spec => Puts!Spec
<1>1. Init => Puts!Init
      BY DEF Init, Puts!Init, putState
<1>2. Init => TypeOK
      BY InitIInv DEF IInv
<1> QED BY <1>1, <1>2, NextTypeOK, StepRefines, PTL DEF Spec, Puts!Spec
=============================================================================
