-------------------------- MODULE SourceGateProofs --------------------------
(***************************************************************************)
(* The gate of SourceGate for any finite number of polls and diagnostics:  *)
(* exclusion, the counter, no lost wake-up, and that it implements         *)
(* SourceAccess.                                                           *)
(***************************************************************************)
EXTENDS SourceGate, FiniteSetTheorems, TLAPS

USE SourceGateAssumption DEF SourceGateAssumption

\* Where the two kinds of callers may stand.
PointsInv ==
    /\ \A n \in Normals : pc[n] # "settled"
    /\ \A d \in Diagnostics : pc[d] # "quit"

\* The flag says whether somebody is inside, and cancelDiagnostic whether it is a diagnostic.
OccupantInv ==
    /\ \A c \in Callers : Inside(c) => active
    /\ \A d \in Diagnostics : Inside(d) <=> cancellable = d
    /\ Exclusive

QueuedNormals == {n \in Normals : Queued(n)}

IInv == /\ TypeOK /\ PointsInv /\ OccupantInv
        /\ WaitersCounted /\ NoLostWakeup /\ PreemptionIsTold

-----------------------------------------------------------------------------
(* The counter *)

LEMMA QueuedFinite == IsFiniteSet(QueuedNormals)
<1>1. QueuedNormals \subseteq Normals
  BY DEF QueuedNormals
<1>2. QED
  BY <1>1, FS_Subset

\* The counter follows when one normal call enters or leaves the queue.
LEMMA CountFollows ==
    ASSUME TypeOK, WaitersCounted, NEW n \in Normals, NEW x, pc' = [pc EXCEPT ![n] = x],
           normalWaiters' = IF x \in {"wait", "retry", "quit"}
                            THEN IF Queued(n) THEN normalWaiters ELSE normalWaiters + 1
                            ELSE IF Queued(n) THEN normalWaiters - 1 ELSE normalWaiters
    PROVE  WaitersCounted' /\ normalWaiters' \in Nat
<1>0. /\ pc \in [Callers -> Points] /\ n \in Callers /\ normalWaiters \in Nat
      /\ normalWaiters = Cardinality(QueuedNormals)
  BY DEF TypeOK, WaitersCounted, Callers, QueuedNormals
<1>1. IsFiniteSet(QueuedNormals) /\ (n \in QueuedNormals <=> Queued(n))
  BY QueuedFinite DEF QueuedNormals
<1>2. \A m \in Normals : m # n => pc'[m] = pc[m]
  BY <1>0 DEF Callers
<1>3. pc'[n] = x
  BY <1>0
<1>4. CASE x \in {"wait", "retry", "quit"}
  <2>1. QueuedNormals' = QueuedNormals \cup {n}
    BY <1>2, <1>3, <1>4 DEF QueuedNormals, Queued
  <2>2. Cardinality(QueuedNormals') = normalWaiters'
    BY <1>0, <1>1, <1>4, <2>1, FS_AddElement
  <2>3. QED
    BY <1>0, <1>4, <2>2 DEF WaitersCounted, QueuedNormals
<1>5. CASE x \notin {"wait", "retry", "quit"}
  <2>1. QueuedNormals' = QueuedNormals \ {n}
    BY <1>2, <1>3, <1>5 DEF QueuedNormals, Queued
  <2>2. Cardinality(QueuedNormals') = normalWaiters' /\ IsFiniteSet(QueuedNormals \ {n})
    BY <1>0, <1>1, <1>5, <2>1, FS_RemoveElement
  <2>3. Cardinality(QueuedNormals') \in Nat
    BY <2>1, <2>2, FS_CardinalityType
  <2>4. QED
    BY <2>2, <2>3 DEF WaitersCounted, QueuedNormals
<1>6. QED
  BY <1>4, <1>5

\* Diagnostics do not count.
LEMMA CountStays ==
    ASSUME TypeOK, WaitersCounted, NEW d \in Diagnostics, NEW x, pc' = [pc EXCEPT ![d] = x],
           normalWaiters' = normalWaiters
    PROVE  WaitersCounted'
<1>1. \A m \in Normals : pc'[m] = pc[m]
  BY DEF TypeOK, Callers
<1>2. QueuedNormals' = QueuedNormals
  BY <1>1 DEF QueuedNormals, Queued
<1>3. QED
  BY <1>2 DEF WaitersCounted, QueuedNormals

\* A zero counter means that no normal call is queued.
LEMMA NoneQueued ==
    ASSUME TypeOK, WaitersCounted
    PROVE  normalWaiters > 0 <=> \E n \in Normals : Queued(n)
<1>1. normalWaiters = Cardinality(QueuedNormals) /\ IsFiniteSet(QueuedNormals)
  BY QueuedFinite DEF WaitersCounted, QueuedNormals
<1>2. Cardinality(QueuedNormals) = 0 <=> QueuedNormals = {}
  BY <1>1, FS_EmptySet
<1>3. normalWaiters \in Nat
  BY DEF TypeOK
<1>4. QED
  BY <1>1, <1>2, <1>3 DEF QueuedNormals

-----------------------------------------------------------------------------
(* The inductive invariant *)

LEMMA GateInit == Init => IInv
<1> SUFFICES ASSUME Init PROVE IInv
  OBVIOUS
<1>1. TypeOK /\ PointsInv /\ OccupantInv /\ NoLostWakeup /\ PreemptionIsTold
  BY DEF Init, TypeOK, PointsInv, OccupantInv, Exclusive, NoLostWakeup, PreemptionIsTold, Inside,
         Queued, Points, Callers
<1>2. QueuedNormals = {}
  BY DEF Init, QueuedNormals, Queued, Callers
<1>3. WaitersCounted
  BY <1>2, FS_EmptySet DEF Init, WaitersCounted, QueuedNormals
<1>4. QED
  BY <1>1, <1>3 DEF IInv

\* Leaving the source.
LEMMA ReleaseKeeps ==
    ASSUME IInv, NEW c \in Callers, Inside(c), Release(c), UNCHANGED <<cause, result, normalWaiters>>
    PROVE  IInv'
<1>1. /\ pc' = [pc EXCEPT ![c] = "idle"] /\ active' = FALSE /\ cancellable' = "none"
      /\ woken' = woken \cup {e \in Callers : pc[e] = "wait"}
  BY DEF Release, Goto, Signal
<1>2. TypeOK' /\ PointsInv'
  BY <1>1 DEF IInv, TypeOK, PointsInv, Points, Callers
<1>3. \A e \in Callers : ~Inside(e)'
  BY <1>1 DEF IInv, TypeOK, OccupantInv, Exclusive, Inside
<1>4. OccupantInv'
  BY <1>1, <1>3 DEF OccupantInv, Exclusive, Callers
<1>5. WaitersCounted'
  <2>1. CASE c \in Normals
    BY <1>1, <2>1, CountFollows DEF IInv, Inside, Queued
  <2>2. CASE c \in Diagnostics
    BY <1>1, <2>2, CountStays DEF IInv
  <2>3. QED
    BY <2>1, <2>2 DEF Callers
<1>6. NoLostWakeup'
  BY <1>1 DEF IInv, TypeOK, NoLostWakeup
<1>7. PreemptionIsTold'
  BY <1>3 DEF PreemptionIsTold, Inside, Callers
<1>8. QED
  BY <1>2, <1>4, <1>5, <1>6, <1>7 DEF IInv

\* A caller parks while the source is taken or, for a diagnostic, held back.
LEMMA ParkKeeps ==
    ASSUME IInv, NEW c \in Callers, ~Inside(c), Park(c), UNCHANGED <<active, cancellable>>,
           cause' \in [Diagnostics -> {"none", "preempted", "context"}],
           result' \in [Diagnostics -> {"none", "snapshot", "error", "preempted", "context"}],
           WaitersCounted', normalWaiters' \in Nat,
           active \/ (c \in Diagnostics /\ normalWaiters' > 0 /\ normalWaiters' = normalWaiters),
           \A d \in Diagnostics : Inside(d) /\ (c \in Normals \/ cause[d] # "none") => cause'[d] # "none"
    PROVE  IInv'
<1>1. pc' = [pc EXCEPT ![c] = "wait"] /\ woken' = woken \ {c}
  BY DEF Park, Goto
<1>2. TypeOK' /\ PointsInv'
  BY <1>1 DEF IInv, TypeOK, PointsInv, Points, Callers
<1>3. \A e \in Callers : Inside(e)' <=> Inside(e)
  BY <1>1 DEF IInv, TypeOK, Inside
<1>4. OccupantInv'
  BY <1>3 DEF IInv, OccupantInv, Exclusive, Callers
<1>5. NoLostWakeup'
  <2>1. CASE active
    BY <2>1 DEF NoLostWakeup
  <2>2. CASE ~active
    <3>1. c \in Diagnostics /\ normalWaiters' > 0 /\ normalWaiters' = normalWaiters
      BY <2>2
    <3>2. c \notin Normals
      BY <3>1
    <3>3. QED
      BY <1>1, <3>1, <3>2 DEF IInv, TypeOK, NoLostWakeup
  <2>3. QED
    BY <2>1, <2>2
<1>6. PreemptionIsTold'
  <2> SUFFICES ASSUME NEW d \in Diagnostics, Inside(d)', NEW n \in Normals, Queued(n)'
               PROVE  cause'[d] # "none"
    BY DEF PreemptionIsTold
  <2>1. Inside(d)
    BY <1>3 DEF Callers
  <2>2. CASE c \in Normals
    BY <2>1, <2>2
  <2>3. CASE c \in Diagnostics
    <3>1. Queued(n)
      BY <1>1, <2>3 DEF IInv, TypeOK, Queued, Callers
    <3>2. QED
      BY <2>1, <3>1 DEF IInv, PreemptionIsTold
  <2>4. QED
    BY <2>2, <2>3 DEF Callers
<1>7. QED
  BY <1>2, <1>4, <1>5, <1>6 DEF IInv

\* A caller takes the free source.
LEMMA OccupyKeeps ==
    ASSUME IInv, NEW c \in Callers, ~active, Occupy(c), UNCHANGED woken,
           cause' \in [Diagnostics -> {"none", "preempted", "context"}],
           result' \in [Diagnostics -> {"none", "snapshot", "error", "preempted", "context"}],
           WaitersCounted', normalWaiters' \in Nat,
           c \in Diagnostics => normalWaiters = 0
    PROVE  IInv'
<1>1. /\ pc' = [pc EXCEPT ![c] = "fetch"] /\ active' = TRUE
      /\ cancellable' = IF c \in Diagnostics THEN c ELSE "none"
  BY DEF Occupy, Goto
<1>2. TypeOK' /\ PointsInv'
  BY <1>1 DEF IInv, TypeOK, PointsInv, Points, Callers
<1>3. \A e \in Callers : Inside(e)' <=> e = c
  BY <1>1 DEF IInv, TypeOK, OccupantInv, Inside
<1>4. OccupantInv'
  BY <1>1, <1>3 DEF OccupantInv, Exclusive, Callers
<1>5. NoLostWakeup'
  BY <1>1 DEF NoLostWakeup
<1>6. PreemptionIsTold'
  <2> SUFFICES ASSUME NEW d \in Diagnostics, Inside(d)', NEW n \in Normals, Queued(n)'
               PROVE  FALSE
    BY DEF PreemptionIsTold
  <2>1. d = c /\ n # c
    BY <1>3 DEF Inside, Callers
  <2>2. Queued(n)
    BY <1>1, <2>1 DEF IInv, TypeOK, Queued, Callers
  <2>3. QED
    BY <2>1, <2>2, NoneQueued DEF IInv, TypeOK
<1>7. QED
  BY <1>2, <1>4, <1>5, <1>6 DEF IInv

LEMMA NormalTryKeeps ==
    ASSUME IInv, NEW n \in Normals, pc[n] \in {"idle", "retry"}, UNCHANGED result,
           NormalTry(n, IF Queued(n) THEN normalWaiters ELSE normalWaiters + 1)
    PROVE  IInv'
<1>1. n \in Callers /\ ~Inside(n) /\ n \notin Diagnostics
  BY DEF Callers, Inside
<1>2. CASE active
  <2>1. /\ Park(n) /\ Preempt /\ UNCHANGED <<active, cancellable>>
        /\ normalWaiters' = IF Queued(n) THEN normalWaiters ELSE normalWaiters + 1
    BY <1>2 DEF NormalTry
  <2>2. WaitersCounted' /\ normalWaiters' \in Nat
    BY <2>1, CountFollows DEF Park, Goto, IInv
  <2>3. cause' \in [Diagnostics -> {"none", "preempted", "context"}]
    BY <2>1 DEF Preempt, IInv, TypeOK
  <2>4. \A d \in Diagnostics : Inside(d) => cause'[d] # "none"
    BY <2>1 DEF Preempt, IInv, TypeOK, OccupantInv
  <2>5. QED
    BY <1>1, <1>2, <2>1, <2>2, <2>3, <2>4, ParkKeeps DEF IInv, TypeOK
<1>3. CASE ~active
  <2>1. /\ Occupy(n) /\ UNCHANGED <<woken, cause>>
        /\ normalWaiters' = (IF Queued(n) THEN normalWaiters ELSE normalWaiters + 1) - 1
    BY <1>3 DEF NormalTry
  <2>2. normalWaiters' = IF Queued(n) THEN normalWaiters - 1 ELSE normalWaiters
    BY <2>1 DEF IInv, TypeOK
  <2>3. WaitersCounted' /\ normalWaiters' \in Nat
    BY <2>1, <2>2, CountFollows DEF Occupy, Goto, IInv
  <2>4. QED
    BY <1>1, <1>3, <2>1, <2>3, OccupyKeeps DEF IInv, TypeOK
<1>4. QED
  BY <1>2, <1>3

LEMMA DiagnosticTryKeeps ==
    ASSUME IInv, NEW d \in Diagnostics, pc[d] \in {"idle", "retry"}, DiagnosticTry(d),
           \A e \in Diagnostics \ {d} : cause'[e] = cause[e],
           cause' \in [Diagnostics -> {"none", "preempted", "context"}],
           result' \in [Diagnostics -> {"none", "snapshot", "error", "preempted", "context"}]
    PROVE  IInv'
<1>1. d \in Callers /\ ~Inside(d) /\ d \notin Normals /\ normalWaiters \in Nat
  BY DEF Callers, Inside, IInv, TypeOK
<1>2. CASE active \/ normalWaiters > 0
  <2>1. Park(d) /\ UNCHANGED <<active, cancellable, normalWaiters>>
    BY <1>2 DEF DiagnosticTry
  <2>2. WaitersCounted'
    BY <2>1, CountStays DEF Park, Goto, IInv
  <2>3. QED
    BY <1>1, <1>2, <2>1, <2>2, ParkKeeps
<1>3. CASE ~active /\ normalWaiters = 0
  <2>1. Occupy(d) /\ UNCHANGED <<woken, normalWaiters>>
    BY <1>3 DEF DiagnosticTry
  <2>2. WaitersCounted'
    BY <2>1, CountStays DEF Occupy, Goto, IInv
  <2>3. QED
    BY <1>1, <1>3, <2>1, <2>2, OccupyKeeps
<1>4. QED
  BY <1>1, <1>2, <1>3, <1>1

LEMMA GateStep == IInv /\ [Next]_vars => IInv'
<1> SUFFICES ASSUME IInv, [Next]_vars PROVE IInv'
  OBVIOUS
<1>0. /\ pc \in [Callers -> Points] /\ normalWaiters \in Nat
      /\ cause \in [Diagnostics -> {"none", "preempted", "context"}]
      /\ result \in [Diagnostics -> {"none", "snapshot", "error", "preempted", "context"}]
  BY DEF IInv, TypeOK
<1>1. ASSUME NEW n \in Normals, NormalStep(n) PROVE IInv'
  <2>0. n \in Callers /\ n \notin Diagnostics
    BY DEF Callers
  <2>1. CASE NormalArrive(n)
    BY <2>1, NormalTryKeeps DEF NormalArrive, Queued
  <2>2. CASE NormalRetry(n)
    BY <2>2, NormalTryKeeps DEF NormalRetry, Queued
  <2>3. CASE NormalWakes(n) \/ NormalCancelled(n)
    <3>1. PICK x \in {"retry", "quit"} : pc' = [pc EXCEPT ![n] = x]
      BY <2>3 DEF NormalWakes, NormalCancelled, Goto
    <3>2. pc[n] = "wait" /\ UNCHANGED <<active, cancellable, normalWaiters, woken, cause, result>>
      BY <2>3 DEF NormalWakes, NormalCancelled
    <3>3. WaitersCounted'
      BY <3>1, <3>2, CountFollows DEF IInv, Queued
    <3>4. QED
      BY <1>0, <2>0, <3>1, <3>2, <3>3 DEF IInv, TypeOK, PointsInv, OccupantInv, Exclusive,
           NoLostWakeup, PreemptionIsTold, Inside, Queued, Points, Callers
  <2>4. CASE NormalQuits(n)
    <3>1. /\ pc[n] = "quit" /\ pc' = [pc EXCEPT ![n] = "idle"] /\ normalWaiters' = normalWaiters - 1
          /\ woken' = woken \cup {e \in Callers : pc[e] = "wait"}
          /\ UNCHANGED <<active, cancellable, cause, result>>
      BY <2>4 DEF NormalQuits, Goto, Signal
    <3>2. WaitersCounted' /\ normalWaiters' \in Nat
      BY <3>1, CountFollows DEF IInv, Queued
    <3>3. QED
      BY <1>0, <2>0, <3>1, <3>2 DEF IInv, TypeOK, PointsInv, OccupantInv, Exclusive,
           NoLostWakeup, PreemptionIsTold, Inside, Queued, Points, Callers
  <2>5. CASE NormalReturns(n)
    BY <2>0, <2>5, ReleaseKeeps DEF NormalReturns, Inside
  <2>6. QED
    BY <1>1, <2>1, <2>2, <2>3, <2>4, <2>5 DEF NormalStep
<1>2. ASSUME NEW d \in Diagnostics, DiagnosticStep(d) PROVE IInv'
  <2>0. d \in Callers /\ d \notin Normals
    BY DEF Callers
  <2>1. CASE DiagnosticArrive(d)
    BY <1>0, <2>1, DiagnosticTryKeeps DEF DiagnosticArrive
  <2>2. CASE DiagnosticRetry(d)
    BY <1>0, <2>2, DiagnosticTryKeeps DEF DiagnosticRetry
  <2>3. CASE DiagnosticExpires(d)
    <3>1. UNCHANGED <<active, cancellable, normalWaiters, pc, woken, result>>
          /\ cause' = [cause EXCEPT ![d] = "context"]
      BY <2>3 DEF DiagnosticExpires
    <3>2. QED
      BY <1>0, <3>1 DEF IInv, TypeOK, PointsInv, OccupantInv, Exclusive, WaitersCounted,
           NoLostWakeup, PreemptionIsTold, Inside, Queued
  <2>4. CASE DiagnosticWithdraws(d) \/ DiagnosticWakes(d)
    <3>1. PICK x \in {"idle", "retry"} : pc' = [pc EXCEPT ![d] = x]
      BY <2>4 DEF DiagnosticWithdraws, DiagnosticWakes, Goto
    <3>2. /\ pc[d] = "wait" /\ UNCHANGED <<active, cancellable, normalWaiters, woken, cause>>
          /\ result' \in [Diagnostics -> {"none", "snapshot", "error", "preempted", "context"}]
      BY <1>0, <2>4 DEF DiagnosticWithdraws, DiagnosticWakes
    <3>3. WaitersCounted'
      BY <3>1, <3>2, CountStays DEF IInv
    <3>4. QED
      BY <1>0, <2>0, <3>1, <3>2, <3>3 DEF IInv, TypeOK, PointsInv, OccupantInv, Exclusive,
           NoLostWakeup, PreemptionIsTold, Inside, Queued, Points, Callers
  <2>5. CASE DiagnosticReturns(d)
    <3>1. /\ pc[d] = "fetch" /\ pc' = [pc EXCEPT ![d] = "settled"]
          /\ UNCHANGED <<active, cancellable, normalWaiters, woken, cause>>
          /\ result' \in [Diagnostics -> {"none", "snapshot", "error", "preempted", "context"}]
      BY <1>0, <2>5 DEF DiagnosticReturns, Goto
    <3>2. WaitersCounted'
      BY <3>1, CountStays DEF IInv
    <3>3. QED
      BY <1>0, <2>0, <3>1, <3>2 DEF IInv, TypeOK, PointsInv, OccupantInv, Exclusive,
           NoLostWakeup, PreemptionIsTold, Inside, Queued, Points, Callers
  <2>6. CASE DiagnosticLeaves(d)
    BY <2>0, <2>6, ReleaseKeeps DEF DiagnosticLeaves, Inside
  <2>7. QED
    BY <1>2, <2>1, <2>2, <2>3, <2>4, <2>5, <2>6 DEF DiagnosticStep
<1>3. CASE UNCHANGED vars
  BY <1>3 DEF vars, IInv, TypeOK, PointsInv, OccupantInv, Exclusive, WaitersCounted, NoLostWakeup,
       PreemptionIsTold, Inside, Queued
<1>4. QED
  BY <1>1, <1>2, <1>3 DEF Next

LEMMA GateInvariant == Spec => []IInv
BY GateInit, GateStep, PTL DEF Spec

\* One Fetch at a time, for any number of callers.
THEOREM ExclusiveCorrect == Spec => []Exclusive
<1>1. IInv => Exclusive
  BY DEF IInv, OccupantInv
<1>2. QED
  BY <1>1, GateInvariant, PTL

\* The counter is the number of queued normal calls.
THEOREM WaitersCorrect == Spec => []WaitersCounted
<1>1. IInv => WaitersCounted
  BY DEF IInv
<1>2. QED
  BY <1>1, GateInvariant, PTL

\* No wake-up is lost.
THEOREM WakeupCorrect == Spec => []NoLostWakeup
<1>1. IInv => NoLostWakeup
  BY DEF IInv
<1>2. QED
  BY <1>1, GateInvariant, PTL

\* A diagnostic in the way of the poll has been told to stop.
THEOREM PreemptionCorrect == Spec => []PreemptionIsTold
<1>1. IInv => PreemptionIsTold
  BY DEF IInv
<1>2. QED
  BY <1>1, GateInvariant, PTL

-----------------------------------------------------------------------------
(* The refinement *)

\* The abstract state of a gate.
queuedBar == {c \in Callers : Queued(c)}
insideBar == {c \in Callers : Inside(c)}
spoiledBar == {d \in Diagnostics : Inside(d) /\ cause[d] # "none"}
yieldedBar == {d \in Diagnostics : result[d] \in {"snapshot", "error"}}

\* A diagnostic under way has no result yet.
ResultInv == \A d \in Diagnostics : pc[d] \in {"wait", "retry", "fetch"} => result[d] = "none"

LEMMA ResultStep == IInv /\ ResultInv /\ [Next]_vars => ResultInv'
<1> SUFFICES ASSUME IInv, ResultInv, [Next]_vars PROVE ResultInv'
  OBVIOUS
<1>0. /\ pc \in [Callers -> Points]
      /\ result \in [Diagnostics -> {"none", "snapshot", "error", "preempted", "context"}]
  BY DEF IInv, TypeOK
<1>1. ASSUME NEW n \in Normals, NormalStep(n) PROVE ResultInv'
  <2>1. PICK x : pc' = [pc EXCEPT ![n] = x]
    BY <1>1 DEF NormalStep, NormalArrive, NormalWakes, NormalRetry, NormalCancelled, NormalQuits,
         NormalReturns, NormalTry, Park, Occupy, Release, Goto
  <2>2. UNCHANGED result
    BY <1>1 DEF NormalStep, NormalArrive, NormalWakes, NormalRetry, NormalCancelled, NormalQuits,
         NormalReturns
  <2>3. QED
    BY <1>0, <2>1, <2>2 DEF ResultInv, Callers
<1>2. ASSUME NEW d \in Diagnostics, DiagnosticStep(d) PROVE ResultInv'
  <2>0. d \in Callers
    BY DEF Callers
  <2>1. \E x : pc' = [pc EXCEPT ![d] = x] \/ pc' = pc
    BY <1>2 DEF DiagnosticStep, DiagnosticArrive, DiagnosticExpires, DiagnosticWithdraws,
         DiagnosticWakes, DiagnosticRetry, DiagnosticReturns, DiagnosticLeaves, DiagnosticTry, Park,
         Occupy, Release, Goto
  <2>2. \E y : result' = [result EXCEPT ![d] = y] \/ result' = result
    BY <1>2 DEF DiagnosticStep, DiagnosticArrive, DiagnosticExpires, DiagnosticWithdraws,
         DiagnosticWakes, DiagnosticRetry, DiagnosticReturns, DiagnosticLeaves
  <2>3. \A e \in Diagnostics \ {d} : pc'[e] = pc[e] /\ result'[e] = result[e]
    BY <1>0, <2>1, <2>2 DEF Callers
  <2>4. pc'[d] \in {"wait", "retry", "fetch"} => result'[d] = "none"
    <3>1. CASE DiagnosticArrive(d)
      BY <1>0, <3>1 DEF DiagnosticArrive
    <3>2. CASE DiagnosticRetry(d) \/ DiagnosticExpires(d) \/ DiagnosticWakes(d)
      <4>1. result' = result /\ (pc[d] \in {"wait", "retry"} \/ pc' = pc)
        BY <3>2 DEF DiagnosticRetry, DiagnosticExpires, DiagnosticWakes
      <4>2. QED
        BY <4>1 DEF ResultInv
    <3>3. CASE DiagnosticWithdraws(d) \/ DiagnosticReturns(d) \/ DiagnosticLeaves(d)
      <4>1. pc'[d] \in {"idle", "settled"}
        BY <1>0, <2>0, <3>3 DEF DiagnosticWithdraws, DiagnosticReturns, DiagnosticLeaves, Release, Goto
      <4>2. QED
        BY <4>1
    <3>4. QED
      BY <1>2, <3>1, <3>2, <3>3 DEF DiagnosticStep
  <2>5. QED
    BY <2>3, <2>4 DEF ResultInv
<1>3. CASE UNCHANGED vars
  BY <1>3 DEF vars, ResultInv
<1>4. QED
  BY <1>1, <1>2, <1>3 DEF Next

LEMMA ResultInvariant == Spec => []ResultInv
<1>1. Init => ResultInv
  BY DEF Init, ResultInv, Callers
<1>2. QED
  BY <1>1, ResultStep, GateInvariant, PTL DEF Spec

LEMMA AccessInit == Init => Access!Init
BY DEF Init, Access!Init, Queued, Inside

\* Parking from outside the source is Ask, parking again changes nothing.
LEMMA ParkMaps ==
    ASSUME IInv, NEW c \in Callers, pc[c] \in {"idle", "retry"}, Park(c),
           \A d \in Diagnostics \ {c} :
             Inside(d) => (cause'[d] # "none" <=> (cause[d] # "none" \/ c \in Normals)),
           \A d \in Diagnostics \ {c} : result'[d] = result[d],
           c \in Diagnostics => result'[c] = IF pc[c] = "idle" THEN "none" ELSE result[c],
           pc[c] = "retry" /\ c \in Normals => \A d \in Diagnostics : Inside(d) => cause[d] # "none"
    PROVE  Access!Ask(c) \/ UNCHANGED Access!accessVars
<1>1. /\ pc' = [pc EXCEPT ![c] = "wait"]
      /\ \A e \in Callers : e # c => pc'[e] = pc[e]
      /\ pc'[c] = "wait" /\ ~Inside(c) /\ ~Inside(c)'
  BY DEF Park, Goto, IInv, TypeOK, Inside
<1>2. insideBar' = insideBar /\ c \notin insideBar
  BY <1>1 DEF insideBar, Inside
<1>3. queuedBar' = queuedBar \cup {c}
  BY <1>1 DEF queuedBar, Queued
<1>4. Normals \cap Diagnostics = {}
  OBVIOUS
<1>5. spoiledBar' = IF c \in Normals THEN insideBar \cap Diagnostics ELSE spoiledBar
  <2>1. \A d \in Diagnostics : Inside(d)' <=> Inside(d)
    BY <1>1 DEF Inside, Callers
  <2>2. QED
    BY <1>1, <1>4, <2>1 DEF spoiledBar, insideBar, Callers
<1>6. CASE pc[c] = "idle"
  <2>1. c \notin queuedBar \cup insideBar
    BY <1>6 DEF queuedBar, insideBar, Queued, Inside
  <2>2. yieldedBar' = yieldedBar \ {c}
    BY <1>4, <1>6 DEF yieldedBar
  <2>3. QED
    BY <1>2, <1>3, <1>5, <2>1, <2>2 DEF Access!Ask, queuedBar, insideBar, spoiledBar, yieldedBar
<1>7. CASE pc[c] = "retry"
  <2>1. queuedBar' = queuedBar
    BY <1>3, <1>7 DEF queuedBar, Queued
  <2>2. spoiledBar' = spoiledBar
    BY <1>5, <1>7 DEF spoiledBar, insideBar, Callers
  <2>3. yieldedBar' = yieldedBar
    BY <1>7 DEF yieldedBar
  <2>4. QED
    BY <1>2, <2>1, <2>2, <2>3 DEF Access!accessVars, queuedBar, insideBar, spoiledBar, yieldedBar
<1>8. QED
  BY <1>6, <1>7

\* Taking the free source is EnterAtOnce for a caller that arrives, EnterFromQueue for one
\* that waited.
LEMMA OccupyMaps ==
    ASSUME IInv, NEW c \in Callers, pc[c] \in {"idle", "retry"}, ~active, Occupy(c),
           \A d \in Diagnostics \ {c} : result'[d] = result[d],
           c \in Diagnostics => result'[c] = IF pc[c] = "idle" THEN "none" ELSE result[c],
           c \in Diagnostics => normalWaiters = 0
    PROVE  Access!EnterAtOnce(c) \/ Access!EnterFromQueue(c)
<1>1. /\ \A e \in Callers : e # c => pc'[e] = pc[e]
      /\ pc'[c] = "fetch"
  BY DEF Occupy, Goto, IInv, TypeOK
<1>2. insideBar = {} /\ insideBar' = {c}
  BY <1>1 DEF insideBar, Inside, IInv, OccupantInv
<1>3. queuedBar' = queuedBar \ {c}
  BY <1>1 DEF queuedBar, Queued
<1>4. spoiledBar' \in SUBSET ({c} \cap Diagnostics)
  BY <1>2 DEF spoiledBar, insideBar, Callers
<1>5. c \in Diagnostics => queuedBar \cap Normals = {}
  BY NoneQueued DEF IInv, TypeOK, queuedBar, Callers
<1>6. Access!Occupy(c)
  BY <1>2, <1>4 DEF Access!Occupy, insideBar, spoiledBar
<1>7. CASE pc[c] = "idle"
  <2>1. c \notin queuedBar
    BY <1>7 DEF queuedBar, Queued
  <2>2. yieldedBar' = yieldedBar \ {c}
    BY <1>7 DEF yieldedBar
  <2>3. QED
    BY <1>3, <1>5, <1>6, <2>1, <2>2 DEF Access!EnterAtOnce, queuedBar, yieldedBar
<1>8. CASE pc[c] = "retry"
  <2>1. c \in queuedBar
    BY <1>8 DEF queuedBar, Queued
  <2>2. yieldedBar' = yieldedBar
    BY <1>8 DEF yieldedBar
  <2>3. QED
    BY <1>3, <1>5, <1>6, <2>1, <2>2 DEF Access!EnterFromQueue, queuedBar, yieldedBar
<1>9. QED
  BY <1>7, <1>8

LEMMA ReleaseMaps ==
    ASSUME IInv, NEW c \in Callers, Inside(c), Release(c), UNCHANGED <<cause, result>>
    PROVE  Access!Exit(c)
<1>1. /\ \A e \in Callers : e # c => pc'[e] = pc[e]
      /\ pc'[c] = "idle"
  BY DEF Release, Goto, IInv, TypeOK
<1>2. c \in insideBar /\ insideBar' = {} /\ queuedBar' = queuedBar
  BY <1>1 DEF insideBar, queuedBar, Inside, Queued, IInv, OccupantInv, Exclusive
<1>3. spoiledBar' = {}
  BY <1>2 DEF spoiledBar, insideBar, Callers
<1>4. yieldedBar' = yieldedBar
  BY DEF yieldedBar
<1>5. QED
  BY <1>2, <1>3, <1>4 DEF Access!Exit, insideBar, queuedBar, spoiledBar, yieldedBar

\* A queued caller moves on within the queue, or leaves it without having entered.
LEMMA QueueMaps ==
    ASSUME IInv, NEW c \in Callers, Queued(c), NEW x \in {"idle", "retry", "quit"},
           pc' = [pc EXCEPT ![c] = x], UNCHANGED cause,
           \A d \in Diagnostics : result'[d] \in {"snapshot", "error"} <=> result[d] \in {"snapshot", "error"}
    PROVE  Access!Withdraw(c) \/ UNCHANGED Access!accessVars
<1>1. /\ \A e \in Callers : e # c => pc'[e] = pc[e]
      /\ pc'[c] = x
  BY DEF IInv, TypeOK
<1>2. c \in queuedBar /\ insideBar' = insideBar
  BY <1>1 DEF queuedBar, insideBar, Inside, Queued
<1>3. queuedBar' = IF x = "idle" THEN queuedBar \ {c} ELSE queuedBar
  BY <1>1 DEF queuedBar, Queued
<1>4. spoiledBar' = spoiledBar
  BY <1>1 DEF spoiledBar, Inside, Queued, Callers
<1>5. yieldedBar' = yieldedBar
  BY DEF yieldedBar
<1>6. QED
  BY <1>2, <1>3, <1>4, <1>5 DEF Access!Withdraw, Access!accessVars, queuedBar, insideBar, spoiledBar,
       yieldedBar

LEMMA NormalTryMaps ==
    ASSUME IInv, NEW n \in Normals, pc[n] \in {"idle", "retry"}, UNCHANGED result, NEW w,
           NormalTry(n, w)
    PROVE  Access!Next \/ UNCHANGED Access!accessVars
<1>0. n \in Callers /\ n \notin Diagnostics /\ n \in Access!Callers
  BY DEF Callers, Access!Callers
<1>1. CASE active
  <2>1. Park(n) /\ Preempt
    BY <1>1 DEF NormalTry
  <2>2. \A d \in Diagnostics : Inside(d) => cause'[d] # "none"
    BY <2>1 DEF Preempt, IInv, TypeOK, OccupantInv
  <2>3. pc[n] = "retry" => \A d \in Diagnostics : Inside(d) => cause[d] # "none"
    BY <1>0 DEF IInv, PreemptionIsTold, Queued
  <2>4. QED
    BY <1>0, <2>1, <2>2, <2>3, ParkMaps DEF Access!Next
<1>2. CASE ~active
  <2>1. Occupy(n)
    BY <1>2 DEF NormalTry
  <2>2. QED
    BY <1>0, <1>2, <2>1, OccupyMaps DEF Access!Next
<1>3. QED
  BY <1>1, <1>2

LEMMA DiagnosticTryMaps ==
    ASSUME IInv, NEW d \in Diagnostics, pc[d] \in {"idle", "retry"}, DiagnosticTry(d),
           \A e \in Diagnostics \ {d} : cause'[e] = cause[e] /\ result'[e] = result[e],
           result'[d] = IF pc[d] = "idle" THEN "none" ELSE result[d]
    PROVE  Access!Next \/ UNCHANGED Access!accessVars
<1>0. d \in Callers /\ d \notin Normals /\ d \in Access!Callers /\ normalWaiters \in Nat
  BY DEF Callers, Access!Callers, IInv, TypeOK
<1>1. CASE active \/ normalWaiters > 0
  <2>1. Park(d)
    BY <1>1 DEF DiagnosticTry
  <2>2. QED
    BY <1>0, <2>1, ParkMaps DEF Access!Next
<1>2. CASE ~active /\ normalWaiters = 0
  <2>1. Occupy(d)
    BY <1>2 DEF DiagnosticTry
  <2>2. QED
    BY <1>0, <1>2, <2>1, OccupyMaps DEF Access!Next
<1>3. QED
  BY <1>0, <1>1, <1>2

LEMMA AccessStep == IInv /\ ResultInv /\ [Next]_vars => [Access!Next]_Access!accessVars
<1> SUFFICES ASSUME IInv, ResultInv, [Next]_vars PROVE Access!Next \/ UNCHANGED Access!accessVars
  OBVIOUS
<1>0. result \in [Diagnostics -> {"none", "snapshot", "error", "preempted", "context"}]
      /\ cause \in [Diagnostics -> {"none", "preempted", "context"}]
  BY DEF IInv, TypeOK
<1>1. ASSUME NEW n \in Normals, NormalStep(n) PROVE Access!Next \/ UNCHANGED Access!accessVars
  <2>0. n \in Callers /\ n \in Access!Callers
    BY DEF Callers, Access!Callers
  <2>1. CASE NormalArrive(n) \/ NormalRetry(n)
    BY <2>1, NormalTryMaps DEF NormalArrive, NormalRetry
  <2>2. CASE NormalWakes(n) \/ NormalCancelled(n) \/ NormalQuits(n)
    <3>1. PICK x \in {"idle", "retry", "quit"} : pc' = [pc EXCEPT ![n] = x]
      BY <2>2 DEF NormalWakes, NormalCancelled, NormalQuits, Goto
    <3>2. Queued(n) /\ UNCHANGED <<cause, result>>
      BY <2>2 DEF NormalWakes, NormalCancelled, NormalQuits, Queued
    <3>3. QED
      BY <2>0, <3>1, <3>2, QueueMaps DEF Access!Next
  <2>3. CASE NormalReturns(n)
    BY <2>0, <2>3, ReleaseMaps DEF NormalReturns, Inside, Access!Next
  <2>4. QED
    BY <1>1, <2>1, <2>2, <2>3 DEF NormalStep
<1>2. ASSUME NEW d \in Diagnostics, DiagnosticStep(d) PROVE Access!Next \/ UNCHANGED Access!accessVars
  <2>0. d \in Callers /\ d \in Access!Callers
    BY DEF Callers, Access!Callers
  <2>1. CASE DiagnosticArrive(d) \/ DiagnosticRetry(d)
    <3>1. \A e \in Diagnostics \ {d} : cause'[e] = cause[e] /\ result'[e] = result[e]
      BY <1>0, <2>1 DEF DiagnosticArrive, DiagnosticRetry
    <3>2. result'[d] = IF pc[d] = "idle" THEN "none" ELSE result[d]
      BY <1>0, <2>1 DEF DiagnosticArrive, DiagnosticRetry
    <3>3. QED
      BY <2>1, <3>1, <3>2, DiagnosticTryMaps DEF DiagnosticArrive, DiagnosticRetry
  <2>2. CASE DiagnosticExpires(d)
    <3>1. UNCHANGED <<pc, result>> /\ cause' = [cause EXCEPT ![d] = "context"]
      BY <2>2 DEF DiagnosticExpires
    <3>2. queuedBar' = queuedBar /\ insideBar' = insideBar /\ yieldedBar' = yieldedBar
      BY <3>1 DEF queuedBar, insideBar, yieldedBar, Queued, Inside
    <3>3. spoiledBar' = IF Inside(d) THEN spoiledBar \cup {d} ELSE spoiledBar
      BY <1>0, <3>1 DEF spoiledBar, Inside
    <3>4. CASE Inside(d)
      <4>1. Access!Expire(d)
        BY <2>0, <3>2, <3>3, <3>4 DEF Access!Expire, queuedBar, insideBar, spoiledBar, yieldedBar
      <4>2. QED
        BY <2>0, <4>1 DEF Access!Next
    <3>5. CASE ~Inside(d)
      BY <3>2, <3>3, <3>5 DEF Access!accessVars, queuedBar, insideBar, spoiledBar, yieldedBar
    <3>6. QED
      BY <3>4, <3>5
  <2>3. CASE DiagnosticWithdraws(d) \/ DiagnosticWakes(d)
    <3>1. PICK x \in {"idle", "retry", "quit"} : pc' = [pc EXCEPT ![d] = x]
      BY <2>3 DEF DiagnosticWithdraws, DiagnosticWakes, Goto
    <3>2. pc[d] = "wait" /\ UNCHANGED cause
      BY <2>3 DEF DiagnosticWithdraws, DiagnosticWakes
    <3>3. CASE \A e \in Diagnostics : result'[e] \in {"snapshot", "error"}
                                      <=> result[e] \in {"snapshot", "error"}
      BY <2>0, <3>1, <3>2, <3>3, QueueMaps DEF Access!Next, Queued
    <3>4. QED
      BY <1>0, <2>3, <3>2, <3>3 DEF DiagnosticWithdraws, DiagnosticWakes, ResultInv
  <2>4. CASE DiagnosticReturns(d)
    <3>1. PICK outcome \in {"snapshot", "error"} :
            result' = [result EXCEPT ![d] = IF cause[d] # "none" THEN cause[d] ELSE outcome]
      BY <2>4 DEF DiagnosticReturns
    <3>2. /\ \A e \in Callers : (Inside(e)' <=> Inside(e)) /\ (Queued(e)' <=> Queued(e))
          /\ Inside(d) /\ UNCHANGED cause
      BY <2>4 DEF DiagnosticReturns, Goto, Inside, Queued, IInv, TypeOK
    <3>3. queuedBar' = queuedBar /\ insideBar' = insideBar /\ spoiledBar' = spoiledBar
      BY <3>2 DEF queuedBar, insideBar, spoiledBar, Callers
    <3>4. CASE cause[d] = "none"
      <4>1. yieldedBar' = yieldedBar \cup {d}
        BY <1>0, <3>1, <3>4 DEF yieldedBar
      <4>2. Access!Settle(d)
        BY <2>0, <3>2, <3>3, <3>4, <4>1 DEF Access!Settle, queuedBar, insideBar, spoiledBar, yieldedBar
      <4>3. QED
        BY <2>0, <4>2 DEF Access!Next
    <3>5. CASE cause[d] # "none"
      <4>1. yieldedBar' = yieldedBar
        BY <1>0, <2>4, <3>1, <3>5 DEF yieldedBar, DiagnosticReturns, ResultInv
      <4>2. QED
        BY <3>3, <4>1 DEF Access!accessVars, queuedBar, insideBar, spoiledBar, yieldedBar
    <3>6. QED
      BY <3>4, <3>5
  <2>5. CASE DiagnosticLeaves(d)
    BY <2>0, <2>5, ReleaseMaps DEF DiagnosticLeaves, Inside, Access!Next
  <2>6. QED
    BY <1>2, <2>1, <2>2, <2>3, <2>4, <2>5 DEF DiagnosticStep
<1>3. CASE UNCHANGED vars
  BY <1>3 DEF vars, Access!accessVars, Inside, Queued
<1>4. QED
  BY <1>1, <1>2, <1>3 DEF Next

\* The mutex, flag, counter and channel together do what SourceAccess promises.
THEOREM GateImplementsAccess == Spec => ImplementsAccess
<1>1. Spec => Access!Init /\ [][Access!Next]_Access!accessVars
  BY AccessInit, AccessStep, GateInvariant, ResultInvariant, PTL DEF Spec
<1>2. QED
  BY <1>1, PTL DEF ImplementsAccess, Access!Spec
=============================================================================
