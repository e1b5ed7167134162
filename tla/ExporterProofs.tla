--------------------------- MODULE ExporterProofs ---------------------------
(***************************************************************************)
(* The safety of the exporter for every set of events, batch size and      *)
(* number of attempts: the conjuncts of IInv are preserved by every step,  *)
(* one lemma per conjunct and in each lemma one step per action.           *)
(***************************************************************************)
EXTENDS Exporter, FiniteSetTheorems, TLAPS

USE BatchSizeAssumption, RetriesAssumption, NoEventAssumption

\* Giving a batch up adds exactly its size to the number of events given up.
LEMMA LostCount ==
  ASSUME IInv, NEW t \in Threads
  PROVE  /\ Cardinality(lost \cup batch[t]) = Cardinality(lost) + Cardinality(batch[t])
         /\ Cardinality(lost) \in Nat
         /\ Cardinality(batch[t]) \in Nat
<1>1. IsFiniteSet(lost) /\ IsFiniteSet(batch[t])
  BY DEF IInv, FiniteInv
<1>2. lost \cap batch[t] = {}
  BY DEF IInv, Custody, Disjoint
<1>3. Cardinality({}) = 0
  BY FS_EmptySet
<1>4. Cardinality(lost) \in Nat /\ Cardinality(batch[t]) \in Nat
  BY <1>1, FS_CardinalityType
<1>5. Cardinality(lost \cup batch[t])
        = Cardinality(lost) + Cardinality(batch[t]) - Cardinality({})
  BY <1>1, <1>2, FS_Union
<1> DEFINE l == Cardinality(lost)  b == Cardinality(batch[t])
<1>6. l \in Nat /\ b \in Nat => l + b - 0 = l + b
  OBVIOUS
<1> QED
  BY <1>3, <1>4, <1>5, <1>6

\* Every step keeps the types.
LEMMA TypeStep ==
  ASSUME IInv, [Next]_vars
  PROVE  TypeOK'
<1> USE DEF IInv, TypeOK, PcValues, Threads
<1>1. ASSUME NEW e \in Events \ offered, HandleStopped(e)
      PROVE  TypeOK'
  BY <1>1 DEF HandleStopped
<1>2. ASSUME NEW e \in Events \ offered, HandleOpen(e)
      PROVE  TypeOK'
  BY <1>2 DEF HandleOpen
<1>3. CASE AppendEvent
  BY <1>3 DEF AppendEvent, AppendUnderLock, HandsInv
<1>4. CASE Tick
  BY <1>4 DEF Tick
<1>5. CASE Stop
  BY <1>5 DEF Stop
<1>6. ASSUME NEW t \in Threads, FlushEmpty(t)
      PROVE  TypeOK'
  BY <1>6 DEF FlushEmpty
<1>7. ASSUME NEW t \in Threads, TakeBatch(t)
      PROVE  TypeOK'
  BY <1>7 DEF TakeBatch
<1>8. ASSUME NEW t \in Threads, Build(t)
      PROVE  TypeOK'
  BY <1>8 DEF Build
<1>9. ASSUME NEW t \in Threads, MarshalFails(t)
      PROVE  TypeOK'
  BY <1>9, FS_CardinalityType DEF MarshalFails, GiveUp, FiniteInv
<1>10. ASSUME NEW t \in Threads, PostAccepted(t)
      PROVE  TypeOK'
  BY <1>10 DEF PostAccepted, Received
<1>11. ASSUME NEW t \in Threads, PostFailed(t)
      PROVE  TypeOK'
  <2>1. CASE attempt[t] + 1 < Retries /\ Retry(t)
    BY <1>11, <2>1 DEF PostFailed, PostError, Received, Retry
  <2>2. CASE attempt[t] + 1 = Retries /\ GiveUp(t, Cardinality(batch[t]))
    BY <1>11, <2>2, LostCount DEF PostFailed, PostError, Received, GiveUp
  <2> QED
    BY <1>11, <2>1, <2>2 DEF PostFailed
<1>12. ASSUME NEW t \in Threads, BackoffOver(t)
      PROVE  TypeOK'
  BY <1>12 DEF BackoffOver
<1>13. CASE UNCHANGED vars
  BY <1>13 DEF vars
<1> QED
  BY <1>1, <1>2, <1>3, <1>4, <1>5, <1>6, <1>7, <1>8, <1>9, <1>10, <1>11, <1>12, <1>13 DEF Next, Handle, Deliver

\* Batches and the event in hand stay with the goroutine that has them.
LEMMA HandsStep ==
  ASSUME IInv, [Next]_vars
  PROVE  HandsInv'
<1> USE DEF IInv, TypeOK, PcValues, Threads, HandsInv
<1>1. ASSUME NEW e \in Events \ offered, HandleStopped(e)
      PROVE  HandsInv'
  BY <1>1 DEF HandleStopped
<1>2. ASSUME NEW e \in Events \ offered, HandleOpen(e)
      PROVE  HandsInv'
  BY <1>2 DEF HandleOpen
<1>3. CASE AppendEvent
  BY <1>3 DEF AppendEvent, AppendUnderLock
<1>4. CASE Tick
  BY <1>4 DEF Tick
<1>5. CASE Stop
  BY <1>5 DEF Stop
<1>6. ASSUME NEW t \in Threads, FlushEmpty(t)
      PROVE  HandsInv'
  BY <1>6 DEF FlushEmpty
<1>7. ASSUME NEW t \in Threads, TakeBatch(t)
      PROVE  HandsInv'
  BY <1>7 DEF TakeBatch
<1>8. ASSUME NEW t \in Threads, Build(t)
      PROVE  HandsInv'
  BY <1>8 DEF Build
<1>9. ASSUME NEW t \in Threads, MarshalFails(t)
      PROVE  HandsInv'
  BY <1>9 DEF MarshalFails, GiveUp
<1>10. ASSUME NEW t \in Threads, PostAccepted(t)
      PROVE  HandsInv'
  BY <1>10 DEF PostAccepted, Received
<1>11. ASSUME NEW t \in Threads, PostFailed(t)
      PROVE  HandsInv'
  BY <1>11 DEF PostFailed, PostError, Retry, GiveUp, Received
<1>12. ASSUME NEW t \in Threads, BackoffOver(t)
      PROVE  HandsInv'
  BY <1>12 DEF BackoffOver
<1>13. CASE UNCHANGED vars
  BY <1>13 DEF vars
<1> QED
  BY <1>1, <1>2, <1>3, <1>4, <1>5, <1>6, <1>7, <1>8, <1>9, <1>10, <1>11, <1>12, <1>13 DEF Next, Handle, Deliver

\* Every set the exporter counts stays finite.
LEMMA FiniteStep ==
  ASSUME IInv, [Next]_vars
  PROVE  FiniteInv'
<1> USE DEF IInv, TypeOK, Threads, FiniteInv
<1>1. ASSUME NEW e \in Events \ offered, HandleStopped(e)
      PROVE  FiniteInv'
  BY <1>1 DEF HandleStopped
<1>2. ASSUME NEW e \in Events \ offered, HandleOpen(e)
      PROVE  FiniteInv'
  BY <1>2 DEF HandleOpen
<1>3. CASE AppendEvent
  BY <1>3, FS_AddElement DEF AppendEvent, AppendUnderLock
<1>4. CASE Tick
  BY <1>4 DEF Tick
<1>5. CASE Stop
  BY <1>5 DEF Stop
<1>6. ASSUME NEW t \in Threads, FlushEmpty(t)
      PROVE  FiniteInv'
  BY <1>6 DEF FlushEmpty
<1>7. ASSUME NEW t \in Threads, TakeBatch(t)
      PROVE  FiniteInv'
  BY <1>7, FS_EmptySet DEF TakeBatch
<1>8. ASSUME NEW t \in Threads, Build(t)
      PROVE  FiniteInv'
  BY <1>8 DEF Build
<1>9. ASSUME NEW t \in Threads, MarshalFails(t)
      PROVE  FiniteInv'
  BY <1>9, FS_Union, FS_EmptySet DEF MarshalFails, GiveUp
<1>10. ASSUME NEW t \in Threads, PostAccepted(t)
      PROVE  FiniteInv'
  BY <1>10, FS_EmptySet DEF PostAccepted, Received
<1>11. ASSUME NEW t \in Threads, PostFailed(t)
      PROVE  FiniteInv'
  <2>1. CASE attempt[t] + 1 < Retries /\ Retry(t)
    BY <1>11, <2>1 DEF PostFailed, PostError, Received, Retry
  <2>2. CASE attempt[t] + 1 = Retries /\ GiveUp(t, Cardinality(batch[t]))
    BY <1>11, <2>2, FS_Union, FS_EmptySet DEF PostFailed, PostError, Received, GiveUp
  <2> QED
    BY <1>11, <2>1, <2>2 DEF PostFailed
<1>12. ASSUME NEW t \in Threads, BackoffOver(t)
      PROVE  FiniteInv'
  BY <1>12 DEF BackoffOver
<1>13. CASE UNCHANGED vars
  BY <1>13 DEF vars
<1> QED
  BY <1>1, <1>2, <1>3, <1>4, <1>5, <1>6, <1>7, <1>8, <1>9, <1>10, <1>11, <1>12, <1>13 DEF Next, Handle, Deliver

\* No step loses or duplicates an accepted event: AppendEvent adds a new one,
\* the others move a whole set from one place to another.
LEMMA CustodyStep ==
  ASSUME IInv, [Next]_vars
  PROVE  Custody'
<1> USE DEF IInv, TypeOK, PcValues, Threads, HandsInv, Custody, Disjoint, InFlight
<1>1. ASSUME NEW e \in Events \ offered, HandleStopped(e)
      PROVE  Custody'
  BY <1>1 DEF HandleStopped
<1>2. ASSUME NEW e \in Events \ offered, HandleOpen(e)
      PROVE  Custody'
  BY <1>2 DEF HandleOpen
<1>3. CASE AppendEvent
  BY <1>3 DEF AppendEvent, AppendUnderLock
<1>4. CASE Tick
  BY <1>4 DEF Tick
<1>5. CASE Stop
  BY <1>5 DEF Stop
<1>6. ASSUME NEW t \in Threads, FlushEmpty(t)
      PROVE  Custody'
  BY <1>6 DEF FlushEmpty
<1>7. ASSUME NEW t \in Threads, TakeBatch(t)
      PROVE  Custody'
  BY <1>7 DEF TakeBatch
<1>8. ASSUME NEW t \in Threads, Build(t)
      PROVE  Custody'
  BY <1>8 DEF Build
<1>9. ASSUME NEW t \in Threads, MarshalFails(t)
      PROVE  Custody'
  BY <1>9 DEF MarshalFails, GiveUp
<1>10. ASSUME NEW t \in Threads, PostAccepted(t)
      PROVE  Custody'
  BY <1>10 DEF PostAccepted, Received
<1>11. ASSUME NEW t \in Threads, PostFailed(t)
      PROVE  Custody'
  BY <1>11 DEF PostFailed, PostError, Retry, GiveUp, Received
<1>12. ASSUME NEW t \in Threads, BackoffOver(t)
      PROVE  Custody'
  BY <1>12 DEF BackoffOver
<1>13. CASE UNCHANGED vars
  BY <1>13 DEF vars
<1> QED
  BY <1>1, <1>2, <1>3, <1>4, <1>5, <1>6, <1>7, <1>8, <1>9, <1>10, <1>11, <1>12, <1>13 DEF Next, Handle, Deliver

\* The counter follows the set of events given up.
LEMMA DroppedStep ==
  ASSUME IInv, [Next]_vars
  PROVE  DroppedExact'
<1> USE DEF IInv, DroppedExact, Threads
<1>1. ASSUME NEW e \in Events \ offered, HandleStopped(e)
      PROVE  DroppedExact'
  BY <1>1 DEF HandleStopped
<1>2. ASSUME NEW e \in Events \ offered, HandleOpen(e)
      PROVE  DroppedExact'
  BY <1>2 DEF HandleOpen
<1>3. CASE AppendEvent
  BY <1>3 DEF AppendEvent, AppendUnderLock
<1>4. CASE Tick
  BY <1>4 DEF Tick
<1>5. CASE Stop
  BY <1>5 DEF Stop
<1>6. ASSUME NEW t \in Threads, FlushEmpty(t)
      PROVE  DroppedExact'
  BY <1>6 DEF FlushEmpty
<1>7. ASSUME NEW t \in Threads, TakeBatch(t)
      PROVE  DroppedExact'
  BY <1>7 DEF TakeBatch
<1>8. ASSUME NEW t \in Threads, Build(t)
      PROVE  DroppedExact'
  BY <1>8 DEF Build
<1>9. ASSUME NEW t \in Threads, MarshalFails(t)
      PROVE  DroppedExact'
  BY <1>9, LostCount DEF MarshalFails, GiveUp
<1>10. ASSUME NEW t \in Threads, PostAccepted(t)
      PROVE  DroppedExact'
  BY <1>10 DEF PostAccepted, Received
<1>11. ASSUME NEW t \in Threads, PostFailed(t)
      PROVE  DroppedExact'
  <2>1. CASE attempt[t] + 1 < Retries /\ Retry(t)
    BY <1>11, <2>1 DEF PostFailed, PostError, Received, Retry
  <2>2. CASE attempt[t] + 1 = Retries /\ GiveUp(t, Cardinality(batch[t]))
    BY <1>11, <2>2, LostCount DEF PostFailed, PostError, Received, GiveUp
  <2> QED
    BY <1>11, <2>1, <2>2 DEF PostFailed
<1>12. ASSUME NEW t \in Threads, BackoffOver(t)
      PROVE  DroppedExact'
  BY <1>12 DEF BackoffOver
<1>13. CASE UNCHANGED vars
  BY <1>13 DEF vars
<1> QED
  BY <1>1, <1>2, <1>3, <1>4, <1>5, <1>6, <1>7, <1>8, <1>9, <1>10, <1>11, <1>12, <1>13 DEF Next, Handle, Deliver

\* A buffer below the bound grows by one event at a time, and the dispatcher
\* cannot append before it has emptied a full one.
LEMMA BoundStep ==
  ASSUME IInv, [Next]_vars
  PROVE  BatchBound'
<1> USE DEF IInv, TypeOK, PcValues, Threads, FiniteInv, BatchBound
<1>1. ASSUME NEW e \in Events \ offered, HandleStopped(e)
      PROVE  BatchBound'
  BY <1>1 DEF HandleStopped
<1>2. ASSUME NEW e \in Events \ offered, HandleOpen(e)
      PROVE  BatchBound'
  BY <1>2 DEF HandleOpen
<1>3. CASE AppendEvent
  <2>1. /\ pc["dispatcher"] = "append"
        /\ Cardinality(buf) \in Nat
        /\ Cardinality(buf) < BatchSize
    BY <1>3, FS_CardinalityType DEF AppendEvent, AppendUnderLock
  <2>2. /\ Cardinality(buf \cup {handling}) \in Nat
        /\ Cardinality(buf \cup {handling}) <= Cardinality(buf) + 1
    <3>1. Cardinality(buf \cup {handling})
            = IF handling \in buf THEN Cardinality(buf) ELSE Cardinality(buf) + 1
      BY FS_AddElement
    <3> QED
      BY <2>1, <3>1
  <2> DEFINE n == Cardinality(buf \cup {handling})
  <2>3. /\ Cardinality(buf') = n
        /\ n <= BatchSize
        /\ n = BatchSize => pc'["dispatcher"] = "flush"
        /\ batch' = batch
    BY <1>3, <2>1, <2>2 DEF AppendEvent, AppendUnderLock
  <2> QED
    BY <2>3
<1>4. CASE Tick
  BY <1>4 DEF Tick
<1>5. CASE Stop
  BY <1>5 DEF Stop
<1>6. ASSUME NEW t \in Threads, FlushEmpty(t)
      PROVE  BatchBound'
  BY <1>6, FS_EmptySet DEF FlushEmpty
<1>7. ASSUME NEW t \in Threads, TakeBatch(t)
      PROVE  BatchBound'
  BY <1>7, FS_EmptySet DEF TakeBatch
<1>8. ASSUME NEW t \in Threads, Build(t)
      PROVE  BatchBound'
  BY <1>8 DEF Build
<1>9. ASSUME NEW t \in Threads, MarshalFails(t)
      PROVE  BatchBound'
  BY <1>9, FS_EmptySet DEF MarshalFails, GiveUp
<1>10. ASSUME NEW t \in Threads, PostAccepted(t)
      PROVE  BatchBound'
  BY <1>10, FS_EmptySet DEF PostAccepted, Received
<1>11. ASSUME NEW t \in Threads, PostFailed(t)
      PROVE  BatchBound'
  <2>1. CASE attempt[t] + 1 < Retries /\ Retry(t)
    BY <1>11, <2>1 DEF PostFailed, PostError, Received, Retry
  <2>2. CASE attempt[t] + 1 = Retries /\ GiveUp(t, Cardinality(batch[t]))
    BY <1>11, <2>2, FS_EmptySet DEF PostFailed, PostError, Received, GiveUp
  <2> QED
    BY <1>11, <2>1, <2>2 DEF PostFailed
<1>12. ASSUME NEW t \in Threads, BackoffOver(t)
      PROVE  BatchBound'
  BY <1>12 DEF BackoffOver
<1>13. CASE UNCHANGED vars
  BY <1>13 DEF vars
<1> QED
  BY <1>1, <1>2, <1>3, <1>4, <1>5, <1>6, <1>7, <1>8, <1>9, <1>10, <1>11, <1>12, <1>13 DEF Next, Handle, Deliver

\* Each copy is paid for by an attempt of the goroutine that holds the batch.
LEMMA CopiesStep ==
  ASSUME IInv, [Next]_vars
  PROVE  CopiesInv'
<1> USE DEF IInv, TypeOK, PcValues, Threads, HandsInv, Custody, Disjoint, InFlight, CopiesInv
<1>1. ASSUME NEW e \in Events \ offered, HandleStopped(e)
      PROVE  CopiesInv'
  BY <1>1 DEF HandleStopped
<1>2. ASSUME NEW e \in Events \ offered, HandleOpen(e)
      PROVE  CopiesInv'
  BY <1>2 DEF HandleOpen
<1>3. CASE AppendEvent
  BY <1>3 DEF AppendEvent, AppendUnderLock
<1>4. CASE Tick
  BY <1>4 DEF Tick
<1>5. CASE Stop
  BY <1>5 DEF Stop
<1>6. ASSUME NEW t \in Threads, FlushEmpty(t)
      PROVE  CopiesInv'
  BY <1>6 DEF FlushEmpty
<1>7. ASSUME NEW t \in Threads, TakeBatch(t)
      PROVE  CopiesInv'
  BY <1>7 DEF TakeBatch
<1>8. ASSUME NEW t \in Threads, Build(t)
      PROVE  CopiesInv'
  BY <1>8 DEF Build
<1>9. ASSUME NEW t \in Threads, MarshalFails(t)
      PROVE  CopiesInv'
  BY <1>9 DEF MarshalFails, GiveUp
<1>10. ASSUME NEW t \in Threads, PostAccepted(t)
      PROVE  CopiesInv'
  BY <1>10 DEF PostAccepted, Received
<1>11. ASSUME NEW t \in Threads, PostFailed(t)
      PROVE  CopiesInv'
  BY <1>11 DEF PostFailed, PostError, Retry, GiveUp, Received
<1>12. ASSUME NEW t \in Threads, BackoffOver(t)
      PROVE  CopiesInv'
  BY <1>12 DEF BackoffOver
<1>13. CASE UNCHANGED vars
  BY <1>13 DEF vars
<1> QED
  BY <1>1, <1>2, <1>3, <1>4, <1>5, <1>6, <1>7, <1>8, <1>9, <1>10, <1>11, <1>12, <1>13 DEF Next, Handle, Deliver

\* Handle has at most one event in hand.
LEMMA HandIsSmall ==
  /\ Cardinality({} \cup InHand) <= 1
  /\ \A S : S = {} => Cardinality(S \cup InHand) <= 1
<1>1. {} \cup InHand = {} \/ {} \cup InHand = {handling}
  BY DEF InHand
<1>2. Cardinality({}) = 0 /\ Cardinality({handling}) = 1
  BY FS_EmptySet, FS_Singleton
<1> QED
  BY <1>1, <1>2

\* Behind Stop's flush nothing can follow the event in hand.
LEMMA StragglerStep ==
  ASSUME IInv, [Next]_vars
  PROVE  StragglerBound'
<1> USE DEF IInv, TypeOK, PcValues, Threads, HandsInv, StragglerBound, InHand
<1>1. ASSUME NEW e \in Events \ offered, HandleStopped(e)
      PROVE  StragglerBound'
  BY <1>1 DEF HandleStopped
<1>2. ASSUME NEW e \in Events \ offered, HandleOpen(e)
      PROVE  StragglerBound'
  BY <1>2 DEF HandleOpen
<1>3. CASE AppendEvent
  BY <1>3 DEF AppendEvent, AppendUnderLock
<1>4. CASE Tick
  BY <1>4 DEF Tick
<1>5. CASE Stop
  BY <1>5 DEF Stop
<1>6. ASSUME NEW t \in Threads, FlushEmpty(t)
      PROVE  StragglerBound'
  BY <1>6, HandIsSmall DEF FlushEmpty
<1>7. ASSUME NEW t \in Threads, TakeBatch(t)
      PROVE  StragglerBound'
  BY <1>7, HandIsSmall DEF TakeBatch
<1>8. ASSUME NEW t \in Threads, Build(t)
      PROVE  StragglerBound'
  BY <1>8 DEF Build
<1>9. ASSUME NEW t \in Threads, MarshalFails(t)
      PROVE  StragglerBound'
  BY <1>9 DEF MarshalFails, GiveUp
<1>10. ASSUME NEW t \in Threads, PostAccepted(t)
      PROVE  StragglerBound'
  BY <1>10 DEF PostAccepted, Received
<1>11. ASSUME NEW t \in Threads, PostFailed(t)
      PROVE  StragglerBound'
  BY <1>11 DEF PostFailed, PostError, Retry, GiveUp, Received
<1>12. ASSUME NEW t \in Threads, BackoffOver(t)
      PROVE  StragglerBound'
  BY <1>12 DEF BackoffOver
<1>13. CASE UNCHANGED vars
  BY <1>13 DEF vars
<1> QED
  BY <1>1, <1>2, <1>3, <1>4, <1>5, <1>6, <1>7, <1>8, <1>9, <1>10, <1>11, <1>12, <1>13 DEF Next, Handle, Deliver

-----------------------------------------------------------------------------
LEMMA InitIInv == Init => IInv
<1> SUFFICES ASSUME Init PROVE IInv
  OBVIOUS
<1> USE DEF Init, Threads
<1>1. TypeOK
  <2>1. /\ attempt \in [Threads -> 0..Retries - 1]
        /\ copies \in [Events -> Nat]
    OBVIOUS
  <2>2. /\ pc \in [Threads -> PcValues]
        /\ \A t \in Threads : pc[t] = "idle"
    BY DEF PcValues
  <2>3. batch \in [Threads -> SUBSET Events]
    OBVIOUS
  <2> QED
    BY <2>1, <2>2, <2>3 DEF TypeOK
<1>5. HandsInv
  BY DEF HandsInv
<1>2. FiniteInv /\ DroppedExact /\ BatchBound
  BY FS_EmptySet DEF FiniteInv, DroppedExact, BatchBound
<1>3. Custody /\ CopiesInv
  BY DEF Custody, Disjoint, InFlight, CopiesInv
<1>4. StragglerBound
  BY DEF StragglerBound
<1> QED
  BY <1>1, <1>2, <1>3, <1>4, <1>5 DEF IInv

LEMMA NextIInv == IInv /\ [Next]_vars => IInv'
BY TypeStep, HandsStep, FiniteStep, CustodyStep, DroppedStep, BoundStep,
   CopiesStep, StragglerStep DEF IInv

\* The inductive invariant holds in every reachable state of the exporter of
\* exporter.go:69-205.
THEOREM Invariance == Spec => []IInv
BY InitIInv, NextIInv, PTL DEF Spec

\* The variables keep their types, deliver's loop variable its bound.
THEOREM TypeCorrect == Spec => []TypeOK
<1>1. IInv => TypeOK
  BY DEF IInv
<1> QED
  BY <1>1, Invariance, PTL

\* Every accepted event is in exactly one place: concurrent flushes never share
\* or lose an event (exporter.go:160-162).
THEOREM CustodyHolds == Spec => []Custody
<1>1. IInv => Custody
  BY DEF IInv
<1> QED
  BY <1>1, Invariance, PTL

\* Dropped() (exporter.go:146-147) is the exact number of events given up.
THEOREM DroppedIsExact == Spec => []DroppedExact
<1>1. IInv => DroppedExact
  BY DEF IInv
<1> QED
  BY <1>1, Invariance, PTL

\* No batch is larger than BatchSize (exporter.go:117-123).
THEOREM BatchesAreBounded == Spec => []BatchBound
<1>1. IInv => BatchBound
  BY DEF IInv
<1> QED
  BY <1>1, Invariance, PTL

\* The webhook gets an event at most Retries times and an acknowledged event at
\* least once (exporter.go:176-183).
THEOREM CopiesAreBounded == Spec => []CopiesBounded
<1>1. IInv => CopiesBounded
  <2> SUFFICES ASSUME IInv, NEW e \in Events
               PROVE  /\ copies[e] <= Retries
                      /\ e \in acked => copies[e] >= 1
                      /\ e \notin acked \cup lost \cup InFlight => copies[e] = 0
    BY DEF CopiesBounded
  <2>1. CASE e \in InFlight
    <3>1. PICK t \in Threads : e \in batch[t]
      BY <2>1 DEF InFlight
    <3>2. pc[t] \in {"build", "post", "backoff"}
      BY <3>1 DEF IInv, HandsInv
    <3> QED
      BY <2>1, <3>1, <3>2 DEF IInv, TypeOK, CopiesInv
  <2>2. CASE e \notin InFlight
    BY <2>2 DEF IInv, TypeOK, CopiesInv
  <2> QED
    BY <2>1, <2>2
<1> QED
  BY <1>1, Invariance, PTL

\* At most one event slips in behind the flush of Stop (exporter.go:113-120,
\* 139-144).
THEOREM StragglerIsSingle == Spec => []StragglerBound
<1>1. IInv => StragglerBound
  BY DEF IInv
<1> QED
  BY <1>1, Invariance, PTL
=============================================================================
