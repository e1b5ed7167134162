---------------------------- MODULE PipelineProofs ----------------------------
(***************************************************************************)
(* The safety of the process for every number of publishers and events,    *)
(* every capacity, batch size and number of attempts. The process runs the *)
(* bus and the exporter as they are, so that what BusProofs and            *)
(* ExporterProofs prove of them holds in it; the rest relates the two, the *)
(* store and main.                                                         *)
(***************************************************************************)
EXTENDS Pipeline, FiniteSetTheorems, SequenceTheorems, TLAPS

USE CapAssumption, ExporterAssumption, NoEventAssumption

\* The proofs of the components, over the variables of the process.
BP == INSTANCE BusProofs WITH NSubs <- 4
XP == INSTANCE ExporterProofs

Delivering == {"build", "post", "backoff"}

\* What the first subscriber has handled was stored or reported; what was offered to the
\* exporter went through the tracker, and what its Handle returned from was
\* offered.
OrderInv ==
  /\ EventsIn(seen[Store]) \subseteq Handled
  /\ offered \subseteq EventsIn(seen[Tracker])
  /\ EventsIn(seen[Export]) \subseteq offered

\* While the dispatcher is inside the exporter the event in hand is the one it
\* was called with; nobody else appends, so the buffer it emptied stays empty.
InsideInv ==
  /\ pc["dispatcher"] # "idle" => sub = Export
  /\ handling = IF pc["dispatcher"] = "append" THEN cur ELSE NoEvent
  /\ pc["dispatcher"] \in Delivering \cup {"flush"} => cur \in accepted
  /\ pc["dispatcher"] \in Delivering => buf = {}

\* exporter.Stop was called, and has returned, when main goes on.
MainInv ==
  /\ phase \in {"flushing", "closed", "exited"} => stopped
  /\ phase \in {"closed", "exited"} => pc["main"] = "idle"

\* The inductive invariant.
IInv == BP!IInv /\ BP!NoneTwice /\ XP!IInv /\ OrderInv /\ InsideInv /\ MainInv /\ RefusedAreLast
-----------------------------------------------------------------------------
\* Appending to a sequence adds one event to its set.
LEMMA EventsInAppend ==
  ASSUME NEW s \in Seq(Events), NEW e \in Events
  PROVE  EventsIn(Append(s, e)) = EventsIn(s) \cup {e}
<1>1. /\ Len(s) \in Nat /\ Len(Append(s, e)) = Len(s) + 1
      /\ Append(s, e)[Len(s) + 1] = e
      /\ \A i \in 1..Len(s) : Append(s, e)[i] = s[i]
  BY AppendProperties, LenProperties
<1>2. 1..(Len(s) + 1) = (1..Len(s)) \cup {Len(s) + 1}
  BY <1>1
<1> QED
  BY <1>1, <1>2 DEF EventsIn

\* A sequence has no more events than places.
LEMMA EventsInFinite ==
  ASSUME NEW s \in Seq(Events)
  PROVE  /\ IsFiniteSet(EventsIn(s))
         /\ Cardinality(EventsIn(s)) \in Nat
         /\ Cardinality(EventsIn(s)) <= Len(s)
<1>1. Len(s) \in Nat
  BY LenProperties
<1> DEFINE f == [i \in 1..Len(s) |-> s[i]]
<1>2. f \in Surjection(1..Len(s), EventsIn(s))
  BY DEF EventsIn, Surjection
<1>3. IsFiniteSet(1..Len(s)) /\ Cardinality(1..Len(s)) = Len(s)
  BY <1>1, FS_Interval
<1>4. IsFiniteSet(EventsIn(s)) /\ Cardinality(EventsIn(s)) <= Cardinality(1..Len(s))
  BY <1>2, <1>3, FS_Surjection
<1> QED
  BY <1>3, <1>4, FS_CardinalityType

-----------------------------------------------------------------------------
\* The process's steps are steps of the bus or leave it alone.
LEMMA BusSteps ==
  ASSUME [Next]_vars
  PROVE  [BP!Next]_(BP!vars)
<1> USE DEF busVars, BP!Next, BP!vars
<1>1. ASSUME NEW p \in Publishers, NEW e \in Drawn, Publish(p, e)
      PROVE  BP!Next
  <2>1. e \in Events
    BY <1>1 DEF Drawn
  <2>2. BP!Publish(p, e)
    BY <1>1 DEF Publish, B!Publish, BP!Publish, B!Fresh, BP!Fresh
  <2> QED
    BY <2>1, <2>2
<1>2. ASSUME NEW p \in Publishers, Send(p)
      PROVE  BP!Next
  <2>1. BP!Send(p)
    BY <1>2 DEF Send, B!Send, BP!Send
  <2> QED
    BY <2>1
<1>3. CASE Receive
  BY <1>3 DEF Receive, B!Receive, BP!Receive
<1>4. CASE SaveEvent
  BY <1>4 DEF SaveEvent, B!HandleReturns, BP!HandleReturns
<1>5. CASE SaveFails
  BY <1>5 DEF SaveFails, B!HandleReturns, BP!HandleReturns
<1>6. CASE LogOrRecord
  BY <1>6 DEF LogOrRecord, B!HandleReturns, BP!HandleReturns
<1>7. CASE LeaveExporter
  BY <1>7 DEF LeaveExporter, B!HandleReturns, BP!HandleReturns
<1>8. CASE EnterExporter \/ AppendEvent \/ Tick \/ (\E t \in X!Threads : Deliver(t))
  BY <1>8 DEF EnterExporter, AppendEvent, Tick, Deliver
<1>9. CASE Main
  BY <1>9 DEF Main, Signal, ListenFails, ShutdownReturns, StopExporter, CloseStore, ReturnFromMain
<1>10. CASE Killed
  BY <1>10 DEF Killed
<1>11. CASE UNCHANGED vars
  BY <1>11 DEF vars
<1> QED
  BY <1>1, <1>2, <1>3, <1>4, <1>5, <1>6, <1>7, <1>8, <1>9, <1>10, <1>11
  DEF Next, Dispatcher, Ended

\* The instances count alike.
LEMMA SameCardinality ==
  \A S : /\ X!Cardinality(S) = Cardinality(S) /\ XP!Cardinality(S) = Cardinality(S)
         /\ XP!IsFiniteSet(S) <=> IsFiniteSet(S)
  BY DEF Cardinality, X!Cardinality, XP!Cardinality, IsFiniteSet, X!IsFiniteSet, XP!IsFiniteSet

\* They are steps of the exporter or leave it alone: the bus hands it events.
LEMMA ExporterSteps ==
  ASSUME BP!TypeOK, [Next]_vars
  PROVE  [XP!Next]_(XP!vars)
<1> USE DEF exporterVars, XP!Next, XP!vars
<1>1. CASE EnterExporter
  <2>1. cur \in Events \ offered
    BY <1>1 DEF EnterExporter, BP!TypeOK, Export
  <2>2. XP!Handle(cur)
    BY <1>1 DEF EnterExporter, X!Handle, X!HandleStopped, X!HandleOpen,
                XP!Handle, XP!HandleStopped, XP!HandleOpen
  <2> QED
    BY <2>1, <2>2
<1>2. CASE AppendEvent
  BY <1>2, SameCardinality DEF AppendEvent, X!AppendEvent, X!AppendUnderLock, XP!AppendEvent, XP!AppendUnderLock
<1>3. CASE Tick
  BY <1>3 DEF Tick, X!Tick, XP!Tick
<1>4. ASSUME NEW t \in X!Threads, Deliver(t)
      PROVE  XP!Next
  <2>1. t \in XP!Threads
    BY DEF X!Threads, XP!Threads
  <2>2. XP!Deliver(t)
    BY <1>4, SameCardinality DEF Deliver, X!Deliver, X!FlushEmpty, X!TakeBatch, X!Build, X!MarshalFails, X!PostAccepted,
                X!PostFailed, X!BackoffOver, X!GiveUp, X!Received, X!PostError, X!Retry,
                XP!Deliver, XP!FlushEmpty, XP!TakeBatch, XP!Build, XP!MarshalFails, XP!PostAccepted,
                XP!PostFailed, XP!BackoffOver, XP!GiveUp, XP!Received, XP!PostError, XP!Retry
  <2> QED
    BY <2>1, <2>2
<1>5. CASE StopExporter
  BY <1>5 DEF StopExporter, X!Stop, XP!Stop
<1>6. CASE (\E p \in Publishers, e \in Drawn : Publish(p, e)) \/ (\E p \in Publishers : Send(p)) \/ Receive
  BY <1>6 DEF Publish, Send, Receive
<1>7. CASE SaveEvent \/ SaveFails \/ LogOrRecord \/ LeaveExporter
  BY <1>7 DEF SaveEvent, SaveFails, LogOrRecord, LeaveExporter
<1>8. CASE Signal \/ ListenFails \/ ShutdownReturns \/ CloseStore \/ ReturnFromMain \/ Killed
  BY <1>8 DEF Signal, ListenFails, ShutdownReturns, CloseStore, ReturnFromMain, Killed
<1>9. CASE UNCHANGED vars
  BY <1>9 DEF vars
<1> QED
  BY <1>1, <1>2, <1>3, <1>4, <1>5, <1>6, <1>7, <1>8, <1>9 DEF Next, Dispatcher, Main, Ended
-----------------------------------------------------------------------------
\* A subscriber that returns from Handle has the event in hand besides what it
\* had; the tracker is an event ahead of the exporter.
LEMMA HandledNext ==
  ASSUME IInv, B!HandleReturns
  PROVE  /\ cur \in Events /\ sub \in 1..4
         /\ EventsIn(seen'[sub]) = EventsIn(seen[sub]) \cup {cur}
         /\ \A s \in 1..4 : s # sub => seen'[s] = seen[s]
<1> USE DEF IInv, BP!IInv, BP!TypeOK, BP!Subs
<1>1. cur \in Events /\ sub \in 1..4 /\ seen[sub] \in Seq(Events)
  BY DEF B!HandleReturns
<1>2. seen' = [seen EXCEPT ![sub] = Append(seen[sub], cur)]
  BY DEF B!HandleReturns
<1>3. seen'[sub] = Append(seen[sub], cur)
  BY <1>1, <1>2
<1> QED
  BY <1>1, <1>2, <1>3, EventsInAppend

LEMMA TrackerIsAhead ==
  ASSUME IInv, sub = Export
  PROVE  /\ cur \in Events
         /\ EventsIn(seen[Tracker]) = EventsIn(seen[Export]) \cup {cur}
<1> USE DEF IInv, BP!IInv, BP!TypeOK, BP!Subs, Export, Tracker
<1>1. cur \in Events /\ seen[4] \in Seq(Events)
  OBVIOUS
<1>2. seen[3] = Append(seen[4], cur)
  BY DEF BP!LockStep
<1> QED
  BY <1>1, <1>2, EventsInAppend

\* What is handled, seen and offered only grows, and in this order.
LEMMA OrderStep ==
  ASSUME IInv, [Next]_vars
  PROVE  OrderInv'
<1> USE DEF OrderInv, busVars, exporterVars, storeVars, Store, Log, Tracker, Export
<1> OrderInv
  BY DEF IInv
<1>1. CASE SaveEvent
  BY <1>1, HandledNext DEF SaveEvent, Handled, EventsIn
<1>2. CASE SaveFails
  BY <1>2, HandledNext DEF SaveFails, Handled, EventsIn
<1>3. CASE LogOrRecord
  BY <1>3, HandledNext DEF LogOrRecord, Handled, EventsIn
<1>4. CASE LeaveExporter
  <2>1. /\ cur \in offered /\ offered' = offered /\ Handled' = Handled
        /\ sub = 4
    BY <1>4 DEF LeaveExporter, Handled
  <2>2. /\ EventsIn(seen'[4]) = EventsIn(seen[4]) \cup {cur}
        /\ seen'[1] = seen[1] /\ seen'[3] = seen[3]
    BY <1>4, <2>1, HandledNext DEF LeaveExporter
  <2> QED
    BY <2>1, <2>2 DEF EventsIn
<1>5. CASE EnterExporter
  <2>1. offered' = offered \cup {cur} /\ seen' = seen /\ Handled' = Handled
    BY <1>5 DEF EnterExporter, X!Handle, X!HandleStopped, X!HandleOpen, Handled
  <2>2. cur \in EventsIn(seen[Tracker])
    BY <1>5, TrackerIsAhead DEF EnterExporter
  <2> QED
    BY <2>1, <2>2 DEF EventsIn
<1>6. ASSUME seen' = seen, stored' = stored, saveFailed' = saveFailed, offered' = offered
      PROVE  OrderInv'
  BY <1>6 DEF Handled, EventsIn
<1>7. CASE AppendEvent \/ Tick
  BY <1>6, <1>7 DEF AppendEvent, Tick, X!AppendEvent, X!AppendUnderLock, X!Tick
<1>8. ASSUME NEW t \in X!Threads, Deliver(t)
      PROVE  OrderInv'
  BY <1>6, <1>8 DEF Deliver, X!Deliver, X!FlushEmpty, X!TakeBatch, X!Build, X!MarshalFails, X!PostAccepted,
                    X!PostFailed, X!BackoffOver
<1>9. CASE (\E p \in Publishers, e \in Drawn : Publish(p, e)) \/ (\E p \in Publishers : Send(p)) \/ Receive
  BY <1>6, <1>9 DEF Publish, Send, Receive, B!Publish, B!Send, B!Receive
<1>10. CASE Main \/ Killed
  BY <1>6, <1>10 DEF Main, Signal, ListenFails, ShutdownReturns, StopExporter, CloseStore, ReturnFromMain,
                     X!Stop, Killed
<1>11. CASE UNCHANGED vars
  BY <1>6, <1>11 DEF vars
<1> QED
  BY <1>1, <1>2, <1>3, <1>4, <1>5, <1>7, <1>8, <1>9, <1>10, <1>11 DEF Next, Dispatcher, Ended

\* The dispatcher is in the exporter with the event in hand or not at all.
LEMMA InsideStep ==
  ASSUME IInv, [Next]_vars
  PROVE  InsideInv'
<1> USE DEF InsideInv, Delivering, exporterVars, Store, Log, Tracker, Export
<1> /\ InsideInv
    /\ pc \in [X!Threads -> XP!PcValues]
    /\ \A t \in X!Threads : pc[t] = "append" => t = "dispatcher"
  BY DEF IInv, XP!IInv, XP!TypeOK, X!Threads, XP!Threads
<1> /\ "dispatcher" \in X!Threads /\ "ticker" \in X!Threads /\ "main" \in X!Threads
  BY DEF X!Threads
<1>1. CASE EnterExporter
  BY <1>1 DEF EnterExporter, X!Handle, X!HandleStopped, X!HandleOpen, busVars
<1>2. CASE AppendEvent
  BY <1>2 DEF AppendEvent, X!AppendEvent, X!AppendUnderLock, busVars
<1>3. CASE Tick
  BY <1>3 DEF Tick, X!Tick, busVars
<1>4. ASSUME NEW t \in X!Threads, Deliver(t)
      PROVE  InsideInv'
  <2> USE <1>4 DEF Deliver, busVars
  <2>1. CASE X!FlushEmpty(t)
    BY <2>1 DEF X!FlushEmpty
  <2>2. CASE X!TakeBatch(t)
    BY <2>2 DEF X!TakeBatch
  <2>3. CASE X!Build(t)
    BY <2>3 DEF X!Build
  <2>4. CASE X!MarshalFails(t)
    BY <2>4 DEF X!MarshalFails, X!GiveUp
  <2>5. CASE X!PostAccepted(t)
    BY <2>5 DEF X!PostAccepted, X!Received
  <2>6. CASE X!PostFailed(t)
    BY <2>6 DEF X!PostFailed, X!PostError, X!Retry, X!GiveUp
  <2>7. CASE X!BackoffOver(t)
    BY <2>7 DEF X!BackoffOver
  <2> QED
    BY <2>1, <2>2, <2>3, <2>4, <2>5, <2>6, <2>7 DEF X!Deliver
<1>5. CASE StopExporter
  BY <1>5 DEF StopExporter, X!Stop, busVars
<1>6. CASE SaveEvent \/ SaveFails \/ LogOrRecord
  BY <1>6 DEF SaveEvent, SaveFails, LogOrRecord, B!HandleReturns
<1>7. CASE LeaveExporter
  BY <1>7 DEF LeaveExporter, B!HandleReturns
<1>8. CASE Receive
  <2>1. sub = 0
    BY <1>8 DEF Receive, B!Receive, IInv, BP!IInv, BP!TypeOK
  <2> QED
    BY <1>8, <2>1 DEF Receive, B!Receive
<1>9. ASSUME UNCHANGED <<sub, cur, pc, handling, accepted, buf>>
      PROVE  InsideInv'
  BY <1>9
<1>10. CASE (\E p \in Publishers, e \in Drawn : Publish(p, e)) \/ (\E p \in Publishers : Send(p))
  BY <1>9, <1>10 DEF Publish, Send, B!Publish, B!Send
<1>11. CASE Signal \/ ListenFails \/ ShutdownReturns \/ CloseStore \/ ReturnFromMain \/ Killed
  BY <1>9, <1>11 DEF Signal, ListenFails, ShutdownReturns, CloseStore, ReturnFromMain, Killed, busVars
<1>12. CASE UNCHANGED vars
  BY <1>9, <1>12 DEF vars, busVars
<1> QED
  BY <1>1, <1>2, <1>3, <1>4, <1>5, <1>6, <1>7, <1>8, <1>10, <1>11, <1>12 DEF Next, Dispatcher, Main, Ended

\* main goes on only when Stop has returned; nobody else sets it to work.
LEMMA MainStep ==
  ASSUME IInv, [Next]_vars
  PROVE  MainInv'
<1> USE DEF MainInv, MainAt, mainVars
<1> /\ MainInv
    /\ pc \in [X!Threads -> XP!PcValues]
  BY DEF IInv, XP!IInv, XP!TypeOK, X!Threads, XP!Threads
<1> /\ "dispatcher" \in X!Threads /\ "ticker" \in X!Threads /\ "main" \in X!Threads
  BY DEF X!Threads
<1>1. CASE EnterExporter
  BY <1>1 DEF EnterExporter, X!Handle, X!HandleStopped, X!HandleOpen
<1>2. CASE AppendEvent
  BY <1>2 DEF AppendEvent, X!AppendEvent, X!AppendUnderLock
<1>3. CASE Tick
  BY <1>3 DEF Tick, X!Tick
<1>4. ASSUME NEW t \in X!Threads, Deliver(t)
      PROVE  MainInv'
  <2>1. pc[t] # "idle" /\ stopped' = stopped /\ \A u \in X!Threads : u # t => pc'[u] = pc[u]
    BY <1>4 DEF Deliver, X!Deliver, X!FlushEmpty, X!TakeBatch, X!Build, X!MarshalFails, X!PostAccepted,
                X!PostFailed, X!BackoffOver, X!PostError, X!Retry, X!GiveUp
  <2> QED
    BY <1>4, <2>1 DEF Deliver
<1>5. CASE StopExporter
  BY <1>5 DEF StopExporter, X!Stop
<1>6. CASE Signal \/ ListenFails \/ ShutdownReturns \/ CloseStore \/ ReturnFromMain \/ Killed
  BY <1>6 DEF Signal, ListenFails, ShutdownReturns, CloseStore, ReturnFromMain, Killed, exporterVars
<1>7. CASE (\E p \in Publishers, e \in Drawn : Publish(p, e)) \/ (\E p \in Publishers : Send(p)) \/ Receive
  BY <1>7 DEF Publish, Send, Receive, exporterVars
<1>8. CASE SaveEvent \/ SaveFails \/ LogOrRecord \/ LeaveExporter
  BY <1>8 DEF SaveEvent, SaveFails, LogOrRecord, LeaveExporter, exporterVars
<1>9. CASE UNCHANGED vars
  BY <1>9 DEF vars, exporterVars
<1> QED
  BY <1>1, <1>2, <1>3, <1>4, <1>5, <1>6, <1>7, <1>8, <1>9 DEF Next, Dispatcher, Main, Ended

-----------------------------------------------------------------------------
\* The published events in their order: what the exporter has seen, the event in
\* hand, the channel.
LEMMA PublishedParts ==
  ASSUME IInv
  PROVE  /\ published \in Seq(Events) /\ seen[4] \in Seq(Events) /\ queue \in Seq(Events)
         /\ Len(published) \in Nat /\ Len(seen[4]) \in Nat /\ Len(queue) \in Nat /\ Len(queue) <= Cap
         /\ \A i \in 1..Len(seen[4]) : i \in 1..Len(published) /\ published[i] = seen[4][i]
         /\ cur # NoEvent => Len(seen[4]) + 1 \in 1..Len(published) /\ published[Len(seen[4]) + 1] = cur
         /\ \A i \in 1..Len(published) :
              published[i] \in EventsIn(seen[4]) \cup {cur} \cup EventsIn(queue) /\ published[i] \in Events
<1> USE DEF IInv, BP!IInv, BP!TypeOK, BP!Subs, Export
<1>1. queue \in Seq(Events) /\ published \in Seq(Events) /\ seen[4] \in Seq(Events) /\ Len(queue) <= Cap
  OBVIOUS
<1>2. BP!InHand \in Seq(Events) /\ (\A i \in 1..Len(BP!InHand) : BP!InHand[i] = cur)
  BY DEF BP!InHand
<1> DEFINE h == seen[4] \o BP!InHand
<1>3. /\ h \in Seq(Events) /\ Len(h) = Len(seen[4]) + Len(BP!InHand)
      /\ \A i \in 1..Len(h) : h[i] = IF i <= Len(seen[4]) THEN seen[4][i] ELSE BP!InHand[i - Len(seen[4])]
  BY <1>1, <1>2, ConcatProperties
<1>4. published = h \o queue
  BY DEF BP!Conservation
<1> HIDE DEF h
<1>5. /\ Len(published) = Len(h) + Len(queue)
      /\ \A i \in 1..Len(published) : published[i] = IF i <= Len(h) THEN h[i] ELSE queue[i - Len(h)]
  BY <1>1, <1>3, <1>4, ConcatProperties
<1>6. Len(h) \in Nat /\ Len(queue) \in Nat /\ Len(seen[4]) \in Nat /\ Len(BP!InHand) \in Nat
  BY <1>1, <1>2, <1>3, LenProperties
<1>7. ASSUME NEW i \in 1..Len(published)
      PROVE  published[i] \in EventsIn(seen[4]) \cup {cur} \cup EventsIn(queue) /\ published[i] \in Events
  <2>1. published[i] \in Events
    BY <1>1, ElementOfSeq
  <2>2. CASE i > Len(h)
    <3>1. i - Len(h) \in 1..Len(queue) /\ published[i] = queue[i - Len(h)]
      BY <1>5, <1>6, <2>2
    <3> QED
      BY <2>1, <3>1 DEF EventsIn
  <2>3. CASE i <= Len(seen[4])
    <3>1. i \in 1..Len(seen[4]) /\ i \in 1..Len(h) /\ i <= Len(h)
      BY <1>3, <1>6, <2>3
    <3>2. published[i] = seen[4][i]
      BY <1>3, <1>5, <2>3, <3>1
    <3> QED
      BY <2>1, <3>1, <3>2 DEF EventsIn
  <2>4. CASE i > Len(seen[4]) /\ i <= Len(h)
    <3>1. i - Len(seen[4]) \in 1..Len(BP!InHand) /\ i \in 1..Len(h)
      BY <1>3, <1>6, <2>4
    <3>2. published[i] = BP!InHand[i - Len(seen[4])]
      BY <1>3, <1>5, <1>6, <2>4, <3>1
    <3> QED
      BY <1>2, <2>1, <3>1, <3>2
  <2> QED
    BY <1>6, <2>2, <2>3, <2>4
<1>8. \A i \in 1..Len(seen[4]) : i \in 1..Len(published) /\ published[i] = seen[4][i]
  <2> TAKE i \in 1..Len(seen[4])
  <2>1. i \in 1..Len(h) /\ i \in 1..Len(published) /\ i <= Len(h) /\ i <= Len(seen[4])
    BY <1>3, <1>5, <1>6
  <2> QED
    BY <1>3, <1>5, <2>1
<1>9. ASSUME cur # NoEvent
      PROVE  Len(seen[4]) + 1 \in 1..Len(published) /\ published[Len(seen[4]) + 1] = cur
  <2>1. BP!InHand = <<cur>> /\ Len(BP!InHand) = 1 /\ BP!InHand[1] = cur
    BY <1>9 DEF BP!InHand
  <2> DEFINE k == Len(seen[4]) + 1
  <2>2. k \in 1..Len(h) /\ k \in 1..Len(published) /\ ~(k <= Len(seen[4])) /\ k <= Len(h)
    BY <1>3, <1>5, <1>6, <2>1
  <2>3. published[k] = h[k] /\ h[k] = BP!InHand[k - Len(seen[4])] /\ k - Len(seen[4]) = 1
    BY <1>3, <1>5, <1>6, <2>2
  <2> QED
    BY <2>1, <2>2, <2>3
<1>10. Len(published) \in Nat
  BY <1>5, <1>6
<1> QED
  BY <1>1, <1>6, <1>7, <1>8, <1>9, <1>10

\* An event whose Publish has returned was seen by the exporter, is in hand, or
\* is in the channel.
LEMMA WherePublishedIs ==
  ASSUME IInv
  PROVE  /\ EventsIn(published) \subseteq EventsIn(seen[Export]) \cup ({cur} \cap Events) \cup EventsIn(queue)
         /\ EventsIn(published) \subseteq Events
         /\ queue \in Seq(Events) /\ Len(queue) <= Cap
  BY PublishedParts DEF EventsIn, Export

\* What was offered to the exporter was published, and all of it but the event
\* in hand has been through the exporter.
LEMMA OfferedIsPublished ==
  ASSUME IInv
  PROVE  offered \subseteq EventsIn(published) /\ offered \subseteq EventsIn(seen[4]) \cup {cur}
<1> USE DEF IInv, BP!IInv, BP!TypeOK, BP!Subs, OrderInv, Tracker
<1>1. seen[4] \in Seq(Events) /\ offered \subseteq EventsIn(seen[3])
  OBVIOUS
<1>2. EventsIn(seen[4]) \subseteq EventsIn(published) /\ (cur # NoEvent => cur \in EventsIn(published))
  BY PublishedParts DEF EventsIn
<1>3. CASE 3 < sub
  <2>1. cur \in Events /\ cur # NoEvent /\ seen[3] = Append(seen[4], cur)
    BY <1>3 DEF BP!LockStep
  <2>2. EventsIn(seen[3]) = EventsIn(seen[4]) \cup {cur}
    BY <1>1, <2>1, EventsInAppend
  <2> QED
    BY <1>1, <1>2, <2>1, <2>2
<1>4. CASE ~(3 < sub)
  <2>1. seen[3] = seen[4]
    BY <1>4 DEF BP!LockStep
  <2> QED
    BY <1>1, <1>2, <2>1
<1> QED
  BY <1>3, <1>4

\* What the exporter keeps was offered to it.
LEMMA KeptWasOffered == IInv => accepted \cup X!InHand \subseteq offered
  BY DEF IInv, XP!IInv, XP!TypeOK, XP!HandsInv, X!InHand

\* Stop is called once and for all; an event that is refused is the last one the
\* exporter was offered.
LEMMA RefusedStep ==
  ASSUME IInv, [Next]_vars
  PROVE  RefusedAreLast'
<1> USE DEF RefusedAreLast, Refused
<1> RefusedAreLast
  BY DEF IInv
<1>1. /\ accepted \cup X!InHand \subseteq offered
      /\ accepted \subseteq offered
      /\ pc["dispatcher"] = "append" => handling \in offered
  BY KeptWasOffered DEF IInv, XP!IInv, XP!TypeOK, XP!HandsInv
<1>2. ASSUME offered' = offered, (accepted \cup X!InHand)' = accepted \cup X!InHand,
             stopped' = stopped \/ stopped', published' = published
      PROVE  RefusedAreLast'
  BY <1>2
<1>3. CASE EnterExporter
  <2>1. /\ sub = Export /\ cur \notin offered /\ published' = published /\ stopped' = stopped
        /\ accepted' = accepted /\ pc["dispatcher"] = "idle" /\ offered' = offered \cup {cur}
    BY <1>3 DEF EnterExporter, X!Handle, X!HandleStopped, X!HandleOpen, busVars
  <2>2. CASE X!HandleOpen(cur)
    <3>1. /\ ~stopped /\ handling' = cur /\ pc'["dispatcher"] = "append"
      BY <2>2, <2>1 DEF X!HandleOpen, IInv, XP!IInv, XP!TypeOK, XP!Threads, X!Threads
    <3>2. Refused = {} /\ X!InHand = {} /\ (X!InHand)' = {cur}
      BY <2>1, <3>1 DEF X!InHand
    <3>3. Refused' = {}
      BY <2>1, <3>2
    <3> QED
      BY <3>3
  <2>3. CASE X!HandleStopped(cur)
    <3>1. stopped /\ (X!InHand)' = X!InHand
      BY <2>3 DEF X!HandleStopped, X!InHand
    <3>2. Refused' = Refused \cup {cur}
      BY <1>1, <2>1, <3>1
    <3>3. cur # NoEvent
      BY <2>1, TrackerIsAhead
    <3>4. ASSUME NEW i \in 1..Len(published), NEW j \in 1..Len(published),
                 i < j, published[i] = cur, published[j] \in offered
          PROVE  FALSE
      <4>1. published[j] # cur
        BY <3>4 DEF IInv, BP!NoneTwice
      <4>2. PICK k \in 1..Len(seen[4]) : published[j] = seen[4][k]
        BY <3>4, <4>1, OfferedIsPublished DEF EventsIn
      <4>3. k \in 1..Len(published) /\ published[k] = published[j]
        BY <4>2, PublishedParts
      <4>4. k = j
        BY <3>4, <4>3 DEF IInv, BP!NoneTwice
      <4>5. Len(seen[4]) + 1 \in 1..Len(published) /\ published[Len(seen[4]) + 1] = cur /\ Len(seen[4]) \in Nat
        BY <3>3, PublishedParts
      <4>6. i = Len(seen[4]) + 1
        BY <3>4, <4>5 DEF IInv, BP!NoneTwice
      <4> QED
        BY <3>4, <4>2, <4>4, <4>5, <4>6
    <3>5. \A i, j \in 1..Len(published) :
            i < j /\ published[i] \in Refused' => published[j] \notin accepted \cup X!InHand
      BY <1>1, <3>2, <3>4
    <3> QED
      BY <2>1, <3>1, <3>5
  <2> QED
    BY <1>3, <2>2, <2>3 DEF EnterExporter, X!Handle
<1>4. CASE AppendEvent
  <2>1. (accepted \cup X!InHand)' = accepted \cup X!InHand
    <3>1. /\ pc["dispatcher"] = "append" /\ accepted' = accepted \cup {handling}
          /\ pc'["dispatcher"] # "append"
      BY <1>4 DEF AppendEvent, X!AppendEvent, X!AppendUnderLock, IInv, XP!IInv, XP!TypeOK, XP!Threads
    <3> QED
      BY <3>1 DEF X!InHand
  <2> QED
    BY <1>2, <1>4, <2>1 DEF AppendEvent, X!AppendEvent, X!AppendUnderLock, busVars
<1>5. ASSUME NEW p \in Publishers, Send(p)
      PROVE  RefusedAreLast'
  <2> DEFINE n == Len(published)
  <2>1. /\ offered' = offered /\ stopped' = stopped /\ (accepted \cup X!InHand)' = accepted \cup X!InHand
        /\ published' = Append(published, sending[p]) /\ sending[p] # NoEvent
    BY <1>5 DEF Send, B!Send, exporterVars, X!InHand
  <2>2. sending[p] \in Events /\ sending[p] \notin offered
    BY <2>1, OfferedIsPublished DEF IInv, BP!IInv, BP!TypeOK, BP!NoneTwice, EventsIn
  <2>3. /\ n \in Nat /\ Len(published') = n + 1 /\ published'[n + 1] = sending[p]
        /\ \A i \in 1..n : published'[i] = published[i]
    BY <2>1, <2>2, PublishedParts, AppendProperties
  <2>4. ASSUME NEW i \in 1..n + 1, NEW j \in 1..n + 1, i < j, published'[i] \in Refused
        PROVE  published'[j] \notin accepted \cup X!InHand
    <3>1. i \in 1..n /\ published'[i] = published[i]
      BY <2>3, <2>4
    <3>2. CASE j = n + 1
      BY <1>1, <2>2, <2>3, <3>2
    <3>3. CASE j # n + 1
      <4>1. j \in 1..n /\ published'[j] = published[j]
        BY <2>3, <3>3
      <4> QED
        BY <2>4, <3>1, <4>1
    <3> QED
      BY <3>2, <3>3
  <2>5. Refused' = Refused
    BY <2>1
  <2> QED
    BY <2>1, <2>3, <2>4, <2>5
<1>6. ASSUME NEW t \in X!Threads, Deliver(t)
      PROVE  RefusedAreLast'
  <2>1. /\ published' = published /\ offered' = offered /\ accepted' = accepted /\ stopped' = stopped
        /\ handling' = handling
        /\ pc'["dispatcher"] = "append" <=> pc["dispatcher"] = "append"
    BY <1>6 DEF Deliver, X!Deliver, X!FlushEmpty, X!TakeBatch, X!Build, X!MarshalFails, X!PostAccepted,
                X!PostFailed, X!BackoffOver, X!PostError, X!Retry, X!GiveUp, X!Threads, busVars,
                IInv, XP!IInv, XP!TypeOK, XP!Threads
  <2> QED
    BY <1>2, <2>1 DEF X!InHand
<1>7. CASE Tick \/ StopExporter
  <2>1. /\ published' = published /\ offered' = offered /\ accepted' = accepted
        /\ handling' = handling /\ (stopped' = stopped \/ stopped')
        /\ pc'["dispatcher"] = pc["dispatcher"]
    BY <1>7 DEF Tick, StopExporter, X!Tick, X!Stop, busVars, IInv, XP!IInv, XP!TypeOK, XP!Threads
  <2> QED
    BY <1>2, <2>1 DEF X!InHand
<1>8. ASSUME UNCHANGED <<published, offered, accepted, handling, stopped, pc>>
      PROVE  RefusedAreLast'
  BY <1>2, <1>8 DEF X!InHand
<1>9. CASE (\E p \in Publishers, e \in Drawn : Publish(p, e)) \/ Receive
  BY <1>8, <1>9 DEF Publish, Receive, B!Publish, B!Receive, exporterVars
<1>10. CASE SaveEvent \/ SaveFails \/ LogOrRecord \/ LeaveExporter
  BY <1>8, <1>10 DEF SaveEvent, SaveFails, LogOrRecord, LeaveExporter, B!HandleReturns, exporterVars
<1>11. CASE Signal \/ ListenFails \/ ShutdownReturns \/ CloseStore \/ ReturnFromMain \/ Killed
  BY <1>8, <1>11 DEF Signal, ListenFails, ShutdownReturns, CloseStore, ReturnFromMain, Killed, busVars, exporterVars
<1>12. CASE UNCHANGED vars
  BY <1>8, <1>12 DEF vars, busVars, exporterVars
<1> QED
  BY <1>3, <1>4, <1>5, <1>6, <1>7, <1>9, <1>10, <1>11, <1>12 DEF Next, Dispatcher, Main, Ended

LEMMA InitIInv == Init => BP!Init /\ XP!Init /\ OrderInv /\ InsideInv /\ MainInv /\ RefusedAreLast
<1> SUFFICES ASSUME Init PROVE BP!Init /\ XP!Init /\ OrderInv /\ InsideInv /\ MainInv /\ RefusedAreLast
  OBVIOUS
<1>1. BP!Init
  BY DEF Init, B!Init, BP!Init, B!Subs, BP!Subs
<1>2. XP!Init
  BY DEF Init, X!Init, XP!Init, X!Threads, XP!Threads
<1>3. OrderInv
  <2>1. \A s \in 1..4 : EventsIn(seen[s]) = {}
    BY DEF Init, B!Init, B!Subs, EventsIn
  <2> QED
    BY <2>1 DEF Init, X!Init, OrderInv, Store, Tracker, Export
<1>4. InsideInv /\ MainInv
  BY DEF Init, X!Init, X!Threads, InsideInv, MainInv, Delivering
<1>5. RefusedAreLast
  BY DEF Init, X!Init, RefusedAreLast, Refused
<1> QED
  BY <1>1, <1>2, <1>3, <1>4, <1>5

-----------------------------------------------------------------------------
\* The bus that main.go:136-164 assembles is the bus of bus.go: what BusProofs
\* proves of it holds in the running process, through shutdown and kills.
THEOREM ProcessRunsTheBus == Spec => BP!Spec
<1>1. Init => BP!Init
  BY InitIInv
<1>2. [Next]_vars => [BP!Next]_(BP!vars)
  BY BusSteps
<1> QED
  BY <1>1, <1>2, PTL DEF Spec, BP!Spec

LEMMA BusInvariance == Spec => []BP!IInv
<1>1. 4 \in Nat \ {0}
  OBVIOUS
<1> QED
  BY <1>1, ProcessRunsTheBus, BP!Invariance, PTL

\* Its exporter is the exporter of exporter.go: the bus hands it every event
\* once, main calls Stop once, and what ExporterProofs proves holds.
THEOREM ProcessRunsTheExporter == Spec => XP!Spec
<1>1. Init => XP!Init
  BY InitIInv
<1>2. BP!IInv /\ [Next]_vars => [XP!Next]_(XP!vars)
  BY ExporterSteps DEF BP!IInv
<1> QED
  BY <1>1, <1>2, BusInvariance, PTL DEF Spec, XP!Spec

LEMMA ExporterInvariance == Spec => []XP!IInv
  BY ProcessRunsTheExporter, XP!Invariance, PTL

LEMMA BusPublishesOnce == Spec => []BP!NoneTwice
<1>1. 4 \in Nat \ {0}
  OBVIOUS
<1> QED
  BY <1>1, ProcessRunsTheBus, BP!PublishedOnce, PTL

LEMMA Invariance == Spec => []IInv
<1>1. Init => OrderInv /\ InsideInv /\ MainInv /\ RefusedAreLast
  BY InitIInv
<1>2. BP!IInv /\ BP!NoneTwice /\ XP!IInv /\ OrderInv /\ InsideInv /\ MainInv /\ RefusedAreLast /\ [Next]_vars
        => (OrderInv /\ InsideInv /\ MainInv /\ RefusedAreLast)'
  BY OrderStep, InsideStep, MainStep, RefusedStep DEF IInv
<1>3. BP!IInv /\ BP!NoneTwice /\ XP!IInv /\ OrderInv /\ InsideInv /\ MainInv /\ RefusedAreLast => IInv
  BY DEF IInv
<1> QED
  BY <1>1, <1>2, <1>3, BusInvariance, BusPublishesOnce, ExporterInvariance, PTL DEF Spec
-----------------------------------------------------------------------------
\* An earlier subscriber has seen what a later one has (bus.go:36-41).
LEMMA SeenInOrder ==
  ASSUME IInv, NEW r \in 1..4, NEW s \in 1..4, r <= s
  PROVE  EventsIn(seen[s]) \subseteq EventsIn(seen[r])
<1> USE DEF IInv, BP!IInv, BP!TypeOK, BP!Subs, BP!LockStep
<1>1. seen[4] \in Seq(Events) /\ sub \in 0..4
  OBVIOUS
<1>2. CASE s < sub
  <2>1. r < sub
    BY <1>1, <1>2
  <2>2. seen[s] = Append(seen[4], cur) /\ seen[r] = Append(seen[4], cur)
    BY <1>2, <2>1
  <2> QED
    BY <2>2
<1>3. CASE ~(s < sub) /\ r < sub
  <2>1. seen[s] = seen[4] /\ seen[r] = Append(seen[4], cur) /\ cur \in Events
    BY <1>1, <1>3
  <2> QED
    BY <1>1, <2>1, EventsInAppend
<1>4. CASE ~(s < sub) /\ ~(r < sub)
  BY <1>1, <1>4
<1> QED
  BY <1>2, <1>3, <1>4

\* An event is buffered for the webhook only after the store has tried to keep
\* it, the log has a line of it and the tracker has scored it (main.go:136-164).
THEOREM ExportedAfterStored == Spec => []ExportedWasStored
<1>1. ASSUME IInv PROVE ExportedWasStored
  <2> USE <1>1 DEF IInv, OrderInv, XP!IInv, XP!TypeOK, Store, Log, Tracker, Export
  <2>1. EventsIn(seen[3]) \subseteq EventsIn(seen[2]) /\ EventsIn(seen[2]) \subseteq EventsIn(seen[1])
    BY SeenInOrder
  <2>2. accepted \subseteq EventsIn(seen[3])
    OBVIOUS
  <2>3. \A s \in 1..3 : s = 1 \/ s = 2 \/ s = 3
    OBVIOUS
  <2> QED
    BY <2>1, <2>2, <2>3 DEF ExportedWasStored
<1> QED
  BY <1>1, Invariance, PTL

-----------------------------------------------------------------------------
\* A crash at any moment costs the store at most the channel and the event in
\* hand (bus.go:13-20).
THEOREM CrashCostsTheChannel == Spec => []CrashLossBound
<1>1. ASSUME IInv PROVE CrashLossBound
  <2>1. EventsIn(published) \ Handled \subseteq EventsIn(queue) \cup {cur}
    <3>1. EventsIn(seen[4]) \subseteq Handled
      BY <1>1, SeenInOrder DEF IInv, OrderInv, Store
    <3> QED
      BY <1>1, <3>1, WherePublishedIs DEF Export
  <2>2. /\ IsFiniteSet(EventsIn(queue)) /\ Cardinality(EventsIn(queue)) \in Nat
        /\ Cardinality(EventsIn(queue)) <= Len(queue)
    BY <1>1, WherePublishedIs, EventsInFinite
  <2>3. /\ IsFiniteSet(EventsIn(queue) \cup {cur})
        /\ Cardinality(EventsIn(queue) \cup {cur}) \in Nat
        /\ Cardinality(EventsIn(queue) \cup {cur}) <= Cardinality(EventsIn(queue)) + 1
    BY <2>2, FS_AddElement, FS_CardinalityType
  <2> DEFINE l == EventsIn(published) \ Handled
  <2>4. Cardinality(l) <= Cardinality(EventsIn(queue) \cup {cur}) /\ Cardinality(l) \in Nat
    BY <2>1, <2>3, FS_Subset, FS_CardinalityType
  <2>5. Len(queue) <= Cap /\ Len(queue) \in Nat
    BY <1>1, WherePublishedIs, LenProperties
  <2> QED
    BY <2>2, <2>3, <2>4, <2>5 DEF CrashLossBound
<1> QED
  BY <1>1, Invariance, PTL
-----------------------------------------------------------------------------
\* What is neither settled nor refused when Stop has returned.
LEMMA PendingIsSomewhere ==
  ASSUME IInv, phase \in {"closed", "exited"}
  PROVE  /\ Pending \subseteq EventsIn(queue) \cup {cur} \cup buf \cup batch["dispatcher"] \cup batch["ticker"]
         /\ batch["main"] = {}
         /\ cur \in accepted => Pending \subseteq EventsIn(queue) \cup buf \cup batch["dispatcher"] \cup batch["ticker"]
<1>1. pc["main"] = "idle" /\ batch["main"] = {}
  BY DEF IInv, MainInv, XP!IInv, XP!HandsInv, XP!Threads
<1>2. accepted = buf \cup batch["dispatcher"] \cup batch["ticker"] \cup acked \cup lost
  BY <1>1 DEF IInv, XP!IInv, XP!Custody, XP!InFlight, XP!Threads
<1>3. handling = cur \/ handling \notin Events
  BY DEF IInv, InsideInv
<1>4. EventsIn(published) \subseteq offered \cup {cur} \cup EventsIn(queue) /\ EventsIn(published) \subseteq Events
  BY WherePublishedIs DEF IInv, OrderInv
<1> QED
  BY <1>1, <1>2, <1>3, <1>4 DEF Pending, Refused, X!InHand

\* Three sets that are no larger than a, b and c have no more than a + b + c
\* elements together.
LEMMA ThreeParts ==
  ASSUME NEW A, NEW B0, NEW C, NEW U, NEW a \in Nat, NEW b \in Nat, NEW c \in Nat,
         IsFiniteSet(A), IsFiniteSet(B0), IsFiniteSet(C), U \subseteq A \cup B0 \cup C,
         Cardinality(A) <= a, Cardinality(B0) <= b, Cardinality(C) <= c
  PROVE  Cardinality(U) <= a + b + c
<1> DEFINE T == A \cup B0
           W == T \cup C
<1>1. Cardinality(A) \in Nat /\ Cardinality(B0) \in Nat /\ Cardinality(C) \in Nat
  BY FS_CardinalityType
<1>2. IsFiniteSet(T) /\ Cardinality(T) = Cardinality(A) + Cardinality(B0) - Cardinality(A \cap B0)
  BY FS_Union
<1>3. Cardinality(A \cap B0) \in Nat
  BY FS_Intersection, FS_CardinalityType
<1>4. Cardinality(T) \in Nat
  BY <1>2, FS_CardinalityType
<1> HIDE DEF T
<1>5. IsFiniteSet(W) /\ Cardinality(W) = Cardinality(T) + Cardinality(C) - Cardinality(T \cap C)
  BY <1>2, FS_Union
<1>6. Cardinality(T \cap C) \in Nat
  BY <1>2, FS_Intersection, FS_CardinalityType
<1>7. Cardinality(W) \in Nat /\ U \subseteq W
  BY <1>5, FS_CardinalityType DEF T
<1>8. Cardinality(U) <= Cardinality(W) /\ Cardinality(U) \in Nat
  BY <1>5, <1>7, FS_Subset, FS_CardinalityType
<1> QED
  BY <1>1, <1>2, <1>3, <1>4, <1>5, <1>6, <1>7, <1>8

\* The event in hand and what slipped in behind Stop fit into one batch, when
\* the dispatcher delivers none.
LEMMA HandAndStraggler ==
  ASSUME IInv, phase \in {"closed", "exited"}, pc["dispatcher"] \notin Delivering
  PROVE  \E R : /\ IsFiniteSet(R) /\ Cardinality(R) <= BatchSize
                /\ Pending \subseteq EventsIn(queue) \cup R \cup batch["ticker"]
<1>1. /\ batch["dispatcher"] = {}
      /\ stopped /\ pc["main"] = "idle"
      /\ IsFiniteSet(buf) /\ Cardinality(buf) <= BatchSize
      /\ Cardinality(buf) = BatchSize => pc["dispatcher"] = "flush"
  BY SameCardinality DEF IInv, MainInv, XP!IInv, XP!HandsInv, XP!FiniteInv, XP!BatchBound, XP!Threads, Delivering
<1>2. Cardinality(buf \cup XP!InHand) <= 1
  BY <1>1, SameCardinality DEF IInv, XP!IInv, XP!StragglerBound
<1>3. Pending \subseteq EventsIn(queue) \cup ({cur} \cup buf) \cup batch["ticker"]
  BY <1>1, PendingIsSomewhere
<1>4. CASE pc["dispatcher"] = "append"
  <2>1. XP!InHand = {cur}
    BY <1>4 DEF IInv, InsideInv, XP!InHand
  <2>2. IsFiniteSet({cur} \cup buf) /\ Cardinality({cur} \cup buf) <= 1
    <3>1. {cur} \cup buf = buf \cup {cur}
      OBVIOUS
    <3> QED
      BY <1>1, <1>2, <2>1, <3>1, FS_AddElement
  <2> QED
    BY <1>3, <2>2, FS_CardinalityType
<1>5. CASE pc["dispatcher"] = "flush"
  <2>1. cur \in accepted
    BY <1>5 DEF IInv, InsideInv
  <2>2. Pending \subseteq EventsIn(queue) \cup buf \cup batch["ticker"]
    BY <1>1, <2>1, PendingIsSomewhere
  <2> QED
    BY <1>1, <2>2
<1>6. CASE pc["dispatcher"] = "idle"
  <2>1. Cardinality(buf) \in Nat /\ Cardinality(buf) < BatchSize
    BY <1>1, <1>6, FS_CardinalityType
  <2>2. /\ IsFiniteSet(buf \cup {cur}) /\ Cardinality(buf \cup {cur}) \in Nat
        /\ Cardinality(buf \cup {cur}) <= Cardinality(buf) + 1
    <3>1. /\ IsFiniteSet(buf \cup {cur})
          /\ Cardinality(buf \cup {cur}) = IF cur \in buf THEN Cardinality(buf) ELSE Cardinality(buf) + 1
      BY <1>1, FS_AddElement
    <3> QED
      BY <2>1, <3>1
  <2>3. buf \cup {cur} = {cur} \cup buf
    OBVIOUS
  <2> QED
    BY <1>3, <2>1, <2>2, <2>3
<1>7. pc["dispatcher"] \in {"idle", "append", "flush", "build", "post", "backoff"}
  BY DEF IInv, XP!IInv, XP!TypeOK, XP!PcValues, XP!Threads
<1> QED
  BY <1>4, <1>5, <1>6, <1>7 DEF Delivering

\* An orderly shutdown costs the webhook the events refused after Stop, which are
\* the last ones, and besides them at most the channel and two batches, and
\* nothing that Stop itself took (exporter.go:114-116, 134-142, main.go:222-229).
THEOREM ShutdownCostsTwoBatches == Spec => []ShutdownLossBound
<1>1. ASSUME IInv, phase \in {"closed", "exited"}
      PROVE  Cardinality(Pending) <= Cap + 2 * BatchSize
  <2>1. /\ IsFiniteSet(EventsIn(queue)) /\ Cardinality(EventsIn(queue)) <= Cap
    <3>1. queue \in Seq(Events) /\ Len(queue) <= Cap /\ Len(queue) \in Nat
      BY <1>1, WherePublishedIs, LenProperties
    <3> QED
      BY <3>1, EventsInFinite
  <2>2. \A t \in XP!Threads : IsFiniteSet(batch[t]) /\ Cardinality(batch[t]) <= BatchSize
    BY <1>1, SameCardinality DEF IInv, XP!IInv, XP!FiniteInv, XP!BatchBound
  <2>3. \E R : /\ IsFiniteSet(R) /\ Cardinality(R) <= BatchSize
               /\ Pending \subseteq EventsIn(queue) \cup R \cup batch["ticker"]
    <3>1. CASE pc["dispatcher"] \in Delivering
      <4>1. buf = {} /\ cur \in accepted
        BY <1>1, <3>1 DEF IInv, InsideInv
      <4>2. Pending \subseteq EventsIn(queue) \cup batch["dispatcher"] \cup batch["ticker"]
        BY <1>1, <4>1, PendingIsSomewhere
      <4> QED
        BY <2>2, <4>2 DEF XP!Threads
    <3>2. CASE pc["dispatcher"] \notin Delivering
      BY <1>1, <3>2, HandAndStraggler
    <3> QED
      BY <3>1, <3>2
  <2>4. PICK R : /\ IsFiniteSet(R) /\ Cardinality(R) <= BatchSize
                 /\ Pending \subseteq EventsIn(queue) \cup R \cup batch["ticker"]
    BY <2>3
  <2>5. IsFiniteSet(batch["ticker"]) /\ Cardinality(batch["ticker"]) <= BatchSize
    BY <2>2 DEF XP!Threads
  <2>6. Cardinality(Pending) <= Cap + BatchSize + BatchSize
    BY <2>1, <2>4, <2>5, ThreeParts
  <2>7. Cap + BatchSize + BatchSize = Cap + 2 * BatchSize
    OBVIOUS
  <2> QED
    BY <2>6, <2>7
<1>2. IInv => ShutdownLossBound
  BY <1>1, PendingIsSomewhere DEF ShutdownLossBound, IInv
<1> QED
  BY <1>2, Invariance, PTL
===============================================================================
