------------------------------ MODULE BusProofs ------------------------------
(***************************************************************************)
(* The safety of the bus for every set of publishers and events, every     *)
(* capacity and every number of subscribers: types, conservation, lock     *)
(* step, draining, and that the bus implements FanOut's safety part.       *)
(***************************************************************************)
EXTENDS Bus, SequenceTheorems, TLAPS

USE CapAssumption, NSubsAssumption, NoEventAssumption

\* Stop is called when nobody is inside Publish, and Publish not after it.
ClosedIsQuiet == closed => \A p \in Publishers : sending[p] = NoEvent

\* The dispatcher ends on a closed and empty channel.
ExitedIsEmpty == exited => closed /\ cur = NoEvent /\ queue = <<>>

\* No event is published twice, by one publisher or by two.
NoneTwice ==
  /\ \A i, j \in 1..Len(published) : i # j => published[i] # published[j]
  /\ \A p \in Publishers : \A i \in 1..Len(published) : sending[p] # published[i]
  /\ \A p, q \in Publishers : p # q /\ sending[p] # NoEvent => sending[p] # sending[q]

\* The inductive invariant.
IInv == TypeOK /\ Conservation /\ LockStep /\ ClosedIsQuiet /\ ExitedIsEmpty

-----------------------------------------------------------------------------
\* Appending to a concatenation appends to its last part.
LEMMA AppendToConcat ==
  \A s, t \in Seq(Events) : \A e \in Events : Append(s \o t, e) = s \o Append(t, e)
<1> TAKE s, t \in Seq(Events)
<1> TAKE e \in Events
<1>1. s \o t \in Seq(Events) /\ <<e>> \in Seq(Events)
  BY ConcatProperties
<1>2. Append(s \o t, e) = (s \o t) \o <<e>>
  BY <1>1, AppendIsConcat
<1>3. Append(t, e) = t \o <<e>>
  BY AppendIsConcat
<1> QED
  BY <1>1, <1>2, <1>3, ConcatAssociative

\* A sequence is its head followed by its tail.
LEMMA HeadThenTail ==
  ASSUME NEW A, NEW s \in Seq(A), s # <<>>
  PROVE  s = <<Head(s)>> \o Tail(s)
<1>1. /\ Head(s) \in A /\ Tail(s) \in Seq(A) /\ <<Head(s)>> \in Seq(A)
      /\ Len(Tail(s)) = Len(s) - 1
      /\ \A k \in 1..Len(Tail(s)) : Tail(s)[k] = s[k + 1]
  BY HeadTailProperties
<1>2. Len(s) \in Nat \ {0} /\ s \in [1..Len(s) -> A]
  BY EmptySeq, LenProperties
<1> DEFINE c == <<Head(s)>> \o Tail(s)
<1>3. Len(<<Head(s)>>) = 1 /\ <<Head(s)>>[1] = Head(s) /\ Head(s) = s[1]
  BY <1>2
<1>4. /\ c \in Seq(A) /\ Len(c) = Len(s)
      /\ \A i \in 1..Len(s) : c[i] = IF i <= 1 THEN s[1] ELSE Tail(s)[i - 1]
  BY <1>1, <1>2, <1>3, ConcatProperties
<1>5. \A i \in 1..Len(s) : c[i] = s[i]
  <2> TAKE i \in 1..Len(s)
  <2>1. CASE i = 1
    BY <2>1, <1>4
  <2>2. CASE i # 1
    <3>1. i - 1 \in 1..Len(Tail(s))
      BY <2>2, <1>1, <1>2
    <3>2. Tail(s)[i - 1] = s[(i - 1) + 1]
      BY <1>1, <3>1
    <3> QED
      BY <2>2, <3>2, <1>4
  <2> QED
    BY <2>1, <2>2
<1>6. c \in [1..Len(s) -> A]
  BY <1>4, LenProperties
<1> QED
  BY <1>2, <1>5, <1>6

\* What the dispatcher holds is a sequence of at most one event.
LEMMA InHandIsSeq ==
  ASSUME TypeOK
  PROVE  InHand \in Seq(Events) /\ (cur # NoEvent => InHand = <<cur>>) /\ (cur = NoEvent => InHand = <<>>)
  BY DEF TypeOK, InHand

-----------------------------------------------------------------------------
\* Every step keeps the types and the channel within its capacity.
LEMMA TypeStep ==
  ASSUME TypeOK, ExitedIsEmpty, [Next]_vars
  PROVE  TypeOK'
<1> USE DEF TypeOK, Subs
<1>1. ASSUME NEW p \in Publishers, NEW e \in Events, Publish(p, e)
      PROVE  TypeOK'
  BY <1>1 DEF Publish
<1>2. ASSUME NEW p \in Publishers, Send(p)
      PROVE  TypeOK'
  <2>1. sending[p] \in Events
    BY <1>2 DEF Send
  <2>2. Append(queue, sending[p]) \in Seq(Events) /\ Append(published, sending[p]) \in Seq(Events)
    BY <2>1, AppendProperties
  <2>3. Len(queue') <= Cap
    BY <1>2, <2>1, AppendProperties DEF Send
  <2> QED
    BY <1>2, <2>2, <2>3 DEF Send
<1>3. CASE Receive
  <2>1. Head(queue) \in Events /\ Tail(queue) \in Seq(Events) /\ Len(Tail(queue)) = Len(queue) - 1
    BY <1>3, HeadTailProperties DEF Receive
  <2>2. Len(queue') <= Cap
    BY <1>3, <2>1, LenProperties DEF Receive
  <2> QED
    BY <1>3, <2>1, <2>2 DEF Receive
<1>4. CASE HandleReturns
  <2>1. cur \in Events /\ sub \in Subs
    BY <1>4 DEF HandleReturns
  <2>2. Append(seen[sub], cur) \in Seq(Events)
    BY <2>1, AppendProperties
  <2>3. seen' \in [Subs -> Seq(Events)]
    BY <1>4, <2>1, <2>2 DEF HandleReturns
  <2> QED
    BY <1>4, <2>1, <2>3 DEF HandleReturns
<1>5. CASE Stop
  BY <1>5 DEF Stop
<1>6. CASE Exit
  BY <1>6 DEF Exit
<1>7. CASE UNCHANGED vars
  BY <1>7 DEF vars
<1> QED
  BY <1>1, <1>2, <1>3, <1>4, <1>5, <1>6, <1>7 DEF Next, Finished

\* Every step keeps what was published equal to what was handled, what is in
\* hand and what is in the channel.
LEMMA ConservationStep ==
  ASSUME TypeOK, Conservation, LockStep, [Next]_vars
  PROVE  Conservation'
<1> DEFINE done == seen[NSubs]
<1>0. /\ NSubs \in Subs /\ done \in Seq(Events) /\ queue \in Seq(Events)
      /\ InHand \in Seq(Events) /\ done \o InHand \in Seq(Events)
  BY InHandIsSeq, ConcatProperties DEF TypeOK, Subs
<1>1. ASSUME NEW p \in Publishers, Send(p)
      PROVE  Conservation'
  <2>1. sending[p] \in Events
    BY <1>1 DEF Send, TypeOK
  <2> HIDE DEF done
  <2>2. Append((done \o InHand) \o queue, sending[p]) = (done \o InHand) \o Append(queue, sending[p])
    BY <1>0, <2>1, AppendToConcat
  <2> QED
    BY <1>1, <2>2 DEF done, Send, Conservation, InHand
<1>2. CASE Receive
  <2>1. queue = <<Head(queue)>> \o Tail(queue) /\ Head(queue) \in Events /\ Tail(queue) \in Seq(Events)
    BY <1>0, <1>2, HeadThenTail, HeadTailProperties DEF Receive
  <2>2. InHand = <<>> /\ InHand' = <<Head(queue)>> /\ <<Head(queue)>> \in Seq(Events)
    BY <1>2, <2>1 DEF Receive, InHand
  <2>3. done \o (<<Head(queue)>> \o Tail(queue)) = (done \o <<Head(queue)>>) \o Tail(queue)
    BY <1>0, <2>1, <2>2, ConcatAssociative
  <2>4. (done \o <<>>) \o queue = (done \o <<Head(queue)>>) \o Tail(queue)
    BY <1>0, <2>1, <2>3, ConcatEmptySeq
  <2> QED
    BY <1>2, <2>2, <2>4 DEF Receive, Conservation
<1>3. CASE HandleReturns
  <2>1. cur \in Events /\ sub \in Subs /\ InHand = <<cur>>
    BY <1>3 DEF HandleReturns, TypeOK, InHand, Subs
  <2>2. CASE sub < NSubs
    <3>1. seen'[NSubs] = done /\ InHand' = InHand
      BY <1>3, <2>2, <1>0, <2>1 DEF HandleReturns, InHand, TypeOK, Subs
    <3> QED
      BY <1>3, <3>1 DEF HandleReturns, Conservation
  <2>3. CASE sub = NSubs
    <3>1. seen'[NSubs] = Append(done, cur) /\ InHand' = <<>>
      BY <1>3, <2>3, <1>0 DEF HandleReturns, InHand, TypeOK
    <3>2. Append(done, cur) = done \o <<cur>> /\ Append(done, cur) \in Seq(Events)
      BY <1>0, <2>1, AppendIsConcat, AppendProperties
    <3>3. Append(done, cur) \o <<>> = done \o InHand
      BY <3>2, <2>1, ConcatEmptySeq
    <3> QED
      BY <1>3, <3>1, <3>3 DEF HandleReturns, Conservation
  <2> QED
    BY <2>1, <2>2, <2>3 DEF Subs
<1>4. ASSUME UNCHANGED <<queue, cur, published, seen>>
      PROVE  Conservation'
  BY <1>4 DEF Conservation, InHand
<1> QED
  BY <1>1, <1>2, <1>3, <1>4 DEF Next, vars, Publish, Stop, Exit, Finished

\* Every step keeps the subscribers in lock step.
LEMMA LockStepStep ==
  ASSUME TypeOK, LockStep, [Next]_vars
  PROVE  LockStep'
<1>0. NSubs \in Subs /\ \A s \in Subs : s \in Nat /\ s >= 1 /\ s <= NSubs
  BY DEF Subs
<1>1. CASE Receive
  BY <1>0, <1>1 DEF Receive, LockStep, TypeOK
<1>2. CASE HandleReturns
  <2>1. cur \in Events /\ sub \in Subs
    BY <1>2 DEF HandleReturns, TypeOK, Subs
  <2>2. seen[sub] = seen[NSubs]
    BY <2>1 DEF LockStep, Subs
  <2>3. \A s \in Subs : seen'[s] = IF s = sub THEN Append(seen[NSubs], cur) ELSE seen[s]
    BY <1>2, <2>1, <2>2 DEF HandleReturns, TypeOK
  <2>4. CASE sub < NSubs
    <3>1. seen'[NSubs] = seen[NSubs] /\ cur' = cur /\ sub' = sub + 1
      BY <1>0, <1>2, <2>3, <2>4 DEF HandleReturns
    <3>2. ASSUME NEW s \in Subs
          PROVE  seen'[s] = IF s < sub' THEN Append(seen'[NSubs], cur') ELSE seen'[NSubs]
      BY <1>0, <2>1, <2>3, <3>1 DEF LockStep
    <3> QED
      BY <3>2 DEF LockStep, Subs
  <2>5. CASE sub = NSubs
    <3>1. sub' = 0
      BY <1>2, <2>5 DEF HandleReturns
    <3>2. ASSUME NEW s \in Subs, s # sub
          PROVE  seen[s] = Append(seen[NSubs], cur)
      <4>1. s < sub
        BY <1>0, <2>5, <3>2
      <4> QED
        BY <4>1 DEF LockStep
    <3>3. \A s \in Subs : seen'[s] = Append(seen[NSubs], cur)
      BY <2>3, <3>2
    <3> QED
      BY <1>0, <3>1, <3>3 DEF LockStep, Subs
  <2> QED
    BY <2>1, <2>4, <2>5, <1>0 DEF Subs
<1>3. ASSUME UNCHANGED <<cur, sub, seen>>
      PROVE  LockStep'
  BY <1>3 DEF LockStep, Subs
<1> QED
  BY <1>1, <1>2, <1>3 DEF Next, vars, Publish, Send, Stop, Exit, Finished

\* Every step keeps a closed channel quiet and a finished dispatcher finished.
LEMMA QuietStep ==
  ASSUME TypeOK, ClosedIsQuiet, ExitedIsEmpty, [Next]_vars
  PROVE  ClosedIsQuiet' /\ ExitedIsEmpty'
<1> USE DEF ClosedIsQuiet, ExitedIsEmpty, TypeOK
<1>1. ASSUME NEW p \in Publishers, NEW e \in Events, Publish(p, e)
      PROVE  ClosedIsQuiet' /\ ExitedIsEmpty'
  BY <1>1 DEF Publish
<1>2. ASSUME NEW p \in Publishers, Send(p)
      PROVE  ClosedIsQuiet' /\ ExitedIsEmpty'
  BY <1>2 DEF Send
<1>3. CASE Receive
  BY <1>3 DEF Receive
<1>4. CASE HandleReturns
  BY <1>4 DEF HandleReturns
<1>5. CASE Stop
  BY <1>5 DEF Stop
<1>6. CASE Exit
  BY <1>6 DEF Exit
<1>7. CASE UNCHANGED vars
  BY <1>7 DEF vars
<1> QED
  BY <1>1, <1>2, <1>3, <1>4, <1>5, <1>6, <1>7 DEF Next, Finished

\* The inductive invariant holds of a new bus.
LEMMA InvariantHoldsInitially == Init => IInv
<1> SUFFICES ASSUME Init PROVE IInv
  OBVIOUS
<1>1. <<>> \in Seq(Events) /\ Len(<<>>) = 0
  BY EmptySeq
<1>2. TypeOK
  <2>1. /\ queue \in Seq(Events) /\ Len(queue) <= Cap /\ published \in Seq(Events)
        /\ seen \in [Subs -> Seq(Events)]
    BY <1>1 DEF Init
  <2>2. sub \in 0..NSubs /\ sub = 0 /\ cur = NoEvent
    BY DEF Init
  <2>3. sending \in [Publishers -> Events \cup {NoEvent}]
    BY DEF Init
  <2>4. closed \in BOOLEAN /\ exited \in BOOLEAN
    BY DEF Init
  <2> QED
    BY <2>1, <2>2, <2>3, <2>4 DEF TypeOK
<1>3. Conservation
  <2>1. seen[NSubs] = <<>> /\ InHand = <<>> /\ queue = <<>> /\ published = <<>>
    BY DEF Init, InHand, Subs
  <2>2. <<>> \o <<>> = <<>>
    BY <1>1, ConcatEmptySeq
  <2> QED
    BY <2>1, <2>2 DEF Conservation
<1>4. LockStep /\ ClosedIsQuiet /\ ExitedIsEmpty
  BY DEF Init, LockStep, ClosedIsQuiet, ExitedIsEmpty, Subs
<1> QED
  BY <1>2, <1>3, <1>4 DEF IInv

\* The inductive invariant holds in every state of the bus.
LEMMA Invariance == Spec => []IInv
<1>1. ASSUME IInv, [Next]_vars
      PROVE  IInv'
  BY <1>1, TypeStep, ConservationStep, LockStepStep, QuietStep DEF IInv
<1> QED
  BY InvariantHoldsInitially, <1>1, PTL DEF Spec

-----------------------------------------------------------------------------
\* Type correctness of bus.go's channel, dispatcher and publishers; the
\* channel never holds more than its capacity.
THEOREM TypeCorrect == Spec => []TypeOK
<1>1. IInv => TypeOK
  BY DEF IInv
<1> QED
  BY <1>1, Invariance, PTL

\* "Backpressure instead of dropping events" (bus.go:13-14): nothing published
\* is lost, duplicated or overtaken.
THEOREM NothingIsDropped == Spec => []Conservation
<1>1. IInv => Conservation
  BY DEF IInv
<1> QED
  BY <1>1, Invariance, PTL

\* "Hands every event to all subscribers in order" (bus.go:34-43).
THEOREM SubscribersInLockStep == Spec => []LockStep
<1>1. IInv => LockStep
  BY DEF IInv
<1> QED
  BY <1>1, Invariance, PTL

\* After Stop the dispatcher ends only when every published event went through
\* every subscriber (bus.go:36, 45-46).
THEOREM StopDrains == Spec => []DrainedAtExit
<1>1. IInv => DrainedAtExit
  <2> SUFFICES ASSUME IInv, exited, NEW s \in Subs
               PROVE  seen[s] = published
    BY DEF DrainedAtExit
  <2>1. TypeOK /\ cur = NoEvent /\ queue = <<>> /\ sub = 0 /\ InHand = <<>> /\ NSubs \in Subs
    BY DEF IInv, ExitedIsEmpty, TypeOK, InHand, Subs
  <2>2. seen[s] = seen[NSubs] /\ seen[NSubs] \in Seq(Events)
    BY <2>1 DEF IInv, LockStep, TypeOK, Subs
  <2>3. (seen[NSubs] \o <<>>) \o <<>> = seen[NSubs]
    BY <2>2, ConcatEmptySeq
  <2> QED
    BY <2>1, <2>2, <2>3 DEF IInv, Conservation
<1> QED
  BY <1>1, Invariance, PTL

-----------------------------------------------------------------------------
\* How many published events are not through the last subscriber, and which
\* one is next for it.
LEMMA Backlog ==
  ASSUME IInv
  PROVE  /\ Len(published) \in Nat /\ Len(seen[NSubs]) \in Nat /\ Len(queue) \in Nat
         /\ cur = NoEvent => Len(published) = Len(seen[NSubs]) + Len(queue)
         /\ cur # NoEvent => /\ Len(published) = Len(seen[NSubs]) + 1 + Len(queue)
                             /\ published[Len(seen[NSubs]) + 1] = cur
<1> DEFINE done == seen[NSubs]
<1>1. /\ done \in Seq(Events) /\ queue \in Seq(Events) /\ published \in Seq(Events)
      /\ InHand \in Seq(Events)
  BY InHandIsSeq DEF IInv, TypeOK, Subs
<1>2. Len(done) \in Nat /\ Len(queue) \in Nat /\ Len(published) \in Nat
  BY <1>1, LenProperties
<1>3. /\ done \o InHand \in Seq(Events) /\ Len(done \o InHand) = Len(done) + Len(InHand)
      /\ \A i \in 1..(Len(done) + Len(InHand)) :
           (done \o InHand)[i] = IF i <= Len(done) THEN done[i] ELSE InHand[i - Len(done)]
  BY <1>1, ConcatProperties
<1>4. /\ Len(published) = Len(done \o InHand) + Len(queue)
      /\ \A i \in 1..(Len(done \o InHand) + Len(queue)) :
           published[i] = IF i <= Len(done \o InHand) THEN (done \o InHand)[i]
                          ELSE queue[i - Len(done \o InHand)]
  BY <1>1, <1>3, ConcatProperties DEF IInv, Conservation
<1>5. CASE cur = NoEvent
  <2>1. Len(InHand) = 0
    BY <1>5 DEF InHand
  <2> HIDE DEF done
  <2>2. Len(published) = Len(done) + Len(queue)
    BY <2>1, <1>2, <1>3, <1>4
  <2> QED
    BY <2>2, <1>2, <1>5 DEF done
<1>6. CASE cur # NoEvent
  <2>1. Len(InHand) = 1 /\ InHand[1] = cur
    BY <1>6 DEF InHand
  <2> HIDE DEF done
  <2>2. Len(published) = Len(done) + 1 + Len(queue)
    BY <2>1, <1>2, <1>3, <1>4
  <2>3. (done \o InHand)[Len(done) + 1] = cur
    BY <2>1, <1>2, <1>3
  <2>4. published[Len(done) + 1] = cur
    BY <2>1, <2>3, <1>2, <1>3, <1>4
  <2> QED
    BY <2>2, <2>4, <1>2, <1>6 DEF done
<1> QED
  BY <1>5, <1>6

\* The channel's send is FanOut's Accept.
LEMMA SendAccepts ==
  ASSUME IInv, NEW p \in Publishers, Send(p)
  PROVE  F!Accept(sending[p]) /\ sending[p] \in Events
<1>1. sending[p] \in Events /\ Len(queue) < Cap
  BY DEF IInv, TypeOK, Send
<1>2. Len(published) - Len(seen[NSubs]) < Cap + 1
  BY <1>1, Backlog
<1> QED
  BY <1>1, <1>2 DEF F!Accept, Send

\* The return of a subscriber's Handle is FanOut's Deliver to it.
LEMMA HandleDelivers ==
  ASSUME IInv, HandleReturns
  PROVE  sub \in Subs /\ F!Deliver(sub)
<1>0. cur # NoEvent /\ cur \in Events /\ sub \in Subs /\ NSubs \in Subs
  BY DEF HandleReturns, IInv, TypeOK, Subs
<1>1. seen[sub] = seen[NSubs] /\ seen[NSubs] \in Seq(Events) /\ sub \in Nat
  BY <1>0 DEF IInv, LockStep, TypeOK, Subs
<1>2. Len(seen[sub]) + 1 <= Len(published) /\ published[Len(seen[sub]) + 1] = cur
  BY <1>0, <1>1, Backlog
<1>3. CASE sub = 1
  <2>1. Len(seen[NSubs]) = (Len(seen[sub]) + 1) - 1
    BY <1>1, Backlog
  <2> QED
    BY <1>0, <1>2, <1>3, <2>1 DEF F!Deliver, HandleReturns
<1>4. CASE sub # 1
  <2>1. sub - 1 \in Subs /\ sub - 1 < sub
    BY <1>0, <1>4 DEF Subs
  <2>2. seen[sub - 1] = Append(seen[NSubs], cur)
    BY <2>1 DEF IInv, LockStep
  <2>3. Len(seen[sub - 1]) = Len(seen[sub]) + 1
    BY <1>0, <1>1, <2>2, AppendProperties
  <2> QED
    BY <1>0, <1>2, <1>4, <2>3 DEF F!Deliver, HandleReturns
<1> QED
  BY <1>0, <1>3, <1>4

\* The bus is the fan-out it promises to be: every step of the channel, the
\* dispatcher and the publishers is a step of FanOut or changes nothing that
\* FanOut talks about.
THEOREM BusImplementsFanOut == Spec => F!Safety
<1>1. Init => F!Init
  BY DEF Init, F!Init, F!Subs, Subs
<1>2. ASSUME IInv, [Next]_vars
      PROVE  [F!Next]_(F!vars)
  <2>1. ASSUME NEW p \in Publishers, Send(p)
        PROVE  F!Next
    BY <1>2, <2>1, SendAccepts DEF F!Next
  <2>2. CASE HandleReturns
    BY <1>2, <2>2, HandleDelivers DEF F!Next, F!Subs, Subs
  <2>3. ASSUME UNCHANGED <<published, seen>>
        PROVE  UNCHANGED F!vars
    BY <2>3 DEF F!vars
  <2> QED
    BY <1>2, <2>1, <2>2, <2>3 DEF Next, vars, Publish, Receive, Stop, Exit, Finished
<1> QED
  BY <1>1, <1>2, Invariance, PTL DEF Spec, F!Safety

-----------------------------------------------------------------------------
(* The identifiers.                                                        *)

LEMMA InitNoneTwice == Init => NoneTwice
<1> SUFFICES ASSUME Init PROVE NoneTwice
  OBVIOUS
<1>1. Len(published) = 0
  BY DEF Init
<1> QED
  BY <1>1 DEF Init, NoneTwice

LEMMA NoneTwiceStep ==
  ASSUME TypeOK, NoneTwice, [Next]_vars
  PROVE  NoneTwice'
<1> USE DEF TypeOK, NoneTwice
<1>1. ASSUME NEW p \in Publishers, NEW e \in Events, Publish(p, e)
      PROVE  NoneTwice'
  BY <1>1 DEF Publish, Fresh
<1>2. ASSUME NEW p \in Publishers, Send(p)
      PROVE  NoneTwice'
  <2> DEFINE n == Len(published)
  <2>1. sending[p] \in Events
    BY <1>2 DEF Send
  <2>2. /\ n \in Nat /\ Len(published') = n + 1 /\ published'[n + 1] = sending[p]
        /\ \A i \in 1..n : published'[i] = published[i]
    BY <1>2, <2>1, AppendProperties, LenProperties DEF Send
  <2>3. \A q \in Publishers : sending'[q] = IF q = p THEN NoEvent ELSE sending[q]
    BY <1>2 DEF Send
  <2>4. \A i \in 1..n : published[i] \in Events
    BY ElementOfSeq
  <2>5. \A i \in 1..n + 1 : i \in 1..n \/ i = n + 1
    BY <2>2
  <2> HIDE DEF n
  <2>6. \A i, j \in 1..n + 1 : i # j => published'[i] # published'[j]
    BY <2>2, <2>5 DEF n
  <2>7. \A q \in Publishers : \A i \in 1..n + 1 : sending'[q] # published'[i]
    BY <2>1, <2>2, <2>3, <2>4, <2>5 DEF n
  <2>8. \A q, r \in Publishers : q # r /\ sending'[q] # NoEvent => sending'[q] # sending'[r]
    BY <2>3
  <2> QED
    BY <2>2, <2>6, <2>7, <2>8
<1>3. ASSUME UNCHANGED <<sending, published>>
      PROVE  NoneTwice'
  BY <1>3
<1>4. CASE Receive \/ HandleReturns \/ Stop \/ Exit \/ Finished \/ UNCHANGED vars
  BY <1>3, <1>4 DEF Receive, HandleReturns, Stop, Exit, Finished, vars
<1> QED
  BY <1>1, <1>2, <1>4 DEF Next

\* Every event is published once: identifiers are drawn fresh (event.go:54-58).
LEMMA PublishedOnce == Spec => []NoneTwice
<1>1. IInv => TypeOK
  BY DEF IInv
<1> QED
  BY <1>1, InitNoneTwice, NoneTwiceStep, Invariance, PTL DEF Spec
=============================================================================
