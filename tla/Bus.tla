--------------------------------- MODULE Bus ---------------------------------
(***************************************************************************)
(* The event bus of internal/core/bus.go: a Go channel of capacity Cap,    *)
(* written by the decoys' connection goroutines (Publishers) and read by   *)
(* one dispatcher goroutine that runs the NSubs subscribers synchronously. *)
(*                                                                         *)
(* How long a subscriber's Handle runs is its own affair: the dispatcher   *)
(* stands in Handle of subscriber sub until HandleReturns.                 *)
(***************************************************************************)
EXTENDS Integers, Sequences

CONSTANTS
  Publishers,  \* goroutines that call Publish
  Events,      \* events; every call of Publish has a new one (core.NewEvent)
  NoEvent,     \* "no event"
  Cap,         \* capacity of the channel after the default of NewBus
  NSubs        \* number of subscribers given to NewBus

ASSUME CapAssumption == Cap \in Nat \ {0}
ASSUME NSubsAssumption == NSubs \in Nat \ {0}
ASSUME NoEventAssumption == NoEvent \notin Events

VARIABLES
  sending,    \* sending[p]: the event p is in Publish with
  queue,      \* the channel's buffer
  cur,        \* the event the dispatcher has received and not finished with
  sub,        \* the subscriber whose Handle runs on cur; 0 when there is none
  closed,     \* the channel is closed
  exited,     \* the dispatcher goroutine has ended
  published,  \* history: events whose Publish got through, in channel order
  seen        \* history: seen[s] is what Handle of subscriber s returned from

vars == <<sending, queue, cur, sub, closed, exited, published, seen>>

Subs == 1..NSubs

Init ==
  /\ sending = [p \in Publishers |-> NoEvent]
  /\ queue = <<>>
  /\ cur = NoEvent
  /\ sub = 0
  /\ closed = FALSE
  /\ exited = FALSE
  /\ published = <<>>
  /\ seen = [s \in Subs |-> <<>>]

-----------------------------------------------------------------------------
\* Event identifiers are random (core.NewEvent): no two calls share one.
Fresh(e) ==
  /\ \A p \in Publishers : sending[p] # e
  /\ \A i \in 1..Len(published) : published[i] # e

\* A decoy calls Publish; it stays in the call until the channel has room.
Publish(p, e) ==
  /\ ~closed
  /\ sending[p] = NoEvent
  /\ Fresh(e)
  /\ sending' = [sending EXCEPT ![p] = e]
  /\ UNCHANGED <<queue, cur, sub, closed, exited, published, seen>>

\* Publish with select/default: an event is dropped when the channel is full.
SendOrDrop(p) ==
  /\ sending[p] # NoEvent
  /\ queue' = IF Len(queue) < Cap THEN Append(queue, sending[p]) ELSE queue
  /\ published' = Append(published, sending[p])
  /\ sending' = [sending EXCEPT ![p] = NoEvent]
  /\ UNCHANGED <<cur, sub, closed, exited, seen>>

\* Publish through a channel one slot larger than NewBus was asked for.
SendOneMore(p) ==
  /\ sending[p] # NoEvent
  /\ Len(queue) <= Cap
  /\ queue' = Append(queue, sending[p])
  /\ published' = Append(published, sending[p])
  /\ sending' = [sending EXCEPT ![p] = NoEvent]
  /\ UNCHANGED <<cur, sub, closed, exited, seen>>

\* The channel send of Publish goes through.
Send(p) ==
  /\ sending[p] # NoEvent
  /\ Len(queue) < Cap
  /\ queue' = Append(queue, sending[p])
  /\ published' = Append(published, sending[p])
  /\ sending' = [sending EXCEPT ![p] = NoEvent]
  /\ UNCHANGED <<cur, sub, closed, exited, seen>>

-----------------------------------------------------------------------------
\* The dispatcher receives the next event and enters the first subscriber.
Receive ==
  /\ ~exited
  /\ cur = NoEvent
  /\ queue # <<>>
  /\ cur' = Head(queue)
  /\ queue' = Tail(queue)
  /\ sub' = 1
  /\ UNCHANGED <<sending, closed, exited, published, seen>>

\* A subscriber may end the loop over the subscribers.
HandleReturnsOrBreaks ==
  /\ cur # NoEvent
  /\ seen' = [seen EXCEPT ![sub] = Append(@, cur)]
  /\ \/ sub < NSubs /\ sub' = sub + 1 /\ cur' = cur
     \/ sub' = 0 /\ cur' = NoEvent
  /\ UNCHANGED <<sending, queue, closed, exited, published>>

\* Handle of the running subscriber returns; then the next one, or the next
\* event.
HandleReturns ==
  /\ cur # NoEvent
  /\ seen' = [seen EXCEPT ![sub] = Append(@, cur)]
  /\ IF sub < NSubs THEN sub' = sub + 1 /\ cur' = cur
                    ELSE sub' = 0 /\ cur' = NoEvent
  /\ UNCHANGED <<sending, queue, closed, exited, published>>

\* Stop closes the channel.  Its only callers (web_test.go:63) first close the
\* listener and wait for its requests, so that nobody is inside Publish.
Stop ==
  /\ ~closed
  /\ \A p \in Publishers : sending[p] = NoEvent
  /\ closed' = TRUE
  /\ UNCHANGED <<sending, queue, cur, sub, exited, published, seen>>

\* The dispatcher leaves as soon as the channel is closed.
ExitAtOnce ==
  /\ closed /\ cur = NoEvent /\ ~exited
  /\ exited' = TRUE
  /\ UNCHANGED <<sending, queue, cur, sub, closed, published, seen>>

\* The dispatcher polls the channel and leaves when it finds it empty.
ExitWhenEmpty ==
  /\ cur = NoEvent /\ queue = <<>> /\ ~exited
  /\ exited' = TRUE
  /\ UNCHANGED <<sending, queue, cur, sub, closed, published, seen>>

\* The range loop ends on a channel that is closed and empty.
Exit ==
  /\ closed /\ cur = NoEvent /\ queue = <<>> /\ ~exited
  /\ exited' = TRUE
  /\ UNCHANGED <<sending, queue, cur, sub, closed, published, seen>>

Finished == exited /\ UNCHANGED vars

Next ==
  \/ \E p \in Publishers, e \in Events : Publish(p, e)
  \/ \E p \in Publishers : Send(p)
  \/ Receive \/ HandleReturns
  \/ Stop
  \/ Exit
  \/ Finished

Spec == Init /\ [][Next]_vars

(***************************************************************************)
(* The dispatcher keeps running and every Handle returns; a sender blocked *)
(* on a full channel is served in turn (the runtime queues blocked senders *)
(* first-come first-served), which is strong fairness of its send.         *)
(***************************************************************************)
Fairness ==
  /\ WF_vars(Receive) /\ WF_vars(HandleReturns) /\ WF_vars(Exit)
  /\ \A p \in Publishers : SF_vars(Send(p))

FairSpec == Spec /\ Fairness

-----------------------------------------------------------------------------
TypeOK ==
  /\ sending \in [Publishers -> Events \cup {NoEvent}]
  /\ queue \in Seq(Events)
  /\ Len(queue) <= Cap
  /\ cur \in Events \cup {NoEvent}
  /\ sub \in 0..NSubs
  /\ sub = 0 <=> cur = NoEvent
  /\ closed \in BOOLEAN
  /\ exited \in BOOLEAN
  /\ published \in Seq(Events)
  /\ seen \in [Subs -> Seq(Events)]

\* What the dispatcher holds, as a sequence.
InHand == IF cur = NoEvent THEN <<>> ELSE <<cur>>

\* "Backpressure instead of dropping events": what was published is what the
\* last subscriber has handled, then the event in hand, then the channel, with
\* nothing lost, duplicated or overtaken.
Conservation == published = seen[NSubs] \o InHand \o queue

\* "The dispatcher hands every event to all subscribers in order": a
\* subscriber is at most the event in hand ahead of the last one, and only
\* the subscribers before the running one are ahead.
LockStep ==
  \A s \in Subs :
    seen[s] = IF s < sub THEN Append(seen[NSubs], cur) ELSE seen[NSubs]

\* After Stop the dispatcher ends only when every published event went through
\* every subscriber.
DrainedAtExit == exited => \A s \in Subs : seen[s] = published

\* A Publish call returns, however full the channel is and however many other
\* publishers compete, as long as every Handle returns.
PublishReturns == \A p \in Publishers : sending[p] # NoEvent ~> sending[p] = NoEvent

\* The bus implements its promise, the liveness part included.
F == INSTANCE FanOut WITH
  Slack <- Cap + 1, order <- published, delivered <- seen

ImplementsFanOut == F!Spec
=============================================================================
