------------------------------- MODULE FanOut -------------------------------
(***************************************************************************)
(* What the event bus of internal/core/bus.go promises, without a channel, *)
(* a dispatcher or publishers: accepted events are handed to every         *)
(* subscriber, in the order of acceptance, one event at a time and to the  *)
(* subscribers in their order, and at most Slack accepted events are       *)
(* waiting for the last subscriber (the backpressure).                     *)
(***************************************************************************)
EXTENDS Integers, Sequences

CONSTANTS
  Events,
  NSubs,   \* number of subscribers, at least one
  Slack    \* how many accepted events may be waiting, at least one

VARIABLES
  order,      \* the accepted events
  delivered   \* delivered[s]: what subscriber s has handled

vars == <<order, delivered>>

Subs == 1..NSubs

Init ==
  /\ order = <<>>
  /\ delivered = [s \in Subs |-> <<>>]

Accept(e) ==
  /\ Len(order) - Len(delivered[NSubs]) < Slack
  /\ order' = Append(order, e)
  /\ UNCHANGED delivered

\* Subscriber s handles the next event: the first subscriber once the last
\* one is done with the event before, another one after its predecessor.
Deliver(s) ==
  LET n == Len(delivered[s]) + 1 IN
  /\ n <= Len(order)
  /\ IF s = 1 THEN Len(delivered[NSubs]) = n - 1 ELSE Len(delivered[s - 1]) = n
  /\ delivered' = [delivered EXCEPT ![s] = Append(@, order[n])]
  /\ UNCHANGED order

Next == (\E e \in Events : Accept(e)) \/ (\E s \in Subs : Deliver(s))

Safety == Init /\ [][Next]_vars

Spec == Safety /\ \A s \in Subs : WF_vars(Deliver(s))
=============================================================================
