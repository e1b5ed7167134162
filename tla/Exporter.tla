------------------------------ MODULE Exporter ------------------------------
(***************************************************************************)
(* The webhook exporter of internal/export/exporter.go.                    *)
(*                                                                         *)
(* Three goroutines enter it: the bus dispatcher calls Handle, the ticker  *)
(* goroutine calls flushNow, and main calls Stop once at shutdown.  What a *)
(* goroutine does between two critical sections (mu), two atomic accesses  *)
(* or two network calls is one step, and pc records where it stands.       *)
(*                                                                         *)
(* An event is a member of Events; its content, the JSON envelope and the  *)
(* geo lookup do not matter here.  A buffer is a set of events: the bus    *)
(* hands every event over once, so no two entries of buf are equal.        *)
(***************************************************************************)
EXTENDS Integers, FiniteSets

CONSTANTS
  Events,     \* events the bus may hand to the exporter
  NoEvent,    \* "no event in hand"
  BatchSize,  \* Options.BatchSize after the defaults of New
  Retries     \* Options.Retries after the defaults of New: attempts per batch

ASSUME BatchSizeAssumption == BatchSize \in Nat \ {0}
ASSUME RetriesAssumption == Retries \in Nat \ {0}
ASSUME NoEventAssumption == NoEvent \notin Events

Threads == {"dispatcher", "ticker", "main"}

VARIABLES
  buf,       \* Exporter.buf
  stopped,   \* Exporter.stopped
  dropped,   \* Exporter.dropped
  pc,        \* where each goroutine stands; "idle" is outside the exporter
  handling,  \* the event Handle has in hand between the check and the append
  batch,     \* the slice each goroutine's flushNow took
  attempt,   \* deliver's loop variable, 0 outside the loop
  offered,   \* history: events Handle was called with
  accepted,  \* history: events appended to buf
  acked,     \* history: events of a batch answered with 2xx
  lost,      \* history: events of a batch that was given up
  copies     \* history: how many times the webhook received each event

vars == <<buf, stopped, dropped, pc, handling, batch, attempt,
          offered, accepted, acked, lost, copies>>

Init ==
  /\ buf = {}
  /\ stopped = FALSE
  /\ dropped = 0
  /\ pc = [t \in Threads |-> "idle"]
  /\ handling = NoEvent
  /\ batch = [t \in Threads |-> {}]
  /\ attempt = [t \in Threads |-> 0]
  /\ offered = {}
  /\ accepted = {}
  /\ acked = {}
  /\ lost = {}
  /\ copies = [e \in Events |-> 0]

-----------------------------------------------------------------------------
(* Handle, run by the dispatcher.                                          *)

\* The check of stopped dropped from Handle.
HandleStoppedUnchecked(e) ==
  /\ pc["dispatcher"] = "idle"
  /\ stopped
  /\ offered' = offered \cup {e}
  /\ handling' = e
  /\ pc' = [pc EXCEPT !["dispatcher"] = "append"]
  /\ UNCHANGED <<buf, stopped, dropped, batch, attempt,
                 accepted, acked, lost, copies>>

\* Handle returns at once: Stop was called.
HandleStopped(e) ==
  /\ pc["dispatcher"] = "idle"
  /\ stopped
  /\ offered' = offered \cup {e}
  /\ UNCHANGED <<buf, stopped, dropped, pc, handling, batch, attempt,
                 accepted, acked, lost, copies>>

\* stopped was read as false; the append comes later, under the mutex.
HandleOpen(e) ==
  /\ pc["dispatcher"] = "idle"
  /\ ~stopped
  /\ offered' = offered \cup {e}
  /\ handling' = e
  /\ pc' = [pc EXCEPT !["dispatcher"] = "append"]
  /\ UNCHANGED <<buf, stopped, dropped, batch, attempt,
                 accepted, acked, lost, copies>>

Handle(e) == HandleStopped(e) \/ HandleOpen(e)

\* The locked section of Handle; a full buffer is flushed by the dispatcher.
AppendUnderLock(full) ==
  /\ pc["dispatcher"] = "append"
  /\ buf' = buf \cup {handling}
  /\ accepted' = accepted \cup {handling}
  /\ handling' = NoEvent
  /\ pc' = [pc EXCEPT !["dispatcher"] = IF full THEN "flush" ELSE "idle"]
  /\ UNCHANGED <<stopped, dropped, batch, attempt, offered, acked, lost, copies>>

\* "full" tested before the append instead of after it.
AppendTestedEarly == AppendUnderLock(Cardinality(buf) >= BatchSize)

AppendEvent == AppendUnderLock(Cardinality(buf \cup {handling}) >= BatchSize)

-----------------------------------------------------------------------------
(* The ticker loop and Stop.                                               *)

Tick ==
  /\ pc["ticker"] = "idle"
  /\ pc' = [pc EXCEPT !["ticker"] = "flush"]
  /\ UNCHANGED <<buf, stopped, dropped, handling, batch, attempt,
                 offered, accepted, acked, lost, copies>>

\* The compare-and-swap of Stop; a second Stop returns and changes nothing.
Stop ==
  /\ pc["main"] = "idle"
  /\ ~stopped
  /\ stopped' = TRUE
  /\ pc' = [pc EXCEPT !["main"] = "flush"]
  /\ UNCHANGED <<buf, dropped, handling, batch, attempt,
                 offered, accepted, acked, lost, copies>>

-----------------------------------------------------------------------------
(* flushNow and deliver, run by any of the three.                          *)

FlushEmpty(t) ==
  /\ pc[t] = "flush"
  /\ buf = {}
  /\ pc' = [pc EXCEPT ![t] = "idle"]
  /\ UNCHANGED <<buf, stopped, dropped, handling, batch, attempt,
                 offered, accepted, acked, lost, copies>>

\* e.buf = nil forgotten: the next flush takes the same events again.
TakeBatchKeepingBuffer(t) ==
  /\ pc[t] = "flush"
  /\ buf # {}
  /\ batch' = [batch EXCEPT ![t] = buf]
  /\ pc' = [pc EXCEPT ![t] = "build"]
  /\ UNCHANGED <<buf, stopped, dropped, handling, attempt,
                 offered, accepted, acked, lost, copies>>

\* The snapshot under the mutex: the whole buffer changes hands.
TakeBatch(t) ==
  /\ pc[t] = "flush"
  /\ buf # {}
  /\ batch' = [batch EXCEPT ![t] = buf]
  /\ buf' = {}
  /\ pc' = [pc EXCEPT ![t] = "build"]
  /\ UNCHANGED <<stopped, dropped, handling, attempt,
                 offered, accepted, acked, lost, copies>>

\* The envelope was built and marshalled.
Build(t) ==
  /\ pc[t] = "build"
  /\ attempt' = [attempt EXCEPT ![t] = 0]
  /\ pc' = [pc EXCEPT ![t] = "post"]
  /\ UNCHANGED <<buf, stopped, dropped, handling, batch,
                 offered, accepted, acked, lost, copies>>

\* t gives its batch up, having counted n events.
GiveUp(t, n) ==
  /\ dropped' = dropped + n
  /\ lost' = lost \cup batch[t]
  /\ batch' = [batch EXCEPT ![t] = {}]
  /\ attempt' = [attempt EXCEPT ![t] = 0]
  /\ pc' = [pc EXCEPT ![t] = "idle"]

\* The marshal error path without its dropped.Add.
MarshalFailsUncounted(t) ==
  /\ pc[t] = "build"
  /\ GiveUp(t, 0)
  /\ UNCHANGED <<buf, stopped, handling, offered, accepted, acked, copies>>

MarshalFails(t) ==
  /\ pc[t] = "build"
  /\ GiveUp(t, Cardinality(batch[t]))
  /\ UNCHANGED <<buf, stopped, handling, offered, accepted, acked, copies>>

\* The webhook has received t's batch.
Received(t) == copies' = [e \in Events |-> IF e \in batch[t] THEN copies[e] + 1
                                                             ELSE copies[e]]

PostAccepted(t) ==
  /\ pc[t] = "post"
  /\ Received(t)
  /\ acked' = acked \cup batch[t]
  /\ batch' = [batch EXCEPT ![t] = {}]
  /\ attempt' = [attempt EXCEPT ![t] = 0]
  /\ pc' = [pc EXCEPT ![t] = "idle"]
  /\ UNCHANGED <<buf, stopped, dropped, handling, offered, accepted, lost>>

\* post returned an error.  The webhook may have got the batch all the same:
\* a non-2xx status, or an answer that came after the client's timeout.
PostError(t) ==
  /\ pc[t] = "post"
  /\ Received(t) \/ UNCHANGED copies

Retry(t) ==
  /\ attempt' = [attempt EXCEPT ![t] = @ + 1]
  /\ pc' = [pc EXCEPT ![t] = "backoff"]
  /\ UNCHANGED <<dropped, lost, batch>>

\* The loop condition written attempt <= e.retries.
PostFailedOneMore(t) ==
  /\ PostError(t)
  /\ \/ attempt[t] < Retries /\ Retry(t)
     \/ attempt[t] = Retries /\ GiveUp(t, Cardinality(batch[t]))
  /\ UNCHANGED <<buf, stopped, handling, offered, accepted, acked>>

\* A webhook that is not reached is retried for ever: the loop variable is
\* never advanced.
PostFailedForever(t) ==
  /\ pc[t] = "post"
  /\ pc' = [pc EXCEPT ![t] = "backoff"]
  /\ UNCHANGED <<buf, stopped, dropped, handling, batch, attempt,
                 offered, accepted, acked, lost, copies>>

PostFailed(t) ==
  /\ PostError(t)
  /\ \/ attempt[t] + 1 < Retries /\ Retry(t)
     \/ attempt[t] + 1 = Retries /\ GiveUp(t, Cardinality(batch[t]))
  /\ UNCHANGED <<buf, stopped, handling, offered, accepted, acked>>

\* The sleep before the next attempt is over.
BackoffOver(t) ==
  /\ pc[t] = "backoff"
  /\ pc' = [pc EXCEPT ![t] = "post"]
  /\ UNCHANGED <<buf, stopped, dropped, handling, batch, attempt,
                 offered, accepted, acked, lost, copies>>

Deliver(t) ==
  \/ FlushEmpty(t) \/ TakeBatch(t)
  \/ Build(t) \/ MarshalFails(t)
  \/ PostAccepted(t) \/ PostFailed(t) \/ BackoffOver(t)

-----------------------------------------------------------------------------
Next ==
  \/ \E e \in Events \ offered : Handle(e)
  \/ AppendEvent
  \/ Tick
  \/ Stop
  \/ \E t \in Threads : Deliver(t)

Spec == Init /\ [][Next]_vars

(***************************************************************************)
(* Every goroutine keeps running; the ticker keeps firing (nothing ever    *)
(* ends its loop); a post returns because http.Client has a timeout; a     *)
(* sleep ends.  Nothing is assumed of the webhook, of the dispatcher's     *)
(* next call or of main calling Stop.                                      *)
(***************************************************************************)
Fairness ==
  /\ WF_vars(AppendEvent)
  /\ WF_vars(Tick)
  /\ \A t \in Threads : WF_vars(Deliver(t))

FairSpec == Spec /\ Fairness

-----------------------------------------------------------------------------
PcValues == {"idle", "append", "flush", "build", "post", "backoff"}

\* The types of the variables; attempt stays below the loop bound.
TypeOK ==
  /\ buf \subseteq Events
  /\ stopped \in BOOLEAN
  /\ dropped \in Nat
  /\ pc \in [Threads -> PcValues]
  /\ \A t \in Threads : pc[t] = "append" => t = "dispatcher"
  /\ handling \in Events \cup {NoEvent}
  /\ batch \in [Threads -> SUBSET Events]
  /\ attempt \in [Threads -> 0..Retries - 1]
  /\ offered \subseteq Events
  /\ accepted \subseteq offered
  /\ acked \subseteq Events
  /\ lost \subseteq Events
  /\ copies \in [Events -> Nat]


Disjoint(S, T) == S \cap T = {}

\* What the goroutines are delivering, and what Handle is about to append.
InFlight == UNION {batch[t] : t \in Threads}
InHand == IF pc["dispatcher"] = "append" THEN {handling} ELSE {}

\* "Concurrent flushes (ticker + batch-full) are safe: each takes a disjoint
\* buffer snapshot": every accepted event is in exactly one place at every
\* moment, the buffer, one batch, acknowledged or given up, whatever the
\* interleaving of the dispatcher's, the ticker's and Stop's flushes.
Custody ==
  /\ accepted = buf \cup InFlight \cup acked \cup lost
  /\ \A t \in Threads : Disjoint(batch[t], buf \cup acked \cup lost)
  /\ \A t, u \in Threads : t # u => Disjoint(batch[t], batch[u])
  /\ Disjoint(buf, acked \cup lost)
  /\ Disjoint(acked, lost)

\* The counter behind Dropped() is the number of events really given up,
\* also when several goroutines give batches up at once.
DroppedExact == dropped = Cardinality(lost)

\* The batch bound holds for every goroutine: no flush ever carries more than
\* BatchSize events, and the buffer is full only while the dispatcher itself
\* is on its way to empty it (another goroutine may get there first).
BatchBound ==
  /\ Cardinality(buf) <= BatchSize
  /\ Cardinality(buf) = BatchSize => pc["dispatcher"] = "flush"
  /\ \A t \in Threads : Cardinality(batch[t]) <= BatchSize

\* Delivery is at least once for an acknowledged event and at most Retries
\* times for any event: a batch is never posted again once it left deliver,
\* and an event still buffered has not been posted at all.
CopiesBounded ==
  \A e \in Events :
    /\ copies[e] <= Retries
    /\ e \in acked => copies[e] >= 1
    /\ e \notin acked \cup lost \cup InFlight => copies[e] = 0

\* Handle reads stopped before it takes the mutex, so an event can slip in
\* behind Stop's flush; it is at most one, the one the dispatcher had in hand.
StragglerBound ==
  stopped /\ pc["main"] # "flush" => Cardinality(buf \cup InHand) <= 1

\* Every accepted event is eventually acknowledged or given up, if the process
\* lives: the ticker flushes the remainder of a batch and even the straggler
\* behind Stop.
Settled == \A e \in Events : e \in accepted ~> e \in acked \cup lost

-----------------------------------------------------------------------------
(* The inductive strengthening the safety properties rest on.              *)

\* A goroutine holds a batch only inside deliver, and the dispatcher holds an
\* event exactly between the check of stopped and the append; that event has
\* been offered and not yet accepted.
HandsInv ==
  /\ \A t \in Threads : pc[t] \notin {"build", "post", "backoff"} => batch[t] = {}
  /\ pc["dispatcher"] = "append" => handling \in offered \ accepted

FiniteInv ==
  /\ IsFiniteSet(buf)
  /\ IsFiniteSet(lost)
  /\ \A t \in Threads : IsFiniteSet(batch[t])

\* The copies of an event are bounded by the attempts of the goroutine that
\* holds it, and there is none before its first post.
CopiesInv ==
  \A e \in Events :
    /\ \A t \in Threads : e \in batch[t] =>
         /\ pc[t] = "build" => copies[e] = 0
         /\ pc[t] \in {"post", "backoff"} => copies[e] <= attempt[t]
    /\ e \in acked \cup lost => copies[e] <= Retries
    /\ e \in acked => copies[e] >= 1
    /\ e \notin acked \cup lost \cup InFlight => copies[e] = 0

IInv ==
  /\ TypeOK
  /\ HandsInv
  /\ FiniteInv
  /\ Custody
  /\ DroppedExact
  /\ BatchBound
  /\ CopiesInv
  /\ StragglerBound

-----------------------------------------------------------------------------
(* What the comments and the documentation say.                            *)

\* exporter.go:66-68: "It never blocks the bus: Handle only appends to an
\* internal buffer; delivery happens in the flush goroutine."  The dispatcher
\* is never inside deliver.
NeverBlocksBus == pc["dispatcher"] \notin {"build", "post", "backoff"}
=============================================================================
