------------------------------ MODULE Pipeline ------------------------------
(***************************************************************************)
(* The process that cmd/honeysight/main.go assembles, with IOC export      *)
(* enabled: the bus (module Bus), its four subscribers (store, log,        *)
(* tracker, exporter), the exporter's own goroutines (module Exporter) and *)
(* main, from the running system to the end of the process.                *)
(*                                                                         *)
(* The bus's dispatcher is the exporter's "dispatcher" goroutine: it is in *)
(* Handle of the fourth subscriber while pc["dispatcher"] is not "idle".   *)
(* The bus is never stopped: main returns, or the process is killed, and   *)
(* what the goroutines have in hand is gone.                               *)
(***************************************************************************)
EXTENDS Integers, Sequences, FiniteSets

CONSTANTS Publishers, Events, NoEvent, Cap, BatchSize, Retries

ASSUME CapAssumption == Cap \in Nat \ {0}
ASSUME ExporterAssumption == BatchSize \in Nat \ {0} /\ Retries \in Nat \ {0}
ASSUME NoEventAssumption == NoEvent \notin Events

VARIABLES
  sending, queue, cur, sub, closed, exited, published, seen,   \* the bus
  buf, stopped, dropped, pc, handling, batch, attempt,         \* the exporter
  offered, accepted, acked, lost, copies,
  phase,       \* where main stands
  storeOpen,   \* the SQLite store is open
  stored,      \* events the store has committed
  saveFailed   \* events whose Save failed and was logged

busVars == <<sending, queue, cur, sub, closed, exited, published, seen>>
exporterVars == <<buf, stopped, dropped, pc, handling, batch, attempt,
                  offered, accepted, acked, lost, copies>>
mainVars == <<phase, storeOpen>>
storeVars == <<stored, saveFailed>>
vars == <<busVars, exporterVars, mainVars, storeVars>>

\* The order of the subscribers in NewBus(...).
Store == 1
Log == 2
Tracker == 3
Export == 4

B == INSTANCE Bus WITH NSubs <- 4
X == INSTANCE Exporter

Init ==
  /\ B!Init
  /\ X!Init
  /\ phase = "running"
  /\ storeOpen = TRUE
  /\ stored = {}
  /\ saveFailed = {}

Alive == phase \notin {"exited", "killed"}

-----------------------------------------------------------------------------
(* The decoys and the dispatcher.                                          *)

Publish(p, e) ==
  /\ Alive
  /\ B!Publish(p, e)
  /\ UNCHANGED <<exporterVars, mainVars, storeVars>>

Send(p) ==
  /\ Alive
  /\ B!Send(p)
  /\ UNCHANGED <<exporterVars, mainVars, storeVars>>

Receive ==
  /\ Alive
  /\ B!Receive
  /\ UNCHANGED <<exporterVars, mainVars, storeVars>>

\* storeSub: the row is committed.
SaveEvent ==
  /\ Alive /\ sub = Store /\ storeOpen
  /\ stored' = stored \cup {cur}
  /\ B!HandleReturns
  /\ UNCHANGED <<exporterVars, mainVars, saveFailed>>

\* A failed Save is not noticed.
SaveFailureUnnoticed ==
  /\ Alive /\ sub = Store
  /\ B!HandleReturns
  /\ UNCHANGED <<exporterVars, mainVars, storeVars>>

\* storeSub: Save fails (always, once the store is closed), which is logged
\* and not fatal.
SaveFails ==
  /\ Alive /\ sub = Store
  /\ saveFailed' = saveFailed \cup {cur}
  /\ B!HandleReturns
  /\ UNCHANGED <<exporterVars, mainVars, stored>>

\* logSub and trackerSub.
LogOrRecord ==
  /\ Alive /\ sub \in {Log, Tracker}
  /\ B!HandleReturns
  /\ UNCHANGED <<exporterVars, mainVars, storeVars>>

EnterExporter ==
  /\ Alive /\ sub = Export /\ cur \notin offered
  /\ X!Handle(cur)
  /\ UNCHANGED <<busVars, mainVars, storeVars>>

LeaveExporter ==
  /\ Alive /\ sub = Export /\ cur \in offered /\ pc["dispatcher"] = "idle"
  /\ B!HandleReturns
  /\ UNCHANGED <<exporterVars, mainVars, storeVars>>

-----------------------------------------------------------------------------
(* Inside the exporter.                                                    *)

AppendEvent ==
  /\ Alive
  /\ X!AppendEvent
  /\ UNCHANGED <<busVars, mainVars, storeVars>>

Tick ==
  /\ Alive
  /\ X!Tick
  /\ UNCHANGED <<busVars, mainVars, storeVars>>

Deliver(t) ==
  /\ Alive
  /\ X!Deliver(t)
  /\ UNCHANGED <<busVars, mainVars, storeVars>>

-----------------------------------------------------------------------------
(* main.                                                                   *)

MainAt(from, to) == phase = from /\ phase' = to

\* SIGINT or SIGTERM.
Signal ==
  /\ MainAt("running", "draining")
  /\ UNCHANGED <<busVars, exporterVars, storeOpen, storeVars>>

\* A listener returns an error: fatal ends the process with os.Exit.
ListenFails ==
  /\ MainAt("running", "killed")
  /\ UNCHANGED <<busVars, exporterVars, storeOpen, storeVars>>

\* srv.Shutdown returns: the HTTP requests are done, or five seconds are over.
\* The TLS, SSH and Redis listeners are not shut down at all.
ShutdownReturns ==
  /\ MainAt("draining", "drained")
  /\ UNCHANGED <<busVars, exporterVars, storeOpen, storeVars>>

StopExporter ==
  /\ MainAt("drained", "flushing")
  /\ X!Stop
  /\ UNCHANGED <<busVars, storeOpen, storeVars>>

\* The store is closed without waiting for exporter.Stop to return.
CloseStoreEarly ==
  /\ MainAt("flushing", "closed")
  /\ storeOpen' = FALSE
  /\ UNCHANGED <<busVars, exporterVars, storeVars>>

\* exporter.Stop has returned; st.Close.
CloseStore ==
  /\ MainAt("flushing", "closed")
  /\ pc["main"] = "idle"
  /\ storeOpen' = FALSE
  /\ UNCHANGED <<busVars, exporterVars, storeVars>>

\* main returns: every other goroutine ends where it stands.
ReturnFromMain ==
  /\ MainAt("closed", "exited")
  /\ UNCHANGED <<busVars, exporterVars, storeOpen, storeVars>>

\* SIGKILL, a crash, the end of the container's grace period.
Killed ==
  /\ Alive
  /\ phase' = "killed"
  /\ UNCHANGED <<busVars, exporterVars, storeOpen, storeVars>>

\* The identifier NewEvent draws: identifiers are random and nothing looks
\* into them, so any fresh one stands for all.
Drawn ==
  LET fresh == {e \in Events : B!Fresh(e)} IN
  IF fresh = {} THEN {} ELSE {CHOOSE e \in fresh : TRUE}

Ended == ~Alive /\ UNCHANGED vars

Main ==
  \/ Signal \/ ListenFails \/ ShutdownReturns
  \/ StopExporter \/ CloseStore \/ ReturnFromMain

Dispatcher ==
  \/ Receive \/ SaveEvent \/ SaveFails \/ LogOrRecord
  \/ EnterExporter \/ LeaveExporter \/ AppendEvent

Next ==
  \/ \E p \in Publishers, e \in Drawn : Publish(p, e)
  \/ \E p \in Publishers : Send(p)
  \/ Dispatcher
  \/ Tick
  \/ \E t \in X!Threads : Deliver(t)
  \/ Main
  \/ Killed
  \/ Ended

Spec == Init /\ [][Next]_vars

(***************************************************************************)
(* The process's goroutines are scheduled; Save, post and sleep return;    *)
(* srv.Shutdown has a five-second limit.  Nothing is assumed of the        *)
(* signal, of listener failures, of kills, of publishers, of the webhook's *)
(* answers, of Save succeeding or of the ticker: capture and shutdown do   *)
(* not need it.                                                            *)
(***************************************************************************)
Fairness ==
  /\ WF_vars(Dispatcher)
  /\ \A t \in {"dispatcher", "main"} : WF_vars(Deliver(t))
  /\ \A p \in Publishers : SF_vars(Send(p))
  /\ WF_vars(ShutdownReturns \/ StopExporter \/ CloseStore \/ ReturnFromMain)

FairSpec == Spec /\ Fairness

-----------------------------------------------------------------------------
EventsIn(s) == {s[i] : i \in 1..Len(s)}
Handled == stored \cup saveFailed

\* An event leaves the process (is buffered for the webhook) only after the
\* store has tried to keep it, the log has a line of it and the tracker has
\* scored it; a save error keeps none of the other subscribers from it.
ExportedWasStored ==
  /\ accepted \subseteq Handled
  /\ accepted \subseteq EventsIn(seen[Log]) \cap EventsIn(seen[Tracker])
  /\ \A s \in Store..Tracker : EventsIn(seen[s]) \subseteq Handled

\* What a crash at any moment costs the store: of the events whose Publish has
\* returned, at most the channel's capacity and the one in hand are neither
\* stored nor reported as failed.
CrashLossBound == Cardinality(EventsIn(published) \ Handled) <= Cap + 1

\* The events Handle turned away because Stop was called: the webhook gets none
\* of them, and the dropped counter does not count them either.
Refused == offered \ (accepted \cup X!InHand)

\* The other published events that were neither acknowledged nor given up.
Pending == EventsIn(published) \ (acked \cup lost \cup Refused)

\* Events are refused only after Stop was called, and then all that follow, so
\* that none is kept behind one that was refused.
RefusedAreLast ==
  /\ Refused # {} => stopped
  /\ \A i, j \in 1..Len(published) :
       i < j /\ published[i] \in Refused => published[j] \notin accepted \cup X!InHand

\* What an orderly shutdown costs the webhook: all events refused, in any number,
\* since the decoys and the dispatcher go on while Stop flushes, but only the
\* last ones of the stream.  Besides them no event is left without an answer but
\* what is in the channel, the bus never being drained, in the dispatcher's
\* hands, in a buffer that an event slipped into behind Stop, or in the batches
\* the dispatcher and the ticker are delivering, and never what Stop itself
\* took: at most Cap + 2 * BatchSize.
ShutdownLossBound ==
  /\ RefusedAreLast
  /\ phase \in {"closed", "exited"} =>
       /\ Pending \subseteq EventsIn(queue) \cup {cur} \cup buf
                              \cup batch["dispatcher"] \cup batch["ticker"]
       /\ Cardinality(Pending) <= Cap + 2 * BatchSize
       /\ batch["main"] = {}

\* The events a decoy is in Publish with, or has published, that were neither
\* stored nor reported as failed.
Owed == ((EventsIn(published) \cup {sending[p] : p \in Publishers}) \cap Events) \ Handled

\* docs/export.md:90-92: capture never stops because of the export.  However
\* the webhook and the store answer, every event a decoy calls Publish with is
\* stored or its loss is reported, unless the process ends first.  The events
\* of an instance are finite in number, so that each being settled is none
\* being left.
CaptureGoesOn == Owed # {} ~> Owed = {} \/ ~Alive

\* After a signal the process ends, however the webhook behaves.
ShutdownEnds == phase = "draining" ~> ~Alive

-----------------------------------------------------------------------------
\* README.en.md:13-14: "Every interaction is classified in real time, scored
\* 0-100, enriched, stored locally, and exported"; bus.go:13-14: backpressure
\* "instead of dropping events".
\* When the process has ended in the orderly way, every published event has
\* been given to the store.
OrderlyExitKeepsEvents == phase = "exited" => EventsIn(published) \subseteq Handled
=============================================================================
