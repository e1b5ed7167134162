# TLA+ models and proofs of honeysight

honeysight is a honeypot: three decoys (HTTP/HTTPS, SSH, Redis) talk to
attackers, every interaction becomes an event, one event bus carries the events
to the store, the log, the threat tracker and the IOC exporter, and a canary
registry gives every source address its own fake credentials, so that a value
that turns up elsewhere leads back to whoever saw it.

This directory holds TLA+ modules that model the parts of `src/` where the order
of steps matters, TLC configurations that check them on small instances, and
TLAPS proofs of the main safety properties for every value of the constants.
Paths and line numbers below are those of `src/`.

    tlc -workers 2 -config MCBus.cfg MCBus     # one run
    tlapm BusProofs.tla                        # one module of proofs

`PROJECT.json` lists the runs, for every definition the source lines it models,
for every property a change of the model that breaks it, and the hazards.


## 1. The system

### Components

| Component | State | Operations | What makes it correct |
|---|---|---|---|
| event bus, `internal/core/bus.go` | a Go channel of capacity 1024, one dispatcher goroutine | `Publish` (blocks when full), dispatch to the subscribers in order, `Stop` | no event lost, duplicated or overtaken; subscribers in lock step; `Publish` returns |
| event model, `internal/core/event.go` | none | `NewEvent`, `Enrich`, severity bands | no two events share an identity; the severity follows the score |
| IOC exporter, `internal/export/exporter.go` | `buf` under `mu`, atomics `stopped`, `dropped` | `Handle` (dispatcher), ticker, `Stop` (main); all three may run `flushNow` and `deliver` | each event in one place, the counter exact, bounded batches and copies, everything settled in the end |
| STIX bundle, `internal/export/stix.go` | none | `BuildBundle` | one indicator per source with what the source did, one tool per scanner, every reference resolves, in whatever order the events come |
| threat tracker, `internal/track/tracker.go` | per source: hits, scored events of the window, `blockedUntil`; `blocksTotal` | `Record` (dispatcher), `IsBlocked`, `Snapshot` (decoys) | quarantine and score follow the window rule although old events are pruned and one deadline is kept |
| canary registry, `internal/canary` | `sessions` under `mu`; table `canaries` in SQLite | `SetFor`, `newSet`, `SaveTokens` | one live set per source; what was shown can be traced |
| event store, `internal/store/sqlite` | table `events` | `Save`, `Close` | one row per event |
| HTTP decoy, `internal/decoy/web` | none of its own; one goroutine per request | `ServeHTTP`, `handleLogin`, `clientIP` | the event is published before the bait is served; the headers of a client change nothing |
| Redis decoy, `internal/decoy/redis/server.go`, `data.go` | per connection: the set of its keyspace | `handleConn`, `serve`, `publishAuth` | commands published in order, bait traceable |
| RESP codec, `internal/decoy/redis/resp.go` | the unread bytes | `readCommand`, `tryParse`, `parseArray`, the writers | the same commands however the stream is cut, served as soon as they are complete; replies in step with commands |
| SSH decoy, `internal/decoy/ssh/server.go`, `shell.go` | per connection `metaConn`; per channel a session | handshake callbacks, banner, interactive and exec commands | a command is published before it is answered; the set of a session was announced by its login; what runs is what was typed |
| host key and TLS pair, `internal/decoy/ssh/hostkey.go`, `internal/tlsutil/cert.go` | three files | `EnsureHostKey`, `EnsureCert` | an identity that clients have seen never changes by itself |
| process, `cmd/honeysight/main.go` | the wiring | start, signal, listener failure, shutdown | what an exit may cost is bounded |
| JA3 and the TLS listener, `internal/fingerprint` | per connection: the captured bytes, its `Hello`, `done` | `Capture`, `ParseClientHello`, the replay, `oneShotListener` | the handshake sees the client's bytes unchanged, a request its client's `Hello`; connections end |
| detection, `internal/detect` | the compiled rules | `Load`, `Analyze` | the score is the sum of the categories, each once, whatever the encoding |
| GeoIP, `internal/enrich` | a cache under a mutex | `Enrich` (three goroutines), `Close` (main) | each event has its own source's location; lookups are bounded |
| configuration, build, container, documents | | | |

### How they interact

    HTTP, SSH, Redis decoys  --Publish-->  channel  -->  dispatcher
       |            |                                      | storeSub   -> SQLite
       | SetFor     | IsBlocked                            | logSub     -> log
       v            v                                      | trackerSub -> tracker.Record
    canary       tracker                                   | exporter.Handle
    registry                                               v
       |                                               exporter.buf <- ticker, Stop
       +-> SQLite                                          +-> webhook

* Each HTTP request, Redis connection, SSH connection and SSH channel has a
  goroutine of its own; they share the bus, the tracker and the registry
  (`main.go:116-206`).
* The dispatcher runs the subscribers synchronously. A slow subscriber fills
  the channel and then holds every decoy in `Publish`.
* The tracker is written by the dispatcher and read by the decoys, so a decoy
  sees the quarantine some events late.
* The registry keeps its mutex over a database write.
* The exporter's three goroutines build their envelopes at the same time and
  share the GeoIP cache, which is unlocked during a lookup.
* Bytes reach the decoys through three front ends: the RESP reader, the line loop
  of the shell, and the TLS listener, which reads the ClientHello before the
  handshake does.
* `main` on a signal: `srv.Shutdown` (5 s), `exporter.Stop`, `st.Close`,
  return with the deferred close of the GeoIP database. A listener that fails ends the process by `os.Exit`.

### What is hard about it

Three goroutines flush one buffer; a flag is read outside the mutex that guards
what it decides; the dispatcher itself delivers to the webhook; a retry repeats a
post that may have arrived; clocks are read before mutexes are taken; a set is
replaced while handlers hold the old one; a quarantine begins between the
question and the answer; a database write fails and its error is dropped; the
process dies between two file operations; shutdown closes the store, and the
GeoIP database, while the dispatcher runs; requests arrive in fragments, several
at once, and cut anywhere; a server of one connection waits for its end. `PROJECT.json` has these hazards at their lines, with the
properties that cover them.


## 2. The modules

| Module | Models | EXTENDS / INSTANCEs |
|---|---|---|
| `FanOut` | what the bus promises, without channel, dispatcher or publishers | |
| `Bus` | `bus.go` | `FanOut` by refinement |
| `Exporter` | `exporter.go` | |
| `Pipeline` | `main.go` with the bus, four subscribers, the exporter, shutdown and kill | instances of `Bus` and `Exporter` |
| `Tracker` | `tracker.go` and `trackerSub` | |
| `Registry` | what the canary registry promises, without mutex and database | |
| `Canary` | `canary.go`, `canary/sqlite.go` | `Registry` by refinement |
| `Web`, `Redis`, `Ssh` | the decoys | `Registry` |
| `Decoys` | the three decoys on one registry and one quarantine | `Web`, `Redis`, `Ssh` |
| `KeyFiles` | `hostkey.go`, `cert.go` and the loads in `main.go` | |
| `Detect` | `detect/engine.go`, `detect/rules.go`, severity bands, as operators | |
| `Stix` | `export/stix.go`, as operators | `Detect` |
| `Envelope` | `buildEnvelope`, `enrich.go`, from the request to what the webhook is told | `Stix` |
| `Text` | Go's range loop, `strings.Fields`, `Trim` | |
| `Resp` | `redis/resp.go` and the replies of `redis/server.go`, over bytes | `Text` |
| `Shell` | the line loop and the interpreter of `ssh/shell.go`, exec requests | `Text` |
| `Hello` | `fingerprint.go`: `ParseClientHello`, as operators over bytes | `Text` |
| `Tls` | `fingerprint/tls.go` | `Hello` |
| `FrontEnds` | what a client has to do with first: codec, shell, TLS listener and the identity on disk, side by side | instances of `Resp`, `Shell`, `Tls`, `KeyFiles` |
| `BusProofs`, `ExporterProofs`, `TrackerProofs`, `PipelineProofs`, `CanaryProofs`, `EnvelopeProofs`, `DecoysProofs`, `FrontEndsProofs` | theorems and proofs | the module of that name; `PipelineProofs` instances of `BusProofs` and `ExporterProofs` |
| `MC...` | small instances, symmetry sets, constants | the module of that name |

A definition whose name says what is wrong with it (`SendOrDrop`,
`TakeBatchKeepingBuffer`, `NotExtended`, ...) stands before the definition it is a
variant of. It is no part of the specification: put in the other's place it is
a plausible bug, which a property must detect.

**Bus.** `sending[p]` is a goroutine inside `Publish`; `Send` is the channel send
and is enabled when there is room. `Receive` and `HandleReturns` are the
dispatcher's range loop with its inner loop over the subscribers, one step per
return of a `Handle`. `Stop` closes the channel; nothing in `main.go` calls it,
its callers in the tests wait for the publishers first, which is its guard
(a send on a closed channel would panic).

**Exporter.** `pc` says where the dispatcher, the ticker goroutine and main are.
A step reaches from one critical section, atomic access or network call to the
next: `HandleOpen` is the read of `stopped`, `AppendEvent` the locked section of
`Handle` (which decides on the flush), `TakeBatch` the locked section of
`flushNow`, then `Build` or `MarshalFails`, `PostAccepted` or `PostFailed`,
`BackoffOver`. A failed post may or may not have reached the webhook.
`attempt` counts the loop of `deliver` and is 0 outside it.
`acked`, `lost`, `copies`, `offered`, `accepted` are histories.

**Pipeline.** The variables of `Bus` and `Exporter` side by side. The dispatcher
of the bus is the thread "dispatcher" of the exporter: `EnterExporter` is the
call of the fourth subscriber, `LeaveExporter` its return. `phase` follows
`main`; no step happens after "exited" or "killed". `SaveFails` is possible
at any time and the only outcome once the store is closed. `Refused` are the events
that `Handle` turned away because `stopped` was set (`exporter.go:114-116`), `Pending`
the others that have no answer yet.

**Tracker.** `RecordCalled` reads the clock, `RecordBody` is the body under the
mutex, and time may pass between the two. The slice `events` is a set of
numbered records. `hist` is a history with every interaction; the properties
state the rule over it.

**Canary.** `SetFor` from the call to the return with `mu` held from `Create`
to `Record`. `Insert` adds one row to the transaction, `Commit` makes them
visible, `SaveFails` rolls back and, as `newSet` does, goes on. `Restart` keeps
only `table`. A kind that `generate` draws from a short list takes any value of
`Pool`.

**Web, Redis, Ssh, Decoys.** Each handler from arrival to answer, with a step
for every call on shared state: `IsBlocked`, `SetFor`, `Publish`, the write to
the client. A page, a reply and the output of the fake shell are reduced to the
canary set they may show. The registry is the abstract `Registry` (that
`Canary` implements it is checked) and the tracker is the set `blocked`, which
changes at any moment: what a decoy is told may be old. `Quarantine`, `Release`
and `TimePasses` are steps of all three decoys at once.

**KeyFiles.** `os.WriteFile` is two steps, truncation and contents. A
key is the number of its generation, a torn file is 0. SSH serves the host key from
the moment `EnsureHostKey` returns (`main.go:182`), through all of `EnsureCert` and
also while `main` is about to fail; `ShowHostKey` and `ShowCert` are a client that
connects. Any operation may fail: `HostKeyFails`, `CertFails` and `TlsFails` end the
start, with the file torn or, if closing it is what failed, written; a read or a stat
that fails is taken for a missing file, as the code does (`hostkey.go:21`,
`cert.go:24-25`), and the file is overwritten. `Down` is a kill at any point or an
orderly end, `Remove` the operator between two starts. `known` is what clients
have seen since the last removal or failed read.

**Detect, Stix, Envelope.** A pattern is a value, a text is the sequence of its
forms (raw, decoded once, twice, ...), a form the set of patterns that match it:
what `expand` reads of a text and what a rule finds in it are then set
operations, and the code's order (all patterns before all User-Agents, a category
once, cap at 100) is kept: `Loop` is one pass over the rules. `Aggregate` is a fold over the batch like the loop
of the code, which fills both maps; `BuildBundle` returns a set of bundles, one for each order of the map of tools.
In `Envelope` a request becomes an event (`EventOf`), reaches the buffer in any
order of timestamps (`Handle`), and each of the three flushing goroutines goes
event by event through `buildEnvelope`: `LocatedInBatch` is a hit in the local map,
`LocatedByCache`, `NotCached`, `Lookup`, `Remember` are the critical sections of
`MaxMind.Enrich` and the unlocked lookup between them. `CloseDB` is main's deferred
close. Delivery is left to `Exporter`.

**Resp.** Bytes are numbers. `Fill` appends any part of what is under way, `Parse`
is one call of `tryParse`, `Serve` writes the reply. A client's request is its
bytes with their meaning, and the properties compare the commands served with the
requests sent. A line of nothing but white space panics in `tryParse` (`resp.go:72`):
`Parse` then leaves the reader `"crashed"` for good.

**Shell.** A character is a letter; the loop is one step per byte. `Exec` records
the line, the simple commands the interpreter makes of it and whether each is
known.

**Hello, Tls.** `Walk` follows the TLS records and `ParseBody` the ClientHello, with
the code's order of tests. In `Tls` bytes arrive up to a cut; `CaptureRead` is one
turn of `Capture`, `HandshakeRead` one `replayConn.Read`, `HandshakeDone` the call of
`srv.Serve` with the one-shot listener, `ServeReturns` the return of its second
`Accept`. The `http.Server` is external: it reads a header, maybe a body, calls the
handler, and closes the connection when a deadline or the client says so.

**FrontEnds.** The four share nothing; a behaviour is one of one of them.


## 3. The runs

| Run | Instance | Checks |
|---|---|---|
| `bus` | 3 publishers, 5 events, capacity 2, 3 subscribers | `Conservation`, `LockStep`, `DrainedAtExit`, `PublishReturns`, `ImplementsFanOut` |
| `exporter` | 3 events, batches of 2, 2 attempts | `Custody`, `DroppedExact`, `BatchBound`, `CopiesBounded`, `StragglerBound`, `Settled` |
| `pipeline` | 1 publisher, 4 events, capacity 1, batches of 1, 1 attempt | `ExportedWasStored`, `CrashLossBound`, `ShutdownLossBound`, `CaptureGoesOn`, `ShutdownEnds` |
| `tracker` | 2 sources, scores 0-2, threshold 3, window 2, TTL 2, 3 interactions each, time to 5 | `QuarantineByRule`, `EpisodesCounted`, `SnapshotByRule`, `NeverShortened` |
| `canary` | 2 callers, 2 sources, 3 calls, 2 kinds, TTL 2, time to 3, 1 restart | `HandedIsTraceable`, `AllOrNothing`, `SetForReturns`, `ImplementsRegistry` |
| `decoys` | any 2 clients of the three decoys, a source and a trusted proxy, 3 sets, TTL 1, time to 1, 3 inputs | `TypeOK`, `BaitIsRecorded`, `BaitIsAttributable`, `QuarantineIsShared`, `PublishedInOrder` |
| `intel` | 3 rule files, 4 kinds of requests, 3 events, batches of 2, 2 points of time, a database or none | `ScoreIsSumOfCategories`, `GeoIsTheSources`, `LookupsAreBounded`, `BundleIsComplete` |
| `front_ends` | up to 3 Redis requests; 5 characters or an exec request; 2 TLS connections; 5 starts, 6 keys | `ServedAsSent`, `RepliesStayInStep`, `RunsWhatWasTyped`, `ServedAsItCame`, `FatalMeansTorn`, `IdentityIsStable`, `ConnectionEnds` |
| `exporter_never_blocks` | | `NeverBlocksBus`, violated |
| `pipeline_orderly_exit` | | `OrderlyExitKeepsEvents`, violated |
| `shell_pipeline` | 5 characters | `LastStageReachesTerminal`, violated |
| `resp_read_command` | 2 Redis requests | `ReadCommandReturns`, violated |

The type invariants of `Bus`, `Exporter`, `Tracker`, `KeyFiles` and `Canary` are proved
(section 4) and no run repeats them.

### The bounds, and why they are enough

* `bus`: three publishers compete for two slots, so that one can be overtaken;
  five events fill the channel, the dispatcher's hand and two publishers more.
  With three subscribers one is neither the first nor the last.
* `exporter`: with batches of two and three events a batch-full flush by the
  dispatcher leaves a remainder that only the ticker or Stop can take, so that
  all three goroutines deliver at once; two attempts give one retry and one
  final failure.
* `pipeline`: four events occupy the channel, a batch of the dispatcher and one of
  the ticker while `main` delivers another; they are one more than the three that an
  orderly exit may leave pending (`Cap + 2 * BatchSize`) and two more than a crash may
  cost the store (`Cap + 1`), so that neither bound holds for lack of events. Several
  are refused behind Stop. Shutdown, kill and listener failure may come anywhere.
  There is no symmetry: the run checks liveness too.
* `tracker`: window and TTL shorter than the clock, so that interactions leave
  the window, quarantines expire and come back; three interactions build up a
  score, hit again and come back. `MaxTime` and `MaxHits` bound the model.
* `canary`: one set can expire and be asked for again within `MaxTime`; one
  caller waits while the other saves; `MaxBoots` allows one restart.
* `decoys`: two clients are enough for any two handlers of the same or of
  different decoys to meet; three set identifiers let a set be replaced twice.
  Only the source, not the proxy, is ever quarantined (`Suspects`).
  `MaxClients` and `MaxInputs` bound the traffic, `MaxCommands` and `MaxLogins` that of
  a connection or session.
* `intel`: with batches of two and three events the dispatcher, the ticker and
  main's flush can all be in `buildEnvelope` at once; two events of one source in
  one batch, in the wrong order of their times, and one source in two batches
  occur. The requests have a payload encoded twice (found) and three times (not
  found), one category from two rules of different weights, a sum above the cap, a User-Agent in
  two spellings and a source without a record. `MaxTime` bounds the timestamps.
* `front_ends`: every pair of eighteen Redis requests (inline and array, whole,
  malformed, never complete, empty lines, a line of one blank, arguments with line ends) and every
  triple of four of them, cut at every byte; `MaxInline` is 4 so that a line can
  be too long. Five characters (`MaxTyped`) make two lines, or one with two
  separators that touch. Four TLS clients: a ClientHello in one record, in two,
  without extensions, and no TLS at all; the random has one byte (`Random`), as it
  is only skipped. Two connections meet in no shared state; the second is there
  to show that. Five starts and six keys allow a torn file, its removal, a pair of two generations,
  a key lost to a failed read and a stable identity after it; an operation may fail
  in each of them.

Deadlock is checked in `bus`, `exporter` and the pipeline runs; a finished bus and
an ended process are steps of their own that change nothing (`Finished`, `Ended`),
also in `intel`. The other models end at the bounds named above.

### Fairness

* Goroutines run: weak fairness of the dispatcher, of the ticker and of each
  thread's delivery. Nothing in the code ends the ticker's loop. A post returns
  because the HTTP client has a timeout, a backoff because it is a sleep.
  The pipeline needs only the dispatcher and main to be fair: capture and
  shutdown go on whatever becomes of the ticker.
* A blocked sender on a full channel is served in turn (the runtime keeps the
  senders in a queue): strong fairness of `Send(p)`. Without it a publisher could
  be overtaken for ever.
* A mutex is handed to a waiter that was overtaken for a millisecond: strong
  fairness of taking `mu` in `SetFor`. A SQLite statement returns because of
  `busy_timeout`.
* `srv.Shutdown` has a limit of five seconds.
* On the TLS listener: deadlines strike (300 ms for the capture, 10 s for the
  handshake, 10 s for a header, 60 s between requests), handlers return, a
  goroutine whose channel was closed goes on. The bytes of a client, its requests
  and their bodies have no fairness.

Nothing is assumed of attackers, of the webhook's answers, of a save succeeding,
of signals, kills or restarts, nor of `main` calling `Stop`.

### What the runs show

* Nothing that was published is lost inside the bus or handed out in two orders,
  and a publisher always comes through, if every `Handle` returns; every
  `Handle` does, also with a dead webhook (`Settled`, `CaptureGoesOn`): a
  dead webhook delays capture, by the whole retry schedule of a batch, but
  never stops it.
* The exporter's comment on concurrent flushes (`exporter.go:160-162`) holds:
  the snapshots are disjoint (`Custody`) and `dropped` is exact. Behind Stop's
  flush at most one event slips in. The webhook may see an event up to
  `Retries` times.
* A crash costs the store at most the channel and the event in hand. An orderly
  shutdown costs the webhook every event that reaches `Handle` once Stop was called:
  any number of them, as the decoys and the dispatcher go on during Stop's flush, and
  none is acknowledged, given up or counted in `dropped`. They are the last of the
  stream; besides them at most the channel and two batches are left without an
  answer.
* SSH never shows a host key, nor HTTPS a certificate, that is not wholly on disk, and
  what was shown stays through kills and failed starts; an operator who removes
  a file and a start that cannot read one change it.
* The tracker's pruned window and single deadline answer exactly like the rule
  over the complete history; the block counter counts episodes.
* The canary registry never hands out a set that is not in the table, unless the
  save failed; a set is all in the table or not at all.
* The bait of all decoys leads back to one source, also when the set expires
  between its connection and its command; a quarantined source is slowed or
  turned away by all three, whatever headers it sends, except where section 5
  says otherwise.
* What the webhook is told is what happened: the score of an event is that of its
  categories, each counted once; every event has the location of its own source
  although three goroutines fill one cache; a goroutine looks an address up at
  most once, with or without a record; the bundle has every source and every
  scanner of the batch. Only an envelope built while the process ends can lack
  locations, as `main` closes the database under the dispatcher and the ticker.
* However a stream is cut, the Redis decoy serves the commands that were sent and
  answers each with exactly one reply, and waits for missing bytes only, except
  behind an empty line, where it reads before it looks at the rest of its buffer.
  The exceptions of the codec are in section 5.
* The TLS handshake gets the client's bytes as they came, and a TLS connection ends
  wherever its client falls silent, except in the body of a request: no timeout
  guards it (`tls.go:105-110` sets none).


## 4. The proofs

`tlapm` checks every proof to the last leaf. The assumptions are those on the
constants in the modules, such as `Cap \in Nat \ {0}` (what `NewBus` makes of
its argument), and no bound on events, publishers, subscribers, sources or
retries; `MaxTime` and `MaxHits` of the tracker are arbitrary.

**ExporterProofs** proves `TypeOK`, `Custody`, `DroppedExact`, `BatchBound`,
`CopiesBounded` and `StragglerBound`. Custody alone is not inductive: an event in
the dispatcher's hand must not be accepted yet, and a thread outside `deliver`
must have no batch (`HandsInv`). `CopiesBounded` says nothing of how many
copies an event in flight has; `CopiesInv` bounds them by the attempts of the
thread that holds it, which needs that only one holds it (Custody).
`DroppedExact` adds cardinalities, so the sets must be finite (`FiniteInv`) and
disjoint. The invariant is `IInv` in `Exporter`; there is a lemma per conjunct
and, in it, a step per action.

**BusProofs** proves `TypeOK`, `Conservation`, `LockStep`, `DrainedAtExit` and
that the bus implements the safety part of `FanOut`. `Conservation` and `LockStep`
need each other: the last subscriber's history and the event in hand determine
what the others have seen. For the refinement a step of `HandleReturns` is a
`Deliver(sub)` of the promise: the event in hand is the one at the next
index of `published`, by `Conservation`; `Send` is an `Accept` with
`Slack = Cap + 1`, the capacity and the event in hand. That an event is published once
and not while another publisher holds it (`PublishedOnce`) is for `PipelineProofs`.

**TrackerProofs** proves `TypeOK`, `QuarantineByRule`, `EpisodesCounted`,
`SnapshotByRule` and the action property `NeverShortened`. The inductive
invariant says that what is kept of a source is what its history has within the
window of the last call (`WindowInv`), that times never decrease with the number
of an interaction and never pass the clock (`HistInv`, `CallInv`), and that the
deadline is the latest one of any hot interaction (`DeadlineInv`). Pruning is
sound because a later window begins later: what was dropped cannot count again.
A new interaction leaves the windows of the earlier ones as they were, so the
hot interactions and the starts of episodes of the history do not change.
`MapThenSumSet` is not unfolded: equal sets have equal scores.

**PipelineProofs** proves that every step of the process is a step of the bus or
leaves it alone (`ProcessRunsTheBus`), the same of the exporter
(`ProcessRunsTheExporter`), and `ExportedWasStored`, `CrashLossBound` and
`ShutdownLossBound`. The two refinements make the theorems of `BusProofs` and
`ExporterProofs` hold of the running process, through shutdown and kill; the
exporter's is not immediate, as it forbids to handle an event twice: the bus hands
out each once. What is new relates the components: what was offered to the
exporter had been through the store (`OrderInv`), the event in the exporter's hand
is the bus's event in hand (`InsideInv`), and `main` stops the exporter before it
goes on (`MainInv`). Besides the events refused, an orderly exit costs two batches and
not three because only the dispatcher appends: while it delivers, the buffer stays empty.
That the refused events are the last (`RefusedAreLast`) is inductive with the order in
which the bus hands out: once an event was refused `stopped` stays set, so no later one
is accepted, and the one refused stands in `published` behind all that were kept
(`RefusedStep`), since each event is there once (`PublishedOnce`).

**CanaryProofs** proves `TypeOK`, `HandedIsTraceable`, `AllOrNothing` and that `Canary`
implements the whole of `Registry` (`ImplementsRegistry`), for any callers, sources,
lists of kinds and restarts. The mutex makes one set at a time, counted by the calls
that wait (`CountInv`), for a source without a live one (`CallInv`); an open
transaction has a row for each kind so far and the table none of that set (`TxInv`);
so what is a session can be traced and stays so (`TraceInv`). A hit on a live session
is `Keep`, the return with a new set is `Renew`, a restart is `Forget`, the rest
stutters.

**EnvelopeProofs** proves `GeoIsTheSources`, `LookupsAreBounded`,
`ScoreIsSumOfCategories` and `BundleIsComplete`, for any database, requests and rules. A location is right if it is the database's answer or, once the
database is closed, none; being right is stable, and the cache, the local maps, the
answer between lookup and write, and the envelope so far are right (`CacheInv`,
`WorkInv`). A lookup that is over has its answer in the cache or in the hand of the
goroutine that made it (`LookupInv`), so it is not repeated.
`RequestAssumption` is the condition: the database maps the addresses of the requests,
to a location or to none.

The score is about a fold, so its proof is an induction over the rules. The library's
induction theorems take an operator, which the provers cannot instantiate; but for a
set of numbers that is named, induction follows from the pigeonhole principle
(`SetOfNaturals`), and from it that a fold over a finite set is defined (`FoldExists`)
and that a sum does not depend on the order of its terms (`TotalIsSum`, `TotalAdds`).
`Accounts(d, hits)` says that `d` is what the rules `hits` add up to; a rule more keeps
it (`AddAccounts`), so a loop over the rules does (`LoopAccounts`), and the two loops of
`Analyze` together see exactly the rules that hit (`AnalyzeAccounts`). `Hits` says so of the
raw and the twice decoded forms without the operators of `Detect`; `HitsOrNot` is that these
agree with it. That this holds of
every envelope needs that the rules do not change once there is an event (`ScoreInv`).
`RuleFilesAssumption` says that a file is a list whose weights are integers; that they
are positive is what `Reload` checks.

The bundle takes the same way: after `k` turns of the loop the map of sources is what
the first `k` events say of each address (`SourcesInv`, `Summary`) and the map of tools
what they say of each scanner (`ScannersInv`); `TurnKeeps` is one turn, `AggregateKeeps`
the induction. That a finite set of addresses can be sorted (`SortedIsSorted`) is an
induction over finite sets, that an order of a map misses no key (`OrderIsComplete`) the
pigeonhole principle again. `BundleLayout` says which object is where, and `BundleOfEvents`
that such a bundle is complete, for any events and any order. `AddressAssumption` says
that addresses are numbers, as they stand for their order.

**DecoysProofs** proves `TypeOK`, `BaitIsRecorded`, `BaitIsAttributable`, `QuarantineIsShared`,
`PublishedInOrder`, and that all the decoys do to the registry is what `Registry`
promises (`DecoysUseTheRegistry`), for any number of requests, connections and channels.
With `CanaryImplementsRegistry` the same module is proved to be what the decoys need
and what the code provides. A set is `Owned` by the source it was handed to, and by
nobody else; every hand-out keeps that for all sets (`Kept`), since a new one is
unseen. Each decoy has an invariant of its own over `Owned`, the sources in quarantine
and its history; a step of one decoy disturbs the others only by `Kept` and a larger
quarantine (`Elsewhere`), which their invariants survive (`WebFrame`, `RedisFrame`,
`SshFrame`). A release is the exception, and takes the mark `hot` from what is in hand.
That a Redis connection publishes in order needs that its events are numbered below the
command in hand until `serve` gets to it, and that a reply is not there before its turn.
`TypesHold` proves `TypeOK` from these invariants and `RedisPart` and `SshPart`: a command
in hand was counted, the counters stop at `MaxCommands` and `MaxLogins`, and a connection
that has not come has neither source nor set.

**FrontEndsProofs** proves `ServedAsSent`, `RepliesStayInStep`, `RunsWhatWasTyped`,
`ServedAsItCame`, `FatalMeansTorn` and the action property `IdentityIsStable`, for any
requests, lines, connections and starts. Three of these are about what a parser makes of
every input. As in `EnvelopeProofs` the recursion is brought down to numbers: a fold over a
sequence has a table of its intermediate values (`FoldTable`, `FoldRun`), and what holds
of the table's first entry and from one entry to the next holds of its last (`UpTo`).

* *Redis.* A request is what `TryParse` makes of it when it comes whole and alone
  (`RequestsAssumption`); nothing is assumed of it in a stream or in pieces, which is the
  theorem. `TryParseStable` says that a decision of the parser stays when more bytes come:
  the end of a line, the length of an element and the elements already read are those of
  the shorter buffer. From it the next request in the buffer is taken whole or not at all
  (`NextInBuffer`, by two ways to cut one stream, `TwoCuts`). The invariant `TakenInv` says
  that some number of the requests have been taken: their commands were served, and what
  is in the buffer and under way is exactly the rest of the stream. `WaitsInv` says that who
  waits for bytes can do no more with those it has. For `RepliesStayInStep`, `ReplyEnds`
  follows a client through each kind of reply, nested arrays included, and finds its end
  where the next reply begins; line ends inside a bulk string do not mislead it.
  `KeyspaceAssumption` says that the dataset is finite.
* *Shell.* The splitting loop appends to its last part and the statement marks where a
  stretch ends; `CuttingNext` shows that the two agree after every byte, the second of a
  pair of separators consumed with the first. Which separators form a pair depends on the
  parity of a run of equal ones; `Alternate` reduces it to the byte before. Words are
  looked at one turn at a time (`ShellFieldsNext`, `WholeLinesNext`, `KeptNext`). The
  invariant `LoopInv` relates what the loop has to what was typed: the open line is
  what stands behind the last line end, no line so far is an exit, and the lines executed
  are those that are not empty. `PayloadsAssumption`: an exec request announces a
  length before its text.
* *TLS.* What the handshake was given and what is still in the replay are together what
  was read off the connection (`StreamInv`). A connection's `Hello` is that of its client
  (`HelloInv`) because `ParseClientHello`, once it finds a `Hello` in the first bytes,
  finds the same one in more of them (`HelloStable`, by `WalkStable` and `GatheredStable` over the
  records). `ServeInv` ties the server to the connection it was given, which stays open as
  long as it is served. `PlansAssumption`: a client's message is what the parser makes of
  it whole.
* *Keys.* What was seen of the host key is in its file, and so is the key SSH serves:
  it is served only once it was written or read, and a file is opened for writing only
  when it is missing or could not be read, and then nothing of it counts as seen
  (`HostInv`). The same of the pair and its two files; a start that reaches the load has
  both (`PairInv`). `FatalMeansTorn` needs the last of these: without it a load could
  fail over a missing file.

**Only model-checked.** Every invariant and every action property that a passing run
checks is also a theorem. What stays with TLC is liveness, which is beyond the prover:
`PublishReturns`, `Settled`, `CaptureGoesOn`, `ShutdownEnds`, `SetForReturns`,
`ConnectionEnds`, and the fairness of `ImplementsFanOut`, whose safety part is
`BusImplementsFanOut`. That the assumptions on the constants hold of real requests and
messages is evaluated by TLC for those of the instances.


## 5. Where code and documents differ

With a run that shows it:

1. `exporter.go:66-68` says that Handle only appends and never blocks the bus; a
   full buffer is delivered by the dispatcher itself (line 121), retries and
   sleeps included (`exporter_never_blocks`).
2. `README.en.md:13-14` says that every interaction is stored, and `bus.go:13-14`
   promises backpressure instead of dropped events; `main` never drains the bus, so an
   orderly exit drops what is in the channel (`pipeline_orderly_exit`).
3. `shell.go:138` says that the last stage of a pipeline reaches the terminal; the
   stage is cut out with its `|` (line 139), so that the word looked up is the first
   of the stage with `|` before it (`|w` of `e|w`, `|` of `e | w`) and every pipeline
   is "command not found" (`shell_pipeline`). `a||b` without another separator takes
   the same way, although line 150 splits it.
4. `resp.go:30-31` says that `readCommand` returns the next command or an error (nil
   for a partial stream at its end); of a line of nothing but white space it takes the
   first field of none (line 72), a panic that nothing recovers (`resp_read_command`).

Seen while modelling, and modelled as the code does it:

* `README.en.md:77`: all tokens are persisted; the error of `SaveTokens` is
  dropped and the set handed out (`canary.go:113`). `HandedIsTraceable` says so: or
  its save failed.
* `cert.go:1-3`: works with zero configuration; a kill or a failed write while a
  file is written (line 57) leaves one that ends every later start in `fatal` until it
  is removed. `FatalMeansTorn` says that nothing else a file may hold does.
* `hostkey.go:14-15`: persistent, generated on first run; `cert.go:19-20`: loaded or
  freshly generated. Any error of `ReadFile` (line 21) or `Stat` (`cert.go:24-25`), on
  any later run, has the identity replaced by a new one, over the files that are there.
  `IdentityIsStable` names that case, next to the removal of a file.
* `resp.go:55-57`: the buffer is left untouched unless a command was consumed; an
  empty line is consumed without one (line 68), and a command behind it waits for
  the next read.
* `resp.go:94`: the header of an array is `*N`; its end is looked for in four bytes
  (line 99), so an array of ten or more elements is never complete. A line longer
  than 512 bytes is refused or accepted depending on how it is cut (line 75).
* `redis/server.go:223` repeats the name of an unknown command unescaped: one with
  a line end in it splits the reply.
* `fingerprint.go:64-66`: never fails a handshake over a fingerprint it could not
  parse; `tls.go:88-91` drops a connection whose ClientHello has no extensions
  (`fingerprint.go:143`) or comes later than 300 ms. `fingerprint.go:26` calls the
  hash standard JA3 and hashes with SHA1.
* `stix.go:149`: deterministic order; the tools come in the order of a map
  (line 198). `docs/export.md:61` has one tool per scanner; there is one per
  lower-cased User-Agent (line 137).
* `rules.go:49`: rules are re-read without a restart; nothing calls `Reload` but
  `Load`.
* `shell.go:88` drops a carriage return; a client in raw mode ends its lines with
  one and never gets an answer. The end of the stream drops an open line
  (line 69), neither run nor published.
* `exporter.go:138-139`: Stop delivers what is left in the buffer at that
  moment, not what other threads have in flight nor the straggler; and the events that
  reach `Handle` while it does so are turned away (lines 114-116), neither delivered
  nor counted as dropped.
* `docs/export.md:89` speaks of three retries after 1, 5 and 25 s; `retries` counts
  attempts and there is no sleep after the last (`exporter.go:176`), so that 25 s
  never come.
* `README.en.md:75-76`: every source gets unique values; user names and internal
  addresses are drawn from short lists (`canary.go:129`), so only the other
  kinds identify a source by value.
* `redis/server.go:3-4`: every command is published; one whose reply cannot be
  written is not (line 112).
* `redis/server.go:264-266`: `publishAuth` asks the registry again, so an AUTH
  event may name another set than the keyspace shows.
* `README.en.md:122-123`: a quarantined source is slowed on Redis; AUTH is answered
  before the question is asked (line 87).
* `web/server.go:1-3`: every request becomes an event; a quarantined one gets its
  403 before (line 88).
* `README.en.md:137`: SSH commands are recorded; exit and logout leave the loop
  first (`shell.go:77`).


## 6. What is not modelled, and why

* **Regular expressions, decoding of URLs, the text of the fabricated files, pages
  and replies**: data; the models tell apart what the properties need.
* **`looksLikeScanner`** is an attribute of a User-Agent in `Stix`.
* **JA3**'s hash is told apart by what is hashed; compression methods, SNI and ALPN
  are parsed and read by nobody.
* **`versionSniffConn`**, the terminal type, the routing of `decoyFor`: parsers of
  one line each without state that others see.
* **Event store**: the schema and the conversion to a row; nothing reads the table.
* **net/http, crypto/tls, x/crypto/ssh, database/sql**: as the code uses them.
* **Configuration, flags, build, container, documents**: read once, or no program.


## 7. Plan

Done: models of every component above, except what section 6 lists; proofs of every
safety property the runs check.

Next, if the code moves on: `versionSniffConn` and the defaults of the configuration, as
far as another component depends on them; the schema of the store, once something reads it.
