------------------------------ MODULE Envelope ------------------------------
(***************************************************************************)
(* What the webhook is told: from a request, through the engine and the    *)
(* event (module Detect), the exporter's buffer and the GeoIP cache of     *)
(* internal/enrich, to the envelope with its STIX bundle (module Stix).    *)
(*                                                                         *)
(* The three goroutines that flush build their envelopes at the same time, *)
(* each with locals of its own, and share the cache, which is unlocked     *)
(* while the database is read. The delivery of an envelope, and an event   *)
(* that Handle appends behind Stop, are module Exporter's.                 *)
(***************************************************************************)
EXTENDS Stix

CONSTANTS
  RuleFiles,  \* what the rules file may hold
  Requests,   \* what clients may send
  GeoDB,      \* the database: the record of each address
  NoGeo,      \* no record
  BatchSize,  \* Options.BatchSize
  MaxEvents,  \* bound of the number of events
  MaxTime     \* bound of the timestamps

\* A rules file is a list of rules; a weight is an integer.
ASSUME RuleFilesAssumption ==
  \A file \in RuleFiles : file \in Seq(Range(file)) /\ \A i \in DOMAIN file : file[i].weight \in Int

\* Every address has an entry, which may be NoGeo.
RequestAssumption == \A q \in Requests : q.ip \in DOMAIN GeoDB
ASSUME RequestAssumption

\* Of an address only its place in the order of addresses matters.
ASSUME AddressAssumption == DOMAIN GeoDB \subseteq Int

VARIABLES
  phase,     \* where main stands
  rules,     \* Engine.rules
  db,        \* the MaxMind database: "none" if not configured, "open", "closed"
  cache,     \* MaxMind.cache
  captured,  \* number of events that reached Handle
  buf,       \* Exporter.buf
  flush,     \* locals of each goroutine in flushNow and buildEnvelope
  lookups,   \* history: how often each goroutine looked each address up
  posted     \* history: the envelopes, `late' if the database was closed

vars == <<phase, rules, db, cache, captured, buf, flush, lookups, posted>>

Threads == {"dispatcher", "ticker", "main"}
Idle == [at |-> "idle", batch |-> <<>>, out |-> <<>>, geoCache |-> <<>>, found |-> NoGeo]
Alive == phase \in {"running", "stopping", "closing"}

Init ==
  /\ phase = "starting"
  /\ rules = <<>>
  /\ db \in {"none", "open"}
  /\ cache = <<>>
  /\ captured = 0
  /\ buf = <<>>
  /\ flush = [t \in Threads |-> Idle]
  /\ lookups = [t \in Threads |-> [ip \in DOMAIN GeoDB |-> 0]]
  /\ posted = {}

\* detect.Load: rules that cannot all be used end the process.
LoadRules(file) ==
  /\ phase = "starting"
  /\ IF Loads(file) THEN phase' = "running" /\ rules' = file
                    ELSE phase' = "failed" /\ rules' = rules
  /\ UNCHANGED <<db, cache, captured, buf, flush, lookups, posted>>

\* NewEvent and Enrich; `details' is what the decoy put into Details.
EventOf(q, time) ==
  LET d == Analyze(rules, q) IN
  [ip |-> q.ip, time |-> time, protocol |-> q.protocol, action |-> q.action, score |-> d.score,
   categories |-> d.categories, severity |-> SeverityFor(d.score), canary |-> q.canary,
   fingerprint |-> q.fingerprint, ua |-> q.ua, details |-> q]

Goto(t, at) == flush' = [flush EXCEPT ![t].at = at]

\* The dispatcher hands an event to Handle. Events are stamped before they
\* wait for the bus: they arrive in any order of their times.
Handle(q, time) ==
  /\ phase = "running" /\ captured < MaxEvents /\ flush["dispatcher"].at = "idle"
  /\ captured' = captured + 1
  /\ buf' = Append(buf, EventOf(q, time))
  /\ (IF Len(buf') >= BatchSize THEN Goto("dispatcher", "flush") ELSE UNCHANGED flush)
  /\ UNCHANGED <<phase, rules, db, cache, lookups, posted>>

Tick ==
  /\ Alive /\ flush["ticker"].at = "idle" /\ buf # <<>>
  /\ Goto("ticker", "flush")
  /\ UNCHANGED <<phase, rules, db, cache, captured, buf, lookups, posted>>

Stop ==
  /\ phase = "running"
  /\ phase' = "stopping"
  /\ Goto("main", "flush")
  /\ UNCHANGED <<rules, db, cache, captured, buf, lookups, posted>>

TakeBatch(t) ==
  /\ Alive /\ flush[t].at = "flush"
  /\ flush' = [flush EXCEPT ![t] = IF buf = <<>> THEN Idle ELSE [Idle EXCEPT !.at = "build", !.batch = buf]]
  /\ buf' = <<>>
  /\ UNCHANGED <<phase, rules, db, cache, captured, lookups, posted>>

-----------------------------------------------------------------------------
(* buildEnvelope, one event after another.                                 *)

More(t) == flush[t].at = "build" /\ Len(flush[t].out) < Len(flush[t].batch)
Current(t) == flush[t].batch[Len(flush[t].out) + 1]

\* The event goes out with the location geo; a known one is kept for the batch.
Emit(t, geo) ==
  flush' = [flush EXCEPT ![t] =
    [at |-> "build", batch |-> @.batch, out |-> Append(@.out, [event |-> Current(t), geo |-> geo]),
     geoCache |-> IF geo = NoGeo THEN @.geoCache ELSE Put(@.geoCache, Current(t).ip, geo), found |-> NoGeo]]

\* Without a database.
Unlocated(t) ==
  /\ Alive /\ More(t) /\ db = "none"
  /\ Emit(t, NoGeo)
  /\ UNCHANGED <<phase, rules, db, cache, captured, buf, lookups, posted>>

\* The map of the batch is read like a variable of the loop.
LocatedLikeAnother(t) ==
  /\ Alive /\ More(t) /\ db # "none" /\ flush[t].geoCache # <<>>
  /\ \E ip \in DOMAIN flush[t].geoCache : Emit(t, flush[t].geoCache[ip])
  /\ UNCHANGED <<phase, rules, db, cache, captured, buf, lookups, posted>>

\* The source occurred before in the batch.
LocatedInBatch(t) ==
  /\ Alive /\ More(t) /\ db # "none" /\ Current(t).ip \in DOMAIN flush[t].geoCache
  /\ Emit(t, flush[t].geoCache[Current(t).ip])
  /\ UNCHANGED <<phase, rules, db, cache, captured, buf, lookups, posted>>

\* Enrich finds the source in the cache, under the lock.
LocatedByCache(t) ==
  /\ Alive /\ More(t) /\ db # "none" /\ Current(t).ip \notin DOMAIN flush[t].geoCache
  /\ Current(t).ip \in DOMAIN cache
  /\ Emit(t, cache[Current(t).ip])
  /\ UNCHANGED <<phase, rules, db, cache, captured, buf, lookups, posted>>

\* Enrich does not find it and unlocks.
NotCached(t) ==
  /\ Alive /\ More(t) /\ db # "none" /\ Current(t).ip \notin DOMAIN flush[t].geoCache
  /\ Current(t).ip \notin DOMAIN cache
  /\ Goto(t, "lookup")
  /\ UNCHANGED <<phase, rules, db, cache, captured, buf, lookups, posted>>

\* lookup, without the lock; a closed database answers with an error. One that
\* is closed in the middle of a lookup may also fault: the process ends, as in
\* Exit.
Lookup(t) ==
  /\ Alive /\ flush[t].at = "lookup"
  /\ flush' = [flush EXCEPT ![t].at = "remember",
                            ![t].found = IF db = "open" THEN GeoDB[Current(t).ip] ELSE NoGeo]
  /\ lookups' = [lookups EXCEPT ![t][Current(t).ip] = @ + 1]
  /\ UNCHANGED <<phase, rules, db, cache, captured, buf, posted>>

\* Only an address that has a record is cached.
RememberFound(t) ==
  /\ Alive /\ flush[t].at = "remember"
  /\ cache' = IF flush[t].found = NoGeo THEN cache ELSE Put(cache, Current(t).ip, flush[t].found)
  /\ Emit(t, flush[t].found)
  /\ UNCHANGED <<phase, rules, db, captured, buf, lookups, posted>>

\* Enrich stores the answer, "none" as well, and returns it.
Remember(t) ==
  /\ Alive /\ flush[t].at = "remember"
  /\ cache' = Put(cache, Current(t).ip, flush[t].found)
  /\ Emit(t, flush[t].found)
  /\ UNCHANGED <<phase, rules, db, captured, buf, lookups, posted>>

\* All events are out: the bundle is built and the envelope posted.
Post(t) ==
  /\ Alive /\ flush[t].at = "build" /\ ~More(t)
  /\ \E bundle \in BuildBundle(flush[t].batch) :
       posted' = posted \cup {[batch |-> flush[t].batch, events |-> flush[t].out, bundle |-> bundle,
                               late |-> db = "closed"]}
  /\ flush' = [flush EXCEPT ![t] = Idle]
  /\ UNCHANGED <<phase, rules, db, cache, captured, buf, lookups>>

Flush(t) ==
  \/ TakeBatch(t)
  \/ Unlocated(t) \/ LocatedInBatch(t) \/ LocatedByCache(t)
  \/ NotCached(t) \/ Lookup(t) \/ Remember(t)
  \/ Post(t)

-----------------------------------------------------------------------------
\* exporter.Stop has returned and main returns: the deferred Close of the
\* database runs, while the dispatcher and the ticker go on.
CloseDB ==
  /\ phase = "stopping" /\ flush["main"].at = "idle"
  /\ phase' = "closing"
  /\ db' = IF db = "open" THEN "closed" ELSE db
  /\ UNCHANGED <<rules, cache, captured, buf, flush, lookups, posted>>

Exit ==
  /\ phase = "closing"
  /\ phase' = "ended"
  /\ UNCHANGED <<rules, db, cache, captured, buf, flush, lookups, posted>>

Ended == phase \in {"ended", "failed"} /\ UNCHANGED vars

Next ==
  \/ \E file \in RuleFiles : LoadRules(file)
  \/ \E q \in Requests, time \in 1..MaxTime : Handle(q, time)
  \/ Tick
  \/ Stop
  \/ \E t \in Threads : Flush(t)
  \/ CloseDB
  \/ Exit
  \/ Ended

Spec == Init /\ [][Next]_vars

-----------------------------------------------------------------------------
\* A pattern of the rule finds something in the path, query or body, as it came
\* or encoded once or twice, or one of its expressions in the User-Agent.
Hits(r, q) ==
  \/ \E p \in r.patterns, text \in {q.path, q.query, q.body} :
       \E form \in 1..3 : form \in DOMAIN text /\ p \in text[form]
  \/ \E p \in r.user_agent : p \in q.user_agent

\* rules/default.yml:3-7 and engine.go:45-46: every category that matches in
\* the request (raw or up to twice encoded) or in its User-Agent counts once,
\* with the weight of one of its rules that match, up to 100 in all; the event
\* names exactly these categories, each once. The severity follows: it never
\* goes down while the score goes up.
ScoreIsSumOfCategories ==
  LET Events == UNION {Range(p.batch) : p \in posted}
      Bands == <<"none", "low", "medium", "high", "critical">>
      Band(e) == CHOOSE i \in DOMAIN Bands : Bands[i] = e.severity
  IN /\ \A e \in Events :
          LET hits == {r \in Range(rules) : Hits(r, e.details)}
              cs == {r.category : r \in hits}
          IN /\ IsInjective(e.categories) /\ Range(e.categories) = cs
             /\ \E weight \in [cs -> {r.weight : r \in hits}] :
                  /\ \A c \in cs : \E r \in hits : r.category = c /\ r.weight = weight[c]
                  /\ e.score = Min({MapThenSumSet(LAMBDA c : weight[c], cs), 100})
     /\ \A e, f \in Events : e.score < f.score => Band(e) <= Band(f)

\* An envelope has the events of its batch in their order, each with what the
\* database says of its own source, although three goroutines fill one cache
\* and look addresses up at the same time; only an envelope that is built
\* while the process ends may lack a location.
GeoIsTheSources ==
  \A p \in posted :
    /\ Len(p.events) = Len(p.batch)
    /\ \A i \in DOMAIN p.batch : LET o == p.events[i] IN
         /\ o.event = p.batch[i]
         /\ o.geo # (IF db = "none" THEN NoGeo ELSE GeoDB[o.event.ip]) => p.late /\ o.geo = NoGeo

\* The database is read at most once by each goroutine for an address, however
\* many events it sends and whether or not the address has a record
\* ("cached per unique IP", enrich.go:58).
LookupsAreBounded == \A t \in Threads : \A ip \in DOMAIN GeoDB : lookups[t][ip] <= 1

\* The events of o's address make the indicator o.
IsOfItsAddress(o, batch) ==
  LET mine == {i \in DOMAIN batch : batch[i].ip = o.ip} IN
  /\ \A i \in mine : batch[i].score <= o.confidence /\ batch[i].time \in o.agg.first_seen..o.agg.last_seen
  /\ \E i \in mine : batch[i].score = o.confidence /\ batch[i].severity = o.severity
  /\ {o.agg.first_seen, o.agg.last_seen} \subseteq {batch[i].time : i \in mine}
  /\ o.agg.labels = UNION {Range(batch[i].categories) : i \in mine}
  /\ o.agg.canaries = {batch[i].canary : i \in mine} \ {None}
  /\ o.agg.events = Cardinality(mine)

\* The events of t's User-Agent, however it is written, make the tool t.
IsOfItsScanner(t, batch) ==
  LET with == {i \in DOMAIN batch : batch[i].ua.scanner # None /\ batch[i].ua.lower = t.id[2]} IN
  t.sources = {batch[i].ip : i \in with} /\ \E i \in with : batch[i].ua.raw = t.ua

Complete(bundle, batch) ==
  LET At(type) == {i \in DOMAIN bundle : bundle[i].type = type} IN
  /\ \A i, j \in At("indicator") : i < j => bundle[i].ip < bundle[j].ip
  /\ {bundle[i].ip : i \in At("indicator")} = {e.ip : e \in Range(batch)}
  /\ \A i \in At("indicator") : IsOfItsAddress(bundle[i], batch)
  /\ {bundle[i].id[2] : i \in At("tool")} = {e.ua.lower : e \in {f \in Range(batch) : f.ua.scanner # None}}
  /\ \A i \in At("tool") : IsOfItsScanner(bundle[i], batch)
  /\ At("report") = {Len(bundle)}
  /\ bundle[Len(bundle)].object_refs = [i \in 1..Len(bundle) - 1 |-> bundle[i].id]
  /\ \A i, j \in DOMAIN bundle : bundle[i].id = bundle[j].id => i = j

\* stix.go:95-98: "one indicator per unique source IP (max score, category
\* union, seen window), one tool per scanner-like User-Agent, and a report
\* referencing everything", in whatever order the events and the tools come.
BundleIsComplete == \A p \in posted : Complete(p.bundle, p.batch)
=============================================================================
