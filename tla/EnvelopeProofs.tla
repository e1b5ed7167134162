--------------------------- MODULE EnvelopeProofs ---------------------------
(***************************************************************************)
(* Proofs about module Envelope: every event goes out with its own         *)
(* source's location, no goroutine asks the database twice for one         *)
(* address, and the score of an event is the sum of what its request       *)
(* matches, for any database, any requests and any rules.                  *)
(*                                                                         *)
(* Analyze sums in a fold over the rules, so the proof about the score     *)
(* needs induction: SetOfNaturals derives it from the pigeonhole           *)
(* principle, for a set of numbers that is named, and FoldExists shows     *)
(* that a fold over the subsets of a finite set is defined.                *)
(***************************************************************************)
EXTENDS Envelope, FiniteSetTheorems, TLAPS

Addresses == DOMAIN GeoDB
Geo == {NoGeo} \cup {GeoDB[ip] : ip \in Addresses}
Caches == UNION {[S -> Geo] : S \in SUBSET Addresses}
Events == {EventOf(q, time) : q \in Requests, time \in 1..MaxTime}
Answers == [event : Events, geo : Geo]
Locals == [at : {"idle", "flush", "build", "lookup", "remember"}, batch : Seq(Events), out : Seq(Answers),
           geoCache : Caches, found : Geo]

TypeInv ==
  /\ db \in {"none", "open", "closed"}
  /\ cache \in Caches
  /\ buf \in Seq(Events)
  /\ flush \in [Threads -> Locals]
  /\ lookups \in [Threads -> [Addresses -> Nat]]

\* Rules are loaded before the first event: all events stem from these rules.
StartInv == phase = "starting" => buf = <<>> /\ flush = [t \in Threads |-> Idle] /\ posted = {}

\* main flushes after Stop was called.
MainInv == phase = "running" => flush["main"].at = "idle"

\* geo is what the database says of ip, or the database is closed and said nothing.
Right(geo, ip) ==
  \/ geo = (IF db = "none" THEN NoGeo ELSE GeoDB[ip])
  \/ db = "closed" /\ geo = NoGeo

\* What one goroutine has so far.
WorkInv(t) ==
  LET f == flush[t] IN
  /\ Len(f.out) <= Len(f.batch)
  /\ f.at \in {"lookup", "remember"} => Len(f.out) < Len(f.batch)
  /\ \A i \in 1..Len(f.out) : f.out[i].event = f.batch[i] /\ Right(f.out[i].geo, f.out[i].event.ip)
  /\ \A ip \in DOMAIN f.geoCache : Right(f.geoCache[ip], ip)
  /\ f.at = "remember" => Right(f.found, Current(t).ip)

CacheInv == \A ip \in DOMAIN cache : Right(cache[ip], ip)

\* A lookup that is over left its answer in the cache, or is about to.
LookupInv(t) ==
  /\ \A ip \in Addresses :
       /\ lookups[t][ip] <= 1
       /\ lookups[t][ip] = 1 => ip \in DOMAIN cache \/ (flush[t].at = "remember" /\ Current(t).ip = ip)
  /\ flush[t].at = "lookup" => lookups[t][Current(t).ip] = 0

IInv ==
  /\ TypeInv /\ StartInv /\ MainInv /\ CacheInv
  /\ \A t \in Threads : WorkInv(t)
  /\ \A t \in Threads : LookupInv(t)
  /\ GeoIsTheSources

-----------------------------------------------------------------------------
(* Lemmas about the operators.                                             *)

LEMMA EventHasAddress == ASSUME NEW e \in Events PROVE e.ip \in Addresses
  BY RequestAssumption DEF Events, EventOf, RequestAssumption, Addresses

\* Remembering one answer changes a cache at one address.
LEMMA PutAnswer ==
  ASSUME NEW c \in Caches, NEW ip \in Addresses, NEW geo \in Geo
  PROVE  Put(c, ip, geo) \in Caches
<1>1. PICK S \in SUBSET Addresses : c \in [S -> Geo]
  BY DEF Caches
<1>2. Put(c, ip, geo) \in [S \cup {ip} -> Geo]
  BY <1>1 DEF Put
<1>3. S \cup {ip} \in SUBSET Addresses
  OBVIOUS
<1> QED
  BY <1>2, <1>3 DEF Caches

\* The event in work is one of the batch.
LEMMA CurrentIsEvent ==
  ASSUME TypeInv, NEW t \in Threads, Len(flush[t].out) < Len(flush[t].batch)
  PROVE  /\ Len(flush[t].out) + 1 \in 1..Len(flush[t].batch)
         /\ Current(t) \in Events /\ Current(t).ip \in Addresses
<1>1. flush[t].batch \in Seq(Events) /\ flush[t].out \in Seq(Answers)
  BY DEF TypeInv, Locals
<1>2. Len(flush[t].out) + 1 \in 1..Len(flush[t].batch)
  BY <1>1
<1>3. Current(t) \in Events
  BY <1>1, <1>2 DEF Current
<1> QED
  BY <1>2, <1>3, EventHasAddress

\* The database is opened before main and closed at its end.
Ages == db' = db \/ (db = "open" /\ db' = "closed")

\* What was right stays right.
LEMMA RightStays ==
  ASSUME Ages, NEW geo, NEW ip, Right(geo, ip)
  PROVE  Right(geo, ip)'
  BY DEF Ages, Right

\* Sending the current event out with the right location.
LEMMA EmitRight ==
  ASSUME TypeInv, NEW t \in Threads, WorkInv(t), Len(flush[t].out) < Len(flush[t].batch),
         NEW geo \in Geo, Right(geo, Current(t).ip), Emit(t, geo), db' = db
  PROVE  /\ flush' \in [Threads -> Locals]
         /\ WorkInv(t)'
         /\ flush'[t].at = "build"
         /\ \A u \in Threads \ {t} : flush'[u] = flush[u]
<1> DEFINE f == flush[t]
           ip == Current(t).ip
           answer == [event |-> Current(t), geo |-> geo]
           known == IF geo = NoGeo THEN f.geoCache ELSE Put(f.geoCache, ip, geo)
<1>1. f \in Locals /\ f.out \in Seq(Answers) /\ f.batch \in Seq(Events) /\ f.geoCache \in Caches
  BY DEF TypeInv, Locals
<1>2. Len(f.out) + 1 \in 1..Len(f.batch) /\ Current(t) \in Events /\ ip \in Addresses
  BY CurrentIsEvent
<1>3. answer \in Answers
  BY <1>2 DEF Answers
<1>4. known \in Caches
  BY <1>1, <1>2, PutAnswer
<1>5. \A x \in DOMAIN known : Right(known[x], x)
  <2>1. \A x \in DOMAIN f.geoCache : Right(f.geoCache[x], x)
    BY DEF WorkInv
  <2>2. CASE geo = NoGeo
    BY <2>1, <2>2
  <2>3. CASE geo # NoGeo
    BY <2>1, <2>3 DEF Put
  <2> QED
    BY <2>2, <2>3
<1>6. flush' = [flush EXCEPT ![t] = [at |-> "build", batch |-> f.batch, out |-> Append(f.out, answer),
                                     geoCache |-> known, found |-> NoGeo]]
  BY DEF Emit
<1> HIDE DEF known
<1>7. flush'[t] = [at |-> "build", batch |-> f.batch, out |-> Append(f.out, answer),
                   geoCache |-> known, found |-> NoGeo]
  BY <1>6 DEF TypeInv
<1>8. flush'[t] \in Locals
  <2>1. Append(f.out, answer) \in Seq(Answers)
    BY <1>1, <1>3
  <2> QED
    BY <1>1, <1>4, <1>7, <2>1 DEF Locals, Geo
<1>9. WorkInv(t)'
  <2>1. Len(flush'[t].out) = Len(f.out) + 1 /\ Len(f.out) \in Nat /\ Len(f.batch) \in Nat
    BY <1>1, <1>3, <1>7
  <2>2. Len(flush'[t].out) <= Len(flush'[t].batch)
    BY <1>2, <1>7, <2>1
  <2>3. ASSUME NEW i \in 1..Len(flush'[t].out)
        PROVE  /\ flush'[t].out[i].event = flush'[t].batch[i]
               /\ Right(flush'[t].out[i].geo, flush'[t].out[i].event.ip)
    <3>1. CASE i = Len(f.out) + 1
      <4>1. flush'[t].out[i] = answer
        BY <1>1, <1>3, <1>7, <3>1
      <4>2. Current(t) = flush'[t].batch[i]
        BY <1>7, <3>1 DEF Current
      <4> QED
        BY <4>1, <4>2
    <3>2. CASE i # Len(f.out) + 1
      <4>1. i \in 1..Len(f.out)
        BY <2>1, <2>3, <3>2
      <4>2. flush'[t].out[i] = f.out[i]
        BY <1>1, <1>3, <1>7, <4>1
      <4>3. f.out[i].event = f.batch[i] /\ Right(f.out[i].geo, f.out[i].event.ip)
        BY <4>1 DEF WorkInv
      <4> QED
        BY <1>7, <4>2, <4>3
    <3> QED
      BY <3>1, <3>2
  <2>4. \A x \in DOMAIN flush'[t].geoCache : Right(flush'[t].geoCache[x], x)
    BY <1>5, <1>7
  <2> HIDE DEF f
  <2>5. \A g, x : Right(g, x) => Right(g, x)'
    BY DEF Right
  <2>6. flush'[t].at = "build"
    BY <1>7
  <2> QED
    BY <2>2, <2>3, <2>4, <2>6 DEF WorkInv, Right
<1>10. \A u \in Threads \ {t} : flush'[u] = flush[u]
  BY <1>6 DEF TypeInv
<1>11. flush' \in [Threads -> Locals]
  BY <1>6, <1>7, <1>8 DEF TypeInv
<1> QED
  BY <1>7, <1>9, <1>10, <1>11
\* The events of one rule file are the same in every state.
LEMMA SameEvents ==
  ASSUME rules' = rules
  PROVE  Events' = Events /\ Locals' = Locals
<1>1. Events' = Events
  BY DEF Events, EventOf
<1> QED
  BY <1>1 DEF Locals, Answers

\* A goroutine that has nothing in hand.
LEMMA IdleIsLocal ==
  ASSUME NEW E
  PROVE  Idle \in [at : {"idle", "flush", "build", "lookup", "remember"}, batch : Seq(E),
                   out : Seq([event : E, geo : Geo]), geoCache : Caches, found : Geo]
<1>1. <<>> \in Caches
  <2>1. <<>> \in [{} -> Geo]
    OBVIOUS
  <2> QED
    BY <2>1 DEF Caches
<1>2. NoGeo \in Geo
  BY DEF Geo
<1> QED
  BY <1>1, <1>2 DEF Idle

\* The goroutines that take no part in a step.
LEMMA Others ==
  ASSUME Ages, NEW u \in Threads, flush'[u] = flush[u], lookups'[u] = lookups[u],
         DOMAIN cache \subseteq DOMAIN cache', WorkInv(u), LookupInv(u)
  PROVE  WorkInv(u)' /\ LookupInv(u)'
<1>1. WorkInv(u)'
  BY DEF Ages, WorkInv, Current, Right
<1>2. LookupInv(u)'
  BY DEF LookupInv, Current
<1> QED
  BY <1>1, <1>2

\* Envelopes that were posted stay right.
LEMMA PostedStaysRight ==
  ASSUME Ages, posted' = posted, GeoIsTheSources
  PROVE  GeoIsTheSources'
  BY DEF Ages, GeoIsTheSources

-----------------------------------------------------------------------------
(* The invariant.                                                          *)

LEMMA InitIInv == ASSUME Init PROVE IInv
<1> USE DEF Init
<1>1. TypeInv
  <2>1. Idle \in Locals
    BY IdleIsLocal DEF Locals, Answers
  <2>2. cache \in Caches
    <3>1. <<>> \in [{} -> Geo]
      OBVIOUS
    <3> QED
      BY <3>1 DEF Caches
  <2> QED
    BY <2>1, <2>2 DEF TypeInv, Addresses
<1>2. StartInv /\ MainInv /\ CacheInv /\ GeoIsTheSources
  BY DEF StartInv, MainInv, CacheInv, GeoIsTheSources
<1>3. \A t \in Threads : WorkInv(t)
  BY DEF WorkInv, Idle
<1>4. \A t \in Threads : LookupInv(t)
  BY DEF LookupInv, Idle, Addresses
<1> QED
  BY <1>1, <1>2, <1>3, <1>4 DEF IInv

\* The steps of one goroutine t that leave rules, events and envelopes alone.
Quiet == phase # "starting" /\ UNCHANGED <<phase, rules, db, captured, posted>>

LEMMA ThreadStep ==
  ASSUME IInv, NEW t \in Threads, Quiet, t = "ticker" \/ flush[t].at # "idle",
         buf' \in Seq(Events), cache' \in Caches, DOMAIN cache \subseteq DOMAIN cache', CacheInv',
         flush' \in [Threads -> Locals], lookups' \in [Threads -> [Addresses -> Nat]],
         \A u \in Threads \ {t} : flush'[u] = flush[u] /\ lookups'[u] = lookups[u],
         WorkInv(t)', LookupInv(t)'
  PROVE  IInv'
<1> USE DEF Quiet
<1>1. TypeInv'
  BY SameEvents DEF IInv, TypeInv
<1>2. StartInv' /\ MainInv'
  BY DEF StartInv, MainInv, IInv, Threads
<1>3. Ages
  BY DEF Ages
<1>4. \A u \in Threads : WorkInv(u)' /\ LookupInv(u)'
  BY <1>3, Others DEF IInv
<1>5. GeoIsTheSources'
  BY <1>3, PostedStaysRight DEF IInv
<1> QED
  BY <1>1, <1>2, <1>4, <1>5 DEF IInv

\* An event goes out.
LEMMA EmitStep ==
  ASSUME IInv, NEW t \in Threads, Quiet, flush[t].at # "idle", Len(flush[t].out) < Len(flush[t].batch),
         NEW geo \in Geo, Right(geo, Current(t).ip), Emit(t, geo), UNCHANGED <<buf, lookups>>,
         cache' \in Caches, DOMAIN cache \subseteq DOMAIN cache', CacheInv',
         flush[t].at = "remember" => Current(t).ip \in DOMAIN cache'
  PROVE  IInv'
<1>1. /\ flush' \in [Threads -> Locals] /\ WorkInv(t)' /\ flush'[t].at = "build"
      /\ \A u \in Threads \ {t} : flush'[u] = flush[u]
  BY EmitRight DEF IInv, Quiet
<1>2. LookupInv(t)'
  BY <1>1 DEF IInv, LookupInv
<1> QED
  BY <1>1, <1>2, ThreadStep DEF IInv, TypeInv

\* A goroutine that goes on without a new answer.
LEMMA MoveStep ==
  ASSUME IInv, NEW t \in Threads, Quiet, t = "ticker" \/ flush[t].at # "idle", UNCHANGED <<cache, lookups>>,
         buf' \in Seq(Events), flush' \in [Threads -> Locals],
         \A u \in Threads \ {t} : flush'[u] = flush[u],
         WorkInv(t)', LookupInv(t)'
  PROVE  IInv'
<1>1. CacheInv' /\ cache' \in Caches /\ lookups' \in [Threads -> [Addresses -> Nat]]
  BY DEF IInv, TypeInv, CacheInv, Right, Quiet
<1> QED
  BY <1>1, ThreadStep

\* A goroutine that is about to flush.
LEMMA GotoFlush ==
  ASSUME IInv, NEW t \in Threads, flush[t].at = "idle", Goto(t, "flush"), UNCHANGED <<db, cache, lookups>>
  PROVE  /\ flush' \in [Threads -> Locals]
         /\ \A u \in Threads \ {t} : flush'[u] = flush[u]
         /\ WorkInv(t)' /\ LookupInv(t)'
<1>1. flush \in [Threads -> Locals] /\ flush[t] \in Locals
  BY DEF IInv, TypeInv
<1>2. flush' = [flush EXCEPT ![t] = [flush[t] EXCEPT !.at = "flush"]]
  BY DEF Goto
<1>3. [flush[t] EXCEPT !.at = "flush"] \in Locals
  BY <1>1 DEF Locals
<1>4. /\ flush' \in [Threads -> Locals] /\ flush'[t] = [flush[t] EXCEPT !.at = "flush"]
      /\ \A u \in Threads \ {t} : flush'[u] = flush[u]
  BY <1>1, <1>2, <1>3
<1>5. /\ flush'[t].at = "flush" /\ flush'[t].out = flush[t].out /\ flush'[t].batch = flush[t].batch
      /\ flush'[t].geoCache = flush[t].geoCache
  BY <1>1, <1>4 DEF Locals
<1>6. WorkInv(t)'
  BY <1>5 DEF IInv, WorkInv, Right
<1>7. LookupInv(t)'
  BY <1>5 DEF IInv, LookupInv
<1> QED
  BY <1>4, <1>6, <1>7

LEMMA StepIInv == ASSUME IInv, [Next]_vars PROVE IInv'
<1> USE DEF Alive
<1>1. ASSUME NEW file \in RuleFiles, LoadRules(file) PROVE IInv'
  <2> USE <1>1 DEF LoadRules
  <2>1. buf = <<>> /\ flush = [t \in Threads |-> Idle] /\ posted = {}
    BY DEF IInv, StartInv
  <2>2. TypeInv'
    <3>1. Idle \in Locals'
      BY IdleIsLocal DEF Locals, Answers
    <3> QED
      BY <2>1, <3>1 DEF IInv, TypeInv
  <2>3. StartInv' /\ MainInv'
    BY <2>1 DEF StartInv, MainInv, Threads, Idle
  <2>4. Ages
    BY DEF Ages
  <2>5. \A u \in Threads : WorkInv(u)' /\ LookupInv(u)'
    BY <2>4, Others DEF IInv
  <2>6. CacheInv' /\ GeoIsTheSources'
    BY <2>4, PostedStaysRight DEF IInv, CacheInv, Right
  <2> QED
    BY <2>2, <2>3, <2>5, <2>6 DEF IInv
<1>2. ASSUME NEW q \in Requests, NEW time \in 1..MaxTime, Handle(q, time) PROVE IInv'
  <2> USE <1>2 DEF Handle
  <2>1. buf' \in Seq(Events)
    <3>1. EventOf(q, time) \in Events
      BY DEF Events
    <3> QED
      BY <3>1 DEF IInv, TypeInv
  <2>2. "dispatcher" \in Threads
    BY DEF Threads
  <2>3. /\ flush' \in [Threads -> Locals]
        /\ \A u \in Threads \ {"dispatcher"} : flush'[u] = flush[u]
        /\ WorkInv("dispatcher")' /\ LookupInv("dispatcher")'
    <3>1. CASE Goto("dispatcher", "flush")
      BY <2>2, <3>1, GotoFlush
    <3>2. CASE UNCHANGED flush
      <4>1. Ages
        BY DEF Ages
      <4> QED
        BY <2>2, <3>2, <4>1, Others DEF IInv, TypeInv
    <3> QED
      BY <3>1, <3>2
  <2>4. Ages /\ phase # "starting" /\ phase' # "starting"
    BY DEF Ages
  <2>5. TypeInv'
    BY <2>1, <2>3, SameEvents DEF IInv, TypeInv
  <2>6. StartInv' /\ CacheInv' /\ MainInv'
    BY <2>3, <2>4 DEF IInv, StartInv, MainInv, CacheInv, Right, Threads
  <2>7. \A u \in Threads : WorkInv(u)' /\ LookupInv(u)'
    BY <2>3, <2>4, Others DEF IInv
  <2>8. GeoIsTheSources'
    BY <2>4, PostedStaysRight DEF IInv
  <2> QED
    BY <2>5, <2>6, <2>7, <2>8 DEF IInv
<1>3. CASE Tick
  <2> USE <1>3 DEF Tick
  <2>1. "ticker" \in Threads
    BY DEF Threads
  <2>2. Quiet /\ buf' \in Seq(Events)
    BY DEF Quiet, IInv, TypeInv
  <2>3. /\ flush' \in [Threads -> Locals]
        /\ \A u \in Threads \ {"ticker"} : flush'[u] = flush[u]
        /\ WorkInv("ticker")' /\ LookupInv("ticker")'
    BY <2>1, GotoFlush
  <2> QED
    BY <2>1, <2>2, <2>3, MoveStep
<1>4. ASSUME NEW t \in Threads, TakeBatch(t) PROVE IInv'
  <2> USE <1>4 DEF TakeBatch
  <2> DEFINE next == IF buf = <<>> THEN Idle ELSE [Idle EXCEPT !.at = "build", !.batch = buf]
  <2>1. Quiet /\ buf' \in Seq(Events)
    BY DEF Quiet
  <2>2. Idle \in Locals /\ buf \in Seq(Events)
    BY IdleIsLocal DEF Locals, Answers, IInv, TypeInv
  <2>3. next \in Locals
    BY <2>2 DEF Locals
  <2>4. next.at \in {"idle", "build"} /\ next.out = <<>> /\ next.geoCache = <<>>
    BY DEF Idle
  <2>5. next.batch \in Seq(Events)
    BY <2>3 DEF Locals
  <2> HIDE DEF next
  <2>6. /\ flush' \in [Threads -> Locals] /\ flush'[t] = next
        /\ \A u \in Threads \ {t} : flush'[u] = flush[u]
    BY <2>3 DEF next, IInv, TypeInv
  <2>7. WorkInv(t)'
    <3>1. Len(next.batch) \in Nat /\ Len(next.out) = 0 /\ DOMAIN next.geoCache = {}
      BY <2>4, <2>5
    <3>2. Len(next.out) <= Len(next.batch) /\ 1..Len(next.out) = {}
      BY <3>1
    <3> QED
      BY <2>4, <2>6, <3>1, <3>2 DEF WorkInv
  <2>8. LookupInv(t)'
    BY <2>4, <2>6 DEF IInv, LookupInv
  <2> QED
    BY <2>1, <2>6, <2>7, <2>8, MoveStep
<1>5. ASSUME NEW t \in Threads, Unlocated(t) PROVE IInv'
  <2> USE <1>5 DEF Unlocated, More
  <2>1. Quiet /\ NoGeo \in Geo /\ Right(NoGeo, Current(t).ip)
    BY DEF Quiet, Geo, Right
  <2>2. cache' \in Caches /\ CacheInv'
    BY DEF IInv, TypeInv, CacheInv, Right
  <2> QED
    BY <2>1, <2>2, EmitStep
<1>6. ASSUME NEW t \in Threads, LocatedInBatch(t) PROVE IInv'
  <2> USE <1>6 DEF LocatedInBatch, More
  <2> DEFINE geo == flush[t].geoCache[Current(t).ip]
  <2>1. Quiet /\ Right(geo, Current(t).ip)
    BY DEF Quiet, IInv, WorkInv
  <2>2. geo \in Geo
    BY DEF IInv, TypeInv, Locals, Caches
  <2>3. cache' \in Caches /\ CacheInv'
    BY DEF IInv, TypeInv, CacheInv, Right
  <2> HIDE DEF geo
  <2>4. Emit(t, geo)
    BY DEF geo
  <2> QED
    BY <2>1, <2>2, <2>3, <2>4, EmitStep
<1>7. ASSUME NEW t \in Threads, LocatedByCache(t) PROVE IInv'
  <2> USE <1>7 DEF LocatedByCache, More
  <2> DEFINE geo == cache[Current(t).ip]
  <2>1. Quiet /\ Right(geo, Current(t).ip)
    BY DEF Quiet, IInv, CacheInv
  <2>2. geo \in Geo
    BY DEF IInv, TypeInv, Caches
  <2>3. cache' \in Caches /\ CacheInv'
    BY DEF IInv, TypeInv, CacheInv, Right
  <2> HIDE DEF geo
  <2>4. Emit(t, geo)
    BY DEF geo
  <2> QED
    BY <2>1, <2>2, <2>3, <2>4, EmitStep
<1>8. ASSUME NEW t \in Threads, NotCached(t) PROVE IInv'
  <2> USE <1>8 DEF NotCached, More
  <2>1. Quiet /\ buf' \in Seq(Events)
    BY DEF Quiet, IInv, TypeInv
  <2>2. flush[t] \in Locals
    BY DEF IInv, TypeInv
  <2>3. flush' = [flush EXCEPT ![t] = [flush[t] EXCEPT !.at = "lookup"]]
    BY DEF Goto
  <2>4. [flush[t] EXCEPT !.at = "lookup"] \in Locals
    BY <2>2 DEF Locals
  <2>5. /\ flush' \in [Threads -> Locals] /\ flush'[t] = [flush[t] EXCEPT !.at = "lookup"]
        /\ \A u \in Threads \ {t} : flush'[u] = flush[u]
    BY <2>3, <2>4 DEF IInv, TypeInv
  <2>6. /\ flush'[t].at = "lookup" /\ flush'[t].out = flush[t].out /\ flush'[t].batch = flush[t].batch
        /\ flush'[t].geoCache = flush[t].geoCache
    BY <2>2, <2>5 DEF Locals
  <2>7. WorkInv(t)'
    BY <2>6 DEF IInv, WorkInv, Right
  <2>8. LookupInv(t)'
    <3>1. Current(t).ip \in Addresses
      BY CurrentIsEvent DEF IInv
    <3>2. lookups[t][Current(t).ip] \in Nat
      BY <3>1 DEF IInv, TypeInv
    <3>3. lookups[t][Current(t).ip] = 0
      BY <3>1, <3>2 DEF IInv, LookupInv
    <3>4. Current(t)' = Current(t)
      BY <2>6 DEF Current
    <3> QED
      BY <2>6, <3>3, <3>4 DEF IInv, LookupInv
  <2> QED
    BY <2>1, <2>5, <2>7, <2>8, MoveStep
<1>9. ASSUME NEW t \in Threads, Lookup(t) PROVE IInv'
  <2> USE <1>9 DEF Lookup
  <2> DEFINE geo == IF db = "open" THEN GeoDB[Current(t).ip] ELSE NoGeo
             ip == Current(t).ip
  <2>1. Quiet /\ buf' \in Seq(Events)
    BY DEF Quiet, IInv, TypeInv
  <2>2. flush[t] \in Locals /\ Len(flush[t].out) < Len(flush[t].batch)
    BY DEF IInv, TypeInv, WorkInv
  <2>3. ip \in Addresses /\ geo \in Geo
    BY <2>2, CurrentIsEvent DEF IInv, Geo
  <2>4. flush' = [flush EXCEPT ![t] = [flush[t] EXCEPT !.at = "remember", !.found = geo]]
    BY DEF IInv, TypeInv
  <2>5. [flush[t] EXCEPT !.at = "remember", !.found = geo] \in Locals
    BY <2>2, <2>3 DEF Locals
  <2>6. /\ flush' \in [Threads -> Locals] /\ flush'[t] = [flush[t] EXCEPT !.at = "remember", !.found = geo]
        /\ \A u \in Threads \ {t} : flush'[u] = flush[u]
    BY <2>4, <2>5 DEF IInv, TypeInv
  <2>7. /\ flush'[t].at = "remember" /\ flush'[t].out = flush[t].out /\ flush'[t].batch = flush[t].batch
        /\ flush'[t].geoCache = flush[t].geoCache /\ flush'[t].found = geo
    BY <2>2, <2>6 DEF Locals
  <2>8. WorkInv(t)'
    <3>1. Right(geo, ip)
      BY DEF Right, IInv, TypeInv
    <3>2. Current(t)' = Current(t)
      BY <2>7 DEF Current
    <3> HIDE DEF geo
    <3>3. Right(flush[t].found, Current(t).ip)'
      BY <2>7, <3>1, <3>2 DEF Right
    <3>4. \A g, x : Right(g, x) => Right(g, x)'
      BY DEF Right
    <3> QED
      BY <2>2, <2>7, <3>3, <3>4 DEF IInv, WorkInv
  <2>9. /\ lookups' \in [Threads -> [Addresses -> Nat]]
        /\ \A u \in Threads \ {t} : lookups'[u] = lookups[u]
        /\ lookups'[t] = [lookups[t] EXCEPT ![ip] = @ + 1]
    BY <2>3 DEF IInv, TypeInv
  <2>10. LookupInv(t)'
    <3>1. lookups[t] \in [Addresses -> Nat]
      BY DEF IInv, TypeInv
    <3>2. Current(t)' = Current(t)
      BY <2>7 DEF Current
    <3> QED
      BY <2>3, <2>7, <2>9, <3>1, <3>2 DEF IInv, LookupInv
  <2>11. CacheInv' /\ cache' \in Caches
    BY DEF IInv, TypeInv, CacheInv, Right
  <2> HIDE DEF geo, ip
  <2> QED
    BY <2>1, <2>6, <2>8, <2>9, <2>10, <2>11, ThreadStep
<1>10. ASSUME NEW t \in Threads, Remember(t) PROVE IInv'
  <2> USE <1>10 DEF Remember
  <2> DEFINE geo == flush[t].found
             ip == Current(t).ip
  <2>1. Quiet /\ Len(flush[t].out) < Len(flush[t].batch) /\ Right(geo, ip) /\ geo \in Geo
    BY DEF Quiet, IInv, TypeInv, WorkInv, Locals
  <2>2. ip \in Addresses
    BY <2>1, CurrentIsEvent DEF IInv
  <2>3. cache' = Put(cache, ip, geo) /\ Emit(t, geo)
    OBVIOUS
  <2> HIDE DEF geo, ip
  <2>4. cache' \in Caches
    BY <2>1, <2>2, <2>3, PutAnswer DEF IInv, TypeInv
  <2>5. DOMAIN cache' = DOMAIN cache \cup {ip}
    BY <2>3 DEF Put
  <2>6. CacheInv'
    BY <2>1, <2>3 DEF IInv, CacheInv, Put, Right
  <2> QED
    BY <2>1, <2>3, <2>4, <2>5, <2>6, EmitStep DEF ip
<1>11. ASSUME NEW t \in Threads, Post(t) PROVE IInv'
  <2> USE <1>11 DEF Post
  <2>1. phase' # "starting" /\ Ages
    BY DEF Ages
  <2>2. Idle \in Locals
    BY IdleIsLocal DEF Locals, Answers
  <2>3. flush' \in [Threads -> Locals] /\ flush'[t] = Idle /\ \A u \in Threads \ {t} : flush'[u] = flush[u]
    BY <2>2 DEF IInv, TypeInv
  <2>4. TypeInv'
    BY <2>3, SameEvents DEF IInv, TypeInv
  <2>5. StartInv' /\ CacheInv' /\ MainInv'
    BY <2>1, <2>3 DEF IInv, StartInv, MainInv, CacheInv, Right, Threads, Idle
  <2>6. WorkInv(t)'
    BY <2>3 DEF WorkInv, Idle
  <2>7. LookupInv(t)'
    BY <2>3 DEF IInv, LookupInv, Idle
  <2>8. \A u \in Threads : WorkInv(u)' /\ LookupInv(u)'
    BY <2>1, <2>3, <2>6, <2>7, Others DEF IInv
  <2>9. GeoIsTheSources'
    <3>1. PICK bundle \in BuildBundle(flush[t].batch) :
            posted' = posted \cup {[batch |-> flush[t].batch, events |-> flush[t].out, bundle |-> bundle,
                                    late |-> db = "closed"]}
      OBVIOUS
    <3> DEFINE new == [batch |-> flush[t].batch, events |-> flush[t].out, bundle |-> bundle, late |-> db = "closed"]
    <3>2. flush[t].batch \in Seq(Events) /\ flush[t].out \in Seq(Answers)
      BY DEF IInv, TypeInv, Locals
    <3>3. Len(flush[t].out) = Len(flush[t].batch)
      BY <3>2 DEF More, IInv, WorkInv
    <3>4. DOMAIN flush[t].batch = 1..Len(flush[t].out)
      BY <3>2, <3>3
    <3>5. \A i \in DOMAIN flush[t].batch : flush[t].out[i].event = flush[t].batch[i]
                                           /\ Right(flush[t].out[i].geo, flush[t].out[i].event.ip)
      BY <3>4 DEF IInv, WorkInv
    <3> HIDE DEF new
    <3>6. /\ Len(new.events) = Len(new.batch)
          /\ \A i \in DOMAIN new.batch : LET o == new.events[i] IN
               /\ o.event = new.batch[i]
               /\ o.geo # (IF db = "none" THEN NoGeo ELSE GeoDB[o.event.ip]) => new.late /\ o.geo = NoGeo
      BY <3>3, <3>5 DEF new, Right
    <3>7. posted' = posted \cup {new}
      BY <3>1 DEF new
    <3> QED
      BY <3>6, <3>7 DEF IInv, GeoIsTheSources
  <2> QED
    BY <2>4, <2>5, <2>8, <2>9 DEF IInv
<1>12. CASE Stop
  <2> USE <1>12 DEF Stop
  <2>1. "main" \in Threads /\ Ages
    BY DEF Threads, Ages
  <2>2. /\ flush' \in [Threads -> Locals]
        /\ \A u \in Threads \ {"main"} : flush'[u] = flush[u]
        /\ WorkInv("main")' /\ LookupInv("main")'
    BY <2>1, GotoFlush DEF IInv, MainInv
  <2>3. \A u \in Threads : WorkInv(u)' /\ LookupInv(u)'
    BY <2>1, <2>2, Others DEF IInv
  <2>4. TypeInv'
    BY <2>2, SameEvents DEF IInv, TypeInv
  <2>5. StartInv' /\ MainInv' /\ CacheInv' /\ GeoIsTheSources'
    BY <2>1, PostedStaysRight DEF IInv, StartInv, MainInv, CacheInv, Right
  <2> QED
    BY <2>3, <2>4, <2>5 DEF IInv
<1>13. ASSUME Ages, phase' \notin {"starting", "running"} \/ (phase' = phase),
              UNCHANGED <<rules, cache, captured, buf, flush, lookups, posted>>
       PROVE  IInv'
  <2> USE <1>13
  <2>1. \A u \in Threads : WorkInv(u)' /\ LookupInv(u)'
    BY Others DEF IInv
  <2>2. TypeInv'
    BY SameEvents DEF IInv, TypeInv, Ages
  <2>3. StartInv' /\ MainInv' /\ CacheInv' /\ GeoIsTheSources'
    BY PostedStaysRight DEF IInv, StartInv, MainInv, CacheInv, Right, Ages
  <2> QED
    BY <2>1, <2>2, <2>3 DEF IInv
<1>14. CASE CloseDB
  <2>1. Ages
    BY <1>14 DEF CloseDB, Ages, IInv, TypeInv
  <2> QED
    BY <1>13, <1>14, <2>1 DEF CloseDB
<1>15. CASE Exit
  BY <1>13, <1>15 DEF Exit, Ages
<1>16. CASE UNCHANGED vars
  BY <1>13, <1>16 DEF vars, Ages
<1> QED
  BY <1>1, <1>2, <1>3, <1>4, <1>5, <1>6, <1>7, <1>8, <1>9, <1>10, <1>11, <1>12, <1>14, <1>15, <1>16
  DEF Next, Flush, Ended

LEMMA Invariant == Spec => []IInv
<1>1. Init => IInv
  BY InitIInv
<1>2. IInv /\ [Next]_vars => IInv'
  BY StepIInv
<1> QED
  BY <1>1, <1>2, PTL DEF Spec

-----------------------------------------------------------------------------
(* Induction, folds and sums.                                              *)

\* A set of numbers with 0 and the successor of each: if m were missing, the
\* successor would map the members up to m into those without 0.
LEMMA SetOfNaturals ==
  ASSUME NEW N \in SUBSET Nat, 0 \in N, \A n \in N : n + 1 \in N
  PROVE  N = Nat
<1> SUFFICES ASSUME NEW m \in Nat, m \notin N PROVE FALSE
  OBVIOUS
<1> DEFINE A == {n \in 0..m : n \in N}
           next == [n \in A |-> n + 1]
<1>1. IsFiniteSet(A)
  <2>1. IsFiniteSet(0..m)
    BY FS_Interval
  <2> QED
    BY <2>1, FS_Subset
<1>2. 0 \in A /\ m \notin A
  OBVIOUS
<1>3. IsFiniteSet(A \ {0}) /\ Cardinality(A \ {0}) = Cardinality(A) - 1 /\ Cardinality(A) \in Nat
  BY <1>1, <1>2, FS_RemoveElement, FS_CardinalityType
<1>4. next \in [A -> A \ {0}]
  OBVIOUS
<1>5. \A a, b \in A : next[a] = next[b] => a = b
  OBVIOUS
<1> HIDE DEF A, next
<1> QED
  BY <1>1, <1>3, <1>4, <1>5, FS_PigeonHole

\* What holds for a set when it holds for the set without any one of its
\* members holds for every finite set.
LEMMA SetOfSubsets ==
  ASSUME NEW S, IsFiniteSet(S), NEW Q,
         \A s \in SUBSET S : (\A x \in s : s \ {x} \in Q) => s \in Q
  PROVE  SUBSET S \subseteq Q
<1> DEFINE N == {n \in Nat : \A s \in SUBSET S : Cardinality(s) <= n => s \in Q}
<1>1. \A s \in SUBSET S : IsFiniteSet(s) /\ Cardinality(s) \in Nat
  BY FS_Subset, FS_CardinalityType
<1>2. 0 \in N
  <2> SUFFICES ASSUME NEW s \in SUBSET S, Cardinality(s) <= 0 PROVE s \in Q
    OBVIOUS
  <2>1. s = {}
    BY <1>1, FS_EmptySet
  <2> QED
    BY <2>1
<1>3. ASSUME NEW n \in N PROVE n + 1 \in N
  <2> SUFFICES ASSUME NEW s \in SUBSET S, Cardinality(s) <= n + 1 PROVE s \in Q
    OBVIOUS
  <2>1. ASSUME NEW x \in s PROVE s \ {x} \in Q
    <3>1. Cardinality(s \ {x}) = Cardinality(s) - 1
      BY <1>1, FS_RemoveElement
    <3>2. s \ {x} \in SUBSET S /\ Cardinality(s) \in Nat
      BY <1>1
    <3> QED
      BY <3>1, <3>2
  <2> QED
    BY <2>1
<1>4. N = Nat
  <2>1. N \subseteq Nat
    OBVIOUS
  <2> HIDE DEF N
  <2> QED
    BY <1>2, <1>3, <2>1, SetOfNaturals
<1> QED
  BY <1>1, <1>4

\* A fold over the subsets of S: the next element, and what is done with it.
Steps(S, V) == [S \X V -> V]
Picks(S) == {pick \in [(SUBSET S) \ {{}} -> S] : \A s \in (SUBSET S) \ {{}} : pick[s] \in s}
FoldsOf(S, V, base, F, pick) ==
  {g \in [SUBSET S -> V] :
     \A s \in SUBSET S : g[s] = IF s = {} THEN base ELSE F[<<pick[s], g[s \ {pick[s]}]>>]}

\* The equation of a fold has a solution.
LEMMA FoldExists ==
  ASSUME NEW S, IsFiniteSet(S), NEW V, NEW base \in V, NEW F \in Steps(S, V), NEW pick \in Picks(S)
  PROVE  \E g : g \in FoldsOf(S, V, base, F, pick)
<1> USE DEF Steps, Picks
<1> DEFINE D(n) == {s \in SUBSET S : Cardinality(s) <= n}
           Folds(g, n) == \A s \in D(n) : g[s] = IF s = {} THEN base ELSE F[<<pick[s], g[s \ {pick[s]}]>>]
           N == {n \in Nat : \E g \in [D(n) -> V] : Folds(g, n)}
<1>1. \A s \in SUBSET S : IsFiniteSet(s) /\ Cardinality(s) \in Nat
  BY FS_Subset, FS_CardinalityType
<1>2. 0 \in N
  <2>1. \A s \in D(0) : s = {}
    BY <1>1, FS_EmptySet
  <2>2. Folds([s \in D(0) |-> base], 0)
    BY <2>1
  <2> QED
    BY <2>2
<1>3. ASSUME NEW n \in N PROVE n + 1 \in N
  <2>1. PICK g \in [D(n) -> V] : Folds(g, n)
    OBVIOUS
  <2> DEFINE h == [s \in D(n + 1) |-> IF s = {} THEN base ELSE F[<<pick[s], g[s \ {pick[s]}]>>]]
  <2>2. ASSUME NEW s \in D(n + 1), s # {} PROVE pick[s] \in S /\ s \ {pick[s]} \in D(n)
    <3>1. pick[s] \in s
      BY <2>2
    <3>2. Cardinality(s \ {pick[s]}) = Cardinality(s) - 1
      BY <1>1, <3>1, FS_RemoveElement
    <3>3. Cardinality(s) \in Nat /\ n \in Nat
      BY <1>1
    <3> QED
      BY <3>1, <3>2, <3>3
  <2>3. \A s \in D(n) : s \in D(n + 1) /\ h[s] = g[s]
    <3>1. ASSUME NEW s \in D(n) PROVE s \in D(n + 1)
      BY <1>1
    <3> QED
      BY <2>1, <3>1
  <2>4. h \in [D(n + 1) -> V]
    BY <2>2
  <2>5. Folds(h, n + 1)
    BY <2>2, <2>3
  <2> HIDE DEF h, D, Folds
  <2> QED
    BY <2>4, <2>5
<1>4. N = Nat
  <2> HIDE DEF N
  <2>1. N \subseteq Nat
    BY DEF N
  <2> QED
    BY <1>2, <1>3, <2>1, SetOfNaturals
<1>5. Cardinality(S) \in N
  BY <1>1, <1>4
<1>6. D(Cardinality(S)) = SUBSET S
  BY FS_Subset
<1>7. PICK g \in [D(Cardinality(S)) -> V] : Folds(g, Cardinality(S))
  BY <1>5
<1> QED
  BY <1>6, <1>7 DEF FoldsOf

\* The sum of w over S.
Total(w, S) == MapThenSumSet(LAMBDA c : w[c], S)

\* The functions that sum w over every subset of S, in any order.
Sums(w, S) ==
  {it \in [SUBSET S -> Nat] :
     it[{}] = 0 /\ \A s \in SUBSET S : \A x \in s : it[s] = w[x] + it[s \ {x}]}

\* The sum that the community modules compute by choosing one element after
\* another does not depend on the choice.
LEMMA TotalIsSum ==
  ASSUME NEW S, IsFiniteSet(S), NEW w \in [S -> Nat]
  PROVE  \E it \in Sums(w, S) : Total(w, S) = it[S]
<1> DEFINE pick == [s \in (SUBSET S) \ {{}} |-> CHOOSE x \in s : TRUE]
           F == [p \in S \X Nat |-> w[p[1]] + p[2]]
           It == CHOOSE it : it = [s \in SUBSET S |->
                   IF s = {} THEN 0 ELSE w[CHOOSE x \in s : TRUE] + it[s \ {CHOOSE x \in s : TRUE}]]
<1>1. pick \in Picks(S) /\ F \in Steps(S, Nat) /\ 0 \in Nat
  BY DEF Picks, Steps
<1>2. PICK g : g \in FoldsOf(S, Nat, 0, F, pick)
  <2> HIDE DEF pick, F, It
  <2> QED
    BY <1>1, FoldExists
<1>3. ASSUME NEW s \in SUBSET S, s # {}
      PROVE  F[<<pick[s], g[s \ {pick[s]}]>>] = w[CHOOSE x \in s : TRUE] + g[s \ {CHOOSE x \in s : TRUE}]
  <2>1. PICK y \in s : y = CHOOSE x \in s : TRUE
    BY <1>3
  <2>2. pick[s] = y /\ y \in S /\ g[s \ {y}] \in Nat
    BY <1>2, <1>3, <2>1 DEF FoldsOf
  <2>3. F[<<y, g[s \ {y}]>>] = w[y] + g[s \ {y}]
    BY <2>2
  <2> QED
    BY <2>1, <2>2, <2>3
<1>4. g = [s \in SUBSET S |-> IF s = {} THEN 0
             ELSE w[CHOOSE x \in s : TRUE] + g[s \ {CHOOSE x \in s : TRUE}]]
  <2> HIDE DEF pick, F, It
  <2>1. ASSUME NEW s \in SUBSET S
        PROVE  g[s] = IF s = {} THEN 0 ELSE w[CHOOSE x \in s : TRUE] + g[s \ {CHOOSE x \in s : TRUE}]
    BY <1>2, <1>3 DEF FoldsOf
  <2>2. g \in [SUBSET S -> Nat]
    BY <1>2 DEF FoldsOf
  <2> QED
    BY <2>1, <2>2
<1>5. It = [s \in SUBSET S |-> IF s = {} THEN 0
              ELSE w[CHOOSE x \in s : TRUE] + It[s \ {CHOOSE x \in s : TRUE}]]
  BY <1>4
<1>6. Total(w, S) = It[S]
  BY DEF Total, MapThenSumSet, MapThenFoldSet
<1> HIDE DEF It
<1>7. It[{}] = 0
  BY <1>5
<1>8. ASSUME NEW s \in SUBSET S, s # {} PROVE \E x \in s : It[s] = w[x] + It[s \ {x}]
  <2>1. PICK y \in s : y = CHOOSE x \in s : TRUE
    BY <1>8
  <2>2. It[s] = w[y] + It[s \ {y}]
    BY <1>5, <1>8, <2>1
  <2> QED
    BY <2>2
<1> DEFINE P == {s \in SUBSET S : It[s] \in Nat}
           Q == {s \in SUBSET S : \A x \in s : It[s] = w[x] + It[s \ {x}]}
<1>9. SUBSET S \subseteq P
  <2>1. ASSUME NEW s \in SUBSET S, \A x \in s : s \ {x} \in P PROVE s \in P
    <3>1. CASE s = {}
      BY <1>7, <3>1
    <3>2. CASE s # {}
      <4>1. PICK x \in s : It[s] = w[x] + It[s \ {x}]
        BY <1>8, <3>2
      <4>2. w[x] \in Nat /\ It[s \ {x}] \in Nat
        BY <2>1
      <4> QED
        BY <4>1, <4>2
    <3> QED
      BY <3>1, <3>2
  <2> HIDE DEF P
  <2> QED
    BY <2>1, SetOfSubsets
<1>10. SUBSET S \subseteq Q
  <2>1. ASSUME NEW s \in SUBSET S, \A x \in s : s \ {x} \in Q PROVE s \in Q
    <3> SUFFICES ASSUME NEW x \in s PROVE It[s] = w[x] + It[s \ {x}]
      OBVIOUS
    <3>1. PICK y \in s : It[s] = w[y] + It[s \ {y}]
      BY <1>8
    <3>2. CASE x = y
      BY <3>1, <3>2
    <3>3. CASE x # y
      <4> DEFINE u == s \ {x, y}
      <4>1. u = (s \ {y}) \ {x} /\ u = (s \ {x}) \ {y}
        OBVIOUS
      <4>2. It[s \ {y}] = w[x] + It[u]
        BY <2>1, <3>3, <4>1
      <4>3. It[s \ {x}] = w[y] + It[u]
        BY <2>1, <3>3, <4>1
      <4>4. It[u] \in Nat /\ w[x] \in Nat /\ w[y] \in Nat
        BY <1>9
      <4> HIDE DEF u
      <4> QED
        BY <3>1, <4>2, <4>3, <4>4
    <3> QED
      BY <3>2, <3>3
  <2> HIDE DEF Q
  <2> QED
    BY <2>1, SetOfSubsets
<1>11. It \in [SUBSET S -> Nat]
  BY <1>5, <1>9
<1> QED
  BY <1>6, <1>7, <1>10, <1>11 DEF Sums

\* The sum over nothing.
LEMMA TotalOfNone ==
  ASSUME NEW w \in [{} -> Nat]
  PROVE  Total(w, {}) = 0
<1>1. PICK it \in Sums(w, {}) : Total(w, {}) = it[{}]
  BY TotalIsSum, FS_EmptySet
<1> QED
  BY <1>1 DEF Sums

\* One element more adds its weight.
LEMMA TotalAdds ==
  ASSUME NEW S, IsFiniteSet(S), NEW x, x \notin S, NEW w \in [S -> Nat], NEW v \in [S \cup {x} -> Nat],
         \A y \in S : v[y] = w[y]
  PROVE  Total(w, S) \in Nat /\ Total(v, S \cup {x}) = Total(w, S) + v[x]
<1>1. PICK T : T = S \cup {x} /\ IsFiniteSet(T) /\ v \in [T -> Nat] /\ x \in T
  BY FS_AddElement
<1>2. PICK it \in Sums(w, S) : Total(w, S) = it[S]
  BY TotalIsSum
<1>3. PICK jt \in Sums(v, T) : Total(v, T) = jt[T]
  BY <1>1, TotalIsSum
<1>4. it[S] = jt[S]
  <2> DEFINE Q == {s \in SUBSET S : it[s] = jt[s]}
  <2>1. ASSUME NEW s \in SUBSET S, \A y \in s : s \ {y} \in Q PROVE s \in Q
    <3>1. CASE s = {}
      BY <1>2, <1>3, <3>1 DEF Sums
    <3>2. CASE s # {}
      <4>1. PICK y \in s : TRUE
        BY <3>2
      <4>2. it[s] = w[y] + it[s \ {y}]
        BY <1>2 DEF Sums
      <4>3. jt[s] = v[y] + jt[s \ {y}]
        BY <1>1, <1>3 DEF Sums
      <4> QED
        BY <2>1, <4>2, <4>3
    <3> QED
      BY <3>1, <3>2
  <2>2. SUBSET S \subseteq Q
    <3> HIDE DEF Q
    <3> QED
      BY <2>1, SetOfSubsets
  <2> QED
    BY <2>2
<1>5. T \ {x} = S
  BY <1>1
<1>6. jt[T] = v[x] + jt[S]
  BY <1>1, <1>3, <1>5 DEF Sums
<1>7. it[S] \in Nat /\ v[x] \in Nat
  BY <1>1, <1>2 DEF Sums
<1> QED
  BY <1>1, <1>2, <1>3, <1>4, <1>6, <1>7

-----------------------------------------------------------------------------
(* The loops of Analyze.                                                   *)

\* What Analyze may return for the rules W.
Detections(W) == [score : Nat, categories : Seq({r.category : r \in W})]
Weighted(W) == \A r \in W : r.weight \in Nat

\* What a loop does with one rule.
After(d, r, matching) == IF r \in matching THEN Add(d, r) ELSE d

LEMMA AddIsDetection ==
  ASSUME NEW W, Weighted(W), NEW d \in Detections(W), NEW r \in W
  PROVE  Add(d, r) \in Detections(W)
<1> DEFINE C == {s.category : s \in W}
<1>1. d.score \in Nat /\ d.categories \in Seq(C) /\ r.weight \in Nat /\ r.category \in C
  BY DEF Detections, Weighted
<1>2. d.score + r.weight \in Nat /\ Append(d.categories, r.category) \in Seq(C)
  BY <1>1
<1> HIDE DEF C
<1>3. [score |-> d.score + r.weight, categories |-> Append(d.categories, r.category)] \in [score : Nat, categories : Seq(C)]
  BY <1>2
<1> QED
  BY <1>3 DEF Add, Detections, C

\* d is the sum of the weights of the categories of `hits', each of them once.
Accounts(d, hits) ==
  LET cs == {r.category : r \in hits} IN
  /\ IsFiniteSet(cs) /\ IsInjective(d.categories) /\ Range(d.categories) = cs
  /\ \E weight \in [cs -> {r.weight : r \in hits}] :
       /\ \A c \in cs : \E r \in hits : r.category = c /\ r.weight = weight[c]
       /\ d.score = Total(weight, cs)

Nothing == [score |-> 0, categories |-> <<>>]

LEMMA NothingAccounts == Accounts(Nothing, {})
<1> DEFINE w == [c \in {} |-> 0]
<1>1. w \in [{} -> Nat] /\ w \in [{} -> {}]
  OBVIOUS
<1>2. Total(w, {}) = 0
  BY <1>1, TotalOfNone
<1>3. \E weight \in [{} -> {}] : 0 = Total(weight, {})
  BY <1>1, <1>2
<1>4. IsFiniteSet({})
  BY FS_EmptySet
<1>5. IsInjective(<<>>) /\ Range(<<>>) = {}
  BY DEF IsInjective, Range
<1>6. {r.category : r \in {}} = {} /\ {r.weight : r \in {}} = {}
  OBVIOUS
<1> QED
  BY <1>3, <1>4, <1>5, <1>6 DEF Accounts, Nothing

\* One rule more: of a category that counts already, or of a new one.
LEMMA AddAccounts ==
  ASSUME NEW W, Weighted(W), NEW d \in Detections(W), NEW hits \in SUBSET W, NEW r \in W, Accounts(d, hits)
  PROVE  Accounts(Add(d, r), hits \cup {r})
<1> DEFINE cs == {h.category : h \in hits}
           ws == {h.weight : h \in hits}
           more == hits \cup {r}
           cs2 == {h.category : h \in more}
           ws2 == {h.weight : h \in more}
<1>1. IsFiniteSet(cs) /\ IsInjective(d.categories) /\ Range(d.categories) = cs
  BY DEF Accounts
<1>2. PICK weight \in [cs -> ws] :
        /\ \A c \in cs : \E h \in hits : h.category = c /\ h.weight = weight[c]
        /\ d.score = Total(weight, cs)
  BY DEF Accounts
<1>3. cs2 = cs \cup {r.category} /\ ws2 = ws \cup {r.weight} /\ hits \subseteq more /\ r \in more
  OBVIOUS
<1>4. ws \subseteq Nat /\ r.weight \in Nat
  BY DEF Weighted
<1>5. SUFFICES /\ IsFiniteSet(cs2) /\ IsInjective(Add(d, r).categories) /\ Range(Add(d, r).categories) = cs2
               /\ \E v \in [cs2 -> ws2] :
                    /\ \A c \in cs2 : \E h \in more : h.category = c /\ h.weight = v[c]
                    /\ Add(d, r).score = Total(v, cs2)
  BY DEF Accounts
<1> HIDE DEF cs, ws, cs2, ws2, more
<1>6. CASE r.category \in cs
  <2>1. Add(d, r) = d
    BY <1>1, <1>6 DEF Add
  <2>2. cs2 = cs /\ weight \in [cs2 -> ws2]
    BY <1>2, <1>3, <1>6
  <2>3. \A c \in cs2 : \E h \in more : h.category = c /\ h.weight = weight[c]
    BY <1>2, <1>3, <2>2
  <2>4. Add(d, r).score = Total(weight, cs2)
    BY <1>2, <2>1, <2>2
  <2> QED
    BY <1>1, <2>1, <2>2, <2>3, <2>4
<1>7. CASE r.category \notin cs
  <2> DEFINE v == [c \in cs2 |-> IF c = r.category THEN r.weight ELSE weight[c]]
             k == d.categories
             n == Len(k)
  <2>1. Add(d, r) = [score |-> d.score + r.weight, categories |-> Append(k, r.category)]
    BY <1>1, <1>7 DEF Add
  <2>2. v \in [cs2 -> ws2] /\ v[r.category] = r.weight /\ \A c \in cs : v[c] = weight[c]
    BY <1>2, <1>3, <1>7
  <2>3. weight \in [cs -> Nat] /\ v \in [cs \cup {r.category} -> Nat]
    BY <1>2, <1>3, <1>4, <2>2
  <2> HIDE DEF v
  <2>4. Total(v, cs2) = d.score + r.weight
    BY <1>1, <1>2, <1>3, <1>7, <2>2, <2>3, TotalAdds
  <2>5. IsFiniteSet(cs2)
    BY <1>1, <1>3, FS_AddElement
  <2>6. PICK C : k \in Seq(C) /\ r.category \in C
    BY DEF Detections
  <2>7. /\ n \in Nat /\ DOMAIN k = 1..n /\ DOMAIN Append(k, r.category) = 1..n + 1
        /\ \A i \in 1..n : Append(k, r.category)[i] = k[i]
        /\ Append(k, r.category)[n + 1] = r.category
    BY <2>6
  <2>8. \A i \in 1..n : k[i] # r.category
    BY <1>1, <1>7, <2>7 DEF Range
  <2>9. IsInjective(Append(k, r.category))
    <3>1. \A i \in 1..n + 1 : i \in 1..n \/ i = n + 1
      BY <2>7
    <3> HIDE DEF n, k
    <3> QED
      BY <1>1, <2>7, <2>8, <3>1 DEF IsInjective, k
  <2>10. Range(Append(k, r.category)) = Range(k) \cup {r.category}
    <3>1. 1..n + 1 = (1..n) \cup {n + 1}
      BY <2>7
    <3> HIDE DEF n, k
    <3> QED
      BY <2>7, <3>1 DEF Range
  <2>11. ASSUME NEW c \in cs2 PROVE \E h \in more : h.category = c /\ h.weight = v[c]
    <3>1. CASE c = r.category
      BY <1>3, <2>2, <3>1
    <3>2. CASE c # r.category
      BY <1>2, <1>3, <2>2, <3>2
    <3> QED
      BY <3>1, <3>2
  <2>12. Add(d, r).categories = Append(k, r.category) /\ Add(d, r).score = Total(v, cs2)
    BY <2>1, <2>4
  <2> HIDE DEF k
  <2>13. Range(k) = cs
    BY <1>1 DEF k
  <2> QED
    BY <1>3, <2>2, <2>5, <2>9, <2>10, <2>11, <2>12, <2>13
<1> QED
  BY <1>6, <1>7

\* A set of numbers up to n has a greatest.
LEMMA MaxIn ==
  ASSUME NEW n \in Nat, NEW s \in SUBSET (1..n), s # {}
  PROVE  Max(s) \in s /\ \A x \in s : x <= Max(s)
<1> DEFINE N == {m \in Nat : \A u \in SUBSET (1..m) : u # {} => \E y \in u : \A x \in u : x <= y}
<1>1. 0 \in N
  <2>1. 1..0 = {}
    OBVIOUS
  <2> QED
    BY <2>1
<1>2. ASSUME NEW m \in N PROVE m + 1 \in N
  <2> SUFFICES ASSUME NEW u \in SUBSET (1..m + 1), u # {} PROVE \E y \in u : \A x \in u : x <= y
    OBVIOUS
  <2>1. CASE m + 1 \in u
    BY <2>1
  <2>2. CASE m + 1 \notin u
    <3>1. u \in SUBSET (1..m)
      BY <2>2
    <3> QED
      BY <3>1
  <2> QED
    BY <2>1, <2>2
<1>3. N = Nat
  <2>1. N \subseteq Nat
    OBVIOUS
  <2> HIDE DEF N
  <2> QED
    BY <1>1, <1>2, <2>1, SetOfNaturals
<1>4. \E y \in s : \A x \in s : y >= x
  BY <1>3
<1>5. \A x \in s : x \in Int
  OBVIOUS
<1> QED
  BY <1>4, <1>5 DEF Max

\* The loop is at g[k] once it has seen k rules.
LEMMA LoopSteps ==
  ASSUME NEW W, Weighted(W), NEW d \in Detections(W), NEW rs \in Seq(W), NEW matching
  PROVE  \E g \in [0..Len(rs) -> Detections(W)] :
           /\ g[0] = d /\ g[Len(rs)] = Loop(d, rs, matching)
           /\ \A k \in 1..Len(rs) : g[k] = After(g[k - 1], rs[k], matching)
<1> DEFINE n == Len(rs)
           S == 1..n
           V == Detections(W)
           pick == [s \in (SUBSET S) \ {{}} |-> Max(s)]
           F == [p \in S \X V |-> After(p[2], rs[p[1]], matching)]
           It == CHOOSE it : it = [s \in SUBSET S |->
                   IF s = {} THEN d ELSE After(it[s \ {Max(s)}], rs[Max(s)], matching)]
<1>1. n \in Nat /\ DOMAIN rs = S /\ \A k \in S : rs[k] \in W
  OBVIOUS
<1>2. IsFiniteSet(S) /\ \A s \in (SUBSET S) \ {{}} : Max(s) \in s
  <2>1. IsFiniteSet(S)
    BY <1>1, FS_Interval
  <2>2. ASSUME NEW s \in (SUBSET S) \ {{}} PROVE Max(s) \in s
    BY <1>1, MaxIn
  <2> QED
    BY <2>1, <2>2
<1>3. pick \in Picks(S)
  BY <1>2 DEF Picks
<1>4. F \in Steps(S, V)
  <2>1. ASSUME NEW p \in S \X V PROVE After(p[2], rs[p[1]], matching) \in V
    BY <1>1, AddIsDetection DEF After
  <2> QED
    BY <2>1 DEF Steps
<1>5. PICK h : h \in FoldsOf(S, V, d, F, pick)
  <2> HIDE DEF S, V, pick, F, It
  <2>1. d \in V
    BY DEF V
  <2> QED
    BY <1>2, <1>3, <1>4, <2>1, FoldExists
<1>6. ASSUME NEW s \in SUBSET S, s # {}
      PROVE  F[<<pick[s], h[s \ {pick[s]}]>>] = After(h[s \ {Max(s)}], rs[Max(s)], matching)
  <2>1. pick[s] = Max(s) /\ Max(s) \in S
    BY <1>2, <1>6
  <2>2. h[s \ {Max(s)}] \in V
    BY <1>5 DEF FoldsOf
  <2> HIDE DEF S, V, pick, It
  <2>3. \A x \in S, a \in V : F[<<x, a>>] = After(a, rs[x], matching)
    OBVIOUS
  <2> HIDE DEF F
  <2> QED
    BY <2>1, <2>2, <2>3
<1>7. h = [s \in SUBSET S |-> IF s = {} THEN d ELSE After(h[s \ {Max(s)}], rs[Max(s)], matching)]
  <2> HIDE DEF S, V, pick, F, It
  <2>1. ASSUME NEW s \in SUBSET S
        PROVE  h[s] = IF s = {} THEN d ELSE After(h[s \ {Max(s)}], rs[Max(s)], matching)
    BY <1>5, <1>6 DEF FoldsOf
  <2>2. h \in [SUBSET S -> V]
    BY <1>5 DEF FoldsOf
  <2> QED
    BY <2>1, <2>2
<1>8. It = [s \in SUBSET S |-> IF s = {} THEN d ELSE After(It[s \ {Max(s)}], rs[Max(s)], matching)]
  BY <1>7
<1>9. Loop(d, rs, matching) = It[S]
  BY <1>1 DEF Loop, FoldLeft, MapThenFoldSet, After
<1> HIDE DEF It, F, pick
<1>10. ASSUME NEW k \in S PROVE Max(1..k) = k
  <2>1. k \in Nat /\ k \in 1..k
    BY <1>1
  <2>2. Max(1..k) \in 1..k /\ \A x \in 1..k : x <= Max(1..k)
    BY <2>1, MaxIn
  <2> QED
    BY <2>1, <2>2
<1> DEFINE P == {s \in SUBSET S : It[s] \in V}
<1>11. SUBSET S \subseteq P
  <2>1. ASSUME NEW s \in SUBSET S, \A x \in s : s \ {x} \in P PROVE s \in P
    <3>1. CASE s = {}
      BY <1>8, <3>1
    <3>2. CASE s # {}
      <4>1. Max(s) \in s /\ rs[Max(s)] \in W /\ It[s \ {Max(s)}] \in V
        BY <1>1, <1>2, <2>1, <3>2
      <4>2. It[s] = After(It[s \ {Max(s)}], rs[Max(s)], matching)
        BY <1>8, <3>2
      <4> QED
        BY <4>1, <4>2, AddIsDetection DEF After
    <3> QED
      BY <3>1, <3>2
  <2> HIDE DEF P, S
  <2> QED
    BY <1>2, <2>1, SetOfSubsets
<1> DEFINE g == [k \in 0..n |-> It[1..k]]
<1>12. g \in [0..n -> V]
  BY <1>1, <1>11
<1>13. g[0] = d
  BY <1>1, <1>8
<1>14. g[n] = Loop(d, rs, matching)
  BY <1>1, <1>9
<1>15. ASSUME NEW k \in 1..n PROVE g[k] = After(g[k - 1], rs[k], matching)
  <2>1. 1..k \in SUBSET S /\ k \in 1..k /\ k - 1 \in 0..n /\ k \in 0..n
    BY <1>1
  <2>4. (1..k) \ {k} = 1..k - 1
    BY <1>1
  <2>2. It[1..k] = After(It[(1..k) \ {Max(1..k)}], rs[Max(1..k)], matching)
    BY <1>8, <2>1
  <2>3. It[1..k] = After(It[1..k - 1], rs[k], matching)
    BY <1>10, <2>1, <2>2, <2>4
  <2> QED
    BY <2>1, <2>3
<1> QED
  BY <1>12, <1>13, <1>14, <1>15

\* By induction over the rules seen so far.
LEMMA LoopAccounts ==
  ASSUME NEW W, Weighted(W), NEW d \in Detections(W), NEW hits \in SUBSET W, Accounts(d, hits),
         NEW rs \in Seq(W), NEW matching
  PROVE  /\ Loop(d, rs, matching) \in Detections(W)
         /\ Accounts(Loop(d, rs, matching), hits \cup (matching \cap Range(rs)))
<1> DEFINE n == Len(rs)
           seen(k) == {rs[i] : i \in 1..k}
<1>1. PICK g \in [0..n -> Detections(W)] :
        /\ g[0] = d /\ g[n] = Loop(d, rs, matching)
        /\ \A k \in 1..n : g[k] = After(g[k - 1], rs[k], matching)
  BY LoopSteps
<1>2. n \in Nat /\ DOMAIN rs = 1..n /\ \A i \in 1..n : rs[i] \in W
  OBVIOUS
<1> DEFINE N == {k \in Nat : k <= n => Accounts(g[k], hits \cup (matching \cap seen(k)))}
<1>3. 0 \in N
  <2>1. hits \cup (matching \cap seen(0)) = hits
    OBVIOUS
  <2> QED
    BY <1>1, <2>1
<1>4. ASSUME NEW k \in N PROVE k + 1 \in N
  <2> SUFFICES ASSUME k + 1 <= n PROVE Accounts(g[k + 1], hits \cup (matching \cap seen(k + 1)))
    OBVIOUS
  <2> DEFINE r == rs[k + 1]
             before == hits \cup (matching \cap seen(k))
             now == hits \cup (matching \cap seen(k + 1))
  <2>1. k \in Nat /\ k + 1 \in 1..n /\ k \in 0..n /\ (k + 1) - 1 = k
    BY <1>2
  <2>2. g[k + 1] = After(g[k], r, matching) /\ g[k] \in Detections(W) /\ r \in W
    BY <1>1, <1>2, <2>1
  <2>3. Accounts(g[k], before)
    BY <2>1, <1>2
  <2>4. seen(k + 1) = seen(k) \cup {r}
    BY <2>1
  <2>5. before \in SUBSET W
    BY <1>2, <2>1
  <2> HIDE DEF seen, r
  <2>6. now = IF r \in matching THEN before \cup {r} ELSE before
    BY <2>4
  <2> HIDE DEF before, now
  <2>7. Accounts(After(g[k], r, matching), now)
    BY <2>2, <2>3, <2>5, <2>6, AddAccounts DEF After
  <2> QED
    BY <2>2, <2>7 DEF now, before
<1>5. N = Nat
  <2>1. N \subseteq Nat
    OBVIOUS
  <2> HIDE DEF N
  <2> QED
    BY <1>3, <1>4, <2>1, SetOfNaturals
<1>6. Accounts(g[n], hits \cup (matching \cap seen(n)))
  BY <1>2, <1>5
<1>7. seen(n) = Range(rs)
  BY <1>2 DEF Range
<1>8. n \in 0..n
  BY <1>2
<1> HIDE DEF seen, N, n
<1> QED
  BY <1>1, <1>6, <1>7, <1>8

-----------------------------------------------------------------------------
(* The loop of BuildBundle.                                                *)

LEMMA AggregateSteps ==
  ASSUME NEW E, NEW rs \in Seq(E)
  PROVE  \E g : /\ g[0] = Empty /\ g[Len(rs)] = Aggregate(rs)
                /\ \A k \in 1..Len(rs) : g[k] = Turn(g[k - 1], rs[k])
<1> DEFINE n == Len(rs)
           Step(h, s) == IF s = {} THEN Empty ELSE Turn(h[s \ {Max(s)}], rs[Max(s)])
           It == CHOOSE h : h = [s \in SUBSET (1..n) |->
                   IF s = {} THEN Empty ELSE Turn(h[s \ {Max(s)}], rs[Max(s)])]
           N == {m \in Nat : \E h : h = [s \in SUBSET (1..m) |-> Step(h, s)]}
<1>1. n \in Nat /\ DOMAIN rs = 1..n
  OBVIOUS
<1>2. 0 \in N
  <2>1. SUBSET (1..0) = {{}}
    OBVIOUS
  <2> DEFINE h == [s \in SUBSET (1..0) |-> Empty]
  <2>2. h = [s \in SUBSET (1..0) |-> Step(h, s)]
    BY <2>1
  <2> QED
    BY <2>2
<1>3. ASSUME NEW m \in N PROVE m + 1 \in N
  <2>1. PICK h : h = [s \in SUBSET (1..m) |-> Step(h, s)]
    OBVIOUS
  <2> DEFINE f == [s \in SUBSET (1..m + 1) |-> Step(h, s)]
  <2>2. ASSUME NEW s \in SUBSET (1..m + 1), s # {} PROVE s \ {Max(s)} \in SUBSET (1..m)
    <3>1. m \in Nat /\ m + 1 \in Nat
      OBVIOUS
    <3>2. Max(s) \in s /\ \A x \in s : x <= Max(s)
      BY <2>2, <3>1, MaxIn
    <3>3. PICK y \in 1..m + 1 : y = Max(s)
      BY <3>2
    <3>4. ASSUME NEW x \in s, x # y PROVE x \in 1..m
      BY <3>1, <3>2, <3>3, <3>4
    <3> QED
      BY <3>3, <3>4
  <2>3. SUBSET (1..m) \subseteq SUBSET (1..m + 1)
    OBVIOUS
  <2> HIDE DEF Step, N
  <2>4. \A s \in SUBSET (1..m) : h[s] = f[s]
    BY <2>1, <2>3
  <2>5. ASSUME NEW s \in SUBSET (1..m + 1) PROVE Step(h, s) = Step(f, s)
    BY <2>2, <2>4 DEF Step
  <2>6. f = [s \in SUBSET (1..m + 1) |-> Step(f, s)]
    BY <2>5
  <2> HIDE DEF f
  <2>7. m + 1 \in Nat
    BY DEF N
  <2> QED
    BY <2>6, <2>7 DEF N
<1>4. N = Nat
  <2>1. N \subseteq Nat
    OBVIOUS
  <2> HIDE DEF N
  <2> QED
    BY <1>2, <1>3, <2>1, SetOfNaturals
<1>5. \E h : h = [s \in SUBSET (1..n) |-> IF s = {} THEN Empty ELSE Turn(h[s \ {Max(s)}], rs[Max(s)])]
  BY <1>1, <1>4
<1>6. It = [s \in SUBSET (1..n) |-> IF s = {} THEN Empty ELSE Turn(It[s \ {Max(s)}], rs[Max(s)])]
  BY <1>5
<1>7. Aggregate(rs) = It[1..n]
  BY <1>1 DEF Aggregate, FoldLeft, MapThenFoldSet
<1> HIDE DEF It
<1> DEFINE g == [k \in 0..n |-> It[1..k]]
<1>8. g[0] = Empty
  <2>1. 1..0 = {} /\ 0 \in 0..n
    BY <1>1
  <2> QED
    BY <1>6, <2>1
<1>9. g[n] = Aggregate(rs)
  BY <1>1, <1>7
<1>10. ASSUME NEW k \in 1..n PROVE g[k] = Turn(g[k - 1], rs[k])
  <2>1. k \in Nat /\ k \in 1..k /\ 1..k \in SUBSET (1..n) /\ k - 1 \in 0..n /\ k \in 0..n
    BY <1>1
  <2>2. Max(1..k) = k
    <3>1. Max(1..k) \in 1..k /\ \A x \in 1..k : x <= Max(1..k)
      BY <2>1, MaxIn
    <3> QED
      BY <2>1, <3>1
  <2>3. (1..k) \ {k} = 1..k - 1
    BY <2>1
  <2>4. It[1..k] = Turn(It[(1..k) \ {Max(1..k)}], rs[Max(1..k)])
    BY <1>6, <2>1
  <2> QED
    BY <2>1, <2>2, <2>3, <2>4
<1> QED
  BY <1>8, <1>9, <1>10

\* The events of one address, of one scanner, among the first k.
From(ip, rs, k) == {i \in 1..k : rs[i].ip = ip}
With(u, rs, k) == {i \in 1..k : rs[i].ua.scanner # None /\ rs[i].ua.lower = u}

Timed(E) == \A e \in E : e.score \in Nat /\ e.time \in Int

\* What is kept of the events `mine'.
Summary(a, mine, rs) ==
  /\ a.events = Cardinality(mine)
  /\ \A i \in mine : rs[i].score <= a.score /\ a.first_seen <= rs[i].time /\ rs[i].time <= a.last_seen
  /\ \E i \in mine : rs[i].score = a.score
  /\ \E i \in mine : rs[i].time = a.first_seen
  /\ \E i \in mine : rs[i].time = a.last_seen
  /\ a.labels = UNION {Range(rs[i].categories) : i \in mine}
  /\ a.canaries = {rs[i].canary : i \in mine} \ {None}

SourcesInv(m, rs, k) ==
  /\ DOMAIN m = {rs[i].ip : i \in 1..k}
  /\ \A ip \in DOMAIN m : Summary(m[ip], From(ip, rs, k), rs)

ScannersInv(m, rs, k) ==
  /\ DOMAIN m = {rs[i].ua.lower : i \in {j \in 1..k : rs[j].ua.scanner # None}}
  /\ \A u \in DOMAIN m :
       /\ m[u].sources = {rs[i].ip : i \in With(u, rs, k)}
       /\ \E i \in With(u, rs, k) : rs[i].ua.raw = m[u].ua

LEMMA MaxOfTwo ==
  ASSUME NEW a \in Int, NEW b \in Int
  PROVE  /\ Max({a, b}) \in {a, b} /\ a <= Max({a, b}) /\ b <= Max({a, b})
         /\ Min({a, b}) \in {a, b} /\ Min({a, b}) <= a /\ Min({a, b}) <= b
<1>1. \E x \in {a, b} : \A y \in {a, b} : x >= y
  OBVIOUS
<1>2. \E x \in {a, b} : \A y \in {a, b} : x =< y
  OBVIOUS
<1>3. Max({a, b}) \in {a, b} /\ \A y \in {a, b} : Max({a, b}) >= y
  BY <1>1 DEF Max
<1>4. Min({a, b}) \in {a, b} /\ \A y \in {a, b} : Min({a, b}) =< y
  BY <1>2 DEF Min
<1> QED
  BY <1>3, <1>4

\* An event more of an address.
LEMMA MergeSummary ==
  ASSUME NEW E, Timed(E), NEW rs \in Seq(E), NEW k \in 1..Len(rs), NEW mine \in SUBSET (1..k - 1), NEW a,
         (mine = {} /\ a = NewAgg(rs[k])) \/ Summary(a, mine, rs)
  PROVE  Summary(Merge(a, rs[k]), mine \cup {k}, rs)
<1> DEFINE e == rs[k]
           b == Merge(a, e)
<1>1. k \in Nat /\ e \in E /\ e.score \in Nat /\ e.time \in Int /\ \A i \in mine : rs[i].score \in Nat /\ rs[i].time \in Int
  BY DEF Timed
<1>2. a.score \in Int /\ a.first_seen \in Int /\ a.last_seen \in Int
  <2>1. CASE a = NewAgg(e)
    BY <1>1, <2>1 DEF NewAgg
  <2>2. CASE Summary(a, mine, rs)
    <3> HIDE DEF b, e
    <3>1. /\ \E i \in mine : rs[i].score = a.score
          /\ \E i \in mine : rs[i].time = a.first_seen
          /\ \E i \in mine : rs[i].time = a.last_seen
      BY <2>2 DEF Summary
    <3>2. a.score \in Int
      <4>1. PICK i \in mine : rs[i].score = a.score
        BY <3>1
      <4>2. rs[i].score \in Int
        BY <1>1
      <4> QED
        BY <4>1, <4>2
    <3>3. a.first_seen \in Int
      BY <1>1, <3>1
    <3>4. a.last_seen \in Int
      BY <1>1, <3>1
    <3> QED
      BY <3>2, <3>3, <3>4
  <2> QED
    BY <2>1, <2>2
<1>3. /\ b.score = Max({a.score, e.score}) /\ b.events = a.events + 1
      /\ b.first_seen = Min({a.first_seen, e.time}) /\ b.last_seen = Max({a.last_seen, e.time})
      /\ b.labels = a.labels \cup Range(e.categories) /\ b.canaries = a.canaries \cup ({e.canary} \ {None})
  BY DEF Merge
<1>4. /\ b.score \in {a.score, e.score} /\ a.score <= b.score /\ e.score <= b.score
      /\ b.first_seen \in {a.first_seen, e.time} /\ b.first_seen <= a.first_seen /\ b.first_seen <= e.time
      /\ b.last_seen \in {a.last_seen, e.time} /\ a.last_seen <= b.last_seen /\ e.time <= b.last_seen
  <2> HIDE DEF b, e
  <2>1. e.score \in Int /\ e.time \in Int
    BY <1>1
  <2>2. Max({a.score, e.score}) \in {a.score, e.score} /\ a.score <= Max({a.score, e.score})
        /\ e.score <= Max({a.score, e.score})
    BY <1>2, <2>1, MaxOfTwo
  <2>3. Min({a.first_seen, e.time}) \in {a.first_seen, e.time} /\ Min({a.first_seen, e.time}) <= a.first_seen
        /\ Min({a.first_seen, e.time}) <= e.time
    BY <1>2, <2>1, MaxOfTwo
  <2>4. Max({a.last_seen, e.time}) \in {a.last_seen, e.time} /\ a.last_seen <= Max({a.last_seen, e.time})
        /\ e.time <= Max({a.last_seen, e.time})
    BY <1>2, <2>1, MaxOfTwo
  <2> QED
    BY <1>3, <2>2, <2>3, <2>4
<1>5. b.score \in Int /\ b.first_seen \in Int /\ b.last_seen \in Int
  BY <1>1, <1>2, <1>4
<1>6. IsFiniteSet(mine) /\ k \notin mine
  <2>1. k - 1 \in Int /\ k \notin 1..k - 1
    BY <1>1
  <2>2. IsFiniteSet(1..k - 1)
    BY <2>1, FS_Interval
  <2> QED
    BY <2>1, <2>2, FS_Subset
<1>7. Cardinality(mine \cup {k}) = Cardinality(mine) + 1
  BY <1>6, FS_AddElement
<1> HIDE DEF b, e
<1>8. CASE mine = {} /\ a = NewAgg(e)
  <2>1. /\ a.events = 0 /\ a.score = e.score /\ a.first_seen = e.time /\ a.last_seen = e.time
        /\ a.labels = {} /\ a.canaries = {}
    BY <1>8 DEF NewAgg
  <2>2. mine \cup {k} = {k} /\ Cardinality(mine) = 0
    BY <1>8, FS_EmptySet
  <2>3. b.score = e.score /\ b.first_seen = e.time /\ b.last_seen = e.time
    BY <1>4, <2>1
  <2>4. b.events = Cardinality({k})
    BY <1>3, <1>7, <2>1, <2>2
  <2>5. b.labels = UNION {Range(rs[i].categories) : i \in {k}} /\ b.canaries = {rs[i].canary : i \in {k}} \ {None}
    BY <1>3, <2>1 DEF e
  <2>6. \A i \in {k} : rs[i] = e
    BY DEF e
  <2>7. Summary(b, {k}, rs)
    BY <1>1, <2>3, <2>4, <2>5, <2>6 DEF Summary
  <2> QED
    BY <2>2, <2>7 DEF b, e
<1>9. CASE Summary(a, mine, rs)
  <2> DEFINE now == mine \cup {k}
  <2>1. b.events = Cardinality(now)
    BY <1>3, <1>7, <1>9 DEF Summary
  <2>2. ASSUME NEW i \in now PROVE rs[i].score <= b.score /\ b.first_seen <= rs[i].time /\ rs[i].time <= b.last_seen
    <3>1. CASE i = k
      BY <1>4, <3>1 DEF e
    <3>2. CASE i \in mine
      <4>1. rs[i].score <= a.score /\ a.first_seen <= rs[i].time /\ rs[i].time <= a.last_seen
        BY <1>9, <3>2 DEF Summary
      <4>2. rs[i].score \in Int /\ rs[i].time \in Int
        BY <1>1, <3>2
      <4>3. a.score <= b.score /\ b.first_seen <= a.first_seen /\ a.last_seen <= b.last_seen
        BY <1>4
      <4> QED
        BY <1>2, <1>5, <4>1, <4>2, <4>3
    <3> QED
      BY <3>1, <3>2
  <2>3. \E i \in now : rs[i].score = b.score
    BY <1>4, <1>9 DEF Summary, e
  <2>4. \E i \in now : rs[i].time = b.first_seen
    BY <1>4, <1>9 DEF Summary, e
  <2>5. \E i \in now : rs[i].time = b.last_seen
    BY <1>4, <1>9 DEF Summary, e
  <2>6. b.labels = UNION {Range(rs[i].categories) : i \in now}
    <3>1. a.labels = UNION {Range(rs[i].categories) : i \in mine}
      BY <1>9 DEF Summary
    <3> QED
      BY <1>3, <3>1 DEF e
  <2>7. b.canaries = {rs[i].canary : i \in now} \ {None}
    <3>1. a.canaries = {rs[i].canary : i \in mine} \ {None}
      BY <1>9 DEF Summary
    <3> QED
      BY <1>3, <3>1 DEF e
  <2> HIDE DEF now
  <2>8. Summary(b, now, rs)
    BY <2>1, <2>2, <2>3, <2>4, <2>5, <2>6, <2>7 DEF Summary
  <2> QED
    BY <2>8 DEF now, b, e
<1> QED
  BY <1>8, <1>9 DEF e

\* One turn of the loop.
LEMMA TurnKeeps ==
  ASSUME NEW E, Timed(E), NEW rs \in Seq(E), NEW k \in 1..Len(rs), NEW m,
         SourcesInv(m.byIP, rs, k - 1), ScannersInv(m.tools, rs, k - 1)
  PROVE  LET n == Turn(m, rs[k]) IN SourcesInv(n.byIP, rs, k) /\ ScannersInv(n.tools, rs, k)
<1> DEFINE e == rs[k]
           n == Turn(m, e)
           a == IF e.ip \in DOMAIN m.byIP THEN m.byIP[e.ip] ELSE NewAgg(e)
           u == e.ua.lower
           t == IF u \in DOMAIN m.tools THEN m.tools[u] ELSE [ua |-> e.ua.raw, name |-> e.ua.scanner, sources |-> {}]
<1>1. k \in Nat /\ 1..k = (1..k - 1) \cup {k} /\ k \notin 1..k - 1
  OBVIOUS
<1>2. /\ n.byIP = Put(m.byIP, e.ip, Merge(a, e))
      /\ n.tools = IF e.ua.scanner = None THEN m.tools
                   ELSE Put(m.tools, u, [ua |-> t.ua, name |-> t.name, sources |-> t.sources \cup {e.ip}])
  BY DEF Turn
<1>3. \A ip : From(ip, rs, k) = IF ip = e.ip THEN From(ip, rs, k - 1) \cup {k} ELSE From(ip, rs, k - 1)
  BY <1>1 DEF From
<1>4. \A x : With(x, rs, k) = IF x = u /\ e.ua.scanner # None THEN With(x, rs, k - 1) \cup {k} ELSE With(x, rs, k - 1)
  BY <1>1 DEF With
<1> HIDE DEF n
<1>5. SourcesInv(n.byIP, rs, k)
  <2>1. From(e.ip, rs, k - 1) \in SUBSET (1..k - 1)
    BY DEF From
  <2>2. (From(e.ip, rs, k - 1) = {} /\ a = NewAgg(e)) \/ Summary(a, From(e.ip, rs, k - 1), rs)
    BY DEF SourcesInv, From
  <2> HIDE DEF a
  <2>3. Summary(Merge(a, e), From(e.ip, rs, k), rs)
    BY <1>3, <2>1, <2>2, MergeSummary
  <2>4. DOMAIN n.byIP = DOMAIN m.byIP \cup {e.ip}
    BY <1>2 DEF Put
  <2>5. DOMAIN n.byIP = {rs[i].ip : i \in 1..k}
    BY <1>1, <2>4 DEF SourcesInv
  <2>6. ASSUME NEW ip \in DOMAIN n.byIP PROVE Summary(n.byIP[ip], From(ip, rs, k), rs)
    <3>1. CASE ip = e.ip
      <4>1. n.byIP[ip] = Merge(a, e)
        BY <1>2, <3>1 DEF Put
      <4> QED
        BY <2>3, <3>1, <4>1
    <3>2. CASE ip # e.ip
      <4>1. ip \in DOMAIN m.byIP
        BY <2>4, <3>2
      <4>2. n.byIP[ip] = m.byIP[ip] /\ From(ip, rs, k) = From(ip, rs, k - 1)
        BY <1>2, <1>3, <3>2, <4>1 DEF Put
      <4> QED
        BY <4>1, <4>2 DEF SourcesInv
    <3> QED
      BY <3>1, <3>2
  <2> QED
    BY <2>5, <2>6 DEF SourcesInv
<1>6. ScannersInv(n.tools, rs, k)
  <2>1. CASE e.ua.scanner = None
    <3>1. n.tools = m.tools /\ \A x : With(x, rs, k) = With(x, rs, k - 1)
      BY <1>2, <1>4, <2>1
    <3>2. {j \in 1..k : rs[j].ua.scanner # None} = {j \in 1..k - 1 : rs[j].ua.scanner # None}
      BY <1>1, <2>1
    <3> QED
      BY <3>1, <3>2 DEF ScannersInv
  <2>2. CASE e.ua.scanner # None
    <3> DEFINE T == [ua |-> t.ua, name |-> t.name, sources |-> t.sources \cup {e.ip}]
    <3>1. n.tools = Put(m.tools, u, T)
      BY <1>2, <2>2
    <3>2. {j \in 1..k : rs[j].ua.scanner # None} = {j \in 1..k - 1 : rs[j].ua.scanner # None} \cup {k}
      BY <1>1, <2>2
    <3>3. DOMAIN n.tools = DOMAIN m.tools \cup {u}
      BY <3>1 DEF Put
    <3>4. DOMAIN n.tools = {rs[i].ua.lower : i \in {j \in 1..k : rs[j].ua.scanner # None}}
      BY <3>2, <3>3 DEF ScannersInv
    <3>5. With(u, rs, k) = With(u, rs, k - 1) \cup {k}
      BY <1>4, <2>2
    <3>6. T.sources = {rs[i].ip : i \in With(u, rs, k)} /\ \E i \in With(u, rs, k) : rs[i].ua.raw = T.ua
      <4>1. CASE u \in DOMAIN m.tools
        <5>1. /\ t.sources = {rs[i].ip : i \in With(u, rs, k - 1)}
              /\ \E i \in With(u, rs, k - 1) : rs[i].ua.raw = t.ua
          BY <4>1 DEF ScannersInv
        <5> HIDE DEF t
        <5> QED
          BY <3>5, <5>1
      <4>2. CASE u \notin DOMAIN m.tools
        <5>1. With(u, rs, k - 1) = {}
          BY <4>2 DEF ScannersInv, With
        <5>2. t.sources = {} /\ t.ua = e.ua.raw
          BY <4>2
        <5> HIDE DEF t
        <5> QED
          BY <3>5, <5>1, <5>2
      <4> QED
        BY <4>1, <4>2
    <3> HIDE DEF T
    <3>7. ASSUME NEW x \in DOMAIN n.tools
          PROVE  /\ n.tools[x].sources = {rs[i].ip : i \in With(x, rs, k)}
                 /\ \E i \in With(x, rs, k) : rs[i].ua.raw = n.tools[x].ua
      <4>1. CASE x = u
        <5>1. n.tools[x] = T
          BY <3>1, <3>3, <4>1 DEF Put
        <5> QED
          BY <3>6, <4>1, <5>1
      <4>2. CASE x # u
        <5>1. x \in DOMAIN m.tools /\ n.tools[x] = m.tools[x] /\ With(x, rs, k) = With(x, rs, k - 1)
          BY <1>4, <3>1, <3>3, <4>2 DEF Put
        <5> QED
          BY <5>1 DEF ScannersInv
      <4> QED
        BY <4>1, <4>2
    <3> QED
      BY <3>4, <3>7 DEF ScannersInv
  <2> QED
    BY <2>1, <2>2
<1> QED
  BY <1>5, <1>6 DEF n

LEMMA AggregateKeeps ==
  ASSUME NEW E, Timed(E), NEW rs \in Seq(E)
  PROVE  SourcesInv(Aggregate(rs).byIP, rs, Len(rs)) /\ ScannersInv(Aggregate(rs).tools, rs, Len(rs))
<1>1. PICK g : /\ g[0] = Empty /\ g[Len(rs)] = Aggregate(rs)
               /\ \A k \in 1..Len(rs) : g[k] = Turn(g[k - 1], rs[k])
  BY AggregateSteps
<1> DEFINE Both(k) == SourcesInv(g[k].byIP, rs, k) /\ ScannersInv(g[k].tools, rs, k)
           N == {k \in Nat : k <= Len(rs) => Both(k)}
<1>2. 0 \in N
  <2>1. g[0].byIP = <<>> /\ g[0].tools = <<>>
    BY <1>1 DEF Empty
  <2>2. 1..0 = {} /\ DOMAIN <<>> = {}
    OBVIOUS
  <2> QED
    BY <2>1, <2>2 DEF SourcesInv, ScannersInv
<1>3. ASSUME NEW k \in N PROVE k + 1 \in N
  <2> SUFFICES ASSUME k + 1 <= Len(rs) PROVE Both(k + 1)
    OBVIOUS
  <2>1. k \in Nat /\ k + 1 \in 1..Len(rs) /\ (k + 1) - 1 = k /\ k <= Len(rs)
    OBVIOUS
  <2>2. Both(k)
    BY <2>1
  <2>3. g[k + 1] = Turn(g[k], rs[k + 1])
    BY <1>1, <2>1
  <2>4. SourcesInv(g[k].byIP, rs, (k + 1) - 1) /\ ScannersInv(g[k].tools, rs, (k + 1) - 1)
    BY <2>1, <2>2
  <2> HIDE DEF N
  <2> QED
    BY <2>1, <2>3, <2>4, TurnKeeps
<1>4. N = Nat
  <2>1. N \subseteq Nat
    OBVIOUS
  <2> HIDE DEF N
  <2> QED
    BY <1>2, <1>3, <2>1, SetOfNaturals
<1>5. Len(rs) \in N /\ Len(rs) <= Len(rs)
  BY <1>4
<1> QED
  BY <1>1, <1>5

-----------------------------------------------------------------------------
(* The order of the objects.                                               *)

Increasing(f) == \A i, j \in DOMAIN f : i < j => f[i] < f[j]

\* A finite set of integers can be put into order.
LEMMA SortedIsSorted ==
  ASSUME NEW S \in SUBSET Int, IsFiniteSet(S)
  PROVE  Sorted(S) \in SetToSeqs(S) /\ Increasing(Sorted(S))
<1> DEFINE P == {s \in SUBSET S : s # {} => \E y \in s : \A x \in s : x <= y}
           Orders(s) == {f \in [1..Cardinality(s) -> s] : Increasing(f)}
           Q == {s \in SUBSET S : Orders(s) # {}}
<1>1. SUBSET S \subseteq P
  <2>1. ASSUME NEW s \in SUBSET S, \A x \in s : s \ {x} \in P PROVE s \in P
    <3> SUFFICES ASSUME NEW y \in s PROVE \E z \in s : \A x \in s : x <= z
      OBVIOUS
    <3>1. CASE s \ {y} = {}
      BY <3>1
    <3>2. CASE s \ {y} # {}
      <4>1. PICK z \in s \ {y} : \A x \in s \ {y} : x <= z
        BY <2>1, <3>2
      <4>2. z \in Int /\ y \in Int /\ \A x \in s : x \in Int
        OBVIOUS
      <4>3. CASE y <= z
        BY <4>1, <4>3
      <4>4. CASE ~(y <= z)
        BY <4>1, <4>2, <4>4
      <4> QED
        BY <4>3, <4>4
    <3> QED
      BY <3>1, <3>2
  <2> HIDE DEF P
  <2> QED
    BY <2>1, SetOfSubsets
<1>2. SUBSET S \subseteq Q
  <2>1. ASSUME NEW s \in SUBSET S, \A x \in s : s \ {x} \in Q PROVE s \in Q
    <3>1. CASE s = {}
      <4>1. Cardinality(s) = 0
        BY <3>1, FS_EmptySet
      <4>2. <<>> \in Orders(s)
        BY <4>1 DEF Increasing
      <4> QED
        BY <4>2
    <3>2. CASE s # {}
      <4>1. PICK y \in s : \A x \in s : x <= y
        BY <1>1, <3>2
      <4> DEFINE r == s \ {y}
                 n == Cardinality(r)
      <4>2. PICK f \in [1..n -> r] : Increasing(f)
        BY <2>1
      <4>3. IsFiniteSet(s) /\ IsFiniteSet(r)
        BY FS_Subset
      <4>4. n \in Nat /\ Cardinality(s) = n + 1
        BY <4>3, FS_RemoveElement, FS_CardinalityType
      <4> DEFINE h == [i \in 1..n + 1 |-> IF i = n + 1 THEN y ELSE f[i]]
      <4> HIDE DEF n
      <4>5. h \in [1..n + 1 -> s]
        BY <4>2, <4>4
      <4>6. \A x \in r : x < y
        BY <4>1
      <4>7. Increasing(h)
        <5> SUFFICES ASSUME NEW i \in 1..n + 1, NEW j \in 1..n + 1, i < j PROVE h[i] < h[j]
          BY <4>5 DEF Increasing
        <5>1. i \in 1..n /\ h[i] = f[i] /\ f[i] \in r
          BY <4>2, <4>4
        <5>2. CASE j = n + 1
          BY <4>6, <5>1, <5>2
        <5>3. CASE j # n + 1
          BY <4>2, <4>4, <5>1, <5>3 DEF Increasing
        <5> QED
          BY <5>2, <5>3
      <4> HIDE DEF h
      <4>8. h \in Orders(s)
        BY <4>4, <4>5, <4>7
      <4> QED
        BY <4>8
    <3> QED
      BY <3>1, <3>2
  <2> HIDE DEF Q
  <2> QED
    BY <2>1, SetOfSubsets
<1>3. PICK f \in [1..Cardinality(S) -> S] : Increasing(f)
  BY <1>2
<1>4. \A i, j \in 1..Cardinality(S) : i # j => f[i] # f[j]
  <2> SUFFICES ASSUME NEW i \in 1..Cardinality(S), NEW j \in 1..Cardinality(S), i # j PROVE f[i] # f[j]
    OBVIOUS
  <2>1. f[i] \in Int /\ f[j] \in Int
    BY <1>3
  <2>2. CASE i < j
    BY <1>3, <2>1, <2>2 DEF Increasing
  <2>3. CASE j < i
    BY <1>3, <2>1, <2>3 DEF Increasing
  <2> QED
    BY <2>2, <2>3
<1>5. f \in SetToSeqs(S)
  BY <1>3, <1>4 DEF SetToSeqs
<1> QED
  BY <1>3, <1>5 DEF Sorted, Increasing

\* The members of a finite set in some order: each of them once.
LEMMA OrderIsComplete ==
  ASSUME NEW S, IsFiniteSet(S), NEW f \in SetToSeqs(S)
  PROVE  /\ Cardinality(S) \in Nat
         /\ f \in [1..Cardinality(S) -> S]
         /\ \A i, j \in 1..Cardinality(S) : f[i] = f[j] => i = j
         /\ \A y \in S : \E i \in 1..Cardinality(S) : f[i] = y
<1> DEFINE D == 1..Cardinality(S)
<1>1. Cardinality(S) \in Nat
  BY FS_CardinalityType
<1>2. f \in [D -> S] /\ \A i, j \in D : f[i] = f[j] => i = j
  BY DEF SetToSeqs
<1>3. ASSUME NEW y \in S, \A i \in D : f[i] # y PROVE FALSE
  <2>1. f \in [D -> S \ {y}]
    BY <1>2, <1>3
  <2>2. IsFiniteSet(S \ {y}) /\ Cardinality(S \ {y}) = Cardinality(S) - 1
    BY FS_RemoveElement
  <2>3. IsFiniteSet(D) /\ Cardinality(D) = Cardinality(S)
    BY <1>1, FS_Interval
  <2> HIDE DEF D
  <2>4. Cardinality(S \ {y}) < Cardinality(D)
    BY <1>1, <2>2, <2>3
  <2> QED
    BY <1>2, <2>1, <2>2, <2>3, <2>4, FS_PigeonHole
<1> QED
  BY <1>1, <1>2, <1>3

LEMMA ImageIsFinite ==
  ASSUME NEW n \in Nat, NEW D \in SUBSET (1..n), NEW f
  PROVE  IsFiniteSet({f[x] : x \in D})
<1> DEFINE T == {f[x] : x \in D}
           g == [x \in D |-> f[x]]
<1>1. IsFiniteSet(D)
  <2>1. IsFiniteSet(1..n)
    BY FS_Interval
  <2> QED
    BY <2>1, FS_Subset
<1>2. g \in Surjection(D, T)
  BY DEF Surjection
<1> QED
  BY <1>1, <1>2, FS_Surjection

Report(rs, sources, refs) == [type |-> "report", id |-> <<"report">>, events |-> Len(rs), sources |-> sources,
                              object_refs |-> refs]

\* Where the objects of a bundle are.
LEMMA BundleLayout ==
  ASSUME NEW rs, NEW bundle \in BuildBundle(rs),
         IsFiniteSet(DOMAIN Aggregate(rs).byIP), IsFiniteSet(DOMAIN Aggregate(rs).tools),
         DOMAIN Aggregate(rs).byIP \in SUBSET Int
  PROVE  LET byIP == Aggregate(rs).byIP
             tools == Aggregate(rs).tools
             ips == Sorted(DOMAIN byIP)
             n == Cardinality(DOMAIN byIP)
             k == Cardinality(DOMAIN tools)
         IN \E order \in SetToSeqs(DOMAIN tools) :
              /\ Len(bundle) = n + k + 1 /\ DOMAIN bundle = 1..n + k + 1
              /\ \A i \in 1..n : bundle[i] = Indicator(ips[i], byIP[ips[i]])
              /\ \A j \in 1..k : bundle[n + j] = Tool(order[j], tools[order[j]])
              /\ \E sources : bundle[n + k + 1] = Report(rs, sources, [i \in 1..n + k |-> bundle[i].id])
<1> DEFINE byIP == Aggregate(rs).byIP
           tools == Aggregate(rs).tools
           ips == Sorted(DOMAIN byIP)
           n == Cardinality(DOMAIN byIP)
           k == Cardinality(DOMAIN tools)
           A == [i \in DOMAIN ips |-> Indicator(ips[i], byIP[ips[i]])]
           B(order) == [j \in DOMAIN order |-> Tool(order[j], tools[order[j]])]
           R(order) == Report(rs, Len(ips), [i \in DOMAIN (A \o B(order)) |-> (A \o B(order))[i].id])
<1>1. ips \in SetToSeqs(DOMAIN byIP)
  BY SortedIsSorted
<1>2. n \in Nat /\ DOMAIN ips = 1..n
  BY <1>1, OrderIsComplete
<1>3. PICK order \in SetToSeqs(DOMAIN tools) : bundle = Append(A \o B(order), R(order))
  BY DEF BuildBundle, Report
<1>4. k \in Nat /\ DOMAIN order = 1..k
  BY OrderIsComplete
<1> DEFINE C == B(order)
           U == {A[i] : i \in 1..n} \cup {C[j] : j \in 1..k} \cup {R(order)}
<1>5. \A i \in 1..n : A[i] = Indicator(ips[i], byIP[ips[i]])
  BY <1>2
<1>6. \A j \in 1..k : C[j] = Tool(order[j], tools[order[j]])
  BY <1>4
<1>7. A = [i \in 1..n |-> A[i]] /\ C = [j \in 1..k |-> C[j]]
  BY <1>2, <1>4
<1> DEFINE r == R(order)
<1>8. r = Report(rs, Len(ips), [i \in DOMAIN (A \o C) |-> (A \o C)[i].id]) /\ bundle = Append(A \o C, r)
  BY <1>3
<1> HIDE DEF A, B, R, C, r, n, k, ips, byIP, tools
<1>9. PICK V : V = {A[i] : i \in 1..n} \cup {C[j] : j \in 1..k} \cup {r}
  OBVIOUS
<1>10. r \in V /\ A \in [1..n -> V] /\ C \in [1..k -> V]
  BY <1>7, <1>9
<1>11. A \in Seq(V) /\ C \in Seq(V) /\ Len(A) = n /\ Len(C) = k
  BY <1>2, <1>4, <1>10
<1>12. /\ Len(A \o C) = n + k /\ DOMAIN (A \o C) = 1..n + k
       /\ \A i \in 1..n : (A \o C)[i] = A[i]
       /\ \A j \in 1..k : (A \o C)[n + j] = C[j]
  <2>1. Len(A \o C) = n + k /\ A \o C \in Seq(V)
    BY <1>2, <1>4, <1>11
  <2>2. DOMAIN (A \o C) = 1..n + k
    BY <2>1
  <2>3. \A i \in 1..n : (A \o C)[i] = A[i]
    BY <1>2, <1>4, <1>11
  <2>4. ASSUME NEW j \in 1..k PROVE (A \o C)[n + j] = C[j]
    <3>1. PICK x \in Int : x = n + j /\ x \in 1..n + k /\ x > n /\ x - n = j
      BY <1>2, <1>4
    <3>2. (A \o C)[x] = C[x - Len(A)]
      BY <1>2, <1>4, <1>11, <3>1
    <3> QED
      BY <1>11, <3>1, <3>2
  <2> QED
    BY <2>1, <2>2, <2>3, <2>4
<1>13. PICK S : S = A \o C
  OBVIOUS
<1>14. S \in Seq(V)
  BY <1>11, <1>13
<1>15. /\ Len(bundle) = n + k + 1 /\ DOMAIN bundle = 1..n + k + 1
       /\ \A i \in 1..n + k : bundle[i] = S[i]
       /\ bundle[n + k + 1] = r
  <2>1. bundle = Append(S, r) /\ Len(S) = n + k /\ n + k \in Nat
    BY <1>2, <1>4, <1>8, <1>12, <1>13
  <2> QED
    BY <1>10, <1>14, <2>1
<1>16. ASSUME NEW i \in 1..n PROVE bundle[i] = Indicator(ips[i], byIP[ips[i]])
  <2>1. i \in 1..n + k
    BY <1>2, <1>4
  <2>2. bundle[i] = A[i]
    BY <1>12, <1>13, <1>15, <2>1
  <2> QED
    BY <1>5, <2>2
<1>17. ASSUME NEW j \in 1..k PROVE bundle[n + j] = Tool(order[j], tools[order[j]])
  <2>1. n + j \in 1..n + k
    BY <1>2, <1>4
  <2>2. bundle[n + j] = C[j]
    BY <1>12, <1>13, <1>15, <2>1
  <2> QED
    BY <1>6, <2>2
<1>18. bundle[n + k + 1] = Report(rs, Len(ips), [i \in 1..n + k |-> bundle[i].id])
  BY <1>8, <1>12, <1>13, <1>15
<1> QED
  BY <1>15, <1>16, <1>17, <1>18 DEF n, k, ips, byIP, tools

\* A bundle of events that are scored as SeverityFor says is complete.
LEMMA BundleOfEvents ==
  ASSUME NEW E, Timed(E), \A e \in E : e.ip \in Int /\ e.severity = SeverityFor(e.score),
         NEW rs \in Seq(E), NEW bundle \in BuildBundle(rs)
  PROVE  Complete(bundle, rs)
<1> DEFINE byIP == Aggregate(rs).byIP
           tools == Aggregate(rs).tools
           l == Len(rs)
<1>1. SourcesInv(byIP, rs, l) /\ ScannersInv(tools, rs, l)
  BY AggregateKeeps
<1>2. l \in Nat /\ DOMAIN rs = 1..l /\ \A i \in 1..l : rs[i] \in E
  OBVIOUS
<1> HIDE DEF byIP, tools, l
<1>3. DOMAIN byIP = {rs[i].ip : i \in 1..l} /\ DOMAIN byIP \in SUBSET Int
  BY <1>1, <1>2 DEF SourcesInv
<1>4. IsFiniteSet(DOMAIN byIP)
  <2> DEFINE f == [i \in 1..l |-> rs[i].ip]
  <2>1. DOMAIN byIP = {f[i] : i \in 1..l}
    BY <1>3
  <2>2. 1..l \in SUBSET (1..l)
    OBVIOUS
  <2> HIDE DEF f
  <2>3. IsFiniteSet({f[x] : x \in 1..l})
    BY <1>2, <2>2, ImageIsFinite
  <2> QED
    BY <2>1, <2>3
<1> DEFINE scans == {j \in 1..l : rs[j].ua.scanner # None}
<1>5. DOMAIN tools = {rs[i].ua.lower : i \in scans}
  BY <1>1 DEF ScannersInv
<1>6. IsFiniteSet(DOMAIN tools)
  <2> DEFINE f == [i \in scans |-> rs[i].ua.lower]
  <2>1. DOMAIN tools = {f[i] : i \in scans} /\ scans \in SUBSET (1..l)
    BY <1>5
  <2> HIDE DEF f, scans
  <2>2. IsFiniteSet({f[x] : x \in scans})
    BY <1>2, <2>1, ImageIsFinite
  <2> QED
    BY <2>1, <2>2
<1> DEFINE ips == Sorted(DOMAIN byIP)
           n == Cardinality(DOMAIN byIP)
           k == Cardinality(DOMAIN tools)
<1>7. PICK order \in SetToSeqs(DOMAIN tools) :
        /\ Len(bundle) = n + k + 1 /\ DOMAIN bundle = 1..n + k + 1
        /\ \A i \in 1..n : bundle[i] = Indicator(ips[i], byIP[ips[i]])
        /\ \A j \in 1..k : bundle[n + j] = Tool(order[j], tools[order[j]])
        /\ \E sources : bundle[n + k + 1] = Report(rs, sources, [i \in 1..n + k |-> bundle[i].id])
  BY <1>3, <1>4, <1>6, BundleLayout DEF byIP, tools
<1>8. /\ n \in Nat /\ ips \in [1..n -> DOMAIN byIP] /\ Increasing(ips)
      /\ \A i, j \in 1..n : ips[i] = ips[j] => i = j
      /\ \A ip \in DOMAIN byIP : \E i \in 1..n : ips[i] = ip
  BY <1>3, <1>4, SortedIsSorted, OrderIsComplete
<1>9. /\ k \in Nat /\ order \in [1..k -> DOMAIN tools]
      /\ \A i, j \in 1..k : order[i] = order[j] => i = j
      /\ \A u \in DOMAIN tools : \E j \in 1..k : order[j] = u
  BY <1>6, OrderIsComplete
<1> HIDE DEF n, k, ips, scans
<1>10. ASSUME NEW i \in 1..n
       PROVE  /\ bundle[i].type = "indicator" /\ bundle[i].id = <<"indicator", ips[i]>> /\ bundle[i].ip = ips[i]
              /\ bundle[i].agg = byIP[ips[i]] /\ bundle[i].confidence = byIP[ips[i]].score
              /\ bundle[i].severity = SeverityFor(byIP[ips[i]].score)
  <2>1. bundle[i] = Indicator(ips[i], byIP[ips[i]])
    BY <1>7
  <2> QED
    BY <2>1 DEF Indicator
<1>11. ASSUME NEW j \in 1..k
       PROVE  /\ bundle[n + j].type = "tool" /\ bundle[n + j].id = <<"tool", order[j]>>
              /\ bundle[n + j].ua = tools[order[j]].ua /\ bundle[n + j].sources = tools[order[j]].sources
  <2>1. bundle[n + j] = Tool(order[j], tools[order[j]])
    BY <1>7
  <2> QED
    BY <2>1 DEF Tool
<1>12. /\ bundle[n + k + 1].type = "report" /\ bundle[n + k + 1].id = <<"report">>
       /\ bundle[n + k + 1].object_refs = [i \in 1..n + k |-> bundle[i].id]
  BY <1>7 DEF Report
<1>13. \A i \in DOMAIN bundle : i \in 1..n \/ (\E j \in 1..k : i = n + j) \/ i = n + k + 1
  <2> SUFFICES ASSUME NEW i \in 1..n + k + 1, i \notin 1..n, i # n + k + 1 PROVE \E j \in 1..k : i = n + j
    BY <1>7
  <2>1. i - n \in 1..k /\ i = n + (i - n)
    BY <1>8, <1>9
  <2> QED
    BY <2>1
<1>14. 1..n \subseteq DOMAIN bundle /\ (\A j \in 1..k : n + j \in DOMAIN bundle) /\ n + k + 1 \in DOMAIN bundle
  BY <1>7, <1>8, <1>9
<1> DEFINE At(type) == {i \in DOMAIN bundle : bundle[i].type = type}
<1>15. At("indicator") = 1..n
  BY <1>10, <1>11, <1>12, <1>13, <1>14
<1>16. At("tool") = {n + j : j \in 1..k}
  BY <1>10, <1>11, <1>12, <1>13, <1>14
<1>17. At("report") = {n + k + 1}
  BY <1>10, <1>11, <1>12, <1>13, <1>14
<1> HIDE DEF At
<1>18. \A i, j \in At("indicator") : i < j => bundle[i].ip < bundle[j].ip
  <2>1. \A i \in 1..n : bundle[i].ip = ips[i]
    BY <1>10
  <2> QED
    BY <1>8, <1>15, <2>1 DEF Increasing
<1>19. {bundle[i].ip : i \in At("indicator")} = {e.ip : e \in Range(rs)}
  <2>1. {bundle[i].ip : i \in At("indicator")} = DOMAIN byIP
    <3>1. \A i \in 1..n : bundle[i].ip = ips[i]
      BY <1>10
    <3>2. ASSUME NEW i \in At("indicator") PROVE bundle[i].ip \in DOMAIN byIP
      BY <1>8, <1>15, <3>1
    <3>3. ASSUME NEW ip \in DOMAIN byIP PROVE \E i \in At("indicator") : bundle[i].ip = ip
      BY <1>8, <1>15, <3>1
    <3> QED
      BY <3>2, <3>3
  <2>2. DOMAIN byIP = {e.ip : e \in Range(rs)}
    BY <1>2, <1>3 DEF Range
  <2> QED
    BY <2>1, <2>2
<1>20. ASSUME NEW i \in At("indicator") PROVE IsOfItsAddress(bundle[i], rs)
  <2> DEFINE ip == ips[i]
             a == byIP[ip]
             mine == {j \in DOMAIN rs : rs[j].ip = ip}
  <2>1. ip \in DOMAIN byIP /\ i \in 1..n
    BY <1>8, <1>15
  <2>2. mine = From(ip, rs, l)
    BY <1>2 DEF From
  <2>3. Summary(a, mine, rs)
    BY <1>1, <2>1, <2>2 DEF SourcesInv
  <2>4. /\ bundle[i].ip = ip /\ bundle[i].agg = a /\ bundle[i].confidence = a.score
        /\ bundle[i].severity = SeverityFor(a.score)
    BY <1>10, <2>1
  <2>5. \A j \in mine : rs[j].score \in Nat /\ rs[j].time \in Int /\ rs[j].severity = SeverityFor(rs[j].score)
    BY <1>2 DEF Timed
  <2> HIDE DEF a, ip, mine
  <2>6. a.first_seen \in Int /\ a.last_seen \in Int
    BY <2>3, <2>5 DEF Summary
  <2>7. \A j \in mine : rs[j].score <= bundle[i].confidence /\ rs[j].time \in bundle[i].agg.first_seen..bundle[i].agg.last_seen
    BY <2>3, <2>4, <2>5, <2>6 DEF Summary
  <2>8. \E j \in mine : rs[j].score = bundle[i].confidence /\ rs[j].severity = bundle[i].severity
    BY <2>3, <2>4, <2>5 DEF Summary
  <2>9. {bundle[i].agg.first_seen, bundle[i].agg.last_seen} \subseteq {rs[j].time : j \in mine}
    BY <2>3, <2>4 DEF Summary
  <2>10. /\ bundle[i].agg.labels = UNION {Range(rs[j].categories) : j \in mine}
         /\ bundle[i].agg.canaries = {rs[j].canary : j \in mine} \ {None}
         /\ bundle[i].agg.events = Cardinality(mine)
    BY <2>3, <2>4 DEF Summary
  <2>11. mine = {j \in DOMAIN rs : rs[j].ip = bundle[i].ip}
    BY <2>4 DEF mine
  <2> QED
    BY <2>7, <2>8, <2>9, <2>10, <2>11 DEF IsOfItsAddress
<1>21. {bundle[i].id[2] : i \in At("tool")} = {e.ua.lower : e \in {f \in Range(rs) : f.ua.scanner # None}}
  <2>1. {bundle[i].id[2] : i \in At("tool")} = DOMAIN tools
    <3>1. \A j \in 1..k : bundle[n + j].id[2] = order[j]
      BY <1>11
    <3>2. ASSUME NEW i \in At("tool") PROVE bundle[i].id[2] \in DOMAIN tools
      BY <1>9, <1>16, <3>1
    <3>3. ASSUME NEW u \in DOMAIN tools PROVE \E i \in At("tool") : bundle[i].id[2] = u
      BY <1>9, <1>16, <3>1
    <3> QED
      BY <3>2, <3>3
  <2>2. {rs[i].ua.lower : i \in scans} = {e.ua.lower : e \in {f \in Range(rs) : f.ua.scanner # None}}
    BY <1>2 DEF scans, Range
  <2> QED
    BY <1>5, <2>1, <2>2
<1>22. ASSUME NEW i \in At("tool") PROVE IsOfItsScanner(bundle[i], rs)
  <2>1. PICK j \in 1..k : i = n + j
    BY <1>16
  <2> DEFINE u == order[j]
             with == {x \in DOMAIN rs : rs[x].ua.scanner # None /\ rs[x].ua.lower = u}
  <2>2. u \in DOMAIN tools
    BY <1>9
  <2>3. with = With(u, rs, l)
    BY <1>2 DEF With
  <2>4. tools[u].sources = {rs[x].ip : x \in with} /\ \E x \in with : rs[x].ua.raw = tools[u].ua
    BY <1>1, <2>2, <2>3 DEF ScannersInv
  <2>5. bundle[i].id[2] = u /\ bundle[i].ua = tools[u].ua /\ bundle[i].sources = tools[u].sources
    BY <1>11, <2>1
  <2> HIDE DEF u
  <2> QED
    BY <2>4, <2>5 DEF IsOfItsScanner
<1>23. At("report") = {Len(bundle)}
  BY <1>7, <1>17
<1>24. bundle[Len(bundle)].object_refs = [i \in 1..Len(bundle) - 1 |-> bundle[i].id]
  <2>1. Len(bundle) - 1 = n + k
    BY <1>7, <1>8, <1>9
  <2> QED
    BY <1>7, <1>12, <2>1
<1>25. ASSUME NEW i \in DOMAIN bundle, NEW j \in DOMAIN bundle, bundle[i].id = bundle[j].id PROVE i = j
  <2> DEFINE kind(x) == bundle[x].id[1]
  <2>1. /\ \A x \in 1..n : bundle[x].id[1] = "indicator" /\ bundle[x].id[2] = ips[x]
        /\ \A x \in 1..k : bundle[n + x].id[1] = "tool" /\ bundle[n + x].id[2] = order[x]
        /\ bundle[n + k + 1].id[1] = "report"
    BY <1>10, <1>11, <1>12
  <2>2. CASE i \in 1..n
    BY <1>8, <1>13, <1>25, <2>1, <2>2
  <2>3. CASE \E x \in 1..k : i = n + x
    BY <1>9, <1>13, <1>25, <2>1, <2>3
  <2>4. CASE i = n + k + 1
    BY <1>13, <1>25, <2>1, <2>4
  <2> QED
    BY <1>13, <2>2, <2>3, <2>4
<1> QED
  BY <1>18, <1>19, <1>20, <1>21, <1>22, <1>23, <1>24, <1>25 DEF Complete, At

-----------------------------------------------------------------------------
(* What an event says of its request.                                      *)

\* What Analyze looks for in the joined forms of the texts is in one of them.
LEMMA HitsOrNot ==
  ASSUME NEW q
  PROVE  \A r : Hits(r, q) <=> \/ Matching(r.patterns, Expand(q.path) \cup Expand(q.query) \cup Expand(q.body))
                              \/ Matching(r.user_agent, q.user_agent)
<1>1. ASSUME NEW text, NEW p
      PROVE  p \in Expand(text) <=> \E form \in 1..3 : form \in DOMAIN text /\ p \in text[form]
  BY DEF Expand
<1> QED
  BY <1>1 DEF Hits, Matching

\* Analyze counts exactly the rules that match in the request.
LEMMA AnalyzeAccounts ==
  ASSUME NEW rs, rs \in Seq(Range(rs)), Weighted(Range(rs)), NEW q
  PROVE  \E d \in Detections(Range(rs)) :
           /\ Accounts(d, {r \in Range(rs) : Hits(r, q)})
           /\ Analyze(rs, q) = [score |-> Min({d.score, 100}), categories |-> d.categories]
<1> DEFINE W == Range(rs)
           haystack == Expand(q.path) \cup Expand(q.query) \cup Expand(q.body)
           byPattern == {r \in W : Matching(r.patterns, haystack)}
           byUserAgent == {r \in W : Matching(r.user_agent, q.user_agent)}
           d1 == Loop(Nothing, rs, byPattern)
           d2 == Loop(d1, rs, byUserAgent)
<1>1. Nothing \in Detections(W)
  BY DEF Nothing, Detections
<1>2. d1 \in Detections(W) /\ Accounts(d1, {} \cup (byPattern \cap W))
  BY <1>1, NothingAccounts, LoopAccounts
<1>3. {} \cup (byPattern \cap W) = byPattern /\ byPattern \in SUBSET W
  OBVIOUS
<1>4. d2 \in Detections(W) /\ Accounts(d2, byPattern \cup (byUserAgent \cap W))
  <2> HIDE DEF d1, byPattern, byUserAgent
  <2> QED
    BY <1>2, <1>3, LoopAccounts
<1>5. byPattern \cup (byUserAgent \cap W) = {r \in W : Hits(r, q)}
  BY HitsOrNot
<1>6. Analyze(rs, q) = [score |-> Min({d2.score, 100}), categories |-> d2.categories]
  BY DEF Analyze, Nothing
<1> QED
  BY <1>4, <1>5, <1>6

\* The rules in use are those of a file that loads, or none yet.
RulesInv == rules = <<>> \/ (rules \in RuleFiles /\ Loads(rules))

\* The envelopes are of events that these rules make, each with its bundle.
BatchInv == \A p \in posted : p.batch \in Seq(Events) /\ p.bundle \in BuildBundle(p.batch)

ScoreInv == RulesInv /\ BatchInv

LEMMA RulesAreWeighted ==
  ASSUME RulesInv
  PROVE  rules \in Seq(Range(rules)) /\ Weighted(Range(rules))
<1>1. CASE rules = <<>>
  BY <1>1 DEF Weighted, Range
<1>2. CASE rules \in RuleFiles /\ Loads(rules)
  <2>1. rules \in Seq(Range(rules)) /\ \A i \in DOMAIN rules : rules[i].weight \in Int
    BY <1>2, RuleFilesAssumption DEF RuleFilesAssumption
  <2>2. ASSUME NEW i \in DOMAIN rules PROVE rules[i].weight > 0
    BY <1>2 DEF Loads, Usable
  <2>3. ASSUME NEW r \in Range(rules) PROVE r.weight \in Nat
    <3>1. PICK i \in DOMAIN rules : r = rules[i]
      BY DEF Range
    <3> QED
      BY <2>1, <2>2, <3>1
  <2> QED
    BY <2>1, <2>3 DEF Weighted
<1> QED
  BY <1>1, <1>2 DEF RulesInv

LEMMA StepScoreInv == ASSUME IInv, ScoreInv, [Next]_vars PROVE ScoreInv'
<1>1. ASSUME NEW file \in RuleFiles, LoadRules(file) PROVE ScoreInv'
  <2>1. posted' = {}
    BY <1>1 DEF LoadRules, IInv, StartInv
  <2> QED
    BY <1>1, <2>1 DEF LoadRules, ScoreInv, RulesInv, BatchInv
<1>2. ASSUME NEW t \in Threads, Post(t) PROVE ScoreInv'
  <2>1. flush[t].batch \in Seq(Events)
    BY DEF IInv, TypeInv, Locals
  <2>2. Events' = Events /\ rules' = rules
    BY <1>2, SameEvents DEF Post
  <2>3. ASSUME NEW p \in posted' PROVE p.batch \in Seq(Events) /\ p.bundle \in BuildBundle(p.batch)
    BY <1>2, <2>1 DEF Post, ScoreInv, BatchInv
  <2> QED
    BY <2>2, <2>3 DEF ScoreInv, RulesInv, BatchInv
<1>3. ASSUME UNCHANGED <<rules, posted>> PROVE ScoreInv'
  <2>1. Events' = Events
    BY <1>3, SameEvents
  <2> QED
    BY <1>3, <2>1 DEF ScoreInv, RulesInv, BatchInv
<1>4. ASSUME NEW t \in Threads, Flush(t) PROVE ScoreInv'
  <2>1. Post(t) \/ UNCHANGED <<rules, posted>>
    BY <1>4 DEF Flush, TakeBatch, Unlocated, LocatedInBatch, LocatedByCache, NotCached, Lookup, Remember
  <2> QED
    BY <1>2, <1>3, <2>1
<1>5. ASSUME NEW q \in Requests, NEW time \in 1..MaxTime, Handle(q, time) PROVE ScoreInv'
  BY <1>3, <1>5 DEF Handle
<1>6. CASE Tick \/ Stop \/ CloseDB \/ Exit \/ Ended \/ UNCHANGED vars
  BY <1>3, <1>6 DEF Tick, Stop, CloseDB, Exit, Ended, vars
<1> QED
  BY <1>1, <1>4, <1>5, <1>6 DEF Next

LEMMA ScoreInvariant == Spec => []ScoreInv
<1>1. Init => ScoreInv
  BY DEF Init, ScoreInv, RulesInv, BatchInv
<1>2. IInv /\ ScoreInv /\ [Next]_vars => ScoreInv'
  BY StepScoreInv
<1> QED
  BY <1>1, <1>2, Invariant, PTL DEF Spec

\* The place of a score among the severities.
Rank(score) == IF score >= 80 THEN 5 ELSE IF score >= 50 THEN 4 ELSE IF score >= 25 THEN 3
               ELSE IF score > 0 THEN 2 ELSE 1

LEMMA RankIsBand ==
  ASSUME NEW score \in Nat
  PROVE  (CHOOSE i \in DOMAIN <<"none", "low", "medium", "high", "critical">> :
            <<"none", "low", "medium", "high", "critical">>[i] = SeverityFor(score)) = Rank(score)
<1> DEFINE B == <<"none", "low", "medium", "high", "critical">>
<1>1. DOMAIN B = 1..5 /\ B[1] = "none" /\ B[2] = "low" /\ B[3] = "medium" /\ B[4] = "high" /\ B[5] = "critical"
  OBVIOUS
<1>2. Rank(score) \in 1..5 /\ B[Rank(score)] = SeverityFor(score)
  BY DEF Rank, SeverityFor
<1> HIDE DEF B
<1>3. \A i, j \in 1..5 : B[i] = B[j] => i = j
  BY <1>1
<1>4. (CHOOSE i \in DOMAIN B : B[i] = SeverityFor(score)) = Rank(score)
  BY <1>1, <1>2, <1>3
<1> QED
  BY <1>4 DEF B

LEMMA MinIsNat == ASSUME NEW n \in Nat PROVE Min({n, 100}) \in Nat
  BY DEF Min

\* The event of a request says what its rules say.
LEMMA EventScores ==
  ASSUME RulesInv, NEW e \in Events
  PROVE  LET hits == {r \in Range(rules) : Hits(r, e.details)}
             cs == {r.category : r \in hits}
         IN /\ e.score \in Nat /\ e.severity = SeverityFor(e.score)
            /\ IsInjective(e.categories) /\ Range(e.categories) = cs
            /\ \E weight \in [cs -> {r.weight : r \in hits}] :
                 /\ \A c \in cs : \E r \in hits : r.category = c /\ r.weight = weight[c]
                 /\ e.score = Min({Total(weight, cs), 100})
<1>1. PICK q \in Requests, time \in 1..MaxTime : e = EventOf(q, time)
  BY DEF Events
<1>2. PICK d \in Detections(Range(rules)) :
        /\ Accounts(d, {r \in Range(rules) : Hits(r, q)})
        /\ Analyze(rules, q) = [score |-> Min({d.score, 100}), categories |-> d.categories]
  BY RulesAreWeighted, AnalyzeAccounts
<1>3. /\ e.score = Min({d.score, 100}) /\ e.categories = d.categories
      /\ e.severity = SeverityFor(e.score) /\ e.details = q
  BY <1>1, <1>2 DEF EventOf
<1>4. d.score \in Nat
  BY DEF Detections
<1>5. e.score \in Nat
  BY <1>3, <1>4, MinIsNat
<1> DEFINE hits == {r \in Range(rules) : Hits(r, q)}
           cs == {r.category : r \in hits}
<1>6. PICK weight \in [cs -> {r.weight : r \in hits}] :
        /\ \A c \in cs : \E r \in hits : r.category = c /\ r.weight = weight[c]
        /\ d.score = Total(weight, cs)
  BY <1>2 DEF Accounts
<1>7. e.score = Min({Total(weight, cs), 100})
  BY <1>3, <1>6
<1>8. IsInjective(e.categories) /\ Range(e.categories) = cs
  BY <1>2, <1>3 DEF Accounts
<1>9. hits = {r \in Range(rules) : Hits(r, e.details)}
  BY <1>3
<1> HIDE DEF hits
<1> QED
  BY <1>3, <1>5, <1>6, <1>7, <1>8, <1>9

-----------------------------------------------------------------------------
(* The theorems.                                                           *)

\* Every event of an envelope has what the database says of its own source,
\* however the three goroutines of buildEnvelope and MaxMind.Enrich
\* interleave; only an envelope built after the database was closed may lack
\* a location.
THEOREM EventsKeepTheirLocation == Spec => []GeoIsTheSources
<1>1. IInv => GeoIsTheSources
  BY DEF IInv
<1> QED
  BY <1>1, Invariant, PTL

\* A goroutine reads the database at most once for an address, as
\* MaxMind.Enrich remembers the answer whatever it is.
THEOREM LookupsHappenOnce == Spec => []LookupsAreBounded
<1>1. IInv => LookupsAreBounded
  BY DEF IInv, LookupInv, LookupsAreBounded, Addresses
<1> QED
  BY <1>1, Invariant, PTL

\* The score of every event is the sum of the weights of the categories that
\* match in its request, each counted once with a weight of one of its rules,
\* up to 100; the event names these categories and no other, and the severity
\* never falls while the score rises: for every rules file Engine.Load takes
\* and every request, however its rules are ordered.
THEOREM ScoresAreSums == Spec => []ScoreIsSumOfCategories
<1>1. ScoreInv => ScoreIsSumOfCategories
  <2> SUFFICES ASSUME ScoreInv PROVE ScoreIsSumOfCategories
    OBVIOUS
  <2> DEFINE All == UNION {Range(p.batch) : p \in posted}
             Bands == <<"none", "low", "medium", "high", "critical">>
             Band(e) == CHOOSE i \in DOMAIN Bands : Bands[i] = e.severity
  <2>1. All \subseteq Events
    <3>1. \A p \in posted : Range(p.batch) \subseteq Events
      BY DEF ScoreInv, BatchInv, Range
    <3> QED
      BY <3>1
  <2>2. ASSUME NEW e \in All
        PROVE  LET hits == {r \in Range(rules) : Hits(r, e.details)}
                   cs == {r.category : r \in hits}
               IN /\ IsInjective(e.categories) /\ Range(e.categories) = cs
                  /\ \E weight \in [cs -> {r.weight : r \in hits}] :
                       /\ \A c \in cs : \E r \in hits : r.category = c /\ r.weight = weight[c]
                       /\ e.score = Min({MapThenSumSet(LAMBDA c : weight[c], cs), 100})
    BY <2>1, EventScores DEF ScoreInv, Total
  <2>3. ASSUME NEW e \in All PROVE e.score \in Nat /\ Band(e) = Rank(e.score)
    <3>1. e.score \in Nat /\ e.severity = SeverityFor(e.score)
      BY <2>1, EventScores DEF ScoreInv
    <3> QED
      BY <3>1, RankIsBand
  <2> HIDE DEF Band
  <2>4. \A e, f \in All : e.score < f.score => Band(e) <= Band(f)
    BY <2>3 DEF Rank
  <2> QED
    BY <2>2, <2>4 DEF ScoreIsSumOfCategories, Band
<1> QED
  BY <1>1, ScoreInvariant, PTL
\* The bundle of every envelope has one indicator for each source address, with
\* the highest score, the union of the categories and canaries, the number of
\* events and the first and last time, in the order of the addresses; one tool
\* for each scanner however it spells its User-Agent; and a report that refers
\* to every object once: for every batch BuildBundle is given, in whatever
\* order its events come and its map of tools is read.
THEOREM BundlesAreComplete == Spec => []BundleIsComplete
<1>1. ScoreInv => BundleIsComplete
  <2> SUFFICES ASSUME ScoreInv, NEW p \in posted PROVE Complete(p.bundle, p.batch)
    BY DEF BundleIsComplete
  <2>1. p.batch \in Seq(Events) /\ p.bundle \in BuildBundle(p.batch)
    BY DEF ScoreInv, BatchInv
  <2>2. ASSUME NEW e \in Events
        PROVE  e.score \in Nat /\ e.time \in Int /\ e.ip \in Int /\ e.severity = SeverityFor(e.score)
    <3>1. e.score \in Nat /\ e.severity = SeverityFor(e.score)
      BY EventScores DEF ScoreInv
    <3>2. e.ip \in Int
      BY EventHasAddress, AddressAssumption DEF Addresses, AddressAssumption
    <3>3. e.time \in Int
      BY DEF Events, EventOf
    <3> QED
      BY <3>1, <3>2, <3>3
  <2>3. Timed(Events)
    BY <2>2 DEF Timed
  <2> QED
    BY <2>1, <2>2, <2>3, BundleOfEvents
<1> QED
  BY <1>1, ScoreInvariant, PTL
=============================================================================
