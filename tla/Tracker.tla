------------------------------- MODULE Tracker -------------------------------
(***************************************************************************)
(* The per-source score and quarantine of internal/track/tracker.go.       *)
(*                                                                         *)
(* Record is called by the bus's dispatcher only (trackerSub in            *)
(* cmd/honeysight/main.go), so there is one call at a time; IsBlocked and  *)
(* Snapshot are called by the decoys at any moment and change nothing.     *)
(* Record reads the clock before it takes the mutex: the call and the      *)
(* locked body are two steps, and time may pass in between.                *)
(*                                                                         *)
(* Time is counted in ticks of a clock that stops at MaxTime, the bound of *)
(* the model; time.Time{} is 0.                                            *)
(***************************************************************************)
EXTENDS Integers, FiniteSets, FiniteSetsExt

CONSTANTS
  IPs,        \* source addresses
  Scores,     \* scores a detection can give to an event
  Threshold,  \* Tracker.threshold
  Window,     \* Tracker.window
  TTL,        \* Tracker.ttl
  NoCall,     \* "Record is not running"
  MaxTime,    \* bound of the clock
  MaxHits     \* bound of the number of calls per source

ASSUME ScoresAssumption == Scores \subseteq Int
ASSUME TimesAssumption == Window \in Nat /\ TTL \in Nat /\ MaxTime \in Nat
ASSUME ThresholdAssumption == Threshold \in Int
ASSUME MaxHitsAssumption == MaxHits \in Nat
ASSUME NoCallAssumption == NoCall \notin [ip : IPs, score : Scores, now : Nat]

VARIABLES
  clock,         \* the current time
  call,          \* the running Record: its arguments and the time it read
  hits,          \* source.hits
  events,        \* source.events: the scored interactions still kept
  blockedUntil,  \* source.blockedUntil
  blocksTotal,   \* Tracker.blocksTotal
  hist           \* history: every interaction ever recorded

vars == <<clock, call, hits, events, blockedUntil, blocksTotal, hist>>

\* An interaction; n is its number among those of its source.
Scored == [n : Nat, ts : Nat, score : Int]

Init ==
  /\ clock = 0
  /\ call = NoCall
  /\ hits = [ip \in IPs |-> 0]
  /\ events = [ip \in IPs |-> {}]
  /\ blockedUntil = [ip \in IPs |-> 0]
  /\ blocksTotal = 0
  /\ hist = [ip \in IPs |-> {}]

ScoreOf(r) == r.score
WindowScore(S) == MapThenSumSet(ScoreOf, S)

-----------------------------------------------------------------------------
TimePasses ==
  /\ clock < MaxTime
  /\ clock' = clock + 1
  /\ UNCHANGED <<call, hits, events, blockedUntil, blocksTotal, hist>>

\* trackerSub.Handle skips what has no score and calls Record otherwise.
RecordCalled(ip, score) ==
  /\ call = NoCall
  /\ score > 0
  /\ hits[ip] < MaxHits
  /\ call' = [ip |-> ip, score |-> score, now |-> clock]
  /\ UNCHANGED <<clock, hits, events, blockedUntil, blocksTotal, hist>>

\* Of the interactions in l, those in the window that ends at now.
Kept(l, now) == {r \in l : r.ts >= now - Window}

\* The cutoff test written with !After: an event exactly Window old is dropped.
RememberStrictly(ip, rec) == {r \in events[ip] \cup {rec} : r.ts > rec.ts - Window}

\* Record appends the new interaction and forgets what has left the window.
Remember(ip, rec) == Kept(events[ip] \cup {rec}, rec.ts)

\* A second quarantine of a source that is still quarantined is counted again.
CountEveryHit(ip, now, hot) ==
  IF hot THEN blocksTotal + 1 ELSE blocksTotal

CountBlocks(ip, now, hot) ==
  IF hot /\ ~(now < blockedUntil[ip]) THEN blocksTotal + 1 ELSE blocksTotal

\* A quarantine is started but never extended.
NotExtended(ip, now, hot) ==
  IF hot /\ ~(now < blockedUntil[ip]) THEN now + TTL ELSE blockedUntil[ip]

\* The quarantine clock is rewritten by every call.
RewriteAlways(ip, now, hot) == IF hot THEN now + TTL ELSE 0

Quarantine(ip, now, hot) == IF hot THEN now + TTL ELSE blockedUntil[ip]

\* The locked body of Record.
RecordBody ==
  /\ call # NoCall
  /\ LET ip == call.ip
         now == call.now
         rec == [n |-> hits[ip] + 1, ts |-> now, score |-> call.score]
         kept == Remember(ip, rec)
         hot == call.score > 0 /\ WindowScore(kept) >= Threshold
     IN /\ hits' = [hits EXCEPT ![ip] = @ + 1]
        /\ events' = [events EXCEPT ![ip] = kept]
        /\ blocksTotal' = CountBlocks(ip, now, hot)
        /\ blockedUntil' = [blockedUntil EXCEPT ![ip] = Quarantine(ip, now, hot)]
        /\ hist' = [hist EXCEPT ![ip] = @ \cup {rec}]
  /\ call' = NoCall
  /\ UNCHANGED clock

Next ==
  \/ TimePasses
  \/ \E ip \in IPs, score \in Scores : RecordCalled(ip, score)
  \/ RecordBody

Spec == Init /\ [][Next]_vars

\* IsBlocked, called now.
IsBlocked(ip) == clock < blockedUntil[ip]

\* The windowed score of ip in a Snapshot taken now.
SnapshotScore(ip) == WindowScore(Kept(events[ip], clock))

-----------------------------------------------------------------------------
TypeOK ==
  /\ clock \in 0..MaxTime
  /\ call \in [ip : IPs, score : Scores, now : 0..clock] \cup {NoCall}
  /\ hits \in [IPs -> 0..MaxHits]
  /\ events \in [IPs -> SUBSET Scored]
  /\ blockedUntil \in [IPs -> 0..(MaxTime + TTL)]
  /\ blocksTotal \in Nat
  /\ hist \in [IPs -> SUBSET Scored]

(***************************************************************************)
(* The rule, stated over the complete history: interaction r of ip is hot  *)
(* when the scores recorded up to r and not older than Window at r reach   *)
(* the threshold; a hot interaction quarantines its source for TTL.        *)
(***************************************************************************)
WindowOf(ip, r) == {h \in hist[ip] : h.n <= r.n /\ h.ts >= r.ts - Window}

Hot(ip, r) == r.score > 0 /\ WindowScore(WindowOf(ip, r)) >= Threshold

HotEvents(ip) == {r \in hist[ip] : Hot(ip, r)}

\* IsBlocked answers by the rule, now and at every later moment without a new
\* interaction: although Record forgets what has left the window and keeps a
\* single deadline, a source is quarantined exactly when some hot interaction
\* of its history is less than TTL old.
QuarantineByRule ==
  \A ip \in IPs : \A t \in clock..(MaxTime + TTL) :
    t < blockedUntil[ip] <=> \E r \in HotEvents(ip) : t < r.ts + TTL

\* The hot interactions of ip that found it not quarantined by an earlier one.
Starts(ip) ==
  {r \in HotEvents(ip) : \A h \in HotEvents(ip) : h.n < r.n => r.ts >= h.ts + TTL}

Episodes == UNION {{ip} \X Starts(ip) : ip \in IPs}

\* blocks_total counts quarantine episodes, each once: not every hot
\* interaction, and again when a source comes back after its quarantine.
EpisodesCounted == blocksTotal = Cardinality(Episodes)

\* The operator's view: the windowed score a Snapshot shows at any moment is
\* the sum over the complete history, nothing that still counts was pruned.
SnapshotByRule ==
  \A ip \in IPs : SnapshotScore(ip) = WindowScore(Kept(hist[ip], clock))

\* A quarantine is only ever extended: no interaction, whatever its score,
\* moves the deadline of its source back.
NeverShortened == [][\A ip \in IPs : blockedUntil'[ip] >= blockedUntil[ip]]_vars
=============================================================================
