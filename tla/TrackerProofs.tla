---------------------------- MODULE TrackerProofs ----------------------------
(***************************************************************************)
(* The tracker's window and quarantine follow the rule over the complete   *)
(* history, for every set of sources and scores, every threshold, window   *)
(* and quarantine length. The scores of a window enter the proof only      *)
(* through the window itself: two equal windows have equal scores.         *)
(***************************************************************************)
EXTENDS Tracker, FiniteSetTheorems, TLAPS

USE TimesAssumption, ThresholdAssumption, MaxHitsAssumption, NoCallAssumption, ScoresAssumption

\* A running Record was called with a positive score, below the bound of the
\* model, and no interaction of any source is younger than the time it read.
CallInv ==
  call # NoCall =>
    /\ call.score > 0
    /\ hits[call.ip] < MaxHits
    /\ \A ip \in IPs : \A h \in hist[ip] : h.ts <= call.now

\* Interactions are numbered from 1 and lie in the past.
HistInv == \A ip \in IPs : \A h \in hist[ip] : h.n <= hits[ip] /\ h.ts <= clock

\* Record forgets only what is more than Window older than some interaction.
WindowInv ==
  \A ip \in IPs :
    /\ events[ip] \subseteq hist[ip]
    /\ \A h \in hist[ip] : h \notin events[ip] => \E g \in hist[ip] : h.ts < g.ts - Window

\* The deadline is that of the last hot interaction, if there was any.
DeadlineInv ==
  \A ip \in IPs :
    /\ \A r \in HotEvents(ip) : r.ts + TTL <= blockedUntil[ip]
    /\ blockedUntil[ip] = 0 \/ \E r \in HotEvents(ip) : blockedUntil[ip] = r.ts + TTL

\* The inductive invariant.
IInv ==
  /\ TypeOK /\ CallInv /\ HistInv /\ WindowInv /\ DeadlineInv
  /\ IsFiniteSet(Episodes) /\ EpisodesCounted

-----------------------------------------------------------------------------
\* The interaction the running Record adds, and whether it is hot.
New == [n |-> hits[call.ip] + 1, ts |-> call.now, score |-> call.score]

NewIsHot == call.score > 0 /\ WindowScore(Remember(call.ip, New)) >= Threshold

\* The new interaction is numbered after, and not older than, those before it.
LEMMA NewIsLast ==
  ASSUME IInv, call # NoCall
  PROVE  /\ call.ip \in IPs /\ call.now \in 0..clock /\ call.now \in Nat
         /\ call.score \in Int /\ call.score > 0
         /\ New \in Scored /\ New.n = hits[call.ip] + 1 /\ New.ts = call.now /\ New.score = call.score
         /\ \A h \in hist[call.ip] : h \in Scored /\ h.n < New.n /\ h.ts <= New.ts
         /\ New \notin hist[call.ip]
<1>1. /\ call.ip \in IPs /\ call.now \in 0..clock /\ call.score \in Int /\ clock \in Nat
      /\ call.score > 0 /\ hits[call.ip] \in Nat
  <2>1. call \in [ip : IPs, score : Scores, now : 0..clock]
    BY DEF IInv, TypeOK
  <2>2. call.ip \in IPs /\ call.now \in 0..clock /\ call.score \in Scores
    BY <2>1
  <2>3. hits[call.ip] \in 0..MaxHits /\ clock \in 0..MaxTime
    BY <2>2 DEF IInv, TypeOK
  <2>4. clock \in Nat /\ hits[call.ip] \in Nat
    BY <2>3
  <2>5. call.score \in Int
    BY <2>2, ScoresAssumption, Zenon
  <2>6. call.score > 0
    BY DEF IInv, CallInv
  <2> QED
    BY <2>2, <2>4, <2>5, <2>6
<1>2. New \in Scored /\ New.n = hits[call.ip] + 1 /\ New.ts = call.now /\ New.score = call.score
  BY <1>1 DEF New, Scored
<1>3. ASSUME NEW h \in hist[call.ip]
      PROVE  h \in Scored /\ h.n < New.n /\ h.ts <= New.ts
  <2>1. h \in Scored /\ h.n \in Nat
    BY <1>1, <1>3 DEF IInv, TypeOK, Scored
  <2>2. h.n <= hits[call.ip] /\ h.ts <= call.now
    BY <1>1, <1>3 DEF IInv, HistInv, CallInv
  <2> QED
    BY <1>1, <1>2, <2>1, <2>2
<1>4. New \notin hist[call.ip]
  BY <1>1, <1>2, <1>3
<1> QED
  BY <1>1, <1>2, <1>3, <1>4

\* What the locked body of Record assigns.
LEMMA BodyAssigns ==
  ASSUME IInv, RecordBody
  PROVE  /\ call # NoCall /\ call' = NoCall /\ clock' = clock
         /\ hits' = [hits EXCEPT ![call.ip] = @ + 1]
         /\ events' = [events EXCEPT ![call.ip] = Remember(call.ip, New)]
         /\ hist' = [hist EXCEPT ![call.ip] = @ \cup {New}]
         /\ blockedUntil' = [blockedUntil EXCEPT ![call.ip] =
                               IF NewIsHot THEN call.now + TTL ELSE blockedUntil[call.ip]]
         /\ blocksTotal' = IF NewIsHot /\ ~(call.now < blockedUntil[call.ip])
                           THEN blocksTotal + 1 ELSE blocksTotal
  BY DEF RecordBody, New, NewIsHot, CountBlocks, Quarantine

\* The window of an old interaction is not touched by the new one.
LEMMA OldWindow ==
  ASSUME IInv, RecordBody, NEW ip \in IPs, NEW r \in hist[ip]
  PROVE  Hot(ip, r)' <=> Hot(ip, r)
<1>1. WindowOf(ip, r)' = WindowOf(ip, r)
  <2>1. CASE ip = call.ip
    <3>1. hist'[ip] = hist[ip] \cup {New}
      BY <2>1, BodyAssigns DEF IInv, TypeOK
    <3>2. ~(New.n <= r.n)
      <4>1. r.n < New.n /\ r.n \in Nat /\ New.n \in Nat
        BY <2>1, NewIsLast, BodyAssigns DEF Scored
      <4> QED
        BY <4>1
    <3> QED
      BY <3>1, <3>2 DEF WindowOf
  <2>2. CASE ip # call.ip
    <3>1. hist'[ip] = hist[ip]
      BY <2>2, BodyAssigns DEF IInv, TypeOK
    <3> QED
      BY <3>1 DEF WindowOf
  <2> QED
    BY <2>1, <2>2
<1> QED
  BY <1>1 DEF Hot

\* The window of the new interaction is what Record keeps.
LEMMA NewWindow ==
  ASSUME IInv, RecordBody, NEW ip, NEW r, ip = call.ip, r = New
  PROVE  Hot(ip, r)' <=> NewIsHot
<1>1. /\ call # NoCall /\ ip \in IPs
      /\ hist'[ip] = hist[ip] \cup {r}
  BY NewIsLast, BodyAssigns DEF IInv, TypeOK
<1>2. /\ r \in Scored /\ r.ts \in Nat /\ r.n \in Nat
      /\ \A h \in hist[ip] : h \in Scored /\ h.n < r.n /\ h.ts <= r.ts
  BY <1>1, NewIsLast DEF Scored
<1>3. \A h \in hist[ip] : h \notin events[ip] => ~(h.ts >= r.ts - Window)
  <2> SUFFICES ASSUME NEW h \in hist[ip], h \notin events[ip]
               PROVE  ~(h.ts >= r.ts - Window)
    OBVIOUS
  <2>1. PICK g \in hist[ip] : h.ts < g.ts - Window
    BY <1>1 DEF IInv, WindowInv
  <2>2. g.ts <= r.ts /\ g.ts \in Nat /\ h.ts \in Nat
    BY <1>2 DEF Scored
  <2> QED
    BY <1>2, <2>1, <2>2
<1>4. events[ip] \subseteq hist[ip]
  BY <1>1 DEF IInv, WindowInv
<1>5. \A h \in hist[ip] \cup {r} : h.n <= r.n
  BY <1>2 DEF Scored
<1>6. WindowOf(ip, r)' = {h \in hist[ip] \cup {r} : h.n <= r.n /\ h.ts >= r.ts - Window}
  BY <1>1 DEF WindowOf
<1>7. WindowOf(ip, r)' = Remember(ip, r)
  BY <1>3, <1>4, <1>5, <1>6 DEF Remember, Kept
<1>8. r.score = call.score
  BY <1>1, NewIsLast
<1> QED
  BY <1>7, <1>8 DEF Hot, NewIsHot

\* The hot interactions after Record: the old ones, and the new one if it is.
LEMMA HotAfter ==
  ASSUME IInv, RecordBody, NEW ip \in IPs
  PROVE  HotEvents(ip)' = IF ip = call.ip /\ NewIsHot THEN HotEvents(ip) \cup {New} ELSE HotEvents(ip)
<1>1. CASE ip = call.ip
  <2>1. hist'[ip] = hist[ip] \cup {New}
    BY <1>1, BodyAssigns DEF IInv, TypeOK
  <2>2. PICK r : r = New
    OBVIOUS
  <2>3. Hot(ip, r)' <=> NewIsHot
    BY <1>1, <2>2, NewWindow
  <2>4. \A h \in hist[ip] : Hot(ip, h)' <=> Hot(ip, h)
    BY OldWindow
  <2>5. HotEvents(ip)' = {h \in hist'[ip] : Hot(ip, h)'}
    BY DEF HotEvents
  <2> QED
    BY <1>1, <2>1, <2>2, <2>3, <2>4, <2>5 DEF HotEvents
<1>2. CASE ip # call.ip
  <2>1. hist'[ip] = hist[ip]
    BY <1>2, BodyAssigns DEF IInv, TypeOK
  <2>2. \A h \in hist[ip] : Hot(ip, h)' <=> Hot(ip, h)
    BY OldWindow
  <2>3. HotEvents(ip)' = {h \in hist'[ip] : Hot(ip, h)'}
    BY DEF HotEvents
  <2> QED
    BY <1>2, <2>1, <2>2, <2>3 DEF HotEvents
<1> QED
  BY <1>1, <1>2

-----------------------------------------------------------------------------
\* Time passing or the start of a Record touch neither the history nor what
\* Record keeps.
Quiet == UNCHANGED <<hits, events, blockedUntil, blocksTotal, hist>>

\* The rule reads the history only.
LEMMA RuleReadsHistory ==
  ASSUME hist' = hist
  PROVE  /\ \A ip : HotEvents(ip)' = HotEvents(ip)
         /\ Episodes' = Episodes
  BY DEF HotEvents, Hot, WindowOf, Episodes, Starts

\* Every step keeps the types.
LEMMA TypeStep ==
  ASSUME IInv, [Next]_vars
  PROVE  TypeOK'
<1>1. CASE TimePasses
  BY <1>1 DEF TimePasses, IInv, TypeOK
<1>2. ASSUME NEW ip \in IPs, NEW score \in Scores, RecordCalled(ip, score)
      PROVE  TypeOK'
  BY <1>2 DEF RecordCalled, IInv, TypeOK
<1>3. CASE RecordBody
  <2>1. call # NoCall /\ call' = NoCall /\ clock' = clock
    BY <1>3, BodyAssigns
  <2>2. hits' \in [IPs -> 0..MaxHits]
    <3>1. hits[call.ip] + 1 \in 0..MaxHits
      BY <2>1, NewIsLast DEF IInv, TypeOK, CallInv
    <3> QED
      BY <1>3, <3>1, BodyAssigns DEF IInv, TypeOK
  <2>3. events' \in [IPs -> SUBSET Scored]
    <3>1. Remember(call.ip, New) \subseteq Scored
      BY <2>1, NewIsLast DEF Remember, Kept, IInv, TypeOK
    <3> QED
      BY <1>3, <3>1, BodyAssigns DEF IInv, TypeOK
  <2>4. hist' \in [IPs -> SUBSET Scored]
    BY <1>3, <2>1, NewIsLast, BodyAssigns DEF IInv, TypeOK
  <2>5. blockedUntil' \in [IPs -> 0..(MaxTime + TTL)]
    <3>1. call.now + TTL \in 0..(MaxTime + TTL)
      BY <2>1, NewIsLast DEF IInv, TypeOK
    <3> QED
      BY <1>3, <3>1, BodyAssigns DEF IInv, TypeOK
  <2>6. blocksTotal' \in Nat
    BY <1>3, BodyAssigns DEF IInv, TypeOK
  <2> QED
    BY <2>1, <2>2, <2>3, <2>4, <2>5, <2>6 DEF IInv, TypeOK
<1>4. CASE UNCHANGED vars
  BY <1>4 DEF vars, IInv, TypeOK
<1> QED
  BY <1>1, <1>2, <1>3, <1>4 DEF Next

\* Every step keeps what is known of the running call.
LEMMA CallStep ==
  ASSUME IInv, [Next]_vars
  PROVE  CallInv'
<1>1. CASE TimePasses
  BY <1>1 DEF TimePasses, IInv, CallInv
<1>2. ASSUME NEW ip \in IPs, NEW score \in Scores, RecordCalled(ip, score)
      PROVE  CallInv'
  <2>1. call' = [ip |-> ip, score |-> score, now |-> clock] /\ hits' = hits /\ hist' = hist
    BY <1>2 DEF RecordCalled
  <2>2. call'.ip = ip /\ call'.score = score /\ call'.now = clock
    BY <2>1
  <2> QED
    BY <1>2, <2>1, <2>2 DEF RecordCalled, IInv, HistInv, CallInv
<1>3. CASE RecordBody
  BY <1>3 DEF RecordBody, CallInv
<1>4. CASE UNCHANGED vars
  BY <1>4 DEF vars, IInv, CallInv
<1> QED
  BY <1>1, <1>2, <1>3, <1>4 DEF Next

\* Every step keeps the history numbered and in the past.
LEMMA HistStep ==
  ASSUME IInv, [Next]_vars
  PROVE  HistInv'
<1>1. CASE TimePasses
  <2> SUFFICES ASSUME NEW ip \in IPs, NEW h \in hist[ip]
               PROVE  h.n <= hits[ip] /\ h.ts <= clock + 1
    BY <1>1 DEF TimePasses, HistInv
  <2>1. h.n <= hits[ip] /\ h.ts <= clock /\ h.ts \in Nat /\ clock \in Nat
    BY DEF IInv, HistInv, TypeOK, Scored
  <2> QED
    BY <2>1
<1>2. ASSUME NEW ip \in IPs, NEW score \in Scores, RecordCalled(ip, score)
      PROVE  HistInv'
  BY <1>2 DEF RecordCalled, IInv, HistInv
<1>3. CASE RecordBody
  <2> SUFFICES ASSUME NEW ip \in IPs, NEW h \in hist'[ip]
               PROVE  h.n <= hits'[ip] /\ h.ts <= clock'
    BY DEF HistInv
  <2>1. call # NoCall /\ clock' = clock /\ clock \in Nat
    BY <1>3, BodyAssigns DEF IInv, TypeOK
  <2>2. CASE ip # call.ip
    BY <1>3, <2>1, <2>2, BodyAssigns DEF IInv, HistInv, TypeOK
  <2>3. CASE ip = call.ip /\ h \in hist[ip]
    <3>1. h.n <= hits[ip] /\ h.ts <= clock /\ h.n \in Nat /\ hits[ip] \in Nat
      BY <2>3 DEF IInv, HistInv, TypeOK, Scored
    <3>2. hits'[ip] = hits[ip] + 1
      BY <1>3, <2>3, BodyAssigns DEF IInv, TypeOK
    <3> QED
      BY <2>1, <3>1, <3>2
  <2>4. CASE ip = call.ip /\ h = New
    <3>1. hits'[ip] = hits[ip] + 1 /\ hits[ip] \in Nat
      BY <1>3, <2>4, BodyAssigns DEF IInv, TypeOK
    <3> QED
      BY <2>1, <2>4, <3>1, NewIsLast
  <2> QED
    BY <1>3, <2>2, <2>3, <2>4, BodyAssigns DEF IInv, TypeOK
<1>4. CASE UNCHANGED vars
  BY <1>4 DEF vars, IInv, HistInv
<1> QED
  BY <1>1, <1>2, <1>3, <1>4 DEF Next

\* Every step forgets only what has left the window for good.
LEMMA WindowStep ==
  ASSUME IInv, [Next]_vars
  PROVE  WindowInv'
<1>1. CASE RecordBody
  <2> SUFFICES ASSUME NEW ip \in IPs
               PROVE  /\ events'[ip] \subseteq hist'[ip]
                      /\ \A h \in hist'[ip] : h \notin events'[ip] =>
                           \E g \in hist'[ip] : h.ts < g.ts - Window
    BY DEF WindowInv
  <2>1. CASE ip # call.ip
    BY <1>1, <2>1, BodyAssigns DEF IInv, WindowInv, TypeOK
  <2>2. CASE ip = call.ip
    <3>1. hist'[ip] = hist[ip] \cup {New} /\ events'[ip] = Remember(ip, New) /\ call # NoCall
      BY <1>1, <2>2, BodyAssigns DEF IInv, TypeOK
    <3>2. events[ip] \subseteq hist[ip]
      BY DEF IInv, WindowInv
    <3>3. ASSUME NEW h \in hist'[ip], h \notin events'[ip]
          PROVE  \E g \in hist'[ip] : h.ts < g.ts - Window
      <4>1. CASE h \in hist[ip] \ events[ip]
        <5>1. PICK g \in hist[ip] : h.ts < g.ts - Window
          BY <4>1 DEF IInv, WindowInv
        <5> QED
          BY <3>1, <5>1
      <4>2. CASE h \in events[ip] \cup {New}
        <5>1. ~(h.ts >= New.ts - Window)
          BY <3>1, <3>3, <4>2 DEF Remember, Kept
        <5>2. h.ts \in Nat /\ New.ts \in Nat
          BY <2>2, <3>1, <3>2, <4>2, NewIsLast DEF Scored
        <5>3. h.ts < New.ts - Window
          BY <5>1, <5>2
        <5> QED
          BY <3>1, <5>3
      <4> QED
        BY <3>1, <3>3, <4>1, <4>2
    <3> QED
      BY <3>1, <3>2, <3>3 DEF Remember, Kept
  <2> QED
    BY <2>1, <2>2
<1>2. ASSUME Quiet
      PROVE  WindowInv'
  BY <1>2 DEF Quiet, IInv, WindowInv
<1> QED
  BY <1>1, <1>2 DEF Next, TimePasses, RecordCalled, vars, Quiet

\* Every step keeps the deadline that of the last hot interaction.
LEMMA DeadlineStep ==
  ASSUME IInv, [Next]_vars
  PROVE  DeadlineInv'
<1>1. CASE RecordBody
  <2> SUFFICES ASSUME NEW ip \in IPs
               PROVE  /\ \A r \in HotEvents(ip)' : r.ts + TTL <= blockedUntil'[ip]
                      /\ \/ blockedUntil'[ip] = 0
                         \/ \E r \in HotEvents(ip)' : blockedUntil'[ip] = r.ts + TTL
    BY DEF DeadlineInv
  <2>1. CASE ip = call.ip /\ NewIsHot
    <3>1. /\ HotEvents(ip)' = HotEvents(ip) \cup {New}
          /\ blockedUntil'[ip] = call.now + TTL /\ call # NoCall
      BY <1>1, <2>1, HotAfter, BodyAssigns DEF IInv, TypeOK
    <3>2. New.ts = call.now /\ call.now \in Nat
      BY <3>1, NewIsLast
    <3>3. \A r \in HotEvents(ip) : r.ts \in Nat /\ r.ts <= call.now
      BY <2>1, <3>1, NewIsLast DEF HotEvents, Scored
    <3> QED
      BY <3>1, <3>2, <3>3
  <2>2. CASE ~(ip = call.ip /\ NewIsHot)
    <3>1. HotEvents(ip)' = HotEvents(ip) /\ blockedUntil'[ip] = blockedUntil[ip]
      BY <1>1, <2>2, HotAfter, BodyAssigns DEF IInv, TypeOK
    <3> QED
      BY <3>1 DEF IInv, DeadlineInv
  <2> QED
    BY <2>1, <2>2
<1>2. ASSUME Quiet
      PROVE  DeadlineInv'
  BY <1>2, RuleReadsHistory DEF Quiet, IInv, DeadlineInv
<1> QED
  BY <1>1, <1>2 DEF Next, TimePasses, RecordCalled, vars, Quiet

\* The quarantine episodes after Record: one more when the new interaction is
\* hot and the source was not quarantined at the time Record read.
LEMMA EpisodesAfter ==
  ASSUME IInv, RecordBody
  PROVE  Episodes' = IF NewIsHot /\ ~(call.now < blockedUntil[call.ip])
                     THEN Episodes \cup {<<call.ip, New>>} ELSE Episodes
<1>0. call # NoCall /\ call.ip \in IPs
  BY NewIsLast, BodyAssigns
<1>1. ASSUME NEW ip \in IPs, ip # call.ip
      PROVE  Starts(ip)' = Starts(ip)
  BY <1>1, HotAfter DEF Starts
<1>2. PICK x, n : x = call.ip /\ n = New
  OBVIOUS
<1>3. /\ n \notin HotEvents(x) /\ n.ts = call.now /\ call.now \in Nat /\ n.n \in Nat
      /\ \A h \in HotEvents(x) : h.n < n.n /\ h.n \in Nat /\ h.ts \in Nat
  BY <1>0, <1>2, NewIsLast DEF HotEvents, Scored
<1>4. (\A h \in HotEvents(x) : n.ts >= h.ts + TTL) <=> ~(call.now < blockedUntil[x])
  <2>1. /\ \A r \in HotEvents(x) : r.ts + TTL <= blockedUntil[x]
        /\ blockedUntil[x] = 0 \/ \E r \in HotEvents(x) : blockedUntil[x] = r.ts + TTL
    BY <1>0, <1>2 DEF IInv, DeadlineInv
  <2>2. blockedUntil[x] \in Nat
    BY <1>0, <1>2 DEF IInv, TypeOK
  <2> QED
    BY <1>3, <2>1, <2>2
<1>5. Starts(x)' = IF NewIsHot /\ ~(call.now < blockedUntil[x]) THEN Starts(x) \cup {n} ELSE Starts(x)
  <2>1. CASE NewIsHot
    <3>1. HotEvents(x)' = HotEvents(x) \cup {n}
      BY <1>0, <1>2, <2>1, HotAfter
    <3>2. Starts(x)' = {r \in HotEvents(x) \cup {n} :
                          \A h \in HotEvents(x) \cup {n} : h.n < r.n => r.ts >= h.ts + TTL}
      BY <3>1 DEF Starts
    <3>3. \A r \in HotEvents(x) : ~(n.n < r.n)
      BY <1>3
    <3>4. ~(n.n < n.n)
      BY <1>3
    <3> QED
      BY <1>3, <1>4, <2>1, <3>2, <3>3, <3>4 DEF Starts
  <2>2. CASE ~NewIsHot
    BY <1>0, <1>2, <2>2, HotAfter DEF Starts
  <2> QED
    BY <2>1, <2>2
<1>6. Episodes' = UNION {{ip} \X Starts(ip)' : ip \in IPs}
  BY DEF Episodes
<1>7. CASE NewIsHot /\ ~(call.now < blockedUntil[call.ip])
  <2>1. Starts(x)' = Starts(x) \cup {n}
    BY <1>2, <1>5, <1>7
  <2> QED
    BY <1>0, <1>1, <1>2, <1>6, <1>7, <2>1 DEF Episodes
<1>8. CASE ~(NewIsHot /\ ~(call.now < blockedUntil[call.ip]))
  <2>1. \A ip \in IPs : Starts(ip)' = Starts(ip)
    BY <1>1, <1>2, <1>5, <1>8
  <2> QED
    BY <1>6, <1>8, <2>1 DEF Episodes
<1> QED
  BY <1>7, <1>8

\* Every step keeps the counter of episodes exact.
LEMMA EpisodesStep ==
  ASSUME IInv, [Next]_vars
  PROVE  IsFiniteSet(Episodes)' /\ EpisodesCounted'
<1>1. CASE RecordBody
  <2>1. /\ blocksTotal' = IF NewIsHot /\ ~(call.now < blockedUntil[call.ip])
                          THEN blocksTotal + 1 ELSE blocksTotal
        /\ call # NoCall
    BY <1>1, BodyAssigns
  <2>2. <<call.ip, New>> \notin Episodes
    BY <2>1, NewIsLast DEF Episodes, Starts, HotEvents
  <2>3. /\ IsFiniteSet(Episodes \cup {<<call.ip, New>>})
        /\ Cardinality(Episodes \cup {<<call.ip, New>>}) = Cardinality(Episodes) + 1
    BY <2>2, FS_AddElement DEF IInv
  <2>4. Episodes' = IF NewIsHot /\ ~(call.now < blockedUntil[call.ip])
                    THEN Episodes \cup {<<call.ip, New>>} ELSE Episodes
    BY <1>1, EpisodesAfter
  <2> QED
    BY <2>1, <2>3, <2>4 DEF IInv, EpisodesCounted
<1>2. ASSUME Quiet
      PROVE  IsFiniteSet(Episodes)' /\ EpisodesCounted'
  BY <1>2, RuleReadsHistory DEF Quiet, IInv, EpisodesCounted
<1> QED
  BY <1>1, <1>2 DEF Next, TimePasses, RecordCalled, vars, Quiet

\* The inductive invariant holds of a new tracker.
LEMMA InvariantHoldsInitially == Init => IInv
<1> SUFFICES ASSUME Init PROVE IInv
  OBVIOUS
<1>1. TypeOK /\ CallInv /\ HistInv /\ WindowInv
  BY DEF Init, TypeOK, CallInv, HistInv, WindowInv
<1>2. \A ip \in IPs : HotEvents(ip) = {}
  BY DEF Init, HotEvents
<1>3. DeadlineInv
  BY <1>2 DEF Init, DeadlineInv
<1>4. Episodes = {}
  BY <1>2 DEF Episodes, Starts
<1>5. IsFiniteSet(Episodes) /\ EpisodesCounted
  BY <1>4, FS_EmptySet DEF Init, EpisodesCounted
<1> QED
  BY <1>1, <1>3, <1>5 DEF IInv

\* The inductive invariant holds in every state of the tracker.
LEMMA Invariance == Spec => []IInv
<1>1. ASSUME IInv, [Next]_vars
      PROVE  IInv'
  BY <1>1, TypeStep, CallStep, HistStep, WindowStep, DeadlineStep, EpisodesStep DEF IInv
<1> QED
  BY InvariantHoldsInitially, <1>1, PTL DEF Spec

-----------------------------------------------------------------------------
\* Type correctness of tracker.go's per-source state.
THEOREM TypeCorrect == Spec => []TypeOK
<1>1. IInv => TypeOK
  BY DEF IInv
<1> QED
  BY <1>1, Invariance, PTL

\* IsBlocked (tracker.go:93-100) answers by the rule over the history.
THEOREM QuarantineFollowsRule == Spec => []QuarantineByRule
<1>1. IInv => QuarantineByRule
  <2> SUFFICES ASSUME IInv, NEW ip \in IPs, NEW t \in clock..(MaxTime + TTL)
               PROVE  t < blockedUntil[ip] <=> \E r \in HotEvents(ip) : t < r.ts + TTL
    BY DEF QuarantineByRule
  <2>1. clock \in Nat /\ t \in Int /\ t >= 0 /\ blockedUntil[ip] \in Nat
    BY DEF IInv, TypeOK
  <2>2. \A r \in HotEvents(ip) : r.ts \in Nat
    BY DEF IInv, TypeOK, HotEvents, Scored
  <2>3. /\ \A r \in HotEvents(ip) : r.ts + TTL <= blockedUntil[ip]
        /\ blockedUntil[ip] = 0 \/ \E r \in HotEvents(ip) : blockedUntil[ip] = r.ts + TTL
    BY DEF IInv, DeadlineInv
  <2> QED
    BY <2>1, <2>2, <2>3
<1> QED
  BY <1>1, Invariance, PTL

\* blocks_total (tracker.go:79-85) counts every quarantine episode once.
THEOREM EpisodesAreCounted == Spec => []EpisodesCounted
<1>1. IInv => EpisodesCounted
  BY DEF IInv
<1> QED
  BY <1>1, Invariance, PTL

\* Snapshot (tracker.go:102-142) misses nothing that Record pruned.
THEOREM SnapshotFollowsRule == Spec => []SnapshotByRule
<1>1. IInv => SnapshotByRule
  <2> SUFFICES ASSUME IInv, NEW ip \in IPs
               PROVE  SnapshotScore(ip) = WindowScore(Kept(hist[ip], clock))
    BY DEF SnapshotByRule
  <2>1. events[ip] \subseteq hist[ip]
    BY DEF IInv, WindowInv
  <2>2. ASSUME NEW h \in hist[ip], h \notin events[ip]
        PROVE  ~(h.ts >= clock - Window)
    <3>1. PICK g \in hist[ip] : h.ts < g.ts - Window
      BY <2>2 DEF IInv, WindowInv
    <3>2. g.ts <= clock /\ g.ts \in Nat /\ h.ts \in Nat /\ clock \in Nat
      BY DEF IInv, HistInv, TypeOK, Scored
    <3> QED
      BY <3>1, <3>2
  <2>3. Kept(events[ip], clock) = Kept(hist[ip], clock)
    BY <2>1, <2>2 DEF Kept
  <2> QED
    BY <2>3 DEF SnapshotScore
<1> QED
  BY <1>1, Invariance, PTL

\* No interaction moves a deadline back (tracker.go:86-89).
THEOREM DeadlineOnlyGrows == Spec => NeverShortened
<1>1. ASSUME IInv, [Next]_vars
      PROVE  [\A ip \in IPs : blockedUntil'[ip] >= blockedUntil[ip]]_vars
  <2>1. CASE RecordBody
    <3> SUFFICES ASSUME NEW ip \in IPs
                 PROVE  blockedUntil'[ip] >= blockedUntil[ip]
      OBVIOUS
    <3>1. blockedUntil[ip] \in Nat /\ call # NoCall
      BY <1>1, <2>1, BodyAssigns DEF IInv, TypeOK
    <3>2. CASE ip = call.ip /\ NewIsHot
      <4>1. blockedUntil'[ip] = call.now + TTL /\ call.now \in Nat
        BY <1>1, <2>1, <3>1, <3>2, BodyAssigns, NewIsLast DEF IInv, TypeOK
      <4>2. \A r \in HotEvents(ip) : r.ts \in Nat /\ r.ts <= call.now
        BY <1>1, <3>1, <3>2, NewIsLast DEF HotEvents, Scored
      <4>3. blockedUntil[ip] = 0 \/ \E r \in HotEvents(ip) : blockedUntil[ip] = r.ts + TTL
        BY <1>1 DEF IInv, DeadlineInv
      <4> QED
        BY <3>1, <4>1, <4>2, <4>3
    <3>3. CASE ~(ip = call.ip /\ NewIsHot)
      BY <1>1, <2>1, <3>1, <3>3, BodyAssigns DEF IInv, TypeOK
    <3> QED
      BY <3>2, <3>3
  <2>2. ASSUME Quiet
        PROVE  \A ip \in IPs : blockedUntil'[ip] >= blockedUntil[ip]
    BY <1>1, <2>2 DEF Quiet, IInv, TypeOK
  <2> QED
    BY <1>1, <2>1, <2>2 DEF Next, TimePasses, RecordCalled, Quiet
<1> QED
  BY <1>1, Invariance, PTL DEF Spec, NeverShortened
=============================================================================
