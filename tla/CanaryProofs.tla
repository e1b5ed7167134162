----------------------------- MODULE CanaryProofs -----------------------------
(***************************************************************************)
(* The canary registry for every set of callers and sources, every list of *)
(* kinds, every lifetime and any number of restarts: what was handed out   *)
(* can be traced, a set is in the table as a whole or not at all, and the  *)
(* registry implements the abstract one.                                   *)
(***************************************************************************)
EXTENDS Canary, FiniteSetTheorems, TLAPS

USE CallersAssumption, KindsAssumption, NoSetAssumption, BoundsAssumption

Busy(c) == pc[c] \in {"saving", "saved"}

\* The set s can be traced to ip, or its save failed.
Traceable(s, ip) ==
  s \in unsaved \/ \A i \in DOMAIN AllKinds :
    \E row \in table : row.set = s /\ row.kind = AllKinds[i] /\ row.ip = ip

RowsOf(s) == {row \in table : row.set = s}

\* Every set was asked for by a call of its own.
Waiting == {c \in Callers : pc[c] = "waiting"}
CountInv == IsFiniteSet(Waiting) /\ lastSet + Cardinality(Waiting) <= calls

\* A caller is in SetFor for a source; the one with the mutex makes the last
\* set, which nobody has seen, for a source that had no live one.
CallInv ==
  \A c \in Callers :
    /\ pc[c] # "idle" => ipOf[c] \in IPs
    /\ Busy(c) => /\ new[c] # NoSet
                  /\ new[c].set = lastSet
                  /\ \A h \in handed : h.set # lastSet
                  /\ sessions[ipOf[c]] # NoSet => sessions[ipOf[c]].expires <= new[c].made

\* An open transaction has rows of the new set only, one for every kind so far,
\* and the table has none of them.
TxInv ==
  \A c \in Callers :
    /\ pc[c] # "saving" => tx[c] = {}
    /\ pc[c] = "saving" => /\ RowsOf(lastSet) = {}
                           /\ IsFiniteSet(tx[c])
                           /\ \A row \in tx[c] : row.set = lastSet /\ row.ip = ipOf[c]
                           /\ \A i \in DOMAIN AllKinds : i <= Cardinality(tx[c]) =>
                                \E row \in tx[c] : row.kind = AllKinds[i]

\* What is saved, is a session or was handed out can be traced.
TraceInv ==
  /\ \A row \in table : row.set <= lastSet
  /\ \A c \in Callers : pc[c] = "saved" => Traceable(lastSet, ipOf[c])
  /\ \A ip \in IPs : sessions[ip] # NoSet => Traceable(sessions[ip].set, ip)
  /\ HandedIsTraceable

\* The inductive invariant.
IInv == TypeOK /\ CountInv /\ CallInv /\ TxInv /\ TraceInv /\ AllOrNothing
-----------------------------------------------------------------------------
LEMMA InitIInv == Init => IInv
<1> SUFFICES ASSUME Init PROVE IInv
  OBVIOUS
<1>1. TypeOK
  BY DEF Init, TypeOK
<1>2. CountInv
  <2>1. Waiting = {}
    BY DEF Init, Waiting
  <2> QED
    BY <2>1, FS_EmptySet DEF Init, CountInv
<1>3. CallInv /\ TxInv /\ TraceInv
  BY DEF Init, CallInv, TxInv, TraceInv, Busy, HandedIsTraceable
<1>4. AllOrNothing
  BY DEF Init, AllOrNothing
<1> QED
  BY <1>1, <1>2, <1>3, <1>4 DEF IInv

\* A caller that waits has been counted, and its call has made no set yet.
LEMMA RoomForASet ==
  ASSUME TypeOK, CountInv, NEW c \in Callers, pc[c] = "waiting"
  PROVE  /\ IsFiniteSet(Waiting \ {c}) /\ lastSet + 1 + Cardinality(Waiting \ {c}) <= calls
         /\ lastSet + 1 <= MaxCalls
<1>1. c \in Waiting /\ IsFiniteSet(Waiting)
  BY DEF Waiting, CountInv
<1>2. /\ IsFiniteSet(Waiting \ {c})
      /\ Cardinality(Waiting \ {c}) = IF c \in Waiting THEN Cardinality(Waiting) - 1 ELSE Cardinality(Waiting)
  BY <1>1, FS_RemoveElement
<1>3. Cardinality(Waiting) \in Nat /\ Cardinality(Waiting \ {c}) \in Nat
  BY <1>1, <1>2, FS_CardinalityType
<1> QED
  BY <1>1, <1>2, <1>3 DEF CountInv, TypeOK

\* The types are preserved by every step.
LEMMA TypeStep ==
  ASSUME IInv, [Next]_vars
  PROVE  TypeOK'
<1> TypeOK /\ CountInv /\ CallInv
  BY DEF IInv
<1> USE DEF TypeOK
<1>1. CASE TimePasses
  BY <1>1 DEF TimePasses
<1>2. ASSUME NEW c \in Callers, NEW ip \in IPs, Call(c, ip)
      PROVE  TypeOK'
  BY <1>2 DEF Call
<1>3. ASSUME NEW c \in Callers, Reuse(c)
      PROVE  TypeOK'
  <2>1. ipOf[c] \in IPs /\ sessions[ipOf[c]] \in [set : 1..lastSet, expires : TTL..(clock + TTL)]
    BY <1>3 DEF Reuse, Live, CallInv
  <2>2. sessions[ipOf[c]].expires - TTL \in 0..clock
    BY <2>1
  <2>3. handed' \subseteq [ip : IPs, set : 1..lastSet, made : 0..clock, at : 0..clock, boot : 1..boots]
    BY <1>3, <2>1, <2>2 DEF Reuse, Return
  <2> QED
    BY <1>3, <2>3 DEF Reuse, Return
<1>4. ASSUME NEW c \in Callers, Create(c)
      PROVE  TypeOK'
  <2>1. lastSet' \in 1..MaxCalls /\ lastSet' = lastSet + 1
    <3>1. lastSet + 1 <= MaxCalls /\ lastSet' = lastSet + 1
      BY <1>4, RoomForASet DEF Create
    <3> QED
      BY <3>1
  <2>2. new' \in [Callers -> [set : 1..lastSet', made : 0..clock] \cup {NoSet}]
    <3>1. \A d \in Callers : new'[d] = IF d = c THEN [set |-> lastSet', made |-> clock] ELSE new[d]
      BY <1>4 DEF Create
    <3>2. \A r \in [set : 1..lastSet, made : 0..clock] : r \in [set : 1..lastSet', made : 0..clock]
      BY <2>1
    <3>3. [set |-> lastSet', made |-> clock] \in [set : 1..lastSet', made : 0..clock]
      BY <2>1
    <3> QED
      BY <1>4, <3>1, <3>2, <3>3 DEF Create
  <2>3. sessions' \in [IPs -> [set : 1..lastSet', expires : TTL..(clock + TTL)] \cup {NoSet}]
    BY <1>4, <2>1 DEF Create
  <2>4. handed' \subseteq [ip : IPs, set : 1..lastSet', made : 0..clock, at : 0..clock, boot : 1..boots]
    BY <1>4, <2>1 DEF Create
  <2>5. /\ pc' \in [Callers -> {"idle", "waiting", "saving", "saved"}]
        /\ mu' \in Callers \cup {NoCaller}
        /\ \A d \in Callers : mu' = d <=> pc'[d] \in {"saving", "saved"}
    BY <1>4 DEF Create
  <2>6. unsaved' \subseteq 1..lastSet' /\ lastSet' \in 0..MaxCalls
    BY <1>4, <2>1 DEF Create
  <2>7. UNCHANGED <<clock, ipOf, tx, table, boots, calls>>
    BY <1>4 DEF Create
  <2> QED
    BY <2>2, <2>3, <2>4, <2>5, <2>6, <2>7 DEF Row
<1>5. ASSUME NEW c \in Callers, Insert(c)
      PROVE  TypeOK'
  <2>1. NextRows(c) \subseteq Row
    <3>1. ipOf[c] \in IPs /\ new[c].set \in 1..MaxCalls
      BY <1>5 DEF Insert, CallInv, Busy
    <3>2. Cardinality(tx[c]) + 1 \in DOMAIN AllKinds
      <4>1. Cardinality(tx[c]) \in Nat
        BY <1>5, FS_CardinalityType DEF Insert, IInv, TxInv
      <4> QED
        BY <1>5, <4>1 DEF Insert
    <3> QED
      BY <3>1, <3>2 DEF NextRows, Values, Row
  <2> QED
    BY <1>5, <2>1 DEF Insert
<1>6. ASSUME NEW c \in Callers, Commit(c)
      PROVE  TypeOK'
  BY <1>6 DEF Commit
<1>7. ASSUME NEW c \in Callers, SaveFails(c)
      PROVE  TypeOK'
  BY <1>7 DEF SaveFails, CallInv, Busy
<1>8. ASSUME NEW c \in Callers, Record(c)
      PROVE  TypeOK'
  <2>1. ipOf[c] \in IPs /\ new[c] \in [set : 1..lastSet, made : 0..clock]
    BY <1>8 DEF Record, CallInv, Busy
  <2>2. [set |-> new[c].set, expires |-> new[c].made + TTL] \in [set : 1..lastSet, expires : TTL..(clock + TTL)]
    BY <2>1
  <2>3. handed' \subseteq [ip : IPs, set : 1..lastSet, made : 0..clock, at : 0..clock, boot : 1..boots]
    BY <1>8, <2>1 DEF Record, Return
  <2> QED
    BY <1>8, <2>1, <2>2, <2>3 DEF Record, Return
<1>9. CASE Restart
  BY <1>9 DEF Restart
<1>10. CASE UNCHANGED vars
  BY <1>10 DEF vars
<1> QED
  BY <1>1, <1>2, <1>3, <1>4, <1>5, <1>6, <1>7, <1>8, <1>9, <1>10 DEF Next, SetFor
\* Every set had a call of its own.
LEMMA CountStep ==
  ASSUME IInv, [Next]_vars
  PROVE  CountInv'
<1> TypeOK /\ CountInv
  BY DEF IInv
<1> USE DEF TypeOK
<1>1. Cardinality(Waiting) \in Nat /\ IsFiniteSet(Waiting)
  BY FS_CardinalityType DEF CountInv
<1>2. ASSUME NEW c \in Callers, NEW ip \in IPs, Call(c, ip)
      PROVE  CountInv'
  <2>1. Waiting' = Waiting \cup {c} /\ c \notin Waiting /\ calls' = calls + 1 /\ lastSet' = lastSet
    BY <1>2 DEF Call, Waiting
  <2>2. IsFiniteSet(Waiting \cup {c}) /\ Cardinality(Waiting \cup {c}) = Cardinality(Waiting) + 1
    BY <1>1, <2>1, FS_AddElement
  <2> QED
    BY <1>1, <2>1, <2>2 DEF CountInv
<1>3. ASSUME NEW c \in Callers, Reuse(c) \/ Create(c)
      PROVE  CountInv'
  <2>1. Waiting' = Waiting \ {c} /\ pc[c] = "waiting" /\ calls' = calls /\ lastSet' \in lastSet..(lastSet + 1)
    BY <1>3 DEF Reuse, Return, Create, Waiting
  <2>2. IsFiniteSet(Waiting \ {c}) /\ lastSet + 1 + Cardinality(Waiting \ {c}) <= calls
    BY <2>1, RoomForASet
  <2>3. Cardinality(Waiting \ {c}) \in Nat
    BY <2>2, FS_CardinalityType
  <2> QED
    BY <2>1, <2>2, <2>3 DEF CountInv
<1>4. ASSUME Waiting' = Waiting, UNCHANGED <<calls, lastSet>>
      PROVE  CountInv'
  BY <1>4 DEF CountInv
<1>5. ASSUME NEW c \in Callers, Insert(c) \/ Commit(c) \/ SaveFails(c) \/ Record(c)
      PROVE  CountInv'
  BY <1>4, <1>5 DEF Insert, Commit, SaveFails, Record, Return, Waiting
<1>6. CASE TimePasses
  BY <1>4, <1>6 DEF TimePasses, Waiting
<1>7. CASE Restart
  <2>1. Waiting' = {} /\ calls' = calls /\ lastSet' = lastSet
    BY <1>7 DEF Restart, Waiting
  <2> QED
    BY <1>1, <2>1, FS_EmptySet DEF CountInv
<1>8. CASE UNCHANGED vars
  BY <1>4, <1>8 DEF vars, Waiting
<1> QED
  BY <1>2, <1>3, <1>5, <1>6, <1>7, <1>8 DEF Next, SetFor

\* Only one caller makes a set: nothing happens to the sessions meanwhile.
LEMMA AloneWithMutex ==
  ASSUME TypeOK, NEW c \in Callers, NEW d \in Callers, Busy(d), Busy(c) \/ mu = NoCaller \/ mu = c
  PROVE  c = d /\ mu = d
  BY DEF TypeOK, Busy

\* The set under way stays the last one, unseen, for a source without a live one.
LEMMA CallStep ==
  ASSUME IInv, [Next]_vars
  PROVE  CallInv'
<1> TypeOK /\ CallInv
  BY DEF IInv
<1> USE DEF TypeOK, CallInv, Busy
<1>1. CASE TimePasses
  BY <1>1 DEF TimePasses
<1>2. ASSUME NEW c \in Callers, NEW ip \in IPs, Call(c, ip)
      PROVE  CallInv'
  BY <1>2 DEF Call
<1>3. ASSUME NEW c \in Callers, Reuse(c)
      PROVE  CallInv'
  <2>1. \A d \in Callers : ~Busy(d)
    BY <1>3, AloneWithMutex DEF Reuse
  <2> QED
    BY <1>3, <2>1 DEF Reuse, Return
<1>4. ASSUME NEW c \in Callers, Create(c)
      PROVE  CallInv'
  <2>1. \A d \in Callers : ~Busy(d)
    BY <1>4, AloneWithMutex DEF Create
  <2>2. \A h \in handed' : h.set # lastSet'
    BY <1>4 DEF Create
  <2>3. new'[c] = [set |-> lastSet', made |-> clock] /\ ipOf[c] \in IPs
    BY <1>4 DEF Create
  <2>4. new'[c] # NoSet /\ new'[c].set = lastSet' /\ new'[c].made = clock
    <3>1. lastSet' \in Nat /\ clock \in Int
      BY <1>4 DEF Create
    <3> QED
      BY <2>3, <3>1
  <2>5. sessions'[ipOf[c]] # NoSet => sessions'[ipOf[c]].expires <= new'[c].made
    <3>1. CASE sessions[ipOf[c]] = NoSet
      BY <1>4, <3>1 DEF Create
    <3>2. CASE sessions[ipOf[c]] # NoSet
      <4>1. ~(clock < sessions[ipOf[c]].expires) /\ sessions[ipOf[c]].expires \in Int
        BY <1>4, <2>3, <3>2 DEF Create, Live
      <4> QED
        BY <1>4, <2>4, <4>1 DEF Create
    <3> QED
      BY <3>1, <3>2
  <2>6. \A d \in Callers : /\ d # c => pc'[d] = pc[d] /\ new'[d] = new[d]
                           /\ ipOf'[d] = ipOf[d]
    BY <1>4 DEF Create
  <2> QED
    BY <2>1, <2>2, <2>3, <2>4, <2>5, <2>6
<1>5. ASSUME NEW c \in Callers, Insert(c) \/ Commit(c) \/ SaveFails(c)
      PROVE  CallInv'
  BY <1>5 DEF Insert, Commit, SaveFails
<1>6. ASSUME NEW c \in Callers, Record(c)
      PROVE  CallInv'
  <2>1. \A d \in Callers : Busy(d) => d = c
    BY <1>6, AloneWithMutex DEF Record
  <2> QED
    BY <1>6, <2>1 DEF Record, Return
<1>7. CASE Restart
  BY <1>7 DEF Restart
<1>8. CASE UNCHANGED vars
  BY <1>8 DEF vars
<1> QED
  BY <1>1, <1>2, <1>3, <1>4, <1>5, <1>6, <1>7, <1>8 DEF Next, SetFor
\* A transaction grows by the row of the next kind.
LEMMA InsertedRow ==
  ASSUME IInv, NEW c \in Callers, Insert(c)
  PROVE  \E row : /\ tx' = [tx EXCEPT ![c] = tx[c] \cup {row}]
                  /\ row.set = lastSet /\ row.ip = ipOf[c]
                  /\ row.kind = AllKinds[Cardinality(tx[c]) + 1]
<1>1. new[c].set = lastSet
  BY DEF IInv, CallInv, Busy, Insert
<1>2. PICK row \in NextRows(c) : tx' = [tx EXCEPT ![c] = @ \cup {row}]
  BY DEF Insert
<1>3. row.set = lastSet /\ row.ip = ipOf[c] /\ row.kind = AllKinds[Cardinality(tx[c]) + 1]
  BY <1>1 DEF NextRows
<1> QED
  BY <1>2, <1>3

\* Only the caller with the mutex has a transaction, and what it has inserted
\* is the kinds from the first on.
LEMMA TxStep ==
  ASSUME IInv, [Next]_vars
  PROVE  TxInv'
<1> TypeOK /\ TxInv /\ CallInv
  BY DEF IInv
<1> USE DEF TypeOK, TxInv
<1>1. CASE TimePasses
  BY <1>1 DEF TimePasses, RowsOf
<1>2. ASSUME NEW c \in Callers, NEW ip \in IPs, Call(c, ip)
      PROVE  TxInv'
  BY <1>2 DEF Call, RowsOf
<1>3. ASSUME NEW c \in Callers, Reuse(c)
      PROVE  TxInv'
  BY <1>3 DEF Reuse, Return, RowsOf
<1>4. ASSUME NEW c \in Callers, Create(c)
      PROVE  TxInv'
  <2>1. \A d \in Callers : pc[d] # "saving"
    BY <1>4, AloneWithMutex DEF Create, Busy
  <2>2. {row \in table' : row.set = lastSet'} = {}
    <3>1. \A row \in table : row.set \in Nat /\ row.set <= lastSet
      BY DEF IInv, TraceInv, Row
    <3> QED
      BY <1>4, <3>1 DEF Create
  <2>3. tx'[c] = {} /\ IsFiniteSet({}) /\ Cardinality({}) = 0
    BY <1>4, FS_EmptySet DEF Create
  <2>4. \A i \in DOMAIN AllKinds : ~(i <= 0)
    OBVIOUS
  <2>5. tx' = tx /\ \A d \in Callers : d # c => pc'[d] = pc[d]
    BY <1>4 DEF Create
  <2>6. \A i \in DOMAIN AllKinds : i <= Cardinality(tx'[c]) =>
            \E row \in tx'[c] : row.kind = AllKinds[i]
    BY <2>3, <2>4
  <2>7. \A d \in Callers : d # c => pc'[d] # "saving" /\ tx'[d] = {}
    BY <2>1, <2>5
  <2>8. pc'[c] = "saving"
    BY <1>4 DEF Create
  <2>9. IsFiniteSet(tx'[c]) /\ \A row \in tx'[c] : FALSE
    BY <2>3
  <2> QED
    BY <2>2, <2>6, <2>7, <2>8, <2>9 DEF RowsOf
<1>5. ASSUME NEW c \in Callers, Insert(c)
      PROVE  TxInv'
  <2>1. PICK row : /\ tx' = [tx EXCEPT ![c] = tx[c] \cup {row}]
                   /\ row.set = lastSet /\ row.ip = ipOf[c]
                   /\ row.kind = AllKinds[Cardinality(tx[c]) + 1]
    BY <1>5, InsertedRow
  <2>2. pc[c] = "saving" /\ UNCHANGED <<pc, ipOf, table, lastSet>>
    BY <1>5 DEF Insert
  <2>3. IsFiniteSet(tx[c]) /\ Cardinality(tx[c]) \in Nat
    BY <2>2, FS_CardinalityType
  <2>4. /\ IsFiniteSet(tx[c] \cup {row})
        /\ Cardinality(tx[c] \cup {row}) = IF row \in tx[c] THEN Cardinality(tx[c]) ELSE Cardinality(tx[c]) + 1
    BY <2>3, FS_AddElement
  <2>5. ASSUME NEW i \in DOMAIN AllKinds, i <= Cardinality(tx[c] \cup {row})
        PROVE  \E r \in tx[c] \cup {row} : r.kind = AllKinds[i]
    <3>1. i <= Cardinality(tx[c]) \/ i = Cardinality(tx[c]) + 1
      <4>1. i \in Nat
        OBVIOUS
      <4>2. CASE row \in tx[c]
        BY <2>4, <2>5, <4>2
      <4>3. CASE row \notin tx[c]
        BY <2>3, <2>4, <2>5, <4>1, <4>3
      <4> QED
        BY <4>2, <4>3
    <3> QED
      BY <2>1, <2>2, <3>1
  <2>6. tx'[c] = tx[c] \cup {row} /\ \A d \in Callers : d # c => tx'[d] = tx[d]
    BY <2>1
  <2>7. ASSUME NEW d \in Callers, d # c
        PROVE  /\ pc'[d] = pc[d] /\ tx'[d] = tx[d] /\ ipOf'[d] = ipOf[d]
    BY <2>2, <2>6, <2>7
  <2>8. RowsOf(lastSet)' = RowsOf(lastSet) /\ pc'[c] = "saving"
    BY <2>2 DEF RowsOf
  <2>9. /\ IsFiniteSet(tx'[c])
        /\ \A r \in tx'[c] : r.set = lastSet' /\ r.ip = ipOf'[c]
        /\ \A i \in DOMAIN AllKinds : i <= Cardinality(tx'[c]) => \E r \in tx'[c] : r.kind = AllKinds[i]
    BY <2>1, <2>2, <2>4, <2>5, <2>6
  <2> QED
    BY <2>2, <2>7, <2>8, <2>9
<1>6. ASSUME NEW c \in Callers, Commit(c) \/ SaveFails(c)
      PROVE  TxInv'
  <2>1. \A d \in Callers : pc[d] = "saving" => d = c
    BY <1>6, AloneWithMutex DEF Commit, SaveFails, Busy
  <2> QED
    BY <1>6, <2>1 DEF Commit, SaveFails
<1>7. ASSUME NEW c \in Callers, Record(c)
      PROVE  TxInv'
  <2>1. \A d \in Callers : pc[d] # "saving"
    BY <1>7, AloneWithMutex DEF Record, Busy
  <2> QED
    BY <1>7, <2>1 DEF Record, Return
<1>8. CASE Restart
  BY <1>8 DEF Restart
<1>9. CASE UNCHANGED vars
  BY <1>9 DEF vars, RowsOf
<1> QED
  BY <1>1, <1>2, <1>3, <1>4, <1>5, <1>6, <1>7, <1>8, <1>9 DEF Next, SetFor

\* A trace is never lost: rows are not removed from the table.
LEMMA TraceStays ==
  ASSUME table \subseteq table', unsaved \subseteq unsaved', NEW s, NEW ip, Traceable(s, ip)
  PROVE  Traceable(s, ip)'
  BY DEF Traceable

\* A committed set can be traced: its transaction had a row for every kind.
LEMMA CommitTraces ==
  ASSUME IInv, NEW c \in Callers, Commit(c)
  PROVE  Traceable(lastSet, ipOf[c])'
<1>1. /\ pc[c] = "saving" /\ Cardinality(tx[c]) = Len(AllKinds)
      /\ table' = table \cup tx[c] /\ lastSet' = lastSet /\ ipOf' = ipOf
  BY DEF Commit
<1>2. \A i \in DOMAIN AllKinds : i <= Cardinality(tx[c])
  BY <1>1
<1>3. \A i \in DOMAIN AllKinds : \E row \in tx[c] : row.set = lastSet /\ row.kind = AllKinds[i] /\ row.ip = ipOf[c]
  BY <1>1, <1>2 DEF IInv, TxInv
<1> QED
  BY <1>1, <1>3 DEF Traceable

LEMMA TraceStep ==
  ASSUME IInv, [Next]_vars
  PROVE  TraceInv'
<1> TypeOK /\ TraceInv /\ CallInv
  BY DEF IInv
<1> USE DEF TypeOK, TraceInv
<1>1. ASSUME table \subseteq table', unsaved \subseteq unsaved', handed' = handed
      PROVE  HandedIsTraceable'
  BY <1>1 DEF HandedIsTraceable
<1>2. ASSUME UNCHANGED <<table, unsaved, handed, sessions>>
      PROVE  HandedIsTraceable' /\ \A ip \in IPs : sessions'[ip] # NoSet => Traceable(sessions[ip].set, ip)'
  BY <1>2 DEF Traceable, HandedIsTraceable
<1>3. CASE TimePasses \/ UNCHANGED vars
  BY <1>2, <1>3 DEF TimePasses, vars, Traceable
<1>4. ASSUME NEW c \in Callers, NEW ip \in IPs, Call(c, ip)
      PROVE  TraceInv'
  BY <1>2, <1>4 DEF Call, Traceable
<1>5. ASSUME NEW c \in Callers, Reuse(c)
      PROVE  TraceInv'
  <2>1. ipOf[c] \in IPs /\ Traceable(sessions[ipOf[c]].set, ipOf[c])
    BY <1>5 DEF Reuse, Live, CallInv
  <2>2. HandedIsTraceable'
    <3>1. \A h \in handed' : h \in handed \/ (h.ip = ipOf[c] /\ h.set = sessions[ipOf[c]].set)
      BY <1>5 DEF Reuse, Return
    <3>2. UNCHANGED <<table, unsaved>>
      BY <1>5 DEF Reuse
    <3>3. \A h \in handed : Traceable(h.set, h.ip)
      BY DEF HandedIsTraceable, Traceable
    <3>4. \A h \in handed' : Traceable(h.set, h.ip)
      BY <2>1, <3>1, <3>3
    <3> QED
      BY <3>2, <3>4 DEF HandedIsTraceable, Traceable
  <2> QED
    BY <1>5, <2>2 DEF Reuse, Return, Traceable
<1>6. ASSUME NEW c \in Callers, Create(c)
      PROVE  TraceInv'
  <2>1. \A d \in Callers : ~Busy(d)
    BY <1>6, AloneWithMutex DEF Create
  <2>2. \A row \in table : row.set <= lastSet + 1
    BY DEF Row
  <2> QED
    BY <1>2, <1>6, <2>1, <2>2 DEF Create, Traceable, Busy
<1>7. ASSUME NEW c \in Callers, Insert(c)
      PROVE  TraceInv'
  BY <1>2, <1>7 DEF Insert, Traceable
<1>8. ASSUME NEW c \in Callers, Commit(c)
      PROVE  TraceInv'
  <2>1. /\ table' = table \cup tx[c] /\ pc[c] = "saving" /\ \A row \in tx[c] : row.set = lastSet
        /\ UNCHANGED <<unsaved, handed, sessions, lastSet, ipOf>>
        /\ \A d \in Callers : d # c => pc'[d] = pc[d]
    BY <1>8 DEF Commit, IInv, TxInv
  <2>2. \A row \in table' : row.set <= lastSet'
    BY <2>1
  <2>3. \A d \in Callers : d # c => pc'[d] # "saved"
    BY <2>1, <1>8, AloneWithMutex DEF Commit, Busy
  <2>4. \A ip \in IPs : sessions[ip] # NoSet => Traceable(sessions[ip].set, ip)'
    BY <2>1 DEF Traceable
  <2> QED
    BY <1>1, <1>8, <2>1, <2>2, <2>3, <2>4, CommitTraces
<1>9. ASSUME NEW c \in Callers, SaveFails(c)
      PROVE  TraceInv'
  <2>1. /\ unsaved' = unsaved \cup {lastSet} /\ pc[c] = "saving"
        /\ UNCHANGED <<table, handed, sessions, lastSet, ipOf>>
    BY <1>9 DEF SaveFails, CallInv, Busy
  <2>2. \A d \in Callers : Traceable(lastSet, ipOf[d])'
    BY <2>1 DEF Traceable
  <2>3. \A ip \in IPs : sessions[ip] # NoSet => Traceable(sessions[ip].set, ip)'
    BY <2>1 DEF Traceable
  <2> QED
    BY <1>1, <2>1, <2>2, <2>3
<1>10. ASSUME NEW c \in Callers, Record(c)
      PROVE  TraceInv'
  <2>1. new[c].set = lastSet /\ Traceable(lastSet, ipOf[c]) /\ ipOf[c] \in IPs
    BY <1>10 DEF Record, CallInv, Busy
  <2>2. \A d \in Callers : pc'[d] # "saved"
    BY <1>10, AloneWithMutex DEF Record, Return, Busy
  <2>3. HandedIsTraceable'
    <3>1. \A h \in handed' : h \in handed \/ (h.ip = ipOf[c] /\ h.set = new[c].set)
      BY <1>10 DEF Record, Return
    <3>2. UNCHANGED <<table, unsaved>>
      BY <1>10 DEF Record
    <3>3. \A h \in handed : Traceable(h.set, h.ip)
      BY DEF HandedIsTraceable, Traceable
    <3>4. \A h \in handed' : Traceable(h.set, h.ip)
      BY <2>1, <3>1, <3>3
    <3> QED
      BY <3>2, <3>4 DEF HandedIsTraceable, Traceable
  <2>4. \A ip \in IPs : sessions'[ip] # NoSet => Traceable(sessions'[ip].set, ip)
    BY <1>10, <2>1 DEF Record
  <2> QED
    BY <1>10, <2>2, <2>3, <2>4 DEF Record, Traceable
<1>11. CASE Restart
  BY <1>1, <1>11 DEF Restart
<1> QED
  BY <1>3, <1>4, <1>5, <1>6, <1>7, <1>8, <1>9, <1>10, <1>11 DEF Next, SetFor
\* The rows of a set come into the table together, in one commit.
LEMMA AllOrNothingStep ==
  ASSUME IInv, [Next]_vars
  PROVE  AllOrNothing'
<1> TypeOK /\ AllOrNothing
  BY DEF IInv
<1> USE DEF TypeOK, AllOrNothing
<1>1. ASSUME UNCHANGED <<table, lastSet>>
      PROVE  AllOrNothing'
  BY <1>1
<1>2. ASSUME NEW c \in Callers, Create(c)
      PROVE  AllOrNothing'
  <2>1. {row \in table : row.set = lastSet + 1} = {}
    BY DEF IInv, TraceInv, Row
  <2>2. Cardinality({row \in table : row.set = lastSet + 1}) = 0
    BY <2>1, FS_EmptySet
  <2>3. \A s \in 1..(lastSet + 1) : s \in 1..lastSet \/ s = lastSet + 1
    OBVIOUS
  <2>4. table' = table /\ lastSet' = lastSet + 1
    BY <1>2 DEF Create
  <2> QED
    BY <2>2, <2>3, <2>4
<1>3. ASSUME NEW c \in Callers, Commit(c)
      PROVE  AllOrNothing'
  <2>1. /\ table' = table \cup tx[c] /\ lastSet' = lastSet /\ Cardinality(tx[c]) = Len(AllKinds)
        /\ {row \in table : row.set = lastSet} = {} /\ \A row \in tx[c] : row.set = lastSet
    BY <1>3 DEF Commit, IInv, TxInv, RowsOf
  <2>2. {row \in table' : row.set = lastSet} = tx[c]
    BY <2>1
  <2>4. Cardinality({row \in table' : row.set = lastSet}) \in {0, Len(AllKinds)}
    BY <2>1, <2>2
  <2>3. ASSUME NEW s \in 1..lastSet, s # lastSet
        PROVE  {row \in table' : row.set = s} = {row \in table : row.set = s}
    BY <2>1, <2>3
  <2>5. ASSUME NEW s \in 1..lastSet
        PROVE  Cardinality({row \in table' : row.set = s}) \in {0, Len(AllKinds)}
    BY <2>3, <2>4
  <2> QED
    BY <2>1, <2>5
<1>4. ASSUME NEW c \in Callers, Reuse(c) \/ Insert(c) \/ SaveFails(c) \/ Record(c)
      PROVE  AllOrNothing'
  BY <1>1, <1>4 DEF Reuse, Insert, SaveFails, Record
<1>5. ASSUME NEW c \in Callers, NEW ip \in IPs, Call(c, ip)
      PROVE  AllOrNothing'
  BY <1>1, <1>5 DEF Call
<1>6. CASE TimePasses \/ Restart \/ UNCHANGED vars
  BY <1>1, <1>6 DEF TimePasses, Restart, vars
<1> QED
  BY <1>2, <1>3, <1>4, <1>5, <1>6 DEF Next, SetFor

LEMMA Invariance == Spec => []IInv
<1>1. IInv /\ [Next]_vars => IInv'
  BY TypeStep, CountStep, CallStep, TxStep, TraceStep, AllOrNothingStep DEF IInv
<1> QED
  BY InitIInv, <1>1, PTL DEF Spec

-----------------------------------------------------------------------------
\* The variables keep their types; the mutex has its holder between newSet and
\* the return (canary.go:84-118), and no call makes more than one set.
THEOREM TypeCorrect == Spec => []TypeOK
<1>1. IInv => TypeOK
  BY DEF IInv
<1> QED
  BY <1>1, Invariance, PTL

\* What anybody has seen is in the table with the source it was made for, through
\* any number of kills, unless its save failed (canary.go:84-118).
THEOREM HandedCanBeTraced == Spec => []HandedIsTraceable
<1>1. IInv => HandedIsTraceable
  BY DEF IInv, TraceInv
<1> QED
  BY <1>1, Invariance, PTL

\* A set is in the table as a whole or not at all (canary/sqlite.go:44-66).
THEOREM SavedAsAWhole == Spec => []AllOrNothing
<1>1. IInv => AllOrNothing
  BY DEF IInv
<1> QED
  BY <1>1, Invariance, PTL

-----------------------------------------------------------------------------
\* A session as it is recorded.
LEMMA NewSession ==
  ASSUME NEW s \in Nat, NEW t \in Nat
  PROVE  RegistrySession([set |-> s, expires |-> t + TTL]) = [set |-> s, made |-> t]
<1>1. [set |-> s, expires |-> t + TTL] # NoSet
  OBVIOUS
<1>2. t + TTL - TTL = t
  OBVIOUS
<1> QED
  BY <1>1, <1>2 DEF RegistrySession

\* A session is live in the one registry when it is live in the other.
LEMMA SameLife ==
  ASSUME TypeOK, NEW ip \in IPs, NEW t \in Nat
  PROVE  Promise!LiveAt(ip, t) <=> sessions[ip] # NoSet /\ t < sessions[ip].expires
<1>1. CASE sessions[ip] = NoSet
  BY <1>1 DEF Promise!LiveAt, RegistrySession
<1>2. CASE sessions[ip] # NoSet
  <2> DEFINE e == sessions[ip].expires
  <2>1. e \in Int /\ RegistrySession(sessions[ip]).made = e - TTL /\ RegistrySession(sessions[ip]) # NoSet
    BY <1>2 DEF TypeOK, RegistrySession
  <2>2. e - TTL + TTL = e
    BY <2>1
  <2> QED
    BY <1>2, <2>1, <2>2 DEF Promise!LiveAt
<1> QED
  BY <1>1, <1>2

\* A hand-out of the one is a hand-out of the other.
LEMMA SameHandOut ==
  ASSUME NEW c \in Callers, NEW s, NEW made, Return(c, s, made)
  PROVE  {[ip |-> h.ip, set |-> h.set, at |-> h.at] : h \in handed'}
           = {[ip |-> h.ip, set |-> h.set, at |-> h.at] : h \in handed} \cup {[ip |-> ipOf[c], set |-> s, at |-> clock]}
<1> DEFINE r == [ip |-> ipOf[c], set |-> s, made |-> made, at |-> clock, boot |-> boots]
           Seen(h) == [ip |-> h.ip, set |-> h.set, at |-> h.at]
<1>1. handed' = handed \cup {r}
  BY DEF Return
<1>2. Seen(r) = [ip |-> ipOf[c], set |-> s, at |-> clock]
  OBVIOUS
<1> HIDE DEF r, Seen
<1>3. {Seen(h) : h \in handed'} = {Seen(h) : h \in handed} \cup {[ip |-> ipOf[c], set |-> s, at |-> clock]}
  BY <1>1, <1>2
<1> QED
  BY <1>3 DEF Seen

\* Finding a live session is Keep.
LEMMA ReuseKeeps ==
  ASSUME IInv, NEW c \in Callers, Reuse(c)
  PROVE  \E ip \in IPs : Promise!Keep(ip)
<1>1. ipOf[c] \in IPs /\ TypeOK /\ clock \in Nat
  BY DEF IInv, CallInv, Reuse, TypeOK
<1>2. sessions[ipOf[c]] # NoSet /\ clock < sessions[ipOf[c]].expires
  BY DEF Reuse, Live
<1>3. Promise!LiveAt(ipOf[c], clock)
  BY <1>1, <1>2, SameLife
<1>4. [i \in IPs |-> RegistrySession(sessions[i])][ipOf[c]].set = sessions[ipOf[c]].set
  BY <1>1, <1>2 DEF RegistrySession
<1>5. Promise!HandOut(ipOf[c], [i \in IPs |-> RegistrySession(sessions[i])][ipOf[c]].set)
  <2>1. Return(c, sessions[ipOf[c]].set, sessions[ipOf[c]].expires - TTL)
    BY DEF Reuse
  <2> QED
    BY <1>4, <2>1, SameHandOut DEF Promise!HandOut
<1>6. sessions' = sessions /\ clock' = clock
  BY DEF Reuse
<1> QED
  BY <1>1, <1>3, <1>5, <1>6 DEF Promise!Keep, Promise!LiveAt, Promise!HandOut

\* Recording the new session is Renew: the set was begun when the source had no
\* live one, and nobody has seen it.
LEMMA RecordRenews ==
  ASSUME IInv, NEW c \in Callers, Record(c)
  PROVE  \E ip \in IPs : Promise!Renew(ip)
<1> DEFINE ip == ipOf[c]
           s == new[c].set
           t == new[c].made
<1>1. ip \in IPs /\ TypeOK
  BY DEF IInv, CallInv, Record
<1>2. new[c] \in [set : 1..lastSet, made : 0..clock] /\ s = lastSet
  BY DEF IInv, CallInv, Busy, Record, TypeOK
<1>3. s \in 1..MaxCalls /\ t \in 0..clock /\ t \in Nat
  BY <1>1, <1>2 DEF TypeOK
<1>4. ~Promise!LiveAt(ip, t)
  <2>1. sessions[ip] # NoSet => sessions[ip].expires <= t
    BY DEF IInv, CallInv, Busy, Record
  <2> QED
    <3>1. sessions[ip] # NoSet => sessions[ip].expires \in Int
      BY <1>1 DEF TypeOK
    <3> QED
      BY <1>1, <1>3, <2>1, <3>1, SameLife
<1>5. \A h \in {[ip |-> h.ip, set |-> h.set, at |-> h.at] : h \in handed} : h.set # s
  BY <1>2 DEF IInv, CallInv, Busy, Record
<1>6. Promise!HandOut(ip, s)
  <2>1. Return(c, s, t)
    BY DEF Record
  <2> QED
    BY <2>1, SameHandOut DEF Promise!HandOut
<1>7. [i \in IPs |-> RegistrySession(sessions'[i])]
        = [[i \in IPs |-> RegistrySession(sessions[i])] EXCEPT ![ip] = [set |-> s, made |-> t]]
  <2>1. sessions' = [sessions EXCEPT ![ip] = [set |-> s, expires |-> t + TTL]]
    BY DEF Record
  <2>2. \A i \in IPs : sessions'[i] = IF i = ip THEN [set |-> s, expires |-> t + TTL] ELSE sessions[i]
    BY <1>1, <2>1 DEF TypeOK
  <2>3. RegistrySession([set |-> s, expires |-> t + TTL]) = [set |-> s, made |-> t]
    BY <1>3, NewSession
  <2> QED
    BY <2>2, <2>3
<1>8. clock' = clock
  BY DEF Record
<1> QED
  BY <1>1, <1>3, <1>4, <1>5, <1>6, <1>7, <1>8 DEF Promise!Renew, Promise!LiveAt, Promise!HandOut

\* With its mutex, its database and the callers that wait, the registry does
\* nothing but what the abstract one may do (canary.go:84-118).
THEOREM CanaryImplementsRegistry == Spec => ImplementsRegistry
<1>1. Init => Promise!Init
  <2> SUFFICES ASSUME Init PROVE Promise!Init
    OBVIOUS
  <2>1. \A ip \in IPs : RegistrySession(sessions[ip]) = NoSet
    BY DEF Init, RegistrySession
  <2>2. {[ip |-> h.ip, set |-> h.set, at |-> h.at] : h \in handed} = {}
    BY DEF Init
  <2> QED
    BY <2>1, <2>2 DEF Init, Promise!Init
<1>2. IInv /\ [Next]_vars => [Promise!Next]_(Promise!vars)
  <2> SUFFICES ASSUME IInv, [Next]_vars PROVE [Promise!Next]_(Promise!vars)
    OBVIOUS
  <2> USE DEF Promise!vars, Promise!Next
  <2>1. CASE TimePasses
    BY <2>1 DEF TimePasses, Promise!TimePasses
  <2>2. ASSUME NEW c \in Callers, Reuse(c)
        PROVE  Promise!Next
    BY <2>2, ReuseKeeps
  <2>3. ASSUME NEW c \in Callers, Record(c)
        PROVE  Promise!Next
    BY <2>3, RecordRenews
  <2>4. ASSUME UNCHANGED <<clock, sessions, handed>>
        PROVE  UNCHANGED Promise!vars
    BY <2>4
  <2>5. ASSUME NEW c \in Callers, Create(c) \/ Insert(c) \/ Commit(c) \/ SaveFails(c)
        PROVE  UNCHANGED Promise!vars
    BY <2>4, <2>5 DEF Create, Insert, Commit, SaveFails
  <2>6. ASSUME NEW c \in Callers, NEW ip \in IPs, Call(c, ip)
        PROVE  UNCHANGED Promise!vars
    BY <2>4, <2>6 DEF Call
  <2>7. CASE Restart
    <3>1. [ip \in IPs |-> RegistrySession(sessions'[ip])] = [ip \in IPs |-> NoSet]
      BY <2>7 DEF Restart, RegistrySession
    <3> QED
      BY <2>7, <3>1 DEF Restart, Promise!Forget
  <2>8. CASE UNCHANGED vars
    BY <2>4, <2>8 DEF vars
  <2> QED
    BY <2>1, <2>2, <2>3, <2>5, <2>6, <2>7, <2>8 DEF Next, SetFor
<1> QED
  BY <1>1, <1>2, Invariance, PTL DEF Spec, ImplementsRegistry, Promise!Spec
===============================================================================
