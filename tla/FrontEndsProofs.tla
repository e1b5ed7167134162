--------------------------- MODULE FrontEndsProofs ---------------------------
(***************************************************************************)
(* The front ends, for any clients. The TLS listener: its parser finds the *)
(* same ClientHello in any pieces of it. The identities on disk: what      *)
(* clients have seen of one is in its files until the operator removes     *)
(* one, because a file that is there is never opened for writing. The      *)
(* Redis codec: the parser decides the same of a buffer with more behind   *)
(* it, so the requests are taken off the stream one by one, however it is  *)
(* cut. The shell: the loop that splits a line and the mark of where a     *)
(* command ends agree after every byte.                                    *)
(***************************************************************************)
EXTENDS FrontEnds, FiniteSetTheorems, TLAPS

-----------------------------------------------------------------------------
(* Induction and folds.                                                    *)

\* A set of numbers with 0 and the successor of each: if m were missing, the
\* successor would map the members up to m into those without 0.
LEMMA SetOfNaturals ==
  ASSUME NEW N \in SUBSET Nat, 0 \in N, \A n \in N : n + 1 \in N
  PROVE  N = Nat
<1> SUFFICES ASSUME NEW m \in Nat, m \notin N PROVE FALSE
  OBVIOUS
<1> DEFINE A == {n \in 0..m : n \in N}
           next == [n \in A |-> n + 1]
<1>1. IsFiniteSet(A)
  <2>1. IsFiniteSet(0..m)
    BY FS_Interval
  <2> QED
    BY <2>1, FS_Subset
<1>2. 0 \in A /\ m \notin A
  OBVIOUS
<1>3. IsFiniteSet(A \ {0}) /\ Cardinality(A \ {0}) = Cardinality(A) - 1 /\ Cardinality(A) \in Nat
  BY <1>1, <1>2, FS_RemoveElement, FS_CardinalityType
<1>4. next \in [A -> A \ {0}]
  OBVIOUS
<1>5. \A a, b \in A : next[a] = next[b] => a = b
  OBVIOUS
<1> HIDE DEF A, next
<1> QED
  BY <1>1, <1>3, <1>4, <1>5, FS_PigeonHole

\* The greatest member of a set of numbers, which a fold begins with.
Greatest(s) == CHOOSE x \in s : \A y \in s : x >= y

LEMMA GreatestIn ==
  ASSUME NEW n \in Nat, NEW s \in SUBSET (1..n), s # {}
  PROVE  Greatest(s) \in s /\ \A x \in s : x <= Greatest(s)
<1> DEFINE N == {m \in Nat : \A u \in SUBSET (1..m) : u # {} => \E y \in u : \A x \in u : x <= y}
<1>1. 0 \in N
  <2>1. 1..0 = {}
    OBVIOUS
  <2> QED
    BY <2>1
<1>2. ASSUME NEW m \in N PROVE m + 1 \in N
  <2> SUFFICES ASSUME NEW u \in SUBSET (1..m + 1), u # {} PROVE \E y \in u : \A x \in u : x <= y
    OBVIOUS
  <2>1. CASE m + 1 \in u
    BY <2>1
  <2>2. CASE m + 1 \notin u
    <3>1. u \in SUBSET (1..m)
      BY <2>2
    <3> QED
      BY <3>1
  <2> QED
    BY <2>1, <2>2
<1>3. N = Nat
  <2>1. N \subseteq Nat
    OBVIOUS
  <2> HIDE DEF N
  <2> QED
    BY <1>1, <1>2, <2>1, SetOfNaturals
<1>4. \E y \in s : \A x \in s : y >= x
  BY <1>3
<1>5. \A x \in s : x \in Int
  OBVIOUS
<1> QED
  BY <1>4, <1>5 DEF Greatest

\* What is left of a set without its greatest member, and of the first k numbers.
LEMMA WithoutGreatest ==
  ASSUME NEW m \in Nat, NEW s \in SUBSET (1..m + 1), s # {}
  PROVE  s \ {Greatest(s)} \in SUBSET (1..m)
<1>1. m + 1 \in Nat
  OBVIOUS
<1>2. Greatest(s) \in s /\ \A x \in s : x <= Greatest(s)
  BY <1>1, GreatestIn
<1>3. PICK y \in 1..m + 1 : y = Greatest(s)
  BY <1>2
<1>4. ASSUME NEW x \in s, x # y PROVE x \in 1..m
  BY <1>1, <1>2, <1>3, <1>4
<1> QED
  BY <1>3, <1>4

LEMMA GreatestOfFirst ==
  ASSUME NEW n \in Nat, NEW k \in 1..n
  PROVE  Greatest(1..k) = k /\ (1..k) \ {k} = 1..k - 1 /\ 1..k \in SUBSET (1..n) /\ 1..k # {}
<1>1. k \in Nat /\ k \in 1..k /\ 1..k \in SUBSET (1..n) /\ (1..k) \ {k} = 1..k - 1
  OBVIOUS
<1>2. Greatest(1..k) \in 1..k /\ \A x \in 1..k : x <= Greatest(1..k)
  BY <1>1, GreatestIn
<1> QED
  BY <1>1, <1>2

\* Induction from 0 up to n.
LEMMA UpTo ==
  ASSUME NEW n \in Nat, NEW P, 0 \in P, \A k \in 1..n : k - 1 \in P => k \in P
  PROVE  \A k \in 0..n : k \in P
<1> DEFINE N == {k \in Nat : k <= n => k \in P}
<1>1. 0 \in N
  OBVIOUS
<1>2. ASSUME NEW k \in N PROVE k + 1 \in N
  <2> SUFFICES ASSUME k + 1 <= n PROVE k + 1 \in P
    OBVIOUS
  <2>1. k + 1 \in 1..n /\ (k + 1) - 1 = k /\ k <= n
    OBVIOUS
  <2>2. k \in P
    BY <2>1
  <2> QED
    BY <2>1, <2>2
<1>3. N = Nat
  <2>1. N \subseteq Nat
    OBVIOUS
  <2> HIDE DEF N
  <2> QED
    BY <1>1, <1>2, <2>1, SetOfNaturals
<1> QED
  BY <1>3

\* A fold by a function of each element: the table of its values over all sets
\* of indices, which the definition of a fold chooses.
Tabulates(it, n, base, G) ==
  it = [s \in SUBSET (1..n) |-> IF s = {} THEN base ELSE G[Greatest(s)][it[s \ {Greatest(s)}]]]

LEMMA FoldTable ==
  ASSUME NEW n \in Nat, NEW T, NEW base \in T, NEW G \in [1..n -> [T -> T]]
  PROVE  \E it \in [SUBSET (1..n) -> T] : Tabulates(it, n, base, G)
<1> DEFINE Step(h, s) == IF s = {} THEN base ELSE G[Greatest(s)][h[s \ {Greatest(s)}]]
           P == {m \in 0..n : \E h \in [SUBSET (1..m) -> T] : h = [s \in SUBSET (1..m) |-> Step(h, s)]}
<1>1. 0 \in P
  <2>1. SUBSET (1..0) = {{}}
    OBVIOUS
  <2> DEFINE h == [s \in SUBSET (1..0) |-> base]
  <2>2. h = [s \in SUBSET (1..0) |-> Step(h, s)] /\ h \in [SUBSET (1..0) -> T]
    BY <2>1
  <2> QED
    BY <2>2
<1>2. ASSUME NEW k \in 1..n, k - 1 \in P PROVE k \in P
  <2>1. PICK m : m = k - 1 /\ m \in Nat /\ m + 1 = k /\ m + 1 \in Nat /\ k <= n
    OBVIOUS
  <2>2. PICK h \in [SUBSET (1..m) -> T] : h = [s \in SUBSET (1..m) |-> Step(h, s)]
    BY <1>2, <2>1
  <2> DEFINE f == [s \in SUBSET (1..m + 1) |-> Step(h, s)]
  <2>3. ASSUME NEW s \in SUBSET (1..m + 1), s # {}
        PROVE s \ {Greatest(s)} \in SUBSET (1..m) /\ Greatest(s) \in 1..n
    <3>1. s \ {Greatest(s)} \in SUBSET (1..m)
      BY <2>1, <2>3, WithoutGreatest
    <3>2. PICK y : y = Greatest(s)
      OBVIOUS
    <3>3. y \in 1..m + 1
      BY <2>1, <2>3, <3>2, GreatestIn
    <3>4. y \in 1..n
      BY <2>1, <3>3
    <3> QED
      BY <3>1, <3>2, <3>4
  <2>4. SUBSET (1..m) \subseteq SUBSET (1..m + 1)
    BY <2>1
  <2>5. f \in [SUBSET (1..m + 1) -> T]
    <3>1. ASSUME NEW s \in SUBSET (1..m + 1) PROVE Step(h, s) \in T
      <4>1. CASE s = {}
        BY <4>1
      <4>2. CASE s # {}
        <5>1. G[Greatest(s)] \in [T -> T] /\ h[s \ {Greatest(s)}] \in T
          BY <2>2, <2>3, <4>2
        <5> QED
          BY <4>2, <5>1
      <4> QED
        BY <4>1, <4>2
    <3> QED
      BY <3>1
  <2> HIDE DEF Step, P
  <2>6. \A s \in SUBSET (1..m) : h[s] = f[s]
    BY <2>2, <2>4
  <2>7. ASSUME NEW s \in SUBSET (1..m + 1) PROVE Step(h, s) = Step(f, s)
    BY <2>3, <2>6 DEF Step
  <2>8. f = [s \in SUBSET (1..m + 1) |-> Step(f, s)]
    BY <2>7
  <2> HIDE DEF f
  <2> QED
    BY <2>1, <2>5, <2>8 DEF P
<1>3. n \in P
  <2> HIDE DEF P
  <2>1. \A k \in 0..n : k \in P
    BY <1>1, <1>2, UpTo
  <2> QED
    BY <2>1
<1> QED
  BY <1>3 DEF Tabulates

\* What such a fold goes through, and that it stays in T.
Follows(it, n, base, G, T) ==
  it[{}] = base /\ \A k \in 1..n : it[1..k - 1] \in T => it[1..k] = G[k][it[1..k - 1]]

Runs(g, it, n, base, G) ==
  g[0] = base /\ g[n] = it[1..n] /\ \A k \in 1..n : g[k] = G[k][g[k - 1]]

LEMMA FoldRun ==
  ASSUME NEW n \in Nat, NEW T, NEW base \in T, NEW G \in [1..n -> [T -> T]], NEW it, Follows(it, n, base, G, T)
  PROVE  \E g \in [0..n -> T] : Runs(g, it, n, base, G)
<1> DEFINE P == {k \in 0..n : it[1..k] \in T}
           g == [k \in 0..n |-> it[1..k]]
<1>1. 1..0 = {} /\ 0 \in 0..n /\ n \in 0..n
  OBVIOUS
<1>2. 0 \in P
  BY <1>1 DEF Follows
<1>3. ASSUME NEW k \in 1..n, k - 1 \in P PROVE k \in P
  <2>1. k \in 0..n /\ it[1..k - 1] \in T
    BY <1>3
  <2>2. it[1..k] = G[k][it[1..k - 1]]
    BY <2>1 DEF Follows
  <2> QED
    BY <2>1, <2>2
<1>4. \A k \in 0..n : it[1..k] \in T
  <2> HIDE DEF P
  <2>1. \A k \in 0..n : k \in P
    BY <1>2, <1>3, UpTo
  <2> QED
    BY <2>1 DEF P
<1>5. g \in [0..n -> T] /\ g[0] = base /\ g[n] = it[1..n]
  BY <1>1, <1>4 DEF Follows
<1>6. ASSUME NEW k \in 1..n PROVE g[k] = G[k][g[k - 1]]
  <2>1. k \in 0..n /\ k - 1 \in 0..n
    OBVIOUS
  <2> QED
    BY <1>4, <2>1 DEF Follows
<1>7. Runs(g, it, n, base, G)
  BY <1>5, <1>6 DEF Runs
<1> QED
  BY <1>5, <1>7

\* The least member of a set of numbers.
LEMMA LeastIn ==
  ASSUME NEW n \in Nat, NEW s \in SUBSET (1..n), s # {}
  PROVE  Redis!Min(s) \in s /\ \A x \in s : Redis!Min(s) <= x
<1> DEFINE u == {n + 1 - x : x \in s}
<1>1. u \in SUBSET (1..n) /\ u # {}
  <2>1. \A x \in 1..n : n + 1 - x \in 1..n
    OBVIOUS
  <2> QED
    BY <2>1
<1>2. Greatest(u) \in u /\ \A x \in u : x <= Greatest(u)
  BY <1>1, GreatestIn
<1>3. PICK y \in s : n + 1 - y = Greatest(u)
  BY <1>2
<1>4. \A x \in s : y <= x
  <2>1. ASSUME NEW x \in s PROVE y <= x
    <3>1. n + 1 - x \in u
      OBVIOUS
    <3>2. n + 1 - x <= n + 1 - y
      BY <1>2, <1>3, <3>1
    <3>3. x \in Int /\ y \in Int
      OBVIOUS
    <3> QED
      BY <3>2, <3>3
  <2> QED
    BY <2>1
<1>5. \E z \in s : \A x \in s : z <= x
  BY <1>4
<1> QED
  BY <1>5 DEF Redis!Min

-----------------------------------------------------------------------------
(* The walk over the records of a ClientHello.                             *)

\* The fold of Walk is at g[k] after k turns.
Turns(data) == Len(data) \div 6
Gathered(data, hsLen, begin) ==
  Https!FoldLeft(LAMBDA g, k : Https!Gather(g, data, hsLen), begin, [k \in 1..Turns(data) |-> k])

GatherRun(g, data, hsLen, begin) ==
  /\ g[0] = begin /\ g[Turns(data)] = Gathered(data, hsLen, begin)
  /\ \A k \in 1..Turns(data) : g[k] = Https!Gather(g[k - 1], data, hsLen)

LEMMA GatherSteps ==
  ASSUME NEW data \in Seq(Nat), NEW hsLen, NEW begin
  PROVE  \E g : GatherRun(g, data, hsLen, begin)
<1> DEFINE n == Turns(data)
           Step(h, s) == IF s = {} THEN begin ELSE Https!Gather(h[s \ {Greatest(s)}], data, hsLen)
           It == CHOOSE h : h = [s \in SUBSET (1..n) |->
                   IF s = {} THEN begin ELSE Https!Gather(h[s \ {Greatest(s)}], data, hsLen)]
           N == {m \in Nat : \E h : h = [s \in SUBSET (1..m) |-> Step(h, s)]}
<1>1. n \in Nat
  BY DEF Turns
<1>2. 0 \in N
  <2>1. SUBSET (1..0) = {{}}
    OBVIOUS
  <2> DEFINE h == [s \in SUBSET (1..0) |-> begin]
  <2>2. h = [s \in SUBSET (1..0) |-> Step(h, s)]
    BY <2>1
  <2> QED
    BY <2>2
<1>3. ASSUME NEW m \in N PROVE m + 1 \in N
  <2>1. PICK h : h = [s \in SUBSET (1..m) |-> Step(h, s)]
    OBVIOUS
  <2> DEFINE f == [s \in SUBSET (1..m + 1) |-> Step(h, s)]
  <2>2. ASSUME NEW s \in SUBSET (1..m + 1), s # {} PROVE s \ {Greatest(s)} \in SUBSET (1..m)
    BY <2>2, WithoutGreatest
  <2>3. SUBSET (1..m) \subseteq SUBSET (1..m + 1) /\ m + 1 \in Nat
    OBVIOUS
  <2> HIDE DEF Step, N
  <2>4. \A s \in SUBSET (1..m) : h[s] = f[s]
    BY <2>1, <2>3
  <2>5. ASSUME NEW s \in SUBSET (1..m + 1) PROVE Step(h, s) = Step(f, s)
    BY <2>2, <2>4 DEF Step
  <2>6. f = [s \in SUBSET (1..m + 1) |-> Step(f, s)]
    BY <2>5
  <2> HIDE DEF f
  <2> QED
    BY <2>3, <2>6 DEF N
<1>4. N = Nat
  <2>1. N \subseteq Nat
    OBVIOUS
  <2> HIDE DEF N
  <2> QED
    BY <1>2, <1>3, <2>1, SetOfNaturals
<1>5. \E h : h = [s \in SUBSET (1..n) |-> IF s = {} THEN begin ELSE Https!Gather(h[s \ {Greatest(s)}], data, hsLen)]
  BY <1>1, <1>4
<1>6. It = [s \in SUBSET (1..n) |-> IF s = {} THEN begin ELSE Https!Gather(It[s \ {Greatest(s)}], data, hsLen)]
  BY <1>5
<1>7. Gathered(data, hsLen, begin) = It[1..n]
  BY <1>1 DEF Gathered, Https!FoldLeft, Https!MapThenFoldSet, Https!Max, Greatest
<1> HIDE DEF It
<1> DEFINE g == [k \in 0..n |-> It[1..k]]
<1>8. g[0] = begin
  <2>1. 1..0 = {} /\ 0 \in 0..n
    BY <1>1
  <2> QED
    BY <1>6, <2>1
<1>9. g[n] = Gathered(data, hsLen, begin)
  BY <1>1, <1>7
<1>10. ASSUME NEW k \in 1..n PROVE g[k] = Https!Gather(g[k - 1], data, hsLen)
  <2>1. k - 1 \in 0..n /\ k \in 0..n
    BY <1>1
  <2>2. Greatest(1..k) = k /\ (1..k) \ {k} = 1..k - 1 /\ 1..k \in SUBSET (1..n) /\ 1..k # {}
    BY <1>1, GreatestOfFirst
  <2> QED
    BY <1>6, <2>1, <2>2
<1> QED
  BY <1>8, <1>9, <1>10 DEF GatherRun

\* Where the loop is.
Places == [off : Nat \ {0}, hs : Seq(Nat)]

\* A whole record has a length and contents.
LEMMA RecordType ==
  ASSUME NEW data \in Seq(Nat), NEW off \in Nat \ {0}, Https!Whole(data, off)
  PROVE  Https!RecLen(data, off) \in Nat \ {0} /\ Https!Rec(data, off) \in Seq(Nat)
         /\ Len(Https!Rec(data, off)) = Https!RecLen(data, off)
<1>1. off + 3 \in 1..Len(data) /\ off + 4 \in 1..Len(data) /\ \A i \in 1..Len(data) : data[i] \in Nat
  BY DEF Https!Whole
<1>2. Https!RecLen(data, off) = 256 * data[off + 3] + data[off + 4]
  BY <1>1 DEF Https!RecLen, Https!U16
<1>3. Https!RecLen(data, off) \in Nat /\ Https!RecLen(data, off) >= 1
  <2>1. data[off + 3] \in Nat /\ data[off + 4] \in Nat
    BY <1>1
  <2>2. Https!RecLen(data, off) >= 1
    BY DEF Https!Whole
  <2>3. PICK x, y : x = data[off + 3] /\ y = data[off + 4] /\ x \in Nat /\ y \in Nat
    BY <2>1
  <2>4. Https!RecLen(data, off) \in Nat
    <3>1. 256 * x + y \in Nat
      BY ONLY <2>3
    <3>2. Https!RecLen(data, off) = 256 * x + y
      BY <1>2, <2>3
    <3> QED
      BY <3>1, <3>2
  <2> QED
    BY ONLY <2>2, <2>4
<1> DEFINE l == Https!RecLen(data, off)
<1>4. l \in Nat \ {0} /\ off + 4 + l <= Len(data)
  BY <1>3 DEF Https!Whole
<1>5. Https!Rec(data, off) = SubSeq(data, off + 5, off + 4 + l)
  BY DEF Https!Rec
<1> HIDE DEF l
<1>6. SubSeq(data, off + 5, off + 4 + l) \in Seq(Nat) /\ Len(SubSeq(data, off + 5, off + 4 + l)) = l
  BY <1>4
<1> QED
  BY <1>4, <1>5, <1>6 DEF l

LEMMA GatherType ==
  ASSUME NEW data \in Seq(Nat), NEW hsLen, NEW g \in Places
  PROVE  Https!Gather(g, data, hsLen) \in Places
<1>1. CASE Len(g.hs) >= hsLen \/ ~Https!Whole(data, g.off)
  BY <1>1 DEF Https!Gather
<1>2. CASE ~(Len(g.hs) >= hsLen \/ ~Https!Whole(data, g.off))
  <2>1. g.off \in Nat \ {0} /\ g.hs \in Seq(Nat)
    BY DEF Places
  <2>2. PICK l, r : l = Https!RecLen(data, g.off) /\ r = Https!Rec(data, g.off)
    OBVIOUS
  <2>3. l \in Nat \ {0} /\ r \in Seq(Nat)
    BY <1>2, <2>1, <2>2, RecordType
  <2>4. g.off + 5 + l \in Nat \ {0} /\ g.hs \o r \in Seq(Nat)
    BY <2>1, <2>3
  <2>5. Https!Gather(g, data, hsLen) = [off |-> g.off + 5 + l, hs |-> g.hs \o r]
    BY <1>2, <2>2 DEF Https!Gather
  <2> QED
    BY <2>4, <2>5 DEF Places
<1> QED
  BY <1>1, <1>2

\* A record that is whole in the first m bytes is the same when more have come.
LEMMA RecordStable ==
  ASSUME NEW e \in Seq(Nat), NEW m \in 0..Len(e), NEW off \in Nat \ {0},
         Https!Whole(SubSeq(e, 1, m), off)
  PROVE  /\ Https!Whole(e, off)
         /\ Https!RecLen(SubSeq(e, 1, m), off) = Https!RecLen(e, off)
         /\ Https!Rec(SubSeq(e, 1, m), off) = Https!Rec(e, off)
<1>1. PICK d : d = SubSeq(e, 1, m)
  OBVIOUS
<1>2. d \in Seq(Nat) /\ Len(d) = m /\ (\A i \in 1..m : d[i] = e[i])
  BY <1>1
<1>3. Https!Whole(d, off)
  BY <1>1
<1>4. off \in 1..m /\ off + 3 \in 1..m /\ off + 4 \in 1..m
  BY <1>2, <1>3 DEF Https!Whole
<1>5. Https!RecLen(d, off) = Https!RecLen(e, off) /\ d[off] = e[off]
  <2>1. d[off] = e[off] /\ d[off + 3] = e[off + 3] /\ d[off + 4] = e[off + 4]
    BY <1>2, <1>4
  <2>2. (off + 3) + 1 = off + 4
    OBVIOUS
  <2> QED
    BY <2>1, <2>2 DEF Https!RecLen, Https!U16
<1>6. PICK l \in Nat \ {0} : l = Https!RecLen(d, off)
  BY <1>2, <1>3, RecordType
<1>7. off + 4 + l <= m /\ d[off] = 22
  BY <1>2, <1>3, <1>6 DEF Https!Whole
<1>8. Https!Whole(e, off)
  <2>1. off + 4 <= Len(e) /\ off + 4 + l <= Len(e) /\ l >= 1
    BY <1>7
  <2>2. e[off] = 22 /\ Https!RecLen(e, off) = l
    BY <1>5, <1>6, <1>7
  <2> QED
    BY <2>1, <2>2 DEF Https!Whole
<1>9. SubSeq(d, off + 5, off + 4 + l) = SubSeq(e, off + 5, off + 4 + l)
  <2>1. ASSUME NEW i \in off + 5..off + 4 + l PROVE d[i] = e[i]
    <3>1. i \in 1..m
      BY <1>7
    <3> QED
      BY <1>2, <3>1
  <2> QED
    BY <1>2, <1>7, <2>1
<1>10. Https!Rec(d, off) = Https!Rec(e, off)
  BY <1>5, <1>6, <1>9 DEF Https!Rec
<1> QED
  BY <1>1, <1>5, <1>8, <1>10

\* The loop over the first bytes does what the loop over more of them does, or
\* it has stopped without a message.
Alike(gd, ge, d, hsLen) == gd = ge \/ (~Https!Whole(d, gd.off) /\ ~(Len(gd.hs) >= hsLen))

LEMMA GatherAlike ==
  ASSUME NEW e \in Seq(Nat), NEW m \in 0..Len(e), NEW hsLen, NEW gd \in Places, NEW ge \in Places,
         Alike(gd, ge, SubSeq(e, 1, m), hsLen)
  PROVE  Alike(Https!Gather(gd, SubSeq(e, 1, m), hsLen), Https!Gather(ge, e, hsLen), SubSeq(e, 1, m), hsLen)
<1>1. PICK d : d = SubSeq(e, 1, m)
  OBVIOUS
<1>2. gd.off \in Nat \ {0}
  BY DEF Places
<1>3. CASE Len(gd.hs) >= hsLen
  BY <1>1, <1>3 DEF Alike, Https!Gather
<1>4. CASE ~(Len(gd.hs) >= hsLen) /\ ~Https!Whole(d, gd.off)
  BY <1>1, <1>4 DEF Alike, Https!Gather
<1>5. CASE ~(Len(gd.hs) >= hsLen) /\ Https!Whole(d, gd.off)
  <2>1. gd = ge
    BY <1>1, <1>5 DEF Alike
  <2>2. /\ Https!Whole(e, gd.off)
        /\ Https!RecLen(d, gd.off) = Https!RecLen(e, gd.off)
        /\ Https!Rec(d, gd.off) = Https!Rec(e, gd.off)
    BY <1>1, <1>2, <1>5, RecordStable
  <2>3. Https!Gather(gd, d, hsLen) = Https!Gather(gd, e, hsLen)
    BY <1>5, <2>2 DEF Https!Gather
  <2> QED
    BY <1>1, <2>1, <2>3 DEF Alike
<1> QED
  BY <1>3, <1>4, <1>5

\* By induction over the turns.
LEMMA GatheredType ==
  ASSUME NEW d \in Seq(Nat), NEW hsLen, NEW begin \in Places
  PROVE  Gathered(d, hsLen, begin) \in Places
<1>1. PICK i : i = Turns(d) /\ i \in Nat
  BY DEF Turns
<1>2. PICK g : /\ g[0] = begin /\ g[i] = Gathered(d, hsLen, begin)
               /\ \A k \in 1..i : g[k] = Https!Gather(g[k - 1], d, hsLen)
  <2>1. \E g : GatherRun(g, d, hsLen, begin)
    BY GatherSteps
  <2> QED
    BY <1>1, <2>1 DEF GatherRun
<1> DEFINE N == {k \in Nat : k <= i => g[k] \in Places}
<1>3. 0 \in N
  BY <1>2
<1>4. ASSUME NEW k \in N PROVE k + 1 \in N
  <2> SUFFICES ASSUME k + 1 <= i PROVE g[k + 1] \in Places
    OBVIOUS
  <2>1. k + 1 \in 1..i /\ (k + 1) - 1 = k /\ k <= i
    BY <1>1
  <2>2. g[k + 1] = Https!Gather(g[k], d, hsLen) /\ g[k] \in Places
    BY <1>2, <2>1
  <2> QED
    BY <2>2, GatherType
<1>5. N = Nat
  <2>1. N \subseteq Nat
    OBVIOUS
  <2> HIDE DEF N
  <2> QED
    BY <1>3, <1>4, <2>1, SetOfNaturals
<1> QED
  BY <1>1, <1>2, <1>5

\* By induction over the turns.
LEMMA GatheredStable ==
  ASSUME NEW e \in Seq(Nat), NEW m \in 0..Len(e), NEW hsLen, NEW begin \in Places,
         Len(Gathered(SubSeq(e, 1, m), hsLen, begin).hs) >= hsLen
  PROVE  Gathered(e, hsLen, begin) = Gathered(SubSeq(e, 1, m), hsLen, begin)
<1>1. PICK d : d = SubSeq(e, 1, m)
  OBVIOUS
<1>0. d \in Seq(Nat) /\ Len(d) = m
  BY <1>1
<1>2. PICK i, j : i = Turns(d) /\ j = Turns(e) /\ i \in Nat /\ j \in Nat /\ i <= j
  <2>1. m \div 6 <= Len(e) \div 6 /\ m \div 6 \in Nat /\ Len(e) \div 6 \in Nat
    OBVIOUS
  <2> QED
    BY <1>0, <2>1 DEF Turns
<1>3. PICK g : /\ g[0] = begin /\ g[i] = Gathered(d, hsLen, begin)
               /\ \A k \in 1..i : g[k] = Https!Gather(g[k - 1], d, hsLen)
  <2>1. \E g : GatherRun(g, d, hsLen, begin)
    BY <1>0, GatherSteps
  <2> QED
    BY <1>2, <2>1 DEF GatherRun
<1>4. PICK h : /\ h[0] = begin /\ h[j] = Gathered(e, hsLen, begin)
               /\ \A k \in 1..j : h[k] = Https!Gather(h[k - 1], e, hsLen)
  <2>1. \E h : GatherRun(h, e, hsLen, begin)
    BY GatherSteps
  <2> QED
    BY <1>2, <2>1 DEF GatherRun
<1> DEFINE N == {k \in Nat : k <= i => g[k] \in Places /\ h[k] \in Places /\ Alike(g[k], h[k], d, hsLen)}
           M == {k \in Nat : i + k <= j => h[i + k] = g[i]}
<1>5. 0 \in N
  BY <1>3, <1>4 DEF Alike
<1>6. ASSUME NEW k \in N PROVE k + 1 \in N
  <2> SUFFICES ASSUME k + 1 <= i
               PROVE g[k + 1] \in Places /\ h[k + 1] \in Places /\ Alike(g[k + 1], h[k + 1], d, hsLen)
    OBVIOUS
  <2>1. k + 1 \in 1..i /\ k + 1 \in 1..j /\ (k + 1) - 1 = k /\ k <= i
    BY <1>2
  <2>2. g[k + 1] = Https!Gather(g[k], d, hsLen) /\ h[k + 1] = Https!Gather(h[k], e, hsLen)
    BY <1>3, <1>4, <2>1
  <2>3. g[k] \in Places /\ h[k] \in Places /\ Alike(g[k], h[k], d, hsLen)
    BY <2>1
  <2>4. g[k + 1] \in Places /\ h[k + 1] \in Places
    BY <1>0, <2>2, <2>3, GatherType
  <2>5. Alike(Https!Gather(g[k], d, hsLen), Https!Gather(h[k], e, hsLen), d, hsLen)
    BY <1>1, <2>3, GatherAlike
  <2> QED
    BY <2>2, <2>4, <2>5
<1>7. N = Nat
  <2>1. N \subseteq Nat
    OBVIOUS
  <2> HIDE DEF N
  <2> QED
    BY <1>5, <1>6, <2>1, SetOfNaturals
<1>8. h[i] = g[i] /\ Len(g[i].hs) >= hsLen
  <2>1. Alike(g[i], h[i], d, hsLen)
    BY <1>2, <1>7
  <2>2. Len(g[i].hs) >= hsLen
    BY <1>1, <1>3
  <2> QED
    BY <2>1, <2>2 DEF Alike
<1>9. 0 \in M
  BY <1>2, <1>8
<1>10. ASSUME NEW k \in M PROVE k + 1 \in M
  <2> SUFFICES ASSUME i + (k + 1) <= j PROVE h[i + (k + 1)] = g[i]
    OBVIOUS
  <2>1. i + (k + 1) \in 1..j /\ (i + (k + 1)) - 1 = i + k /\ i + k <= j
    BY <1>2
  <2>2. h[i + (k + 1)] = Https!Gather(h[i + k], e, hsLen)
    BY <1>4, <2>1
  <2>3. h[i + k] = g[i]
    BY <2>1
  <2> QED
    BY <1>8, <2>2, <2>3 DEF Https!Gather
<1>11. M = Nat
  <2>1. M \subseteq Nat
    OBVIOUS
  <2> HIDE DEF M
  <2> QED
    BY <1>9, <1>10, <2>1, SetOfNaturals
<1>12. h[j] = g[i]
  <2>1. j - i \in Nat /\ i + (j - i) = j /\ j <= j
    BY <1>2
  <2>2. j - i \in M
    BY <1>11, <2>1
  <2>3. h[i + (j - i)] = g[i]
    BY <2>1, <2>2
  <2> QED
    BY <2>1, <2>3
<1> QED
  BY <1>1, <1>3, <1>4, <1>12

\* What Walk makes of the first record, and of all.
HsLen(b) == 65536 * Https!Rec(b, 1)[2] + Https!U16(Https!Rec(b, 1), 3)
Begin(b) == [off |-> 6 + Https!RecLen(b, 1), hs |-> SubSeq(Https!Rec(b, 1), 5, Https!RecLen(b, 1))]
Gotten(b) == Gathered(b, HsLen(b), Begin(b)).hs
NoHello(b) == ~Https!Whole(b, 1) \/ Https!RecLen(b, 1) < 4 \/ Https!Rec(b, 1)[1] # 1

LEMMA WalkIs ==
  ASSUME NEW b
  PROVE  Https!Walk(b) = IF NoHello(b) \/ Len(Gotten(b)) < HsLen(b) THEN None ELSE SubSeq(Gotten(b), 1, HsLen(b))
  BY DEF Https!Walk, Gathered, Turns, Gotten, HsLen, Begin, NoHello

LEMMA FirstRecordType ==
  ASSUME NEW d \in Seq(Nat), ~NoHello(d)
  PROVE  Begin(d) \in Places /\ HsLen(d) \in Nat /\ Gotten(d) \in Seq(Nat)
<1>1. PICK l, r : l = Https!RecLen(d, 1) /\ r = Https!Rec(d, 1)
  OBVIOUS
<1>2. Https!Whole(d, 1) /\ ~(l < 4) /\ 1 \in Nat \ {0}
  BY <1>1 DEF NoHello
<1>3. l \in Nat \ {0} /\ r \in Seq(Nat) /\ Len(r) = l
  BY <1>1, <1>2, RecordType
<1>4. 2 \in 1..Len(r) /\ 3 \in 1..Len(r) /\ 4 \in 1..Len(r) /\ 3 + 1 = 4
  BY <1>2, <1>3
<1>5. r[2] \in Nat /\ r[3] \in Nat /\ r[4] \in Nat
  BY <1>3, <1>4
<1>6. SubSeq(r, 5, l) \in Seq(Nat) /\ 6 + l \in Nat \ {0}
  BY <1>2, <1>3
<1>7. Begin(d) \in Places
  BY <1>1, <1>6 DEF Begin, Places
<1>8. HsLen(d) = 65536 * r[2] + (256 * r[3] + r[4])
  BY <1>1, <1>4 DEF HsLen, Https!U16
<1>9. HsLen(d) \in Nat
  <2>1. PICK x, y, z : x = r[2] /\ y = r[3] /\ z = r[4] /\ x \in Nat /\ y \in Nat /\ z \in Nat
    BY <1>5
  <2>2. 65536 * x + (256 * y + z) \in Nat
    <3>1. x \in Nat /\ y \in Nat /\ z \in Nat
      BY <2>1
    <3>2. 65536 * x \in Nat /\ 256 * y + z \in Nat
      BY ONLY <3>1
    <3> QED
      BY ONLY <3>2
  <2>3. HsLen(d) = 65536 * x + (256 * y + z)
    BY <1>8, <2>1
  <2> QED
    BY <2>2, <2>3
<1>10. Gathered(d, HsLen(d), Begin(d)) \in Places
  BY <1>7, GatheredType
<1>11. Gotten(d) \in Seq(Nat)
  BY <1>10 DEF Gotten, Places
<1> QED
  BY <1>7, <1>9, <1>11

\* A message found in the first m bytes is the one found when more have come.
LEMMA WalkStable ==
  ASSUME NEW e \in Seq(Nat), NEW m \in 0..Len(e), Https!Walk(SubSeq(e, 1, m)) # None
  PROVE  Https!Walk(e) = Https!Walk(SubSeq(e, 1, m))
<1>1. PICK d : d = SubSeq(e, 1, m)
  OBVIOUS
<1>2. d \in Seq(Nat)
  BY <1>1
<1>3. ~NoHello(d) /\ ~(Len(Gotten(d)) < HsLen(d))
  BY <1>1, WalkIs
<1>4. /\ Https!Whole(e, 1)
      /\ Https!RecLen(d, 1) = Https!RecLen(e, 1)
      /\ Https!Rec(d, 1) = Https!Rec(e, 1)
  <2>1. Https!Whole(d, 1) /\ 1 \in Nat \ {0}
    BY <1>3 DEF NoHello
  <2> QED
    BY <1>1, <2>1, RecordStable
<1>5. HsLen(d) = HsLen(e) /\ Begin(d) = Begin(e) /\ ~NoHello(e)
  <2>1. HsLen(d) = HsLen(e)
    BY ONLY <1>4 DEF HsLen
  <2>2. Begin(d) = Begin(e)
    BY ONLY <1>4 DEF Begin
  <2>3. ~NoHello(e)
    BY ONLY <1>3, <1>4 DEF NoHello
  <2> QED
    BY <2>1, <2>2, <2>3
<1>6. Begin(d) \in Places /\ HsLen(d) \in Nat /\ Gotten(d) \in Seq(Nat)
  BY <1>2, <1>3, FirstRecordType
<1>7. Len(Gotten(d)) >= HsLen(d)
  BY <1>3, <1>6
<1>8. Gotten(e) = Gotten(d)
  <2>1. Gathered(e, HsLen(d), Begin(d)) = Gathered(d, HsLen(d), Begin(d))
    BY <1>1, <1>6, <1>7, GatheredStable DEF Gotten
  <2> QED
    BY <1>5, <2>1 DEF Gotten
<1> QED
  BY <1>1, <1>3, <1>5, <1>8, WalkIs

\* A Hello found in what has come is the one the client sent, however that was
\* cut.
LEMMA HelloStable ==
  ASSUME NEW p \in Plans, NEW m \in 0..Len(p.bytes)
  PROVE  Https!ParseClientHello(SubSeq(p.bytes, 1, m)) \in {None, p.hello}
<1>1. p.bytes \in Seq(Nat) /\ p.hello = Https!ParseClientHello(p.bytes)
  BY PlansAssumption
<1>2. PICK e : e = p.bytes /\ e \in Seq(Nat)
  BY <1>1
<1>3. CASE Https!Walk(SubSeq(e, 1, m)) = None
  BY <1>2, <1>3 DEF Https!ParseClientHello
<1>4. CASE Https!Walk(SubSeq(e, 1, m)) # None
  <2>1. Https!Walk(e) = Https!Walk(SubSeq(e, 1, m))
    BY <1>2, <1>4, WalkStable
  <2> QED
    BY <1>1, <1>2, <2>1 DEF Https!ParseClientHello
<1> QED
  BY <1>3, <1>4

-----------------------------------------------------------------------------
(* The TLS listener.                                                       *)

PcStates == {"none", "capture", "handshake", "serving", "closed"}
HttpStates == {"none", "header", "body", "handler", "idle", "closed"}

TlsTypes ==
  /\ pc \in [Conns -> PcStates]
  /\ plan \in [Conns -> Plans \cup {None}]
  /\ arrived \in [Conns -> Nat]
  /\ offset \in [Conns -> Nat]
  /\ replay \in [Conns -> Seq(Nat)]
  /\ input \in [Conns -> Seq(Nat)]
  /\ hello \in [Conns -> {None} \cup {p.hello : p \in Plans}]
  /\ http \in [Conns -> HttpStates]
  /\ done \in [Conns -> BOOLEAN]
  /\ rawOpen \in [Conns -> BOOLEAN]

\* What the handshake was given and what is still in the replay are together
\* what was read off the connection.
Counts(s, k) == \A i \in 1..Len(s) : s[i] = k + i

Stream(st, off, arr, in, rep) ==
  /\ off <= arr
  /\ Len(in) + Len(rep) = off
  /\ Counts(in, 0) /\ Counts(rep, Len(in))
  /\ st \in {"none", "capture"} => in = <<>>

StreamInv == \A c \in Conns : Stream(pc[c], offset[c], arrived[c], input[c], replay[c])

\* A connection that has come has a plan, and no Hello but that of the plan;
\* from the handshake on it has one.
HelloInv ==
  \A c \in Conns :
    /\ pc[c] = "none" => hello[c] = None
    /\ pc[c] # "none" => plan[c] \in Plans /\ hello[c] \in {None, plan[c].hello}
    /\ pc[c] \in {"handshake", "serving"} => hello[c] # None

ShownInv == \A s \in shown : \A c \in Conns : s[1] = c => pc[c] # "none" /\ s[2] = plan[c].hello

\* The server runs while its connection is open and handleConn waits for it.
ServeInv ==
  \A c \in Conns :
    /\ pc[c] \in {"none", "capture", "handshake"} => http[c] = "none"
    /\ http[c] \notin {"none", "closed"} => pc[c] = "serving"
    /\ done[c] => http[c] = "closed"
    /\ pc[c] \in {"capture", "handshake"} => rawOpen[c]
    /\ pc[c] = "serving" /\ http[c] # "closed" => rawOpen[c] /\ http[c] # "none"

TlsInv == TlsTypes /\ StreamInv /\ HelloInv /\ ShownInv /\ ServeInv

LEMMA TlsInit == Https!Init => TlsInv
  BY DEF Https!Init, TlsInv, TlsTypes, StreamInv, Stream, Counts, HelloInv, ShownInv, ServeInv, PcStates, HttpStates

\* The bytes that were not read yet.
LEMMA WaitingIs ==
  ASSUME TlsTypes, StreamInv, NEW c \in Conns
  PROVE  /\ Https!Waiting(c) \in Seq(Nat) /\ Len(Https!Waiting(c)) = arrived[c] - offset[c]
         /\ Counts(Https!Waiting(c), offset[c])
<1>1. arrived[c] - offset[c] \in Nat /\ offset[c] \in Nat
  BY DEF TlsTypes, StreamInv, Stream
<1> QED
  BY <1>1 DEF Https!Waiting, Counts

\* The Hello of a capture.
LEMMA CapturedIs ==
  ASSUME TlsTypes, HelloInv, NEW c \in Conns, pc[c] # "none", NEW n \in Nat
  PROVE  Https!ParseClientHello(Https!Received(c, n)) \in {None, plan[c].hello}
<1>1. PICK p \in Plans : p = plan[c]
  BY DEF HelloInv
<1>2. p.bytes \in Seq(Nat)
  BY PlansAssumption
<1>3. PICK l \in Nat : l = Len(p.bytes)
  BY <1>2
<1>4. Https!Min({n, l}) \in 0..l
  <2>1. \E x \in {n, l} : \A y \in {n, l} : x <= y
    OBVIOUS
  <2>2. Https!Min({n, l}) \in {n, l} /\ \A y \in {n, l} : Https!Min({n, l}) <= y
    BY <2>1 DEF Https!Min
  <2> QED
    BY <2>2
<1>5. Https!Received(c, n) = SubSeq(p.bytes, 1, Https!Min({n, l}))
  BY <1>1, <1>3 DEF Https!Received
<1> QED
  BY <1>1, <1>3, <1>4, <1>5, HelloStable

LEMMA TlsTypesPreserved == TlsInv /\ Https!Next => TlsTypes'
<1> SUFFICES ASSUME TlsInv, NEW c \in Conns, Https!Goroutines(c) \/ Https!Client(c) PROVE TlsTypes'
  BY DEF Https!Next
<1> USE DEF TlsInv, TlsTypes, PcStates, HttpStates, Https!Goto
<1>1. ASSUME NEW p \in Plans, Https!Accept(c, p) PROVE TlsTypes'
  BY <1>1 DEF Https!Accept
<1>2. ASSUME NEW n \in plan[c].cuts, pc[c] # "none", Https!Arrive(c, n) PROVE TlsTypes'
  <2>1. n \in Nat
    BY <1>2, PlansAssumption DEF HelloInv
  <2> QED
    BY <1>2, <2>1 DEF Https!Arrive
<1>3. CASE Https!CaptureRead(c)
  <2>1. PICK w \in Seq(Nat) : w = Https!Waiting(c)
    BY WaitingIs
  <2>2. replay[c] \o w \in Seq(Nat)
    OBVIOUS
  <2>3. PICK h \in {None} \cup {p.hello : p \in Plans} : h = Https!ParseClientHello(Https!Received(c, arrived[c]))
    <3>1. pc[c] # "none" /\ arrived[c] \in Nat
      BY <1>3 DEF Https!CaptureRead
    <3> QED
      BY <3>1, CapturedIs DEF HelloInv
  <2>4. /\ offset' = [offset EXCEPT ![c] = arrived[c]]
        /\ replay' = [replay EXCEPT ![c] = replay[c] \o w]
        /\ hello' = [hello EXCEPT ![c] = h]
        /\ pc' \in {pc, [pc EXCEPT ![c] = "handshake"]}
        /\ UNCHANGED <<plan, arrived, input, http, done, rawOpen, shown>>
    BY <1>3, <2>1, <2>3 DEF Https!CaptureRead
  <2> QED
    BY <2>2, <2>4
<1>4. CASE Https!CaptureEnds(c)
  BY <1>4 DEF Https!CaptureEnds
<1>5. CASE Https!HandshakeRead(c)
  <2>1. PICK w \in Seq(Nat) : w = Https!Waiting(c)
    BY WaitingIs
  <2>2. input[c] \o replay[c] \in Seq(Nat) /\ input[c] \o w \in Seq(Nat)
    OBVIOUS
  <2>3. /\ input' \in {[input EXCEPT ![c] = input[c] \o replay[c]], [input EXCEPT ![c] = input[c] \o w]}
        /\ replay' \in {replay, [replay EXCEPT ![c] = <<>>]}
        /\ offset' \in {offset, [offset EXCEPT ![c] = arrived[c]]}
        /\ UNCHANGED <<pc, plan, arrived, hello, http, done, rawOpen, shown>>
    BY <1>5, <2>1 DEF Https!HandshakeRead
  <2>4. input' \in [Conns -> Seq(Nat)]
    BY <2>2, <2>3
  <2>5. replay' \in [Conns -> Seq(Nat)]
    <3>1. <<>> \in Seq(Nat)
      OBVIOUS
    <3> QED
      BY <2>3, <3>1
  <2>6. offset' \in [Conns -> Nat]
    BY <2>3
  <2> QED
    BY <2>3, <2>4, <2>5, <2>6
<1>6. CASE Https!HandshakeFails(c)
  BY <1>6 DEF Https!HandshakeFails
<1>7. CASE Https!HandshakeDone(c)
  BY <1>7 DEF Https!HandshakeDone
<1>8. CASE Https!Handle(c)
  BY <1>8 DEF Https!Handle
<1>9. CASE Https!HttpClose(c)
  BY <1>9 DEF Https!HttpClose
<1>10. CASE Https!ServeReturns(c)
  BY <1>10 DEF Https!ServeReturns
<1>11. CASE Https!Header(c) \/ Https!Body(c) \/ Https!NextRequest(c)
  BY <1>11 DEF Https!Header, Https!Body, Https!NextRequest, Https!HttpGoto
<1> QED
  BY <1>1, <1>2, <1>3, <1>4, <1>5, <1>6, <1>7, <1>8, <1>9, <1>10, <1>11 DEF Https!Goroutines, Https!Client

\* One byte sequence after another.
LEMMA Joined ==
  ASSUME NEW s \in Seq(Nat), NEW w \in Seq(Nat), NEW k \in Nat, Counts(s, k), Counts(w, k + Len(s))
  PROVE  s \o w \in Seq(Nat) /\ Len(s \o w) = Len(s) + Len(w) /\ Counts(s \o w, k)
<1>1. s \o w \in Seq(Nat) /\ Len(s \o w) = Len(s) + Len(w)
  OBVIOUS
<1>2. ASSUME NEW i \in 1..Len(s) + Len(w) PROVE (s \o w)[i] = k + i
  <2>1. CASE i <= Len(s)
    BY <2>1 DEF Counts
  <2>2. CASE i > Len(s)
    <3>1. i - Len(s) \in 1..Len(w)
      BY <2>2
    <3>2. (s \o w)[i] = w[i - Len(s)]
      BY <2>2
    <3>3. w[i - Len(s)] = (k + Len(s)) + (i - Len(s))
      BY <3>1 DEF Counts
    <3> QED
      BY <3>2, <3>3
  <2> QED
    BY <2>1, <2>2
<1> QED
  BY <1>1, <1>2 DEF Counts

\* The three kinds of reads.
LEMMA ReadToReplay ==
  ASSUME NEW st, NEW off \in Nat, NEW arr \in Nat, NEW in \in Seq(Nat), NEW rep \in Seq(Nat), NEW w \in Seq(Nat),
         Stream("capture", off, arr, in, rep), Len(w) = arr - off, Counts(w, off)
  PROVE  Stream(st, arr, arr, in, rep \o w)
<1>1. in = <<>> /\ Len(in) = 0 /\ Len(rep) = off /\ off <= arr /\ 0 + Len(rep) = off
  BY DEF Stream
<1>2. Counts(rep, 0) /\ Counts(w, 0 + Len(rep))
  BY <1>1 DEF Stream
<1>3. Len(rep \o w) = Len(rep) + Len(w) /\ Counts(rep \o w, 0)
  BY <1>2, Joined
<1> QED
  BY <1>1, <1>3 DEF Stream, Counts

LEMMA ReadReplay ==
  ASSUME NEW off \in Nat, NEW arr \in Nat, NEW in \in Seq(Nat), NEW rep \in Seq(Nat),
         Stream("handshake", off, arr, in, rep)
  PROVE  Stream("handshake", off, arr, in \o rep, <<>>)
<1>1. Len(in) + Len(rep) = off /\ off <= arr
  BY DEF Stream
<1>2. Counts(in, 0) /\ Counts(rep, 0 + Len(in))
  <2>1. 0 + Len(in) = Len(in)
    OBVIOUS
  <2> QED
    BY <2>1 DEF Stream
<1>3. in \o rep \in Seq(Nat) /\ Len(in \o rep) = Len(in) + Len(rep) /\ Counts(in \o rep, 0)
  BY <1>2, Joined
<1>4. Len(<<>>) = 0 /\ Counts(<<>>, Len(in \o rep))
  BY DEF Counts
<1>5. Len(in \o rep) + Len(<<>>) = off
  BY <1>1, <1>3, <1>4
<1> QED
  BY <1>1, <1>3, <1>4, <1>5 DEF Stream

LEMMA ReadConn ==
  ASSUME NEW off \in Nat, NEW arr \in Nat, NEW in \in Seq(Nat), NEW w \in Seq(Nat),
         Stream("handshake", off, arr, in, <<>>), Len(w) = arr - off, Counts(w, off)
  PROVE  Stream("handshake", arr, arr, in \o w, <<>>)
<1>1. Len(in) = off /\ off <= arr /\ 0 + Len(in) = off /\ Len(<<>>) = 0
  BY DEF Stream
<1>2. Counts(in, 0) /\ Counts(w, 0 + Len(in))
  BY <1>1 DEF Stream
<1>3. in \o w \in Seq(Nat) /\ Len(in \o w) = Len(in) + Len(w) /\ Counts(in \o w, 0)
  BY <1>2, Joined
<1>4. Counts(<<>>, Len(in \o w))
  BY DEF Counts
<1>5. Len(in \o w) + Len(<<>>) = arr
  BY <1>1, <1>3
<1> QED
  BY <1>1, <1>3, <1>4, <1>5 DEF Stream

\* What has been read is appended to the replay, or to the input of the
\* handshake, or goes from the one to the other.
LEMMA StreamPreserved == TlsInv /\ Https!Next => StreamInv'
<1> SUFFICES ASSUME TlsInv, NEW c \in Conns, Https!Goroutines(c) \/ Https!Client(c), NEW d \in Conns
             PROVE  Stream(pc'[d], offset'[d], arrived'[d], input'[d], replay'[d])
  BY DEF Https!Next, StreamInv
<1> USE DEF TlsInv, Https!Goto
<1>0. Stream(pc[d], offset[d], arrived[d], input[d], replay[d])
  BY DEF StreamInv
<1>1. ASSUME UNCHANGED <<arrived, offset, input, replay>>, pc'[d] \in {"none", "capture"} => pc[d] \in {"none", "capture"}
      PROVE  Stream(pc'[d], offset'[d], arrived'[d], input'[d], replay'[d])
  BY <1>0, <1>1 DEF Stream
<1>2. CASE Https!CaptureEnds(c) \/ Https!HandshakeFails(c) \/ Https!HandshakeDone(c) \/ Https!ServeReturns(c)
           \/ (\E p \in Plans : Https!Accept(c, p))
  <2>1. UNCHANGED <<arrived, offset, input, replay>>
    BY <1>2 DEF Https!CaptureEnds, Https!HandshakeFails, Https!HandshakeDone, Https!ServeReturns, Https!Accept
  <2>2. ASSUME pc'[d] \in {"none", "capture"} PROVE pc[d] \in {"none", "capture"}
    BY <1>2, <2>2 DEF TlsTypes, Https!CaptureEnds, Https!HandshakeFails, Https!HandshakeDone, Https!ServeReturns,
      Https!Accept
  <2> QED
    BY <1>1, <2>1, <2>2
<1>3. CASE Https!Handle(c) \/ Https!HttpClose(c) \/ Https!Header(c) \/ Https!Body(c) \/ Https!NextRequest(c)
  <2>1. UNCHANGED <<arrived, offset, input, replay, pc>>
    BY <1>3 DEF Https!Handle, Https!HttpClose, Https!Header, Https!Body, Https!NextRequest, Https!HttpGoto
  <2> QED
    BY <1>1, <2>1
<1>4. ASSUME NEW n \in plan[c].cuts, pc[c] # "none", Https!Arrive(c, n)
      PROVE  Stream(pc'[d], offset'[d], arrived'[d], input'[d], replay'[d])
  <2>1. n \in Nat /\ n > arrived[c]
    BY <1>4, PlansAssumption DEF HelloInv, Https!Arrive
  <2>2. arrived' = [arrived EXCEPT ![c] = n] /\ UNCHANGED <<pc, offset, input, replay>>
    BY <1>4 DEF Https!Arrive
  <2>3. offset[d] <= arrived'[d]
    BY <1>0, <2>1, <2>2 DEF TlsTypes, Stream
  <2> QED
    BY <1>0, <2>2, <2>3 DEF Stream
<1>5. PICK w : w = Https!Waiting(c) /\ w \in Seq(Nat) /\ Len(w) = arrived[c] - offset[c] /\ Counts(w, offset[c])
  BY WaitingIs
<1>6. offset[c] \in Nat /\ arrived[c] \in Nat /\ input[c] \in Seq(Nat) /\ replay[c] \in Seq(Nat)
  BY DEF TlsTypes
<1>7. CASE Https!CaptureRead(c)
  <2>1. /\ offset' = [offset EXCEPT ![c] = arrived[c]]
        /\ replay' = [replay EXCEPT ![c] = replay[c] \o w]
        /\ pc[c] = "capture"
        /\ UNCHANGED <<arrived, input>>
        /\ pc' \in {pc, [pc EXCEPT ![c] = "handshake"]}
    BY <1>5, <1>7 DEF Https!CaptureRead
  <2>2. CASE d = c
    <3>1. Stream("capture", offset[c], arrived[c], input[c], replay[c])
      BY <1>0, <2>1, <2>2
    <3>2. Stream(pc'[c], arrived[c], arrived[c], input[c], replay[c] \o w)
      BY <1>5, <1>6, <3>1, ReadToReplay
    <3> QED
      BY <2>1, <2>2, <3>2 DEF TlsTypes
  <2>3. CASE d # c
    BY <1>0, <2>1, <2>3 DEF TlsTypes
  <2> QED
    BY <2>2, <2>3
<1>8. CASE Https!HandshakeRead(c)
  <2>1. pc[c] = "handshake" /\ UNCHANGED <<arrived, pc>>
    BY <1>8 DEF Https!HandshakeRead
  <2>2. ASSUME replay[c] # <<>>, input' = [input EXCEPT ![c] = input[c] \o replay[c]],
               replay' = [replay EXCEPT ![c] = <<>>], UNCHANGED offset
        PROVE  Stream(pc'[d], offset'[d], arrived'[d], input'[d], replay'[d])
    <3>1. CASE d = c
      <4>1. Stream("handshake", offset[c], arrived[c], input[c] \o replay[c], <<>>)
        BY <1>0, <1>6, <2>1, <3>1, ReadReplay
      <4> QED
        BY <2>1, <2>2, <3>1, <4>1 DEF TlsTypes
    <3>2. CASE d # c
      BY <1>0, <2>1, <2>2, <3>2 DEF TlsTypes
    <3> QED
      BY <3>1, <3>2
  <2>3. ASSUME replay[c] = <<>>, input' = [input EXCEPT ![c] = input[c] \o w],
               offset' = [offset EXCEPT ![c] = arrived[c]], UNCHANGED replay
        PROVE  Stream(pc'[d], offset'[d], arrived'[d], input'[d], replay'[d])
    <3>1. CASE d = c
      <4>1. Stream("handshake", offset[c], arrived[c], input[c], <<>>)
        BY <1>0, <2>1, <2>3, <3>1
      <4>2. Stream("handshake", arrived[c], arrived[c], input[c] \o w, <<>>)
        BY <1>5, <1>6, <4>1, ReadConn
      <4> QED
        BY <2>1, <2>3, <3>1, <4>2 DEF TlsTypes
    <3>2. CASE d # c
      BY <1>0, <2>1, <2>3, <3>2 DEF TlsTypes
    <3> QED
      BY <3>1, <3>2
  <2> QED
    BY <1>5, <1>8, <2>2, <2>3 DEF Https!HandshakeRead
<1> QED
  BY <1>2, <1>3, <1>4, <1>7, <1>8 DEF Https!Goroutines, Https!Client

\* The Hello is the plan's, what is shown is the Hello, and both stay.
LEMMA HelloPreserved == TlsInv /\ Https!Next => HelloInv' /\ ShownInv'
<1> SUFFICES ASSUME TlsInv, NEW c \in Conns, Https!Goroutines(c) \/ Https!Client(c)
             PROVE  HelloInv' /\ ShownInv'
  BY DEF Https!Next
<1> USE DEF TlsInv, TlsTypes, PcStates, HttpStates, Https!Goto
<1>1. ASSUME NEW p \in Plans, Https!Accept(c, p) PROVE HelloInv' /\ ShownInv'
  BY <1>1 DEF Https!Accept, HelloInv, ShownInv
<1>2. ASSUME NEW n \in plan[c].cuts, Https!Arrive(c, n) PROVE HelloInv' /\ ShownInv'
  BY <1>2 DEF Https!Arrive, HelloInv, ShownInv
<1>3. CASE Https!CaptureRead(c)
  <2>1. pc[c] = "capture" /\ arrived[c] \in Nat /\ plan[c] \in Plans
    BY <1>3 DEF Https!CaptureRead, HelloInv
  <2>2. PICK h \in {None, plan[c].hello} : h = Https!ParseClientHello(Https!Received(c, arrived[c]))
    BY <2>1, CapturedIs
  <2>3. hello' = [hello EXCEPT ![c] = h] /\ UNCHANGED <<plan, shown>>
    BY <1>3, <2>2 DEF Https!CaptureRead
  <2>4. pc' = IF hello'[c] = None THEN pc ELSE [pc EXCEPT ![c] = "handshake"]
    BY <1>3 DEF Https!CaptureRead
  <2>5. hello'[c] = h
    BY <2>3
  <2>6. HelloInv'
    <3> SUFFICES ASSUME NEW d \in Conns
                 PROVE  /\ pc'[d] = "none" => hello'[d] = None
                        /\ pc'[d] # "none" => plan'[d] \in Plans /\ hello'[d] \in {None, plan'[d].hello}
                        /\ pc'[d] \in {"handshake", "serving"} => hello'[d] # None
      BY DEF HelloInv
    <3>1. CASE d = c
      BY <2>1, <2>2, <2>3, <2>4, <2>5, <3>1
    <3>2. CASE d # c
      BY <2>3, <2>4, <3>2 DEF HelloInv
    <3> QED
      BY <3>1, <3>2
  <2>7. \A d \in Conns : pc[d] # "none" => pc'[d] # "none"
    BY <2>4
  <2>8. ShownInv'
    BY <2>3, <2>7 DEF ShownInv
  <2> QED
    BY <2>6, <2>8
<1>4. CASE Https!CaptureEnds(c)
  BY <1>4 DEF Https!CaptureEnds, HelloInv, ShownInv
<1>5. CASE Https!HandshakeRead(c)
  BY <1>5 DEF Https!HandshakeRead, HelloInv, ShownInv
<1>6. CASE Https!HandshakeFails(c)
  BY <1>6 DEF Https!HandshakeFails, HelloInv, ShownInv
<1>7. CASE Https!HandshakeDone(c)
  BY <1>7 DEF Https!HandshakeDone, HelloInv, ShownInv
<1>8. CASE Https!Handle(c)
  <2>1. pc[c] = "serving"
    BY <1>8 DEF Https!Handle, ServeInv
  <2>2. hello[c] = plan[c].hello
    BY <2>1 DEF HelloInv
  <2>3. UNCHANGED <<pc, plan, hello>> /\ shown' = shown \cup {<<c, hello[c]>>}
    BY <1>8 DEF Https!Handle
  <2>4. ASSUME NEW s \in shown', NEW d \in Conns, s[1] = d PROVE pc[d] # "none" /\ s[2] = plan[d].hello
    <3>1. CASE s \in shown
      BY <2>4, <3>1 DEF ShownInv
    <3>2. CASE s = <<c, hello[c]>>
      <4>1. s[1] = c /\ s[2] = hello[c]
        BY <3>2
      <4> QED
        BY <2>1, <2>2, <2>4, <4>1
    <3> QED
      BY <2>3, <3>1, <3>2
  <2> QED
    BY <2>3, <2>4 DEF HelloInv, ShownInv
<1>9. CASE Https!HttpClose(c)
  BY <1>9 DEF Https!HttpClose, HelloInv, ShownInv
<1>10. CASE Https!ServeReturns(c)
  BY <1>10 DEF Https!ServeReturns, HelloInv, ShownInv
<1>11. CASE Https!Header(c) \/ Https!Body(c) \/ Https!NextRequest(c)
  BY <1>11 DEF Https!Header, Https!Body, Https!NextRequest, Https!HttpGoto, HelloInv, ShownInv
<1> QED
  BY <1>1, <1>2, <1>3, <1>4, <1>5, <1>6, <1>7, <1>8, <1>9, <1>10, <1>11 DEF Https!Goroutines, Https!Client

\* The raw connection is closed by whoever ends its use.
LEMMA ServePreserved == TlsInv /\ Https!Next => ServeInv'
<1> SUFFICES ASSUME TlsInv, NEW c \in Conns, Https!Goroutines(c) \/ Https!Client(c) PROVE ServeInv'
  BY DEF Https!Next
<1> USE DEF TlsInv, TlsTypes, PcStates, HttpStates, ServeInv, Https!Goto
<1>1. ASSUME NEW p \in Plans, Https!Accept(c, p) PROVE ServeInv'
  BY <1>1 DEF Https!Accept
<1>2. ASSUME NEW n \in plan[c].cuts, Https!Arrive(c, n) PROVE ServeInv'
  BY <1>2 DEF Https!Arrive
<1>3. CASE Https!CaptureRead(c)
  <2>1. pc[c] = "capture" /\ pc' \in {pc, [pc EXCEPT ![c] = "handshake"]} /\ UNCHANGED <<http, done, rawOpen>>
    BY <1>3 DEF Https!CaptureRead
  <2> QED
    BY <2>1
<1>4. CASE Https!CaptureEnds(c)
  BY <1>4 DEF Https!CaptureEnds
<1>5. CASE Https!HandshakeRead(c)
  BY <1>5 DEF Https!HandshakeRead
<1>6. CASE Https!HandshakeFails(c)
  BY <1>6 DEF Https!HandshakeFails
<1>7. CASE Https!HandshakeDone(c)
  BY <1>7 DEF Https!HandshakeDone
<1>8. CASE Https!Handle(c)
  BY <1>8 DEF Https!Handle
<1>9. CASE Https!HttpClose(c)
  BY <1>9 DEF Https!HttpClose
<1>10. CASE Https!ServeReturns(c)
  BY <1>10 DEF Https!ServeReturns
<1>11. CASE Https!Header(c) \/ Https!Body(c) \/ Https!NextRequest(c)
  BY <1>11 DEF Https!Header, Https!Body, Https!NextRequest, Https!HttpGoto
<1> QED
  BY <1>1, <1>2, <1>3, <1>4, <1>5, <1>6, <1>7, <1>8, <1>9, <1>10, <1>11 DEF Https!Goroutines, Https!Client

LEMMA TlsInvariant == Spec => []TlsInv
<1>1. Init => TlsInv
  BY TlsInit DEF Init
<1>2. TlsInv /\ [Next]_vars => TlsInv'
  <2> SUFFICES ASSUME TlsInv, [Next]_vars PROVE TlsInv'
    OBVIOUS
  <2>1. CASE Https!Next
    BY <2>1, TlsTypesPreserved, StreamPreserved, HelloPreserved, ServePreserved DEF TlsInv
  <2>2. CASE UNCHANGED tlsVars
    <3>1. TlsTypes'
      BY <2>2 DEF tlsVars, TlsInv, TlsTypes
    <3>2. StreamInv' /\ HelloInv' /\ ShownInv' /\ ServeInv'
      BY <2>2 DEF tlsVars, TlsInv, StreamInv, HelloInv, ShownInv, ServeInv
    <3> QED
      BY <3>1, <3>2 DEF TlsInv
  <2> QED
    BY <2>1, <2>2 DEF Next, RedisStep, SshStep, TlsStep, KeysStep, vars
<1> QED
  BY <1>1, <1>2, PTL DEF Spec

\* The handshake sees the client's bytes once each and in order, a request is
\* shown its own client's Hello, and the connection is open while it is served
\* (tls.go:14-16 and 101-102), however the bytes were cut into records and
\* segments.
THEOREM HandshakeSeesTheConnection == Spec => []ServedAsItCame
<1>1. TlsInv => ServedAsItCame
  <2> SUFFICES ASSUME TlsInv, NEW c \in Conns
               PROVE  /\ input[c] = [i \in 1..Len(input[c]) |-> i]
                      /\ http[c] \notin {"none", "closed"} => rawOpen[c] /\ pc[c] = "serving"
                      /\ \A s \in shown : s[1] = c => s[2] = plan[c].hello
    BY DEF ServedAsItCame, Https!ServedAsItCame
  <2>1. input[c] \in Seq(Nat) /\ \A i \in 1..Len(input[c]) : input[c][i] = i
    BY DEF TlsInv, TlsTypes, StreamInv, Stream, Counts
  <2>2. input[c] = [i \in 1..Len(input[c]) |-> i]
    <3>1. PICK w \in Seq(Nat) : w = input[c]
      BY <2>1
    <3>2. w = [i \in 1..Len(w) |-> w[i]]
      BY ONLY <3>1
    <3>3. w = [i \in 1..Len(w) |-> i]
      BY ONLY <2>1, <3>1, <3>2
    <3> QED
      BY ONLY <3>1, <3>3
  <2> QED
    BY <2>2 DEF TlsInv, ServeInv, ShownInv
<1> QED
  BY <1>1, TlsInvariant, PTL

-----------------------------------------------------------------------------
(* The identity on disk.                                                   *)

\* What was seen of the host key is in its file, and so is the key SSH serves,
\* which it does once EnsureHostKey has returned; a key is made only when
\* nothing of an old one counts as seen.
HostInv ==
  /\ known["host_key"] # Identity!Absent => disk["host_key"] = known["host_key"]
  /\ host > 0 => disk["host_key"] = host
  /\ main \in {"down", "host_key", "host_key_write"} => host = 0
  /\ main = "host_key_write" => known["host_key"] = Identity!Absent /\ lastKey > 0
  /\ main \in {"cert", "cert_write", "key_open", "key_write", "load", "up"} => host > 0

\* What was seen of the pair is in both files, and so is the pair HTTPS serves.
PairInv ==
  /\ known["cert"] # Identity!Absent => disk["cert"] = known["cert"] /\ disk["key"] = known["cert"]
  /\ pair > 0 => disk["cert"] = pair /\ disk["key"] = pair
  /\ main # "up" => pair = 0
  /\ main \in {"cert_write", "key_open", "key_write"} => known["cert"] = Identity!Absent /\ lastKey > 0
  /\ main \in {"key_open", "key_write"} => disk["cert"] = lastKey
  /\ main = "load" => disk["cert"] # Identity!Absent /\ disk["key"] # Identity!Absent

\* The inductive invariant.
KeysInv == Identity!TypeOK /\ HostInv /\ PairInv /\ FatalMeansTorn

LEMMA InitKeysInv == Identity!Init => KeysInv
  BY BoundsAssumption DEF Identity!Init, KeysInv, Identity!TypeOK, HostInv, PairInv, FatalMeansTorn,
    Identity!FatalMeansTorn, Identity!Files, Identity!Identities, Identity!Absent, Identity!Torn

\* The type invariant is preserved by every step.
LEMMA KeysTypePreserved == Identity!TypeOK /\ HostInv /\ [Identity!Next]_(Identity!vars) => Identity!TypeOK'
<1> SUFFICES ASSUME Identity!TypeOK, HostInv, [Identity!Next]_(Identity!vars) PROVE Identity!TypeOK'
  OBVIOUS
<1> USE BoundsAssumption DEF Identity!TypeOK, HostInv, Identity!Files, Identity!Identities, Identity!Absent, Identity!Torn, Identity!Goto
<1>1. CASE Identity!Start
  BY <1>1 DEF Identity!Start
<1>2. CASE Identity!HostKeyRead
  BY <1>2 DEF Identity!HostKeyRead
<1>3. CASE Identity!HostKeyBad
  BY <1>3 DEF Identity!HostKeyBad
<1>4. CASE Identity!HostKeyNew
  BY <1>4 DEF Identity!HostKeyNew, Identity!GenerateHostKey, Identity!Truncate, Identity!Forget
<1>5. CASE Identity!HostKeyWritten
  BY <1>5 DEF Identity!HostKeyWritten, Identity!Fill
<1>6. CASE Identity!HostKeyFails
  BY <1>6 DEF Identity!HostKeyFails, Identity!FailsAt, Identity!Fill
<1>7. CASE Identity!CertKept
  BY <1>7 DEF Identity!CertKept, Identity!CertFound
<1>8. CASE Identity!CertNew
  BY <1>8 DEF Identity!CertNew, Identity!CertFound, Identity!Truncate, Identity!Forget
<1>9. CASE Identity!CertWritten
  BY <1>9 DEF Identity!CertWritten, Identity!Fill
<1>10. CASE Identity!KeyOpened
  BY <1>10 DEF Identity!KeyOpened, Identity!Truncate
<1>11. CASE Identity!KeyWritten
  BY <1>11 DEF Identity!KeyWritten, Identity!Fill
<1>12. CASE Identity!CertFails
  BY <1>12 DEF Identity!CertFails, Identity!FailsAt, Identity!Fill
<1>13. CASE Identity!Loaded
  BY <1>13 DEF Identity!Loaded
<1>14. CASE Identity!LoadFails
  BY <1>14 DEF Identity!LoadFails
<1>15. CASE Identity!TlsFails
  BY <1>15 DEF Identity!TlsFails, Identity!FailsAt
<1>16. CASE Identity!ShowHostKey
  BY <1>16 DEF Identity!ShowHostKey
<1>17. CASE Identity!ShowCert
  BY <1>17 DEF Identity!ShowCert
<1>18. CASE Identity!Down
  BY <1>18 DEF Identity!Down
<1>19. ASSUME NEW f \in Identity!Files, Identity!Remove(f) PROVE Identity!TypeOK'
  BY <1>19 DEF Identity!Remove, Identity!Forget
<1>20. CASE UNCHANGED Identity!vars
  BY <1>20 DEF Identity!vars
<1> QED
  BY <1>1, <1>2, <1>3, <1>4, <1>5, <1>6, <1>7, <1>8, <1>9, <1>10, <1>11, <1>12, <1>13, <1>14,
     <1>15, <1>16, <1>17, <1>18, <1>19, <1>20
  DEF Identity!Next, Identity!Ensure

\* A host key that counts as seen stays in its file: the file is opened only when
\* it is not there or could not be read.
LEMMA HostPreserved == KeysInv /\ [Identity!Next]_(Identity!vars) => HostInv'
<1> SUFFICES ASSUME KeysInv, [Identity!Next]_(Identity!vars) PROVE HostInv'
  OBVIOUS
<1> USE DEF KeysInv, Identity!TypeOK, HostInv, Identity!Files, Identity!Identities, Identity!Absent, Identity!Torn, Identity!Goto
<1>1. CASE Identity!Start
  BY <1>1 DEF Identity!Start
<1>2. CASE Identity!HostKeyRead
  BY <1>2 DEF Identity!HostKeyRead
<1>3. CASE Identity!HostKeyBad
  BY <1>3 DEF Identity!HostKeyBad
<1>4. CASE Identity!HostKeyNew
  BY <1>4 DEF Identity!HostKeyNew, Identity!GenerateHostKey, Identity!Truncate, Identity!Forget
<1>5. CASE Identity!HostKeyWritten
  BY <1>5 DEF Identity!HostKeyWritten, Identity!Fill
<1>6. CASE Identity!HostKeyFails
  BY <1>6 DEF Identity!HostKeyFails, Identity!FailsAt, Identity!Fill
<1>7. CASE Identity!CertKept
  BY <1>7 DEF Identity!CertKept, Identity!CertFound
<1>8. CASE Identity!CertNew
  BY <1>8 DEF Identity!CertNew, Identity!CertFound, Identity!Truncate, Identity!Forget
<1>9. CASE Identity!CertWritten
  BY <1>9 DEF Identity!CertWritten, Identity!Fill
<1>10. CASE Identity!KeyOpened
  BY <1>10 DEF Identity!KeyOpened, Identity!Truncate
<1>11. CASE Identity!KeyWritten
  BY <1>11 DEF Identity!KeyWritten, Identity!Fill
<1>12. CASE Identity!CertFails
  BY <1>12 DEF Identity!CertFails, Identity!FailsAt, Identity!Fill
<1>13. CASE Identity!Loaded
  BY <1>13 DEF Identity!Loaded
<1>14. CASE Identity!LoadFails
  BY <1>14 DEF Identity!LoadFails
<1>15. CASE Identity!TlsFails
  BY <1>15 DEF Identity!TlsFails, Identity!FailsAt
<1>16. CASE Identity!ShowHostKey
  BY <1>16 DEF Identity!ShowHostKey
<1>17. CASE Identity!ShowCert
  BY <1>17 DEF Identity!ShowCert
<1>18. CASE Identity!Down
  BY <1>18 DEF Identity!Down
<1>19. ASSUME NEW f \in Identity!Files, Identity!Remove(f) PROVE HostInv'
  BY <1>19 DEF Identity!Remove, Identity!Forget
<1>20. CASE UNCHANGED Identity!vars
  BY <1>20 DEF Identity!vars
<1> QED
  BY <1>1, <1>2, <1>3, <1>4, <1>5, <1>6, <1>7, <1>8, <1>9, <1>10, <1>11, <1>12, <1>13, <1>14,
     <1>15, <1>16, <1>17, <1>18, <1>19, <1>20
  DEF Identity!Next, Identity!Ensure

\* A pair that counts as seen stays in its files: they are opened only when one of
\* the two was not found, and then no pair counts as seen.
LEMMA PairPreserved == KeysInv /\ [Identity!Next]_(Identity!vars) => PairInv'
<1> SUFFICES ASSUME KeysInv, [Identity!Next]_(Identity!vars) PROVE PairInv'
  OBVIOUS
<1> USE DEF KeysInv, Identity!TypeOK, PairInv, Identity!Files, Identity!Identities, Identity!Absent, Identity!Torn, Identity!Goto
<1>1. CASE Identity!Start
  BY <1>1 DEF Identity!Start
<1>2. CASE Identity!HostKeyRead
  BY <1>2 DEF Identity!HostKeyRead
<1>3. CASE Identity!HostKeyBad
  BY <1>3 DEF Identity!HostKeyBad
<1>4. CASE Identity!HostKeyNew
  BY <1>4 DEF Identity!HostKeyNew, Identity!GenerateHostKey, Identity!Truncate, Identity!Forget
<1>5. CASE Identity!HostKeyWritten
  BY <1>5 DEF Identity!HostKeyWritten, Identity!Fill
<1>6. CASE Identity!HostKeyFails
  BY <1>6 DEF Identity!HostKeyFails, Identity!FailsAt, Identity!Fill
<1>7. CASE Identity!CertKept
  BY <1>7 DEF Identity!CertKept, Identity!CertFound
<1>8. CASE Identity!CertNew
  BY <1>8 DEF Identity!CertNew, Identity!CertFound, Identity!Truncate, Identity!Forget
<1>9. CASE Identity!CertWritten
  BY <1>9 DEF Identity!CertWritten, Identity!Fill
<1>10. CASE Identity!KeyOpened
  BY <1>10 DEF Identity!KeyOpened, Identity!Truncate
<1>11. CASE Identity!KeyWritten
  BY <1>11 DEF Identity!KeyWritten, Identity!Fill
<1>12. CASE Identity!CertFails
  BY <1>12 DEF Identity!CertFails, Identity!FailsAt, Identity!Fill
<1>13. CASE Identity!Loaded
  BY <1>13 DEF Identity!Loaded
<1>14. CASE Identity!LoadFails
  BY <1>14 DEF Identity!LoadFails
<1>15. CASE Identity!TlsFails
  BY <1>15 DEF Identity!TlsFails, Identity!FailsAt
<1>16. CASE Identity!ShowHostKey
  BY <1>16 DEF Identity!ShowHostKey
<1>17. CASE Identity!ShowCert
  BY <1>17 DEF Identity!ShowCert
<1>18. CASE Identity!Down
  BY <1>18 DEF Identity!Down
<1>19. ASSUME NEW f \in Identity!Files, Identity!Remove(f) PROVE PairInv'
  BY <1>19 DEF Identity!Remove, Identity!Forget
<1>20. CASE UNCHANGED Identity!vars
  BY <1>20 DEF Identity!vars
<1> QED
  BY <1>1, <1>2, <1>3, <1>4, <1>5, <1>6, <1>7, <1>8, <1>9, <1>10, <1>11, <1>12, <1>13, <1>14,
     <1>15, <1>16, <1>17, <1>18, <1>19, <1>20
  DEF Identity!Next, Identity!Ensure

\* fatal is reached from a torn host key, or from a load of two files that are
\* there and do not match.
LEMMA FatalPreserved == KeysInv /\ [Identity!Next]_(Identity!vars) => FatalMeansTorn'
<1> SUFFICES ASSUME KeysInv, [Identity!Next]_(Identity!vars) PROVE FatalMeansTorn'
  OBVIOUS
<1> USE DEF KeysInv, Identity!TypeOK, PairInv, FatalMeansTorn, Identity!FatalMeansTorn, Identity!Files, Identity!Identities, Identity!Absent, Identity!Torn, Identity!Goto
<1>1. CASE Identity!Start
  BY <1>1 DEF Identity!Start
<1>2. CASE Identity!HostKeyRead
  BY <1>2 DEF Identity!HostKeyRead
<1>3. CASE Identity!HostKeyBad
  BY <1>3 DEF Identity!HostKeyBad
<1>4. CASE Identity!HostKeyNew
  BY <1>4 DEF Identity!HostKeyNew, Identity!GenerateHostKey, Identity!Truncate, Identity!Forget
<1>5. CASE Identity!HostKeyWritten
  BY <1>5 DEF Identity!HostKeyWritten, Identity!Fill
<1>6. CASE Identity!HostKeyFails
  BY <1>6 DEF Identity!HostKeyFails, Identity!FailsAt, Identity!Fill
<1>7. CASE Identity!CertKept
  BY <1>7 DEF Identity!CertKept, Identity!CertFound
<1>8. CASE Identity!CertNew
  BY <1>8 DEF Identity!CertNew, Identity!CertFound, Identity!Truncate, Identity!Forget
<1>9. CASE Identity!CertWritten
  BY <1>9 DEF Identity!CertWritten, Identity!Fill
<1>10. CASE Identity!KeyOpened
  BY <1>10 DEF Identity!KeyOpened, Identity!Truncate
<1>11. CASE Identity!KeyWritten
  BY <1>11 DEF Identity!KeyWritten, Identity!Fill
<1>12. CASE Identity!CertFails
  BY <1>12 DEF Identity!CertFails, Identity!FailsAt, Identity!Fill
<1>13. CASE Identity!Loaded
  BY <1>13 DEF Identity!Loaded
<1>14. CASE Identity!LoadFails
  BY <1>14 DEF Identity!LoadFails
<1>15. CASE Identity!TlsFails
  BY <1>15 DEF Identity!TlsFails, Identity!FailsAt
<1>16. CASE Identity!ShowHostKey
  BY <1>16 DEF Identity!ShowHostKey
<1>17. CASE Identity!ShowCert
  BY <1>17 DEF Identity!ShowCert
<1>18. CASE Identity!Down
  BY <1>18 DEF Identity!Down
<1>19. ASSUME NEW f \in Identity!Files, Identity!Remove(f) PROVE FatalMeansTorn'
  BY <1>19 DEF Identity!Remove, Identity!Forget
<1>20. CASE UNCHANGED Identity!vars
  BY <1>20 DEF Identity!vars
<1> QED
  BY <1>1, <1>2, <1>3, <1>4, <1>5, <1>6, <1>7, <1>8, <1>9, <1>10, <1>11, <1>12, <1>13, <1>14,
     <1>15, <1>16, <1>17, <1>18, <1>19, <1>20
  DEF Identity!Next, Identity!Ensure

LEMMA KeysInvariant == Spec => []KeysInv
<1>1. Init => KeysInv
  BY InitKeysInv DEF Init
<1>2. KeysInv /\ [Next]_vars => KeysInv'
  <2>1. KeysInv /\ [Identity!Next]_(Identity!vars) => KeysInv'
    BY KeysTypePreserved, HostPreserved, PairPreserved, FatalPreserved DEF KeysInv
  <2>2. [Next]_vars => [Identity!Next]_(Identity!vars)
    BY DEF Next, RedisStep, SshStep, TlsStep, KeysStep, vars, keyVars, Identity!vars
  <2> QED
    BY <2>1, <2>2
<1> QED
  BY <1>1, <1>2, PTL DEF Spec

\* The key files keep their types, and main is done with its listeners only with
\* both identities.
THEOREM KeysTypeCorrect == Spec => []Identity!TypeOK
<1>1. KeysInv => Identity!TypeOK
  BY DEF KeysInv
<1> QED
  BY <1>1, KeysInvariant, PTL

\* Missing files are made good on every start (hostkey.go:29-35,
\* cert.go:29-62): a start is refused for what the files hold only over a torn
\* file or two halves of different pairs.
THEOREM OnlyTornFilesAreFatal == Spec => []FatalMeansTorn
<1>1. KeysInv => FatalMeansTorn
  BY DEF KeysInv
<1> QED
  BY <1>1, KeysInvariant, PTL

\* A client is shown a host key or a certificate only when it is wholly on disk
\* (hostkey.go:33, main.go:178-187, cert.go:57-62), and what was shown is shown
\* by every later start, through any number of kills and failed operations,
\* unless the operator removes it or a start cannot read it.
THEOREM IdentityStays == Spec => IdentityIsStable
<1>1. (KeysInv => Identity!KnownIsOnDisk)'
  BY DEF KeysInv, HostInv, PairInv, Identity!KnownIsOnDisk
<1>2. ASSUME KeysInv, [Next]_vars
      PROVE  [\A i \in Identity!Identities : known[i] # Identity!Absent
                => known'[i] \in {known[i], Identity!Absent}]_(Identity!vars)
  <2>1. [Identity!Next]_(Identity!vars)
    BY <1>2 DEF Next, RedisStep, SshStep, TlsStep, KeysStep, vars, keyVars, Identity!vars
  <2>2. known \in [Identity!Identities -> {Identity!Absent} \cup 1..lastKey]
    BY <1>2 DEF KeysInv, Identity!TypeOK
  <2>3. CASE Identity!ShowHostKey
    BY <1>2, <2>2, <2>3 DEF KeysInv, HostInv, Identity!ShowHostKey, Identity!Identities
  <2>4. CASE Identity!ShowCert
    BY <1>2, <2>2, <2>4 DEF KeysInv, PairInv, Identity!ShowCert, Identity!Identities
  <2>5. ASSUME NEW i \in Identity!Identities, Identity!Forget(i)
        PROVE  \A k \in Identity!Identities : known'[k] \in {known[k], Identity!Absent}
    BY <2>2, <2>5 DEF Identity!Forget, Identity!Identities
  <2>6. CASE Identity!HostKeyNew \/ Identity!CertNew
    <3>1. UNCHANGED known \/ \E i \in Identity!Identities : Identity!Forget(i)
      BY <2>6 DEF Identity!HostKeyNew, Identity!GenerateHostKey, Identity!CertNew, Identity!Identities
    <3> QED
      BY <2>5, <3>1
  <2>7. CASE \E f \in Identity!Files : Identity!Remove(f)
    <3>1. \E i \in Identity!Identities : Identity!Forget(i)
      BY <2>7 DEF Identity!Remove, Identity!Identities
    <3> QED
      BY <2>5, <3>1
  <2>8. CASE UNCHANGED known
    BY <2>8
  <2> QED
    BY <2>1, <2>3, <2>4, <2>6, <2>7, <2>8 DEF Identity!Next, Identity!Ensure, Identity!Start, Identity!HostKeyRead,
      Identity!HostKeyBad, Identity!HostKeyWritten, Identity!HostKeyFails, Identity!CertKept, Identity!CertWritten,
      Identity!KeyOpened, Identity!KeyWritten, Identity!CertFails, Identity!Loaded, Identity!LoadFails,
      Identity!TlsFails, Identity!Down, Identity!vars
<1>3. ASSUME KeysInv, KeysInv', [Next]_vars
      PROVE  [/\ Identity!KnownIsOnDisk'
              /\ \A i \in Identity!Identities : known[i] # Identity!Absent
                    => known'[i] \in {known[i], Identity!Absent}]_(Identity!vars)
  BY <1>1, <1>2, <1>3
<1> QED
  BY <1>3, KeysInvariant, PTL DEF Spec, IdentityIsStable, Identity!IdentityIsStable

-----------------------------------------------------------------------------
(* The end of a line.                                                      *)

IsEnd(b, j) == j + 1 \in DOMAIN b /\ b[j] = 13 /\ b[j + 1] = 10

LEMMA IndexFound ==
  ASSUME NEW b \in Seq(Nat), NEW i \in Nat \ {0}, Redis!BytesIndexCR(b, i) # -1
  PROVE  /\ Redis!BytesIndexCR(b, i) \in Nat /\ i + Redis!BytesIndexCR(b, i) + 1 <= Len(b)
         /\ IsEnd(b, i + Redis!BytesIndexCR(b, i))
         /\ \A j \in i..i + Redis!BytesIndexCR(b, i) - 1 : ~IsEnd(b, j)
<1> DEFINE ends == {j \in i..Len(b) - 1 : b[j] = 13 /\ b[j + 1] = 10}
<1>1. Redis!BytesIndexCR(b, i) = IF ends = {} THEN -1 ELSE Redis!Min(ends) - i
  BY DEF Redis!BytesIndexCR, Redis!CR, Redis!LF
<1>2. ends # {} /\ Redis!BytesIndexCR(b, i) = Redis!Min(ends) - i
  BY <1>1
<1>3. Redis!Min(ends) \in ends /\ \A x \in ends : Redis!Min(ends) <= x
  <2>1. ends \in SUBSET (1..Len(b)) /\ Len(b) \in Nat
    OBVIOUS
  <2> HIDE DEF ends
  <2> QED
    BY <1>2, <2>1, LeastIn
<1>4. PICK e : e = Redis!Min(ends)
  OBVIOUS
<1>5. e \in i..Len(b) - 1 /\ b[e] = 13 /\ b[e + 1] = 10 /\ (\A x \in ends : e <= x) /\ Redis!BytesIndexCR(b, i) = e - i
  BY <1>2, <1>3, <1>4
<1>6. ASSUME NEW j \in i..e - 1, IsEnd(b, j) PROVE FALSE
  <2>1. j \in ends
    BY <1>5, <1>6 DEF IsEnd
  <2>2. e <= j
    BY <1>5, <2>1
  <2> QED
    BY <1>5, <2>2
<1>7. e - i \in Nat /\ i + (e - i) = e /\ e + 1 <= Len(b) /\ IsEnd(b, e)
  BY <1>5 DEF IsEnd
<1> HIDE DEF ends
<1> QED
  BY <1>5, <1>6, <1>7

LEMMA IndexIs ==
  ASSUME NEW b \in Seq(Nat), NEW i \in Nat \ {0}, NEW e \in Nat, e >= i, IsEnd(b, e),
         \A j \in i..e - 1 : ~IsEnd(b, j)
  PROVE  Redis!BytesIndexCR(b, i) = e - i
<1> DEFINE ends == {j \in i..Len(b) - 1 : b[j] = 13 /\ b[j + 1] = 10}
<1>1. e \in ends
  BY DEF IsEnd
<1>2. ASSUME NEW x \in ends PROVE e <= x
  BY <1>2 DEF IsEnd
<1>3. ends \in SUBSET (1..Len(b)) /\ Len(b) \in Nat
  OBVIOUS
<1>4. Redis!BytesIndexCR(b, i) = IF ends = {} THEN -1 ELSE Redis!Min(ends) - i
  BY DEF Redis!BytesIndexCR, Redis!CR, Redis!LF
<1> HIDE DEF ends
<1>5. Redis!Min(ends) \in ends /\ \A x \in ends : Redis!Min(ends) <= x
  BY <1>1, <1>3, LeastIn
<1>6. Redis!Min(ends) = e
  <2>1. PICK y : y = Redis!Min(ends)
    OBVIOUS
  <2>2. y \in 1..Len(b) /\ y <= e
    BY <1>1, <1>3, <1>5, <2>1
  <2>3. e <= y
    BY <1>2, <1>5, <2>1
  <2> QED
    BY <2>1, <2>2, <2>3
<1> QED
  BY <1>1, <1>4, <1>6

LEMMA IndexMissing ==
  ASSUME NEW b \in Seq(Nat), NEW i \in Nat \ {0}, \A j \in i..Len(b) - 1 : ~IsEnd(b, j)
  PROVE  Redis!BytesIndexCR(b, i) = -1
<1>1. {j \in i..Len(b) - 1 : b[j] = 13 /\ b[j + 1] = 10} = {}
  BY DEF IsEnd
<1> QED
  BY <1>1 DEF Redis!BytesIndexCR, Redis!CR, Redis!LF

LEMMA NotFoundMeans ==
  ASSUME NEW b \in Seq(Nat), NEW i \in Nat \ {0}, Redis!BytesIndexCR(b, i) < 0 \/ Redis!BytesIndexCR(b, i) = -1, NEW j \in i..Len(b) - 1
  PROVE  ~IsEnd(b, j)
<1>1. Redis!BytesIndexCR(b, i) = -1
  BY IndexFound
<1> SUFFICES ASSUME IsEnd(b, j) PROVE FALSE
  OBVIOUS
<1> DEFINE ends == {x \in i..Len(b) - 1 : b[x] = 13 /\ b[x + 1] = 10}
<1>2. j \in ends
  BY DEF IsEnd
<1>3. Redis!BytesIndexCR(b, i) = IF ends = {} THEN -1 ELSE Redis!Min(ends) - i
  BY DEF Redis!BytesIndexCR, Redis!CR, Redis!LF
<1>4. Redis!Min(ends) \in ends
  <2>1. ends \in SUBSET (1..Len(b)) /\ Len(b) \in Nat
    OBVIOUS
  <2> HIDE DEF ends
  <2> QED
    BY <1>2, <2>1, LeastIn
<1>5. \A x \in ends : x >= i /\ x \in Int
  OBVIOUS
<1> HIDE DEF ends
<1>6. Redis!Min(ends) - i # -1
  BY <1>4, <1>5
<1> QED
  BY <1>1, <1>2, <1>3, <1>6

-----------------------------------------------------------------------------
(* Types of what is parsed.                                                *)

LEMMA TrimType ==
  ASSUME NEW s \in Seq(Nat), NEW cut
  PROVE  Redis!Trim(s, cut) \in Seq(Nat)
<1> DEFINE kept == {i \in DOMAIN s : s[i] \notin cut}
<1>1. CASE kept = {}
  BY <1>1 DEF Redis!Trim
<1>2. CASE kept # {}
  <2>1. kept \in SUBSET (1..Len(s)) /\ Len(s) \in Nat
    OBVIOUS
  <2>2. Redis!Trim(s, cut) = SubSeq(s, Redis!Min(kept), Redis!Max(kept))
    BY <1>2 DEF Redis!Trim
  <2> HIDE DEF kept
  <2>3. Redis!Min(kept) \in 1..Len(s)
    BY <1>2, <2>1, LeastIn
  <2>4. Redis!Max(kept) \in 1..Len(s)
    BY <1>2, <2>1, GreatestIn DEF Redis!Max, Greatest
  <2> QED
    BY <2>2, <2>3, <2>4
<1> QED
  BY <1>1, <1>2

\* Words, none of them empty.
Texts == Seq(Nat) \ {<<>>}

LEMMA WordType ==
  ASSUME NEW s \in Seq(Nat), NEW i \in 1..Len(s), NEW white, NEW ws \in Seq(Texts)
  PROVE  Redis!Word(ws, s, i, white) \in Seq(Texts)
<1>1. s[i] \in Nat
  OBVIOUS
<1>2. <<s[i]>> \in Texts
  BY <1>1 DEF Texts
<1>3. ASSUME ws # <<>> PROVE [ws EXCEPT ![Len(ws)] = Append(ws[Len(ws)], s[i])] \in Seq(Texts)
  <2>1. Len(ws) \in 1..Len(ws) /\ ws[Len(ws)] \in Texts
    BY <1>3
  <2>2. PICK w : w = ws[Len(ws)] /\ w \in Seq(Nat)
    BY <2>1 DEF Texts
  <2>3. Append(w, s[i]) \in Seq(Nat) /\ Len(Append(w, s[i])) = Len(w) + 1
    BY <1>1, <2>2
  <2>4. Append(w, s[i]) \in Texts
    <3>1. PICK v : v = Append(w, s[i])
      OBVIOUS
    <3>2. v \in Seq(Nat) /\ Len(v) # 0
      BY <2>2, <2>3, <3>1
    <3> QED
      BY <3>1, <3>2 DEF Texts
  <2> QED
    BY <2>1, <2>2, <2>4
<1>4. ASSUME ws = <<>> PROVE [ws EXCEPT ![Len(ws)] = Append(ws[Len(ws)], s[i])] = ws
  BY <1>4
<1>5. Append(ws, <<s[i]>>) \in Seq(Texts)
  BY <1>2
<1> QED
  BY <1>3, <1>4, <1>5 DEF Redis!Word

FieldsRun(g, s, white) ==
  /\ g[0] = <<>> /\ g[Len(s)] = Redis!Fields(s, white)
  /\ \A k \in 1..Len(s) : g[k] = Redis!Word(g[k - 1], s, k, white)
  /\ \A k \in 0..Len(s) : g[k] \in Seq(Texts)

LEMMA FieldsSteps ==
  ASSUME NEW s \in Seq(Nat), NEW white
  PROVE  \E g : FieldsRun(g, s, white)
<1> DEFINE n == Len(s)
           T == Seq(Texts)
           d == [k \in 1..n |-> k]
           G == [k \in 1..n |-> [x \in T |-> Redis!Word(x, s, k, white)]]
           It == CHOOSE h : h = [u \in SUBSET (1..n) |->
                   IF u = {} THEN <<>> ELSE Redis!Word(h[u \ {Greatest(u)}], s, d[Greatest(u)], white)]
<1>1. n \in Nat /\ <<>> \in T
  OBVIOUS
<1>2. ASSUME NEW k \in 1..n, NEW x \in T PROVE Redis!Word(x, s, k, white) \in T
  BY WordType
<1>3. G \in [1..n -> [T -> T]]
  BY <1>2
<1>4. PICK it \in [SUBSET (1..n) -> T] : Tabulates(it, n, <<>>, G)
  <2> HIDE DEF G, T, n
  <2> QED
    BY <1>1, <1>3, FoldTable
<1>5. it = [u \in SUBSET (1..n) |->
             IF u = {} THEN <<>> ELSE Redis!Word(it[u \ {Greatest(u)}], s, d[Greatest(u)], white)]
  <2>1. ASSUME NEW u \in SUBSET (1..n), u # {}
        PROVE G[Greatest(u)][it[u \ {Greatest(u)}]] = Redis!Word(it[u \ {Greatest(u)}], s, d[Greatest(u)], white)
    <3>1. Greatest(u) \in 1..n
      BY <1>1, <2>1, GreatestIn
    <3>2. it[u \ {Greatest(u)}] \in T
      OBVIOUS
    <3> QED
      BY <3>1, <3>2
  <2> HIDE DEF G, T, n, d
  <2> QED
    BY <1>4, <2>1 DEF Tabulates
<1>6. It = [u \in SUBSET (1..n) |->
             IF u = {} THEN <<>> ELSE Redis!Word(It[u \ {Greatest(u)}], s, d[Greatest(u)], white)]
  BY <1>5
<1>7. Redis!Fields(s, white) = It[1..n]
  BY <1>1 DEF Redis!Fields, Redis!FoldLeft, Redis!MapThenFoldSet, Redis!Max, Greatest
<1> HIDE DEF It
<1>8. It[{}] = <<>>
  BY <1>6
<1>9. ASSUME NEW k \in 1..n, It[1..k - 1] \in T PROVE It[1..k] = G[k][It[1..k - 1]]
  <2>1. Greatest(1..k) = k /\ (1..k) \ {k} = 1..k - 1 /\ 1..k \in SUBSET (1..n) /\ 1..k # {}
    BY <1>1, GreatestOfFirst
  <2>2. It[1..k] = Redis!Word(It[1..k - 1], s, d[k], white)
    <3> HIDE DEF G, T, n, d
    <3> QED
      BY <1>6, <2>1
  <2>3. G[k][It[1..k - 1]] = Redis!Word(It[1..k - 1], s, d[k], white)
    BY <1>9
  <2> QED
    BY <2>2, <2>3
<1>10. PICK g \in [0..n -> T] : Runs(g, It, n, <<>>, G)
  <2>1. Follows(It, n, <<>>, G, T)
    BY <1>8, <1>9 DEF Follows
  <2> HIDE DEF G, T, n
  <2> QED
    BY <1>1, <1>3, <2>1, FoldRun
<1>11. ASSUME NEW k \in 1..n PROVE g[k] = Redis!Word(g[k - 1], s, k, white)
  <2>1. g[k - 1] \in T
    <3>1. k - 1 \in 0..n
      BY <1>1
    <3> QED
      BY <1>10, <3>1
  <2> QED
    BY <1>10, <2>1 DEF Runs
<1> QED
  BY <1>7, <1>10, <1>11 DEF FieldsRun, Runs

LEMMA FieldsType ==
  ASSUME NEW s \in Seq(Nat), NEW white
  PROVE  Redis!Fields(s, white) \in Seq(Texts)
<1>1. PICK g : FieldsRun(g, s, white)
  BY FieldsSteps
<1>2. Len(s) \in 0..Len(s)
  OBVIOUS
<1> QED
  BY <1>1, <1>2 DEF FieldsRun

\* What digits stand for.
Number(t) == Redis!FoldLeft(LAMBDA n, d : 10 * n + d - 48, 0, t)

NumberRun(g, t) ==
  /\ g[0] = 0 /\ g[Len(t)] = Number(t)
  /\ \A k \in 1..Len(t) : g[k] = 10 * g[k - 1] + t[k] - 48
  /\ \A k \in 0..Len(t) : g[k] \in Nat

LEMMA NumberSteps ==
  ASSUME NEW t \in Seq(48..57)
  PROVE  \E g : NumberRun(g, t)
<1> DEFINE n == Len(t)
           T == Nat
           G == [k \in 1..n |-> [x \in T |-> 10 * x + t[k] - 48]]
           It == CHOOSE h : h = [u \in SUBSET (1..n) |->
                   IF u = {} THEN 0 ELSE 10 * h[u \ {Greatest(u)}] + t[Greatest(u)] - 48]
<1>1. n \in Nat /\ 0 \in T
  OBVIOUS
<1>0. DOMAIN t = 1..n
  OBVIOUS
<1>2. ASSUME NEW k \in 1..n, NEW x \in T PROVE 10 * x + t[k] - 48 \in T
  <2>1. PICK d \in 48..57 : d = t[k]
    OBVIOUS
  <2>2. PICK y \in Nat : y = x
    OBVIOUS
  <2>3. PICK z \in Nat : z = 10 * y
    BY ONLY <2>2
  <2>4. d \in Nat /\ d >= 48
    BY ONLY <2>1
  <2>5. z + d - 48 \in Nat
    BY ONLY <2>3, <2>4
  <2> QED
    BY ONLY <2>1, <2>2, <2>3, <2>5
<1>3. G \in [1..n -> [T -> T]]
  BY <1>2
<1>4. PICK it \in [SUBSET (1..n) -> T] : Tabulates(it, n, 0, G)
  <2> HIDE DEF G, T, n
  <2> QED
    BY <1>1, <1>3, FoldTable
<1>5. it = [u \in SUBSET (1..n) |->
             IF u = {} THEN 0 ELSE 10 * it[u \ {Greatest(u)}] + t[Greatest(u)] - 48]
  <2>1. ASSUME NEW u \in SUBSET (1..n), u # {}
        PROVE G[Greatest(u)][it[u \ {Greatest(u)}]] = 10 * it[u \ {Greatest(u)}] + t[Greatest(u)] - 48
    <3>1. Greatest(u) \in 1..n
      BY <1>1, <2>1, GreatestIn
    <3>2. it[u \ {Greatest(u)}] \in T
      OBVIOUS
    <3> QED
      BY <3>1, <3>2
  <2> HIDE DEF G, T, n
  <2> QED
    BY <1>4, <2>1 DEF Tabulates
<1>6. It = [u \in SUBSET (1..n) |->
             IF u = {} THEN 0 ELSE 10 * It[u \ {Greatest(u)}] + t[Greatest(u)] - 48]
  BY <1>5
<1>7. Number(t) = It[1..n]
  BY <1>1, <1>0 DEF Number, Redis!FoldLeft, Redis!MapThenFoldSet, Redis!Max, Greatest
<1> HIDE DEF It
<1>8. It[{}] = 0
  BY <1>6
<1>9. ASSUME NEW k \in 1..n, It[1..k - 1] \in T PROVE It[1..k] = G[k][It[1..k - 1]]
  <2>1. Greatest(1..k) = k /\ (1..k) \ {k} = 1..k - 1 /\ 1..k \in SUBSET (1..n) /\ 1..k # {}
    BY <1>1, GreatestOfFirst
  <2> QED
    BY <1>6, <1>9, <2>1
<1>10. PICK g \in [0..n -> T] : Runs(g, It, n, 0, G)
  <2>1. Follows(It, n, 0, G, T)
    BY <1>8, <1>9 DEF Follows
  <2> HIDE DEF G, T, n
  <2> QED
    BY <1>1, <1>3, <2>1, FoldRun
<1>11. ASSUME NEW k \in 1..n PROVE g[k] = 10 * g[k - 1] + t[k] - 48
  <2>1. g[k - 1] \in T
    <3>1. k - 1 \in 0..n
      BY <1>1
    <3> QED
      BY <1>10, <3>1
  <2> QED
    BY <1>10, <2>1 DEF Runs
<1> QED
  BY <1>7, <1>10, <1>11 DEF NumberRun, Runs

LEMMA AtoiType ==
  ASSUME NEW bytes \in Seq(Nat)
  PROVE  Redis!Atoi(bytes) \in Nat \cup {-1}
<1> DEFINE t == Redis!Trim(bytes, {Redis!Space})
<1>1. t \in Seq(Nat)
  BY TrimType
<1> HIDE DEF t
<1>2. CASE t = <<>> \/ \E k \in DOMAIN t : ~Redis!IsDigit(t[k])
  BY <1>2 DEF Redis!Atoi, t
<1>3. CASE ~(t = <<>> \/ \E k \in DOMAIN t : ~Redis!IsDigit(t[k]))
  <2>1. t \in Seq(48..57)
    BY <1>1, <1>3 DEF Redis!IsDigit
  <2>2. PICK g : NumberRun(g, t)
    BY <2>1, NumberSteps
  <2>3. Number(t) \in Nat
    <3>1. Len(t) \in 0..Len(t)
      BY <1>1
    <3> QED
      BY <2>2, <3>1 DEF NumberRun
  <2>4. Redis!Atoi(bytes) = Number(t)
    BY <1>3 DEF Redis!Atoi, Number, t
  <2> QED
    BY <2>3, <2>4
<1> QED
  BY <1>2, <1>3

\* Where the loop over the elements of an array is.
Loops == [args : Seq(Seq(Nat)), off : Nat \ {0}, stop : {"no", "incomplete", "error"}]

LEMMA Cut ==
  ASSUME NEW b \in Seq(Nat), NEW i \in Nat \ {0}, NEW j \in Int, j <= Len(b)
  PROVE  SubSeq(b, i, j) \in Seq(Nat)
<1>1. CASE i > j
  BY <1>1
<1>2. CASE ~(i > j)
  BY <1>2
<1> QED
  BY <1>1, <1>2

LEMMA ElementType ==
  ASSUME NEW b \in Seq(Nat), NEW s \in Loops
  PROVE  Redis!Element(s, b) \in Loops
<1>1. PICK off, end, l, start :
        /\ off = s.off /\ end = Redis!BytesIndexCR(b, off)
        /\ l = Redis!Atoi(SubSeq(b, off + 1, off + end - 1)) /\ start = off + end + 2
  OBVIOUS
<1>2. off \in Nat \ {0} /\ s.args \in Seq(Seq(Nat)) /\ s.stop \in {"no", "incomplete", "error"}
  BY <1>1 DEF Loops
<1>3. [s EXCEPT !.stop = "incomplete"] \in Loops /\ [s EXCEPT !.stop = "error"] \in Loops
  BY DEF Loops
<1>4. CASE Redis!Element(s, b) \in {s, [s EXCEPT !.stop = "incomplete"], [s EXCEPT !.stop = "error"]}
  BY <1>3, <1>4
<1>5. CASE Redis!Element(s, b) \notin {s, [s EXCEPT !.stop = "incomplete"], [s EXCEPT !.stop = "error"]}
  <2>1. /\ Redis!Element(s, b) = [args |-> Append(s.args, SubSeq(b, start, start + l - 1)), off |-> start + l + 2, stop |-> "no"]
        /\ ~(end < 0) /\ ~(l < 0) /\ ~(start + l + 1 > Len(b))
    BY <1>1, <1>5 DEF Redis!Element
  <2>2. end \in Nat /\ off + end + 1 <= Len(b)
    <3>1. end # -1
      BY <2>1
    <3> QED
      BY <1>1, <1>2, <3>1, IndexFound
  <2>3. start \in Nat \ {0} /\ SubSeq(b, off + 1, off + end - 1) \in Seq(Nat)
    <3>1. off + 1 \in Nat \ {0} /\ off + end - 1 \in Int /\ off + end - 1 <= Len(b)
      BY <1>2, <2>2
    <3>2. SubSeq(b, off + 1, off + end - 1) \in Seq(Nat)
      BY <3>1, Cut
    <3>3. start = off + end + 2
      BY <1>1
    <3> QED
      BY <1>2, <2>2, <3>2, <3>3
  <2>4. l \in Nat
    <3>1. l \in Nat \cup {-1}
      BY <1>1, <2>3, AtoiType
    <3> QED
      BY <2>1, <3>1
  <2>5. SubSeq(b, start, start + l - 1) \in Seq(Nat) /\ start + l + 2 \in Nat \ {0}
    <3>1. start \in Nat \ {0} /\ ~(start + l + 1 > Len(b)) /\ Len(b) \in Nat
      BY <2>1, <2>3
    <3>2. start + l - 1 \in Int /\ start + l - 1 <= Len(b) /\ start + l + 2 \in Nat \ {0}
      BY ONLY <2>4, <3>1
    <3>3. SubSeq(b, start, start + l - 1) \in Seq(Nat)
      BY <3>1, <3>2, Cut
    <3> QED
      BY <3>2, <3>3
  <2> QED
    BY <1>2, <2>1, <2>5 DEF Loops
<1> QED
  BY <1>4, <1>5

Entry(first) == [args |-> <<>>, off |-> first, stop |-> "no"]

BulkStringsRun(g, b, m, first) ==
  /\ g[0] = Entry(first) /\ g[m] = Redis!BulkStrings(b, m, first)
  /\ \A k \in 1..m : g[k] = Redis!Element(g[k - 1], b)
  /\ \A k \in 0..m : g[k] \in Loops

LEMMA BulkStringsSteps ==
  ASSUME NEW b \in Seq(Nat), NEW m \in Nat, NEW first \in Nat \ {0}
  PROVE  \E g : BulkStringsRun(g, b, m, first)
<1> DEFINE n == m
           T == Loops
           G == [k \in 1..n |-> [x \in T |-> Redis!Element(x, b)]]
           It == CHOOSE h : h = [u \in SUBSET (1..n) |->
                   IF u = {} THEN Entry(first) ELSE Redis!Element(h[u \ {Greatest(u)}], b)]
<1>1. n \in Nat /\ Entry(first) \in T
  BY DEF Entry, Loops
<1>2. ASSUME NEW k \in 1..n, NEW x \in T PROVE Redis!Element(x, b) \in T
  BY ElementType
<1>3. G \in [1..n -> [T -> T]]
  BY <1>2
<1>4. PICK it \in [SUBSET (1..n) -> T] : Tabulates(it, n, Entry(first), G)
  <2> HIDE DEF G, T, n
  <2> QED
    BY <1>1, <1>3, FoldTable
<1>5. it = [u \in SUBSET (1..n) |->
             IF u = {} THEN Entry(first) ELSE Redis!Element(it[u \ {Greatest(u)}], b)]
  <2>1. ASSUME NEW u \in SUBSET (1..n), u # {}
        PROVE G[Greatest(u)][it[u \ {Greatest(u)}]] = Redis!Element(it[u \ {Greatest(u)}], b)
    <3>1. Greatest(u) \in 1..n
      BY <1>1, <2>1, GreatestIn
    <3>2. it[u \ {Greatest(u)}] \in T
      OBVIOUS
    <3> QED
      BY <3>1, <3>2
  <2> HIDE DEF G, T, n
  <2> QED
    BY <1>4, <2>1 DEF Tabulates
<1>6. It = [u \in SUBSET (1..n) |->
             IF u = {} THEN Entry(first) ELSE Redis!Element(It[u \ {Greatest(u)}], b)]
  BY <1>5
<1>7. Redis!BulkStrings(b, m, first) = It[1..n]
  BY <1>1 DEF Redis!BulkStrings, Entry, Redis!FoldLeft, Redis!MapThenFoldSet, Redis!Max, Greatest
<1> HIDE DEF It
<1>8. It[{}] = Entry(first)
  BY <1>6
<1>9. ASSUME NEW k \in 1..n, It[1..k - 1] \in T PROVE It[1..k] = G[k][It[1..k - 1]]
  <2>1. Greatest(1..k) = k /\ (1..k) \ {k} = 1..k - 1 /\ 1..k \in SUBSET (1..n) /\ 1..k # {}
    BY <1>1, GreatestOfFirst
  <2> QED
    BY <1>6, <1>9, <2>1
<1>10. PICK g \in [0..n -> T] : Runs(g, It, n, Entry(first), G)
  <2>1. Follows(It, n, Entry(first), G, T)
    BY <1>8, <1>9 DEF Follows
  <2> HIDE DEF G, T, n
  <2> QED
    BY <1>1, <1>3, <2>1, FoldRun
<1>11. ASSUME NEW k \in 1..n PROVE g[k] = Redis!Element(g[k - 1], b)
  <2>1. g[k - 1] \in T
    <3>1. k - 1 \in 0..n
      BY <1>1
    <3> QED
      BY <1>10, <3>1
  <2> QED
    BY <1>10, <2>1 DEF Runs
<1> QED
  BY <1>7, <1>10, <1>11 DEF BulkStringsRun, Runs

LEMMA BulkStringsType ==
  ASSUME NEW b \in Seq(Nat), NEW m \in Nat, m # 0, NEW first \in Nat \ {0}
  PROVE  /\ Redis!BulkStrings(b, m, first) \in Loops
         /\ Redis!BulkStrings(b, m, first).stop = "no" => Redis!BulkStrings(b, m, first).args # <<>>
<1>0. PICK g : BulkStringsRun(g, b, m, first)
  BY BulkStringsSteps
<1>1. /\ g[0] = Entry(first) /\ g[m] = Redis!BulkStrings(b, m, first)
      /\ \A k \in 1..m : g[k] = Redis!Element(g[k - 1], b)
      /\ \A k \in 0..m : g[k] \in Loops
  BY <1>0 DEF BulkStringsRun
<1>2. m \in 0..m /\ m \in 1..m /\ m - 1 \in 0..m
  OBVIOUS
<1>3. ASSUME g[m].stop = "no" PROVE g[m].args # <<>>
  <2>1. PICK s : s = g[m - 1] /\ s \in Loops /\ g[m] = Redis!Element(s, b)
    BY <1>1, <1>2
  <2>2. s.args \in Seq(Seq(Nat)) /\ s.stop \in {"no", "incomplete", "error"}
    BY <2>1 DEF Loops
  <2>3. s.stop = "no"
    BY <1>3, <2>1, <2>2 DEF Redis!Element
  <2>4. \E x : g[m].args = Append(s.args, x)
    <3>1. PICK e : e = Redis!Element(s, b)
      OBVIOUS
    <3>2. e.stop = "no"
      BY <1>3, <2>1, <3>1
    <3>3. \/ e.stop \in {"incomplete", "error"}
          \/ \E x : e.args = Append(s.args, x)
      BY <2>1, <2>3, <3>1 DEF Redis!Element, Loops
    <3> QED
      BY <2>1, <3>1, <3>2, <3>3
  <2>5. PICK x : g[m].args = Append(s.args, x)
    BY <2>4
  <2>6. s.args \in Seq(Seq(Nat) \cup {x}) /\ x \in Seq(Nat) \cup {x}
    BY <2>2
  <2>7. Len(Append(s.args, x)) = Len(s.args) + 1
    BY <2>6
  <2> QED
    BY <2>5, <2>6, <2>7
<1> QED
  BY <1>1, <1>2, <1>3

LEMMA UpperType ==
  ASSUME NEW s \in Seq(Nat)
  PROVE  Redis!Upper(s) \in Seq(Nat)
<1> DEFINE up(c) == IF c \in 97..122 THEN c - 32 ELSE c
<1>1. \A c \in Nat : up(c) \in Nat
  OBVIOUS
<1>2. Redis!Upper(s) = [i \in 1..Len(s) |-> up(s[i])]
  BY DEF Redis!Upper
<1>3. \A i \in 1..Len(s) : s[i] \in Nat
  OBVIOUS
<1> HIDE DEF up
<1>4. [i \in 1..Len(s) |-> up(s[i])] \in Seq(Nat)
  <2>1. \A i \in 1..Len(s) : up(s[i]) \in Nat
    BY <1>1, <1>3
  <2>2. Len(s) \in Nat
    OBVIOUS
  <2> QED
    BY <2>1, <2>2
<1> QED
  BY <1>2, <1>4

\* What tryParse makes of a buffer.
Outcomes == [is : {"command", "not yet", "violation", "panic"}, args : Seq(Seq(Nat)), rest : Seq(Nat)]

LEMMA CommandType ==
  ASSUME NEW args \in Seq(Seq(Nat)) \ {<<>>}, NEW rest \in Seq(Nat)
  PROVE  Redis!Command(args, rest) \in Outcomes /\ Redis!Command(args, rest).args # <<>>
         /\ Redis!Command(args, rest).is = "command"
<1>1. args[1] \in Seq(Nat) /\ 1 \in DOMAIN args
  OBVIOUS
<1>2. Redis!Upper(args[1]) \in Seq(Nat)
  BY <1>1, UpperType
<1>3. [args EXCEPT ![1] = Redis!Upper(args[1])] \in Seq(Seq(Nat)) \ {<<>>}
  BY <1>1, <1>2
<1> QED
  BY <1>3 DEF Redis!Command, Redis!Result, Outcomes

LEMMA OthersType ==
  ASSUME NEW rest \in Seq(Nat)
  PROVE  Redis!NotYet(rest) \in Outcomes /\ Redis!Violation \in Outcomes /\ Redis!Panic \in Outcomes
         /\ Redis!NotYet(rest).is = "not yet" /\ Redis!Violation.is = "violation" /\ Redis!Panic.is = "panic"
<1>1. <<>> \in Seq(Nat) /\ <<>> \in Seq(Seq(Nat))
  OBVIOUS
<1> QED
  BY <1>1 DEF Redis!NotYet, Redis!Violation, Redis!Panic, Redis!Result, Outcomes

LEMMA ParseInlineType ==
  ASSUME NEW b \in Seq(Nat)
  PROVE  Redis!ParseInline(b) \in Outcomes
         /\ (Redis!ParseInline(b).is = "command" => Redis!ParseInline(b).args # <<>>)
<1>1. PICK i, text, fields, rest :
        /\ i = Redis!BytesIndexCR(b, 1) /\ text = Redis!Trim(SubSeq(b, 1, i), {Redis!CR, Redis!LF})
        /\ fields = Redis!Fields(text, {Redis!Space}) /\ rest = SubSeq(b, i + 3, Len(b))
  OBVIOUS
<1>2. Redis!ParseInline(b) =
        IF i < 0 THEN (IF Len(b) > MaxInline THEN Redis!Violation ELSE Redis!NotYet(b))
        ELSE IF text = <<>> THEN Redis!NotYet(rest)
        ELSE IF fields = <<>> THEN Redis!Panic
        ELSE Redis!Command(fields, rest)
  BY <1>1 DEF Redis!ParseInline
<1>3. CASE i < 0
  BY <1>2, <1>3, OthersType
<1>4. CASE ~(i < 0)
  <2>1. i \in Nat /\ i + 2 <= Len(b)
    <3>1. i # -1
      BY <1>4
    <3> QED
      BY <1>1, <3>1, IndexFound
  <2>2. SubSeq(b, 1, i) \in Seq(Nat) /\ rest \in Seq(Nat)
    <3>1. SubSeq(b, 1, i) \in Seq(Nat)
      BY <2>1, Cut
    <3>2. SubSeq(b, i + 3, Len(b)) \in Seq(Nat)
      <4>1. i + 3 \in Nat \ {0} /\ Len(b) \in Int /\ Len(b) <= Len(b)
        BY <2>1
      <4> QED
        BY <4>1, Cut
    <3> QED
      BY <1>1, <3>1, <3>2
  <2>3. text \in Seq(Nat)
    BY <1>1, <2>2, TrimType
  <2>4. fields \in Seq(Texts)
    BY <1>1, <2>3, FieldsType
  <2>5. fields \in Seq(Seq(Nat))
    BY <2>4 DEF Texts
  <2>6. fields # <<>> => Redis!Command(fields, rest) \in Outcomes /\ Redis!Command(fields, rest).args # <<>>
    BY <2>2, <2>5, CommandType
  <2>7. Redis!NotYet(rest) \in Outcomes /\ Redis!NotYet(rest).is = "not yet" /\ Redis!Panic \in Outcomes /\ Redis!Panic.is = "panic"
    BY <2>2, OthersType
  <2> QED
    BY <1>2, <1>4, <2>6, <2>7
<1> QED
  BY <1>3, <1>4

\* The header of an array that has come.
LEMMA HeaderType ==
  ASSUME NEW b \in Seq(Nat), Len(b) >= 4, ~(Redis!Header(b) < 0)
  PROVE  Redis!Header(b) \in Nat /\ Redis!Header(b) <= 2 /\ Redis!Elements(b) \in Nat \cup {-1}
<1>1. PICK h : h = SubSeq(b, 1, 4)
  OBVIOUS
<1>2. h \in Seq(Nat) /\ Len(h) = 4
  <2>1. 4 \in 0..Len(b) /\ b \in Seq(Nat)
    OBVIOUS
  <2> QED
    BY ONLY <1>1, <2>1
<1>3. PICK i : i = Redis!Header(b) /\ i = Redis!BytesIndexCR(h, 1)
  BY <1>1 DEF Redis!Header
<1>4. i \in Nat /\ i <= 2
  <2>1. i # -1
    BY <1>3
  <2>2. i \in Nat /\ 1 + i + 1 <= Len(h)
    <3>1. 1 \in Nat \ {0} /\ Redis!BytesIndexCR(h, 1) # -1
      BY <1>3, <2>1
    <3>2. Redis!BytesIndexCR(h, 1) \in Nat /\ 1 + Redis!BytesIndexCR(h, 1) + 1 <= Len(h)
      BY <1>2, <3>1, IndexFound
    <3> QED
      BY <1>3, <3>2
  <2> QED
    BY <1>2, <2>2
<1>5. SubSeq(b, 2, i) \in Seq(Nat)
  BY <1>4, Cut
<1> QED
  BY <1>3, <1>4, <1>5, AtoiType DEF Redis!Elements

LEMMA ParseArrayType ==
  ASSUME NEW b \in Seq(Nat)
  PROVE  Redis!ParseArray(b) \in Outcomes
         /\ (Redis!ParseArray(b).is = "command" => Redis!ParseArray(b).args # <<>>)
<1>1. PICK s : s = Redis!BulkStrings(b, Redis!Elements(b), Redis!Header(b) + 3)
  OBVIOUS
<1>2. Redis!ParseArray(b) =
        IF Len(b) < 4 \/ b[1] # 42 \/ Redis!Header(b) < 0 THEN Redis!NotYet(b)
        ELSE IF Redis!Elements(b) < 1 THEN Redis!Violation
        ELSE IF s.stop = "incomplete" THEN Redis!NotYet(b)
        ELSE IF s.stop = "error" THEN Redis!Violation
        ELSE Redis!Command(s.args, SubSeq(b, s.off, Len(b)))
  BY <1>1 DEF Redis!ParseArray
<1>3. CASE Len(b) < 4 \/ b[1] # 42 \/ Redis!Header(b) < 0 \/ Redis!Elements(b) < 1 \/ s.stop \in {"incomplete", "error"}
  <2>1. Redis!ParseArray(b) \in {Redis!NotYet(b), Redis!Violation}
    BY <1>2, <1>3
  <2> QED
    BY <2>1, OthersType
<1>4. CASE ~(Len(b) < 4 \/ b[1] # 42 \/ Redis!Header(b) < 0 \/ Redis!Elements(b) < 1 \/ s.stop \in {"incomplete", "error"})
  <2>1. Redis!Header(b) \in Nat /\ Redis!Elements(b) \in Nat \cup {-1}
    BY <1>4, HeaderType
  <2>2. Redis!Header(b) + 3 \in Nat \ {0} /\ Redis!Elements(b) \in Nat \ {0}
    BY <1>4, <2>1
  <2>3. s \in Loops /\ (s.stop = "no" => s.args # <<>>)
    BY <1>1, <2>2, BulkStringsType
  <2>4. s.args \in Seq(Seq(Nat)) \ {<<>>} /\ s.off \in Nat \ {0}
    BY <1>4, <2>3 DEF Loops
  <2>5. SubSeq(b, s.off, Len(b)) \in Seq(Nat)
    BY <2>4, Cut
  <2>6. Redis!ParseArray(b) = Redis!Command(s.args, SubSeq(b, s.off, Len(b)))
    BY <1>2, <1>4
  <2> QED
    BY <2>4, <2>5, <2>6, CommandType
<1> QED
  BY <1>3, <1>4

LEMMA TryParseType ==
  ASSUME NEW b \in Seq(Nat)
  PROVE  Redis!TryParse(b) \in Outcomes
         /\ (Redis!TryParse(b).is = "command" => Redis!TryParse(b).args # <<>>)
<1>1. CASE b = <<>>
  BY <1>1, OthersType DEF Redis!TryParse
<1>2. CASE b # <<>>
  BY <1>2, ParseInlineType, ParseArrayType DEF Redis!TryParse
<1> QED
  BY <1>1, <1>2

-----------------------------------------------------------------------------
(* The bytes of requests.                                                  *)

LEMMA RequestType ==
  ASSUME NEW rs \in Seq(Requests), NEW k \in 1..Len(rs)
  PROVE  rs[k] \in Requests /\ rs[k].bytes \in Seq(Nat) /\ rs[k].bytes # <<>> /\ rs[k].args \in Seq(Seq(Nat))
<1>1. rs[k] \in Requests
  OBVIOUS
<1> QED
  BY <1>1, RequestsAssumption

BytesRun(g, rs) ==
  /\ g[0] = <<>> /\ g[Len(rs)] = Redis!Bytes(rs)
  /\ \A k \in 1..Len(rs) : g[k] = g[k - 1] \o rs[k].bytes
  /\ \A k \in 0..Len(rs) : g[k] \in Seq(Nat)

LEMMA BytesSteps ==
  ASSUME NEW rs \in Seq(Requests)
  PROVE  \E g : BytesRun(g, rs)
<1> DEFINE n == Len(rs)
           T == Seq(Nat)
           G == [k \in 1..n |-> [x \in T |-> x \o rs[k].bytes]]
           It == CHOOSE h : h = [u \in SUBSET (1..n) |->
                   IF u = {} THEN <<>> ELSE h[u \ {Greatest(u)}] \o rs[Greatest(u)].bytes]
<1>1. n \in Nat /\ <<>> \in T
  OBVIOUS
<1>0. DOMAIN rs = 1..n
  OBVIOUS
<1>2. ASSUME NEW k \in 1..n, NEW x \in T PROVE x \o rs[k].bytes \in T
  BY RequestType
<1>3. G \in [1..n -> [T -> T]]
  BY <1>2
<1>4. PICK it \in [SUBSET (1..n) -> T] : Tabulates(it, n, <<>>, G)
  <2> HIDE DEF G, T, n
  <2> QED
    BY <1>1, <1>3, FoldTable
<1>5. it = [u \in SUBSET (1..n) |->
             IF u = {} THEN <<>> ELSE it[u \ {Greatest(u)}] \o rs[Greatest(u)].bytes]
  <2>1. ASSUME NEW u \in SUBSET (1..n), u # {}
        PROVE G[Greatest(u)][it[u \ {Greatest(u)}]] = it[u \ {Greatest(u)}] \o rs[Greatest(u)].bytes
    <3>1. Greatest(u) \in 1..n
      BY <1>1, <2>1, GreatestIn
    <3>2. it[u \ {Greatest(u)}] \in T
      OBVIOUS
    <3> QED
      BY <3>1, <3>2
  <2> HIDE DEF G, T, n
  <2> QED
    BY <1>4, <2>1 DEF Tabulates
<1>6. It = [u \in SUBSET (1..n) |->
             IF u = {} THEN <<>> ELSE It[u \ {Greatest(u)}] \o rs[Greatest(u)].bytes]
  BY <1>5
<1>7. Redis!Bytes(rs) = It[1..n]
  BY <1>1, <1>0 DEF Redis!Bytes, Redis!FoldLeft, Redis!MapThenFoldSet, Redis!Max, Greatest
<1> HIDE DEF It
<1>8. It[{}] = <<>>
  BY <1>6
<1>9. ASSUME NEW k \in 1..n, It[1..k - 1] \in T PROVE It[1..k] = G[k][It[1..k - 1]]
  <2>1. Greatest(1..k) = k /\ (1..k) \ {k} = 1..k - 1 /\ 1..k \in SUBSET (1..n) /\ 1..k # {}
    BY <1>1, GreatestOfFirst
  <2> QED
    BY <1>6, <1>9, <2>1
<1>10. PICK g \in [0..n -> T] : Runs(g, It, n, <<>>, G)
  <2>1. Follows(It, n, <<>>, G, T)
    BY <1>8, <1>9 DEF Follows
  <2> HIDE DEF G, T, n
  <2> QED
    BY <1>1, <1>3, <2>1, FoldRun
<1>11. ASSUME NEW k \in 1..n PROVE g[k] = g[k - 1] \o rs[k].bytes
  <2>1. g[k - 1] \in T
    <3>1. k - 1 \in 0..n
      BY <1>1
    <3> QED
      BY <1>10, <3>1
  <2> QED
    BY <1>10, <2>1 DEF Runs
<1> QED
  BY <1>7, <1>10, <1>11 DEF BytesRun, Runs

LEMMA BytesType ==
  ASSUME NEW rs \in Seq(Requests)
  PROVE  Redis!Bytes(rs) \in Seq(Nat)
<1>1. PICK g : BytesRun(g, rs)
  BY BytesSteps
<1>2. Len(rs) \in 0..Len(rs)
  OBVIOUS
<1> QED
  BY <1>1, <1>2 DEF BytesRun

-----------------------------------------------------------------------------
(* The connection: the replies written are the replies to the commands.    *)

Calls == Seq(Seq(Nat)) \ {<<>>}
Answers == {Redis!Reply(c) : c \in Calls}

RedisTypes ==
  /\ sent \in Seq(Requests) /\ wire \in Seq(Nat) /\ buf \in Seq(Nat)
  /\ reader \in {"parse", "read", "serve", "closed", "crashed"}
  /\ got \in Seq(Calls)

AnsweredInv ==
  /\ replies \in Seq(Answers)
  /\ \A i \in 1..Len(replies) : replies[i] = Redis!Reply(got[i])
  /\ IF reader = "serve" THEN Len(got) = Len(replies) + 1 ELSE Len(got) = Len(replies)

LEMMA InitRedis == Redis!Init => RedisTypes /\ AnsweredInv
<1> SUFFICES ASSUME Redis!Init PROVE RedisTypes /\ AnsweredInv
  OBVIOUS
<1>1. sent \in Seq(Requests) /\ wire = Redis!Bytes(sent)
  BY RequestsAssumption DEF Redis!Init
<1>2. wire \in Seq(Nat)
  BY <1>1, BytesType
<1> QED
  BY <1>1, <1>2 DEF Redis!Init, RedisTypes, AnsweredInv

LEMMA RedisTypesPreserved == RedisTypes /\ [Redis!Next]_(Redis!vars) => RedisTypes'
<1> SUFFICES ASSUME RedisTypes, [Redis!Next]_(Redis!vars) PROVE RedisTypes'
  OBVIOUS
<1> USE DEF RedisTypes
<1>1. CASE Redis!Parse
  <2>1. PICK p : p = Redis!TryParse(buf)
    OBVIOUS
  <2>2. p \in Outcomes /\ (p.is = "command" => p.args # <<>>)
    BY <2>1, TryParseType
  <2>3. /\ buf' = p.rest /\ sent' = sent /\ wire' = wire
        /\ got' = (IF p.is = "command" THEN Append(got, p.args) ELSE got)
        /\ reader' \in {"serve", "read", "closed", "crashed"}
    BY <1>1, <2>1, <2>2 DEF Redis!Parse, Outcomes
  <2>4. p.is = "command" => p.args \in Calls
    BY <2>2 DEF Outcomes, Calls
  <2>5. p.rest \in Seq(Nat)
    BY <2>2 DEF Outcomes
  <2>6. got' \in Seq(Calls)
    BY <2>3, <2>4
  <2> QED
    BY <2>3, <2>5, <2>6
<1>2. CASE Redis!Serve
  BY <1>2 DEF Redis!Serve
<1>3. ASSUME NEW n \in 1..Len(wire), Redis!Fill(n) PROVE RedisTypes'
  <2>1. SubSeq(wire, 1, n) \in Seq(Nat) /\ SubSeq(wire, n + 1, Len(wire)) \in Seq(Nat)
    OBVIOUS
  <2> QED
    BY <1>3, <2>1 DEF Redis!Fill
<1>4. CASE Redis!ReadFails
  BY <1>4 DEF Redis!ReadFails
<1>5. CASE UNCHANGED Redis!vars
  BY <1>5 DEF Redis!vars
<1> QED
  BY <1>1, <1>2, <1>3, <1>4, <1>5 DEF Redis!Next, Redis!Closed

LEMMA AnsweredPreserved == RedisTypes /\ AnsweredInv /\ [Redis!Next]_(Redis!vars) => AnsweredInv'
<1> SUFFICES ASSUME RedisTypes, AnsweredInv, [Redis!Next]_(Redis!vars) PROVE AnsweredInv'
  OBVIOUS
<1>0. got \in Seq(Calls) /\ replies \in Seq(Answers)
  BY DEF RedisTypes, AnsweredInv
<1>1. CASE Redis!Parse
  <2>1. PICK p : p = Redis!TryParse(buf)
    OBVIOUS
  <2>2. p \in Outcomes /\ (p.is = "command" => p.args \in Calls)
    BY <2>1, TryParseType DEF RedisTypes, Outcomes, Calls
  <2>3. replies' = replies /\ reader # "serve"
    BY <1>1 DEF Redis!Parse
  <2>4. CASE p.is = "command"
    <3>1. got' = Append(got, p.args) /\ reader' = "serve"
      BY <1>1, <2>1, <2>4 DEF Redis!Parse
    <3> QED
      BY <1>0, <2>2, <2>3, <2>4, <3>1 DEF AnsweredInv
  <2>5. CASE p.is # "command"
    <3>1. got' = got /\ reader' # "serve"
      BY <1>1, <2>1, <2>2, <2>5 DEF Redis!Parse, Outcomes
    <3> QED
      BY <2>3, <3>1 DEF AnsweredInv
  <2> QED
    BY <2>4, <2>5
<1>2. CASE Redis!Serve
  <2>1. /\ replies' = Append(replies, Redis!Reply(got[Len(got)])) /\ got' = got
        /\ reader = "serve" /\ reader' = "parse"
    BY <1>2 DEF Redis!Serve
  <2>2. Len(got) = Len(replies) + 1
    BY <2>1 DEF AnsweredInv
  <2>3. got[Len(got)] \in Calls
    BY <1>0, <2>2
  <2>4. PICK a : a = Redis!Reply(got[Len(got)]) /\ a \in Answers
    BY <2>3 DEF Answers
  <2>5. replies' \in Seq(Answers) /\ Len(replies') = Len(replies) + 1
    BY <1>0, <2>1, <2>4
  <2>6. ASSUME NEW i \in 1..Len(replies') PROVE replies'[i] = Redis!Reply(got'[i])
    <3>1. CASE i = Len(replies) + 1
      <4>1. replies'[i] = a
        BY <1>0, <2>1, <2>4, <3>1
      <4> QED
        BY <2>1, <2>2, <2>4, <3>1, <4>1
    <3>2. CASE i # Len(replies) + 1
      <4>1. i \in 1..Len(replies) /\ replies'[i] = replies[i]
        BY <1>0, <2>1, <2>4, <2>5, <3>2
      <4> QED
        BY <2>1, <4>1 DEF AnsweredInv
    <3> QED
      BY <3>1, <3>2
  <2> QED
    BY <2>1, <2>2, <2>5, <2>6 DEF AnsweredInv
<1>3. CASE \E n \in 1..Len(wire) : Redis!Fill(n)
  BY <1>3 DEF Redis!Fill, AnsweredInv
<1>4. CASE Redis!ReadFails
  BY <1>4 DEF Redis!ReadFails, AnsweredInv
<1>5. CASE UNCHANGED Redis!vars
  BY <1>5 DEF Redis!vars, AnsweredInv
<1> QED
  BY <1>1, <1>2, <1>3, <1>4, <1>5 DEF Redis!Next, Redis!Closed

-----------------------------------------------------------------------------
(* Replies: where a client is behind each.                                 *)

\* Behind a line, if its end is the first one.
LEMMA LineEnds ==
  ASSUME NEW r \in Seq(Nat), NEW j \in Nat \ {0}, NEW e \in Nat, e >= j, IsEnd(r, e),
         \A i \in j..e - 1 : ~IsEnd(r, i)
  PROVE  Redis!AfterLine(r, j) = e + 2
<1>1. Redis!BytesIndexCR(r, j) = e - j
  BY IndexIs
<1> QED
  BY <1>1 DEF Redis!AfterLine

LEMMA LineReply ==
  ASSUME NEW m \in {43, 45, 58}, NEW s \in Seq(Nat), Redis!BytesIndexCR(s, 1) < 0
  PROVE  Redis!AfterReply(<<m>> \o s \o Redis!CRLF) = Len(<<m>> \o s \o Redis!CRLF) + 1
<1>1. PICK r : r = <<m>> \o s \o Redis!CRLF
  OBVIOUS
<1>2. /\ r \in Seq(Nat) /\ Len(r) = Len(s) + 3 /\ r[1] = m
      /\ r[Len(s) + 2] = 13 /\ r[Len(s) + 3] = 10
      /\ \A i \in 2..Len(s) + 1 : r[i] = s[i - 1]
  BY <1>1 DEF Redis!CRLF, Redis!CR, Redis!LF
<1>3. ASSUME NEW i \in 1..Len(s) + 1, IsEnd(r, i) PROVE FALSE
  <2>1. CASE i = 1
    BY <1>2, <1>3, <2>1 DEF IsEnd
  <2>2. CASE i = Len(s) + 1
    BY <1>2, <1>3, <2>2 DEF IsEnd
  <2>3. CASE i # 1 /\ i # Len(s) + 1
    <3>1. PICK j : j = i - 1 /\ j \in 1..Len(s) - 1
      BY <2>3
    <3>2. r[i] = s[j] /\ r[i + 1] = s[j + 1]
      <4>1. i \in 2..Len(s) + 1 /\ i + 1 \in 2..Len(s) + 1 /\ i - 1 = j /\ (i + 1) - 1 = j + 1
        BY <2>3, <3>1
      <4> QED
        BY <1>2, <4>1
    <3>3. IsEnd(s, j)
      BY <1>3, <3>1, <3>2 DEF IsEnd
    <3> QED
      BY <3>1, <3>3, NotFoundMeans
  <2> QED
    BY <2>1, <2>2, <2>3
<1>4. IsEnd(r, Len(s) + 2)
  BY <1>2 DEF IsEnd
<1>5. Redis!AfterLine(r, 1) = Len(s) + 4
  <2>1. \A i \in 1..(Len(s) + 2) - 1 : ~IsEnd(r, i)
    BY <1>3
  <2>2. Redis!AfterLine(r, 1) = (Len(s) + 2) + 2
    BY <1>2, <1>4, <2>1, LineEnds
  <2> QED
    BY <2>2
<1>6. Redis!AfterReply(r) = Redis!AfterLine(r, 1)
  <2>1. r[1] # 36 /\ r[1] # 42
    BY <1>2
  <2> QED
    BY <2>1 DEF Redis!AfterReply
<1> QED
  BY <1>1, <1>2, <1>5, <1>6

LEMMA BulkLayout ==
  ASSUME NEW s \in Seq(Nat)
  PROVE  LET w == Redis!WriteBulkString(s) IN
         /\ w \in Seq(Nat)
         /\ s = <<>> => Len(w) = 5 /\ w[1] = 36 /\ w[2] = 45 /\ w[3] = 49 /\ w[4] = 13 /\ w[5] = 10
         /\ s # <<>> => Len(w) = Len(s) + 6 /\ w[1] = 36 /\ w[2] = 48 + Len(s) /\ w[3] = 13 /\ w[4] = 10
<1>1. CASE s = <<>>
  BY <1>1 DEF Redis!WriteBulkString, Redis!NilBulk, Redis!CRLF, Redis!CR, Redis!LF
<1>2. CASE s # <<>>
  BY <1>2 DEF Redis!WriteBulkString, Redis!CRLF, Redis!CR, Redis!LF
<1> QED
  BY <1>1, <1>2

\* A bulk string that stands at position j of r.
StandsAt(w, r, j) == j - 1 + Len(w) <= Len(r) /\ \A i \in 1..Len(w) : r[j - 1 + i] = w[i]

LEMMA BulkEnds ==
  ASSUME NEW r \in Seq(Nat), NEW j \in Nat \ {0}, NEW s \in Seq(Nat),
         StandsAt(Redis!WriteBulkString(s), r, j)
  PROVE  Redis!AfterBulk(r, j) = j + Len(Redis!WriteBulkString(s))
<1>1. PICK w : w = Redis!WriteBulkString(s)
  OBVIOUS
<1>2. /\ w \in Seq(Nat) /\ j - 1 + Len(w) <= Len(r) /\ (\A i \in 1..Len(w) : r[j - 1 + i] = w[i])
      /\ s = <<>> => Len(w) = 5 /\ w[1] = 36 /\ w[2] = 45 /\ w[3] = 49 /\ w[4] = 13 /\ w[5] = 10
      /\ s # <<>> => Len(w) = Len(s) + 6 /\ w[1] = 36 /\ w[2] = 48 + Len(s) /\ w[3] = 13 /\ w[4] = 10
  BY <1>1, BulkLayout DEF StandsAt
<1>3. Len(w) >= 5 /\ Len(w) \in Nat
  <2>1. PICK x, y : x = Len(w) /\ y = Len(s)
    OBVIOUS
  <2>2. x \in Nat /\ y \in Nat
    BY <1>2, <2>1
  <2>3. x = 5 \/ x = y + 6
    BY <1>2, <2>1
  <2>4. x >= 5
    BY <2>2, <2>3
  <2> QED
    BY <2>1, <2>2, <2>4
<1>4. r[j - 1 + 1] = w[1] /\ r[j - 1 + 2] = w[2] /\ r[j - 1 + 3] = w[3] /\ r[j - 1 + 4] = w[4] /\ r[j - 1 + 5] = w[5]
  <2>1. 1 \in 1..Len(w) /\ 2 \in 1..Len(w) /\ 3 \in 1..Len(w) /\ 4 \in 1..Len(w) /\ 5 \in 1..Len(w)
    BY ONLY <1>3
  <2> QED
    BY <1>2, <2>1
<1>5. r[j] = w[1] /\ r[j + 1] = w[2] /\ r[j + 2] = w[3] /\ r[j + 3] = w[4] /\ r[j + 4] = w[5] /\ j + 4 <= Len(r)
  <2>1. j - 1 + 1 = j /\ j - 1 + 2 = j + 1 /\ j - 1 + 3 = j + 2 /\ j - 1 + 4 = j + 3 /\ j - 1 + 5 = j + 4
    OBVIOUS
  <2> QED
    BY <1>2, <1>3, <1>4, <2>1
<1>6. j \in 1..Len(r) - 1 /\ j + 1 \in DOMAIN r /\ j + 2 \in DOMAIN r /\ j + 3 \in DOMAIN r /\ j + 4 \in DOMAIN r
  <2>1. DOMAIN r = 1..Len(r) /\ Len(r) \in Nat /\ j \in Nat /\ j # 0 /\ j + 4 <= Len(r)
    BY <1>5
  <2> QED
    BY ONLY <2>1
<1>7. r[j] = 36
  BY <1>2, <1>5
<1>8. CASE s = <<>>
  <2>1. r[j + 1] = 45 /\ r[j + 2] = 49 /\ r[j + 3] = 13 /\ r[j + 4] = 10 /\ Len(w) = 5
    BY <1>2, <1>5, <1>8
  <2>2. IsEnd(r, j + 3)
    <3>1. (j + 3) + 1 = j + 4
      OBVIOUS
    <3> QED
      BY <1>6, <2>1, <3>1 DEF IsEnd
  <2>3. ~IsEnd(r, j) /\ ~IsEnd(r, j + 1) /\ ~IsEnd(r, j + 2)
    BY <1>7, <2>1 DEF IsEnd
  <2>4. \A i \in j..(j + 3) - 1 : i = j \/ i = j + 1 \/ i = j + 2
    OBVIOUS
  <2>5. Redis!AfterLine(r, j) = (j + 3) + 2
    <3>1. \A i \in j..(j + 3) - 1 : ~IsEnd(r, i)
      BY <2>3, <2>4
    <3> QED
      BY <2>2, <3>1, LineEnds
  <2>6. Redis!AfterBulk(r, j) = Redis!AfterLine(r, j)
    BY <1>6, <1>7, <2>1 DEF Redis!AfterBulk
  <2> QED
    BY <1>1, <2>1, <2>5, <2>6
<1>9. CASE s # <<>>
  <2>0. Len(s) \in Nat /\ Len(s) # 0
    BY <1>9
  <2>1. r[j + 1] = 48 + Len(s) /\ r[j + 2] = 13 /\ r[j + 3] = 10 /\ Len(w) = Len(s) + 6
    BY <1>2, <1>5, <1>9
  <2>2. IsEnd(r, j + 2)
    <3>1. (j + 2) + 1 = j + 3
      OBVIOUS
    <3> QED
      BY <1>6, <2>1, <3>1 DEF IsEnd
  <2>3. ~IsEnd(r, j) /\ ~IsEnd(r, j + 1)
    BY <1>7, <2>0, <2>1 DEF IsEnd
  <2>4. \A i \in j..(j + 2) - 1 : i = j \/ i = j + 1
    OBVIOUS
  <2>5. Redis!AfterLine(r, j) = (j + 2) + 2
    <3>1. \A i \in j..(j + 2) - 1 : ~IsEnd(r, i)
      BY <2>3, <2>4
    <3> QED
      BY <2>2, <3>1, LineEnds
  <2>6. Redis!AfterBulk(r, j) = Redis!AfterLine(r, j) + (r[j + 1] - 48) + 2
    BY <1>6, <1>7, <2>0, <2>1 DEF Redis!AfterBulk
  <2> QED
    BY <1>1, <2>0, <2>1, <2>5, <2>6
<1> QED
  BY <1>8, <1>9

LEMMA BulkReply ==
  ASSUME NEW s \in Seq(Nat)
  PROVE  Redis!AfterReply(Redis!WriteBulkString(s)) = Len(Redis!WriteBulkString(s)) + 1
<1>1. PICK w : w = Redis!WriteBulkString(s)
  OBVIOUS
<1>2. w \in Seq(Nat) /\ w[1] = 36
  BY <1>1, BulkLayout
<1>3. StandsAt(w, w, 1)
  <2>1. \A i \in 1..Len(w) : 1 - 1 + i = i
    OBVIOUS
  <2> QED
    BY <1>2, <2>1 DEF StandsAt
<1>4. Redis!AfterBulk(w, 1) = 1 + Len(w)
  BY <1>1, <1>2, <1>3, BulkEnds
<1>5. Redis!AfterReply(w) = Redis!AfterBulk(w, 1)
  BY <1>2 DEF Redis!AfterReply
<1> QED
  BY <1>1, <1>2, <1>4, <1>5

LEMMA BulkOf ==
  ASSUME NEW items \in Seq(Seq(Nat)), NEW k \in 1..Len(items), NEW x \in Seq(Nat)
  PROVE  items[k] \in Seq(Nat) /\ x \o Redis!WriteBulkString(items[k]) \in Seq(Nat)
<1>1. items[k] \in Seq(Nat)
  OBVIOUS
<1>2. Redis!WriteBulkString(items[k]) \in Seq(Nat)
  BY <1>1, BulkLayout
<1> QED
  BY <1>1, <1>2

LEMMA HeaderLayout ==
  ASSUME NEW items \in Seq(Seq(Nat))
  PROVE  LET h == Redis!ArrayHeader(items) IN
         h \in Seq(Nat) /\ Len(h) = 4 /\ h[1] = 42 /\ h[2] = 48 + Len(items) /\ h[3] = 13 /\ h[4] = 10
BY DEF Redis!ArrayHeader, Redis!CRLF, Redis!CR, Redis!LF

ArrayRun(g, items) ==
  /\ g[0] = Redis!ArrayHeader(items) /\ g[Len(items)] = Redis!WriteArray(items)
  /\ \A k \in 1..Len(items) : g[k] = g[k - 1] \o Redis!WriteBulkString(items[k])
  /\ \A k \in 0..Len(items) : g[k] \in Seq(Nat)

LEMMA ArraySteps ==
  ASSUME NEW items \in Seq(Seq(Nat))
  PROVE  \E g : ArrayRun(g, items)
<1> DEFINE n == Len(items)
           T == Seq(Nat)
           G == [k \in 1..n |-> [x \in T |-> x \o Redis!WriteBulkString(items[k])]]
           It == CHOOSE h : h = [u \in SUBSET (1..n) |->
                   IF u = {} THEN Redis!ArrayHeader(items) ELSE h[u \ {Greatest(u)}] \o Redis!WriteBulkString(items[Greatest(u)])]
<1>1. n \in Nat /\ Redis!ArrayHeader(items) \in T
  BY HeaderLayout
<1>0. DOMAIN items = 1..n
  OBVIOUS
<1>2. ASSUME NEW k \in 1..n, NEW x \in T PROVE x \o Redis!WriteBulkString(items[k]) \in T
  BY BulkOf
<1>3. G \in [1..n -> [T -> T]]
  BY <1>2
<1>4. PICK it \in [SUBSET (1..n) -> T] : Tabulates(it, n, Redis!ArrayHeader(items), G)
  <2> HIDE DEF G, T, n
  <2> QED
    BY <1>1, <1>3, FoldTable
<1>5. it = [u \in SUBSET (1..n) |->
             IF u = {} THEN Redis!ArrayHeader(items) ELSE it[u \ {Greatest(u)}] \o Redis!WriteBulkString(items[Greatest(u)])]
  <2>1. ASSUME NEW u \in SUBSET (1..n), u # {}
        PROVE G[Greatest(u)][it[u \ {Greatest(u)}]] = it[u \ {Greatest(u)}] \o Redis!WriteBulkString(items[Greatest(u)])
    <3>1. Greatest(u) \in 1..n
      BY <1>1, <2>1, GreatestIn
    <3>2. it[u \ {Greatest(u)}] \in T
      OBVIOUS
    <3> QED
      BY <3>1, <3>2
  <2> HIDE DEF G, T, n
  <2> QED
    BY <1>4, <2>1 DEF Tabulates
<1>6. It = [u \in SUBSET (1..n) |->
             IF u = {} THEN Redis!ArrayHeader(items) ELSE It[u \ {Greatest(u)}] \o Redis!WriteBulkString(items[Greatest(u)])]
  BY <1>5
<1>7. Redis!WriteArray(items) = It[1..n]
  BY <1>1, <1>0 DEF Redis!WriteArray, Redis!FoldLeft, Redis!MapThenFoldSet, Redis!Max, Greatest
<1> HIDE DEF It
<1>8. It[{}] = Redis!ArrayHeader(items)
  BY <1>6
<1>9. ASSUME NEW k \in 1..n, It[1..k - 1] \in T PROVE It[1..k] = G[k][It[1..k - 1]]
  <2>1. Greatest(1..k) = k /\ (1..k) \ {k} = 1..k - 1 /\ 1..k \in SUBSET (1..n) /\ 1..k # {}
    BY <1>1, GreatestOfFirst
  <2> QED
    BY <1>6, <1>9, <2>1
<1>10. PICK g \in [0..n -> T] : Runs(g, It, n, Redis!ArrayHeader(items), G)
  <2>1. Follows(It, n, Redis!ArrayHeader(items), G, T)
    BY <1>8, <1>9 DEF Follows
  <2> HIDE DEF G, T, n
  <2> QED
    BY <1>1, <1>3, <2>1, FoldRun
<1>11. ASSUME NEW k \in 1..n PROVE g[k] = g[k - 1] \o Redis!WriteBulkString(items[k])
  <2>1. g[k - 1] \in T
    <3>1. k - 1 \in 0..n
      BY <1>1
    <3> QED
      BY <1>10, <3>1
  <2> QED
    BY <1>10, <2>1 DEF Runs
<1> QED
  BY <1>7, <1>10, <1>11 DEF ArrayRun, Runs

LEMMA AfterType ==
  ASSUME NEW r \in Seq(Nat), NEW j \in Int
  PROVE  Redis!AfterBulk(r, j) \in Int
<1>1. CASE j \notin 1..Len(r) - 1
  BY <1>1 DEF Redis!AfterBulk
<1>2. CASE j \in 1..Len(r) - 1
  <2>1. r[j + 1] \in Nat /\ j \in Nat \ {0}
    BY <1>2
  <2>2. Redis!BytesIndexCR(r, j) \in Int
    <3>1. CASE Redis!BytesIndexCR(r, j) = -1
      BY <3>1
    <3>2. CASE Redis!BytesIndexCR(r, j) # -1
      BY <2>1, <3>2, IndexFound
    <3> QED
      BY <3>1, <3>2
  <2>3. Redis!AfterLine(r, j) \in Int
    BY <2>1, <2>2 DEF Redis!AfterLine
  <2> QED
    BY <2>1, <2>3 DEF Redis!AfterBulk
<1> QED
  BY <1>1, <1>2

\* The client's loop over the elements of a reply.
AfterElements(r, m, first) ==
  Redis!FoldLeft(LAMBDA j, k : Redis!AfterBulk(r, j), first, [k \in 1..m |-> k])

AfterRun(g, r, m, first) ==
  /\ g[0] = first /\ g[m] = AfterElements(r, m, first)
  /\ \A k \in 1..m : g[k] = Redis!AfterBulk(r, g[k - 1])
  /\ \A k \in 0..m : g[k] \in Int

LEMMA AfterSteps ==
  ASSUME NEW r \in Seq(Nat), NEW m \in Nat, NEW first \in Int
  PROVE  \E g : AfterRun(g, r, m, first)
<1> DEFINE n == m
           T == Int
           G == [k \in 1..n |-> [x \in T |-> Redis!AfterBulk(r, x)]]
           It == CHOOSE h : h = [u \in SUBSET (1..n) |->
                   IF u = {} THEN first ELSE Redis!AfterBulk(r, h[u \ {Greatest(u)}])]
<1>1. n \in Nat /\ first \in T
  OBVIOUS
<1>2. ASSUME NEW k \in 1..n, NEW x \in T PROVE Redis!AfterBulk(r, x) \in T
  BY AfterType
<1>3. G \in [1..n -> [T -> T]]
  BY <1>2
<1>4. PICK it \in [SUBSET (1..n) -> T] : Tabulates(it, n, first, G)
  <2> HIDE DEF G, T, n
  <2> QED
    BY <1>1, <1>3, FoldTable
<1>5. it = [u \in SUBSET (1..n) |->
             IF u = {} THEN first ELSE Redis!AfterBulk(r, it[u \ {Greatest(u)}])]
  <2>1. ASSUME NEW u \in SUBSET (1..n), u # {}
        PROVE G[Greatest(u)][it[u \ {Greatest(u)}]] = Redis!AfterBulk(r, it[u \ {Greatest(u)}])
    <3>1. Greatest(u) \in 1..n
      BY <1>1, <2>1, GreatestIn
    <3>2. it[u \ {Greatest(u)}] \in T
      OBVIOUS
    <3> QED
      BY <3>1, <3>2
  <2> HIDE DEF G, T, n
  <2> QED
    BY <1>4, <2>1 DEF Tabulates
<1>6. It = [u \in SUBSET (1..n) |->
             IF u = {} THEN first ELSE Redis!AfterBulk(r, It[u \ {Greatest(u)}])]
  BY <1>5
<1>7. AfterElements(r, m, first) = It[1..n]
  BY <1>1 DEF AfterElements, Redis!FoldLeft, Redis!MapThenFoldSet, Redis!Max, Greatest
<1> HIDE DEF It
<1>8. It[{}] = first
  BY <1>6
<1>9. ASSUME NEW k \in 1..n, It[1..k - 1] \in T PROVE It[1..k] = G[k][It[1..k - 1]]
  <2>1. Greatest(1..k) = k /\ (1..k) \ {k} = 1..k - 1 /\ 1..k \in SUBSET (1..n) /\ 1..k # {}
    BY <1>1, GreatestOfFirst
  <2> QED
    BY <1>6, <1>9, <2>1
<1>10. PICK g \in [0..n -> T] : Runs(g, It, n, first, G)
  <2>1. Follows(It, n, first, G, T)
    BY <1>8, <1>9 DEF Follows
  <2> HIDE DEF G, T, n
  <2> QED
    BY <1>1, <1>3, <2>1, FoldRun
<1>11. ASSUME NEW k \in 1..n PROVE g[k] = Redis!AfterBulk(r, g[k - 1])
  <2>1. g[k - 1] \in T
    <3>1. k - 1 \in 0..n
      BY <1>1
    <3> QED
      BY <1>10, <3>1
  <2> QED
    BY <1>10, <2>1 DEF Runs
<1> QED
  BY <1>7, <1>10, <1>11 DEF AfterRun, Runs

LEMMA FirstPart ==
  ASSUME NEW x \in Seq(Nat), NEW w \in Seq(Nat)
  PROVE  Len(x) <= Len(x \o w) /\ \A i \in 1..Len(x) : (x \o w)[i] = x[i]
<1>1. Len(x \o w) = Len(x) + Len(w) /\ Len(x) \in Nat /\ Len(w) \in Nat
  OBVIOUS
<1>2. Len(x) <= Len(x \o w)
  BY <1>1
<1>3. ASSUME NEW i \in 1..Len(x) PROVE (x \o w)[i] = x[i]
  OBVIOUS
<1> QED
  BY <1>2, <1>3

\* The bytes written so far begin the reply.
LEMMA ArrayPrefix ==
  ASSUME NEW items \in Seq(Seq(Nat)), NEW g, ArrayRun(g, items), NEW k \in 0..Len(items)
  PROVE  /\ g[k] \in Seq(Nat) /\ Len(g[k]) <= Len(g[Len(items)])
         /\ \A i \in 1..Len(g[k]) : g[Len(items)][i] = g[k][i]
<1> DEFINE n == Len(items)
           P == {d \in 0..n : /\ Len(g[n - d]) <= Len(g[n])
                              /\ \A i \in 1..Len(g[n - d]) : g[n][i] = g[n - d][i]}
<1>0. n \in Nat
  OBVIOUS
<1>1. \A j \in 0..n : g[j] \in Seq(Nat)
  BY DEF ArrayRun
<1>2. 0 \in P
  <2>1. n - 0 = n /\ 0 \in 0..n /\ n \in 0..n
    BY <1>0
  <2> QED
    BY <1>1, <2>1
<1>3. ASSUME NEW d \in 1..n, d - 1 \in P PROVE d \in P
  <2>1. PICK a, b : a = n - d /\ b = n - (d - 1) /\ a \in 0..n /\ b \in 1..n /\ b - 1 = a
    BY <1>0
  <2>2. Len(g[b]) <= Len(g[n]) /\ \A i \in 1..Len(g[b]) : g[n][i] = g[b][i]
    BY <1>3, <2>1
  <2>3. g[b] = g[a] \o Redis!WriteBulkString(items[b]) /\ g[a] \in Seq(Nat)
    BY <1>1, <2>1 DEF ArrayRun
  <2>4. PICK w : w = Redis!WriteBulkString(items[b]) /\ w \in Seq(Nat)
    <3>1. items[b] \in Seq(Nat)
      BY <2>1
    <3> QED
      BY <3>1, BulkLayout
  <2>5. Len(g[a]) <= Len(g[b]) /\ \A i \in 1..Len(g[a]) : g[b][i] = g[a][i]
    <3>1. PICK x : x = g[a] /\ x \in Seq(Nat)
      BY <2>3
    <3>2. Len(x) <= Len(x \o w) /\ \A i \in 1..Len(x) : (x \o w)[i] = x[i]
      BY <2>4, <3>1, FirstPart
    <3> QED
      BY <2>3, <2>4, <3>1, <3>2
  <2>6. n \in 0..n /\ b \in 0..n
    BY <1>0, <2>1
  <2>7. Len(g[n]) \in Nat /\ Len(g[b]) \in Nat /\ Len(g[a]) \in Nat
    <3>1. g[n] \in Seq(Nat) /\ g[b] \in Seq(Nat) /\ g[a] \in Seq(Nat)
      BY <1>1, <2>1, <2>6
    <3>2. \A x \in Seq(Nat) : Len(x) \in Nat
      OBVIOUS
    <3> QED
      BY ONLY <3>1, <3>2
  <2>8. Len(g[a]) <= Len(g[n]) /\ \A i \in 1..Len(g[a]) : g[n][i] = g[a][i]
    <3>1. \A i \in 1..Len(g[a]) : i \in 1..Len(g[b])
      BY <2>5, <2>7
    <3>2. Len(g[a]) <= Len(g[n])
      BY ONLY <2>2, <2>5, <2>7
    <3>3. \A i \in 1..Len(g[a]) : g[n][i] = g[a][i]
      BY ONLY <2>2, <2>5, <3>1
    <3> QED
      BY <3>2, <3>3
  <2>9. d \in 0..n
    BY <1>0
  <2> QED
    BY <2>1, <2>8, <2>9
<1>4. n - k \in 0..n /\ n - (n - k) = k
  BY <1>0
<1>5. n - k \in P
  <2> HIDE DEF P
  <2>1. \A d \in 0..n : d \in P
    BY <1>0, <1>2, <1>3, UpTo
  <2> QED
    BY <1>4, <2>1
<1> QED
  BY <1>1, <1>4, <1>5

LEMMA ArrayReply ==
  ASSUME NEW items \in Seq(Seq(Nat))
  PROVE  Redis!AfterReply(Redis!WriteArray(items)) = Len(Redis!WriteArray(items)) + 1
<1>1. PICK g : ArrayRun(g, items)
  BY ArraySteps
<1>2. PICK n, r : n = Len(items) /\ r = Redis!WriteArray(items) /\ n \in Nat
  OBVIOUS
<1>3. r = g[n] /\ r \in Seq(Nat)
  <2>1. n \in 0..n
    BY <1>2
  <2> QED
    BY <1>1, <1>2, <2>1 DEF ArrayRun
<1>4. ASSUME NEW k \in 0..n PROVE g[k] \in Seq(Nat) /\ Len(g[k]) <= Len(r) /\ \A i \in 1..Len(g[k]) : r[i] = g[k][i]
  <2>1. k \in 0..Len(items)
    BY <1>2
  <2>2. /\ g[k] \in Seq(Nat) /\ Len(g[k]) <= Len(g[Len(items)])
        /\ \A i \in 1..Len(g[k]) : g[Len(items)][i] = g[k][i]
    BY <1>1, <2>1, ArrayPrefix
  <2>3. g[Len(items)] = r
    BY <1>2, <1>3
  <2> QED
    BY <2>2, <2>3
<1>5. /\ g[0] \in Seq(Nat) /\ Len(g[0]) = 4
      /\ g[0][1] = 42 /\ g[0][2] = 48 + n /\ g[0][3] = 13 /\ g[0][4] = 10
  BY <1>1, <1>2, HeaderLayout DEF ArrayRun
<1>6. Len(r) >= 4 /\ r[1] = 42 /\ r[2] = 48 + n /\ r[3] = 13 /\ r[4] = 10
  <2>1. 0 \in 0..n
    BY <1>2
  <2>2. PICK x : x = g[0] /\ Len(x) = 4 /\ x[1] = 42 /\ x[2] = 48 + n /\ x[3] = 13 /\ x[4] = 10
    BY <1>5
  <2>3. Len(x) <= Len(r) /\ \A i \in 1..Len(x) : r[i] = x[i]
    BY <1>4, <2>1, <2>2
  <2>4. Len(r) >= 4 /\ r[1] = x[1] /\ r[2] = x[2] /\ r[3] = x[3] /\ r[4] = x[4]
    <3>1. Len(r) \in Nat
      BY <1>3
    <3>2. 1 \in 1..4 /\ 2 \in 1..4 /\ 3 \in 1..4 /\ 4 \in 1..4
      OBVIOUS
    <3> QED
      BY <2>2, <2>3, <3>1, <3>2
  <2> QED
    BY <2>2, <2>4
<1>7. Redis!AfterLine(r, 1) = 5
  <2>1. IsEnd(r, 3)
    BY <1>3, <1>6 DEF IsEnd
  <2>2. ~IsEnd(r, 1) /\ ~IsEnd(r, 2)
    BY <1>2, <1>6 DEF IsEnd
  <2>3. \A i \in 1..3 - 1 : i = 1 \/ i = 2
    OBVIOUS
  <2>4. \A i \in 1..3 - 1 : ~IsEnd(r, i)
    BY <2>2, <2>3
  <2>5. Redis!AfterLine(r, 1) = 3 + 2
    BY <1>3, <2>1, <2>4, LineEnds
  <2> QED
    BY <2>5
<1>8. Redis!AfterReply(r) = AfterElements(r, n, 5)
  <2>1. r[2] - 48 = n
    BY <1>2, <1>6
  <2>2. r[1] # 36 /\ r[1] = 42
    BY <1>6
  <2>3. Redis!AfterReply(r) = AfterElements(r, r[2] - 48, Redis!AfterLine(r, 1))
    BY <2>2 DEF Redis!AfterReply, AfterElements
  <2> QED
    BY <1>7, <2>1, <2>3
<1>9. PICK h : AfterRun(h, r, n, 5)
  BY <1>2, <1>3, AfterSteps
<1>10. /\ h[0] = 5 /\ h[n] = AfterElements(r, n, 5)
       /\ \A k \in 1..n : h[k] = Redis!AfterBulk(r, h[k - 1])
  BY <1>9 DEF AfterRun
<1> DEFINE P == {k \in 0..n : h[k] = Len(g[k]) + 1}
<1>11. 0 \in P
  <2>1. 0 \in 0..n /\ h[0] = Len(g[0]) + 1
    BY <1>2, <1>5, <1>10
  <2> QED
    BY <2>1
<1>12. ASSUME NEW k \in 1..n, k - 1 \in P PROVE k \in P
  <2>1. PICK j, w : j = h[k - 1] /\ w = Redis!WriteBulkString(items[k])
    OBVIOUS
  <2>2. k - 1 \in 0..n /\ k \in 0..n
    BY <1>2
  <2>3. PICK x, y : x = g[k - 1] /\ y = g[k]
    OBVIOUS
  <2>4. x \in Seq(Nat) /\ y \in Seq(Nat) /\ Len(y) <= Len(r) /\ \A i \in 1..Len(y) : r[i] = y[i]
    BY <1>4, <2>2, <2>3
  <2>5. y = x \o w /\ w \in Seq(Nat) /\ items[k] \in Seq(Nat)
    <3>1. items[k] \in Seq(Nat)
      BY <1>2
    <3> QED
      BY <1>1, <1>2, <2>1, <2>3, <3>1, BulkLayout DEF ArrayRun
  <2>6. j = Len(x) + 1
    BY <1>12, <2>1, <2>3
  <2>7. StandsAt(w, r, j)
    <3>1. Len(y) = Len(x) + Len(w) /\ Len(x) \in Nat /\ Len(w) \in Nat
      BY <2>4, <2>5
    <3>2. ASSUME NEW i \in 1..Len(w) PROVE r[j - 1 + i] = w[i]
      <4>1. j - 1 + i = Len(x) + i /\ Len(x) + i \in 1..Len(y)
        BY <2>6, <3>1
      <4>2. y[Len(x) + i] = w[i]
        BY <2>4, <2>5
      <4> QED
        BY <2>4, <4>1, <4>2
    <3>3. j - 1 + Len(w) <= Len(r)
      BY <2>4, <2>6, <3>1
    <3> QED
      BY <3>2, <3>3 DEF StandsAt
  <2>8. Redis!AfterBulk(r, j) = j + Len(w)
    <3>1. j \in Nat \ {0}
      BY <2>4, <2>6
    <3> QED
      BY <1>3, <2>1, <2>5, <2>7, <3>1, BulkEnds
  <2>9. h[k] = j + Len(w)
    BY <1>10, <2>1, <2>8
  <2>10. Len(y) = Len(x) + Len(w) /\ Len(x) \in Nat /\ Len(w) \in Nat
    BY <2>4, <2>5
  <2>11. h[k] = Len(y) + 1
    BY <2>6, <2>9, <2>10
  <2> QED
    BY <2>2, <2>3, <2>11
<1>13. n \in P
  <2> HIDE DEF P
  <2>1. \A k \in 0..n : k \in P
    BY <1>2, <1>11, <1>12, UpTo
  <2> QED
    BY <1>2, <2>1
<1> QED
  BY <1>2, <1>3, <1>8, <1>10, <1>13

-----------------------------------------------------------------------------
(* The reply to each command.                                              *)

LEMMA KeysType == Redis!Keys \in Seq(Seq(Nat))
<1> DEFINE D == DOMAIN Keyspace
           n == Cardinality(D)
<1>1. IsFiniteSet(D) /\ D \subseteq Seq(Nat)
  BY KeyspaceAssumption
<1>2. Redis!Keys = CHOOSE b \in Redis!Bijection(1..n, D) : TRUE
  BY DEF Redis!Keys, Redis!Cardinality, Cardinality
<1> HIDE DEF D
<1>3. n \in Nat /\ ExistsBijection(1..n, D)
  BY <1>1, FS_CardinalityType
<1> HIDE DEF n
<1>4. \E b : b \in Redis!Bijection(1..n, D)
  BY <1>3 DEF ExistsBijection, Bijection, Injection, IsInjective, Surjection,
              Redis!Bijection, Redis!Injection, Redis!Surjection, Redis!IsInjective
<1>5. Redis!Keys \in [1..n -> D]
  <2>1. Redis!Keys \in Redis!Bijection(1..n, D)
    BY <1>2, <1>4
  <2> QED
    BY <2>1 DEF Redis!Bijection, Redis!Injection
<1>6. Redis!Keys \in Seq(D)
  BY <1>3, <1>5
<1> QED
  BY <1>1, <1>6

LEMMA ValueType ==
  ASSUME NEW keys \in Seq(Seq(Nat)), NEW k \in 1..Len(keys), NEW vs \in Seq(Seq(Nat))
  PROVE  (IF keys[k] \in DOMAIN Keyspace THEN Append(vs, Keyspace[keys[k]]) ELSE vs) \in Seq(Seq(Nat))
<1>1. CASE keys[k] \in DOMAIN Keyspace
  <2>1. Keyspace[keys[k]] \in Seq(Nat)
    BY <1>1, KeyspaceAssumption
  <2> QED
    BY <1>1, <2>1
<1>2. CASE keys[k] \notin DOMAIN Keyspace
  BY <1>2
<1> QED
  BY <1>1, <1>2

ValuesRun(g, keys) ==
  /\ g[0] = <<>> /\ g[Len(keys)] = Redis!Values(keys)
  /\ \A k \in 1..Len(keys) : g[k] = (IF keys[k] \in DOMAIN Keyspace THEN Append(g[k - 1], Keyspace[keys[k]]) ELSE g[k - 1])
  /\ \A k \in 0..Len(keys) : g[k] \in Seq(Seq(Nat))

LEMMA ValuesSteps ==
  ASSUME NEW keys \in Seq(Seq(Nat))
  PROVE  \E g : ValuesRun(g, keys)
<1> DEFINE n == Len(keys)
           T == Seq(Seq(Nat))
           G == [k \in 1..n |-> [x \in T |-> (IF keys[k] \in DOMAIN Keyspace THEN Append(x, Keyspace[keys[k]]) ELSE x)]]
           It == CHOOSE h : h = [u \in SUBSET (1..n) |->
                   IF u = {} THEN <<>> ELSE (IF keys[Greatest(u)] \in DOMAIN Keyspace THEN Append(h[u \ {Greatest(u)}], Keyspace[keys[Greatest(u)]]) ELSE h[u \ {Greatest(u)}])]
<1>1. n \in Nat /\ <<>> \in T
  OBVIOUS
<1>0. DOMAIN keys = 1..n
  OBVIOUS
<1>2. ASSUME NEW k \in 1..n, NEW x \in T PROVE (IF keys[k] \in DOMAIN Keyspace THEN Append(x, Keyspace[keys[k]]) ELSE x) \in T
  BY ValueType
<1>3. G \in [1..n -> [T -> T]]
  BY <1>2
<1>4. PICK it \in [SUBSET (1..n) -> T] : Tabulates(it, n, <<>>, G)
  <2> HIDE DEF G, T, n
  <2> QED
    BY <1>1, <1>3, FoldTable
<1>5. it = [u \in SUBSET (1..n) |->
             IF u = {} THEN <<>> ELSE (IF keys[Greatest(u)] \in DOMAIN Keyspace THEN Append(it[u \ {Greatest(u)}], Keyspace[keys[Greatest(u)]]) ELSE it[u \ {Greatest(u)}])]
  <2>1. ASSUME NEW u \in SUBSET (1..n), u # {}
        PROVE G[Greatest(u)][it[u \ {Greatest(u)}]] = (IF keys[Greatest(u)] \in DOMAIN Keyspace THEN Append(it[u \ {Greatest(u)}], Keyspace[keys[Greatest(u)]]) ELSE it[u \ {Greatest(u)}])
    <3>1. Greatest(u) \in 1..n
      BY <1>1, <2>1, GreatestIn
    <3>2. it[u \ {Greatest(u)}] \in T
      OBVIOUS
    <3> QED
      BY <3>1, <3>2
  <2> HIDE DEF G, T, n
  <2> QED
    BY <1>4, <2>1 DEF Tabulates
<1>6. It = [u \in SUBSET (1..n) |->
             IF u = {} THEN <<>> ELSE (IF keys[Greatest(u)] \in DOMAIN Keyspace THEN Append(It[u \ {Greatest(u)}], Keyspace[keys[Greatest(u)]]) ELSE It[u \ {Greatest(u)}])]
  BY <1>5
<1>7. Redis!Values(keys) = It[1..n]
  BY <1>1, <1>0 DEF Redis!Values, Redis!FoldLeft, Redis!MapThenFoldSet, Redis!Max, Greatest
<1> HIDE DEF It
<1>8. It[{}] = <<>>
  BY <1>6
<1>9. ASSUME NEW k \in 1..n, It[1..k - 1] \in T PROVE It[1..k] = G[k][It[1..k - 1]]
  <2>1. Greatest(1..k) = k /\ (1..k) \ {k} = 1..k - 1 /\ 1..k \in SUBSET (1..n) /\ 1..k # {}
    BY <1>1, GreatestOfFirst
  <2> QED
    BY <1>6, <1>9, <2>1
<1>10. PICK g \in [0..n -> T] : Runs(g, It, n, <<>>, G)
  <2>1. Follows(It, n, <<>>, G, T)
    BY <1>8, <1>9 DEF Follows
  <2> HIDE DEF G, T, n
  <2> QED
    BY <1>1, <1>3, <2>1, FoldRun
<1>11. ASSUME NEW k \in 1..n PROVE g[k] = (IF keys[k] \in DOMAIN Keyspace THEN Append(g[k - 1], Keyspace[keys[k]]) ELSE g[k - 1])
  <2>1. g[k - 1] \in T
    <3>1. k - 1 \in 0..n
      BY <1>1
    <3> QED
      BY <1>10, <3>1
  <2> QED
    BY <1>10, <2>1 DEF Runs
<1> QED
  BY <1>7, <1>10, <1>11 DEF ValuesRun, Runs

LEMMA ValuesType ==
  ASSUME NEW keys \in Seq(Seq(Nat))
  PROVE  Redis!Values(keys) \in Seq(Seq(Nat))
<1>1. PICK g : ValuesRun(g, keys)
  BY ValuesSteps
<1>2. Len(keys) \in 0..Len(keys)
  OBVIOUS
<1> QED
  BY <1>1, <1>2 DEF ValuesRun

LEMMA ReplyEnds ==
  ASSUME NEW c \in Calls, Redis!BytesIndexCR(c[1], 1) < 0
  PROVE  Redis!AfterReply(Redis!Reply(c)) = Len(Redis!Reply(c)) + 1
<1> DEFINE Stays(r) == Redis!AfterReply(r) = Len(r) + 1
<1>1. c \in Seq(Seq(Nat)) /\ c # <<>> /\ c[1] \in Seq(Nat) /\ Tail(c) \in Seq(Seq(Nat))
  BY DEF Calls
<1>2. PICK keys, first : /\ keys = Redis!Keys
                         /\ first = IF Len(c) = 1 THEN <<>> ELSE c[2]
  OBVIOUS
<1>3. keys \in Seq(Seq(Nat)) /\ first \in Seq(Nat)
  <2>1. PICK l : l = Len(c) /\ l \in Nat /\ l # 0
    BY <1>1
  <2>2. l # 1 => 2 \in 1..l
    BY <2>1
  <2>3. l # 1 => c[2] \in Seq(Nat)
    BY <1>1, <2>1, <2>2
  <2> QED
    BY <1>2, <2>1, <2>3, KeysType
<1>4. ASSUME NEW s \in Seq(Nat) PROVE Stays(Redis!WriteBulkString(s))
  BY BulkReply
<1>5. ASSUME NEW items \in Seq(Seq(Nat)) PROVE Stays(Redis!WriteArray(items))
  BY ArrayReply
<1>6. ASSUME NEW s \in Seq(Nat), Redis!BytesIndexCR(s, 1) < 0
      PROVE  Stays(Redis!WriteSimpleString(s)) /\ Stays(Redis!WriteError(s))
  BY <1>6, LineReply DEF Redis!WriteSimpleString, Redis!WriteError
<1>7. Redis!Ok \in Seq(Nat) /\ Redis!BytesIndexCR(Redis!Ok, 1) < 0
  <2>1. Redis!Ok \in Seq(Nat)
    BY DEF Redis!Ok
  <2>2. \A j \in 1..Len(Redis!Ok) - 1 : ~IsEnd(Redis!Ok, j)
    BY DEF Redis!Ok, IsEnd
  <2>3. Redis!BytesIndexCR(Redis!Ok, 1) = -1
    BY <2>1, <2>2, IndexMissing
  <2> QED
    BY <2>1, <2>3
<1>8. ASSUME NEW n \in {0, 1} PROVE Stays(Redis!WriteInteger(n))
  <2>0. PICK s : s = <<48 + n>>
    OBVIOUS
  <2>1. s = <<48 + n>> /\ s \in Seq(Nat) /\ Len(s) = 1
    <3>1. 48 + n \in Nat
      OBVIOUS
    <3> QED
      BY <2>0, <3>1
  <2>2. Redis!BytesIndexCR(s, 1) < 0
    <3>1. \A j \in 1..Len(s) - 1 : ~IsEnd(s, j)
      BY <2>1
    <3>2. s \in Seq(Nat) /\ 1 \in Nat \ {0}
      BY <2>1
    <3>3. Redis!BytesIndexCR(s, 1) = -1
      BY ONLY <3>1, <3>2, IndexMissing
    <3> QED
      BY <3>3
  <2>3. <<58, 48 + n>> = <<58>> \o s
    BY <2>1
  <2>4. Redis!WriteInteger(n) = <<58>> \o s \o Redis!CRLF
    BY <2>3 DEF Redis!WriteInteger
  <2>5. 58 \in {43, 45, 58} /\ s \in Seq(Nat)
    BY <2>1
  <2>6. Stays(<<58>> \o s \o Redis!CRLF)
    BY <2>2, <2>5, LineReply
  <2> QED
    BY <2>4, <2>6
<1>9. Redis!NilBulk = Redis!WriteBulkString(<<>>) /\ <<>> \in Seq(Nat)
  BY DEF Redis!WriteBulkString
<1> HIDE DEF Stays
<1>10. PICK r : r = Redis!Reply(c)
  OBVIOUS
<1>11. Stays(r)
  <2>1. CASE c[1] = <<80>>
    <3>1. r = Redis!WriteSimpleString(Redis!Ok)
      BY <1>10, <2>1 DEF Redis!Reply
    <3> QED
      BY <1>6, <1>7, <3>1
  <2>2. CASE c[1] = <<69>>
    <3>1. r = Redis!WriteError(Redis!Ok) \/ r = Redis!WriteBulkString(first)
      BY <1>2, <1>10, <2>2 DEF Redis!Reply
    <3> QED
      BY <1>3, <1>4, <1>6, <1>7, <3>1
  <2>3. CASE c[1] = <<71>>
    <3>1. \/ r = Redis!WriteError(Redis!Ok) \/ r = Redis!NilBulk
          \/ first \in DOMAIN Keyspace /\ r = Redis!WriteBulkString(Keyspace[first])
      BY <1>2, <1>10, <2>3 DEF Redis!Reply
    <3> QED
      BY <1>4, <1>6, <1>7, <1>9, <3>1, KeyspaceAssumption
  <2>4. CASE c[1] = <<88>>
    <3>1. r = Redis!WriteInteger(0) \/ r = Redis!WriteInteger(1)
      BY <1>2, <1>10, <2>4 DEF Redis!Reply
    <3> QED
      BY <1>8, <3>1
  <2>5. CASE c[1] = <<77>>
    <3>1. r = Redis!WriteArray(Redis!Values(Tail(c)))
      BY <1>10, <2>5 DEF Redis!Reply
    <3> QED
      BY <1>1, <1>5, <3>1, ValuesType
  <2>6. CASE c[1] = <<75>>
    <3>1. r = Redis!WriteArray(keys)
      BY <1>2, <1>10, <2>6 DEF Redis!Reply
    <3> QED
      BY <1>3, <1>5, <3>1
  <2>7. CASE c[1] = <<83>>
    <3>1. r = Redis!WriteArray(<< <<48>> >> \o keys)
      BY <1>2, <1>10, <2>7 DEF Redis!Reply
    <3>2. << <<48>> >> \o keys \in Seq(Seq(Nat))
      BY <1>3
    <3> QED
      BY <1>5, <3>1, <3>2
  <2>8. CASE c[1] = <<66>>
    <3>1. r = Redis!WriteArray(<< <<98>>, first, <<48>> >>)
      BY <1>2, <1>10, <2>8 DEF Redis!Reply
    <3>2. << <<98>>, first, <<48>> >> \in Seq(Seq(Nat))
      BY <1>3
    <3> QED
      BY <1>5, <3>1, <3>2
  <2>9. CASE c[1] \notin {<<80>>, <<69>>, <<71>>, <<88>>, <<77>>, <<75>>, <<83>>, <<66>>}
    <3>1. r = Redis!WriteError(c[1])
      BY <1>10, <2>9 DEF Redis!Reply
    <3> QED
      BY <1>1, <1>6, <3>1
  <2> QED
    BY <2>1, <2>2, <2>3, <2>4, <2>5, <2>6, <2>7, <2>8, <2>9
<1> QED
  BY <1>10, <1>11 DEF Stays

-----------------------------------------------------------------------------
(* What the parser makes of a buffer p is what it makes of p with more      *)
(* behind it.                                                               *)

LEMMA Within ==
  ASSUME NEW p \in Seq(Nat), NEW r \in Seq(Nat), NEW i \in Nat \ {0}, NEW j \in Int, j <= Len(p)
  PROVE  SubSeq(p \o r, i, j) = SubSeq(p, i, j)
<1>1. Len(p) <= Len(p \o r) /\ p \o r \in Seq(Nat) /\ \A k \in 1..Len(p) : (p \o r)[k] = p[k]
  BY FirstPart
<1>2. PICK b : b = p \o r
  OBVIOUS
<1>3. b \in Seq(Nat) /\ Len(p) <= Len(b) /\ \A k \in 1..Len(p) : b[k] = p[k]
  BY <1>1, <1>2
<1>4. CASE i > j
  BY <1>2, <1>3, <1>4
<1>5. CASE ~(i > j)
  <2>1. \A k \in 1..j - i + 1 : i + k - 1 \in 1..Len(p)
    BY <1>5
  <2>2. SubSeq(p, i, j) \in Seq(Nat) /\ SubSeq(b, i, j) \in Seq(Nat)
    <3>1. j <= Len(b) /\ j <= Len(p)
      BY <1>3
    <3> QED
      BY <1>3, <3>1, Cut
  <2>3. Len(SubSeq(p, i, j)) = j - i + 1 /\ Len(SubSeq(b, i, j)) = j - i + 1
    BY <1>3, <1>5
  <2>4. \A k \in 1..j - i + 1 : SubSeq(p, i, j)[k] = p[i + k - 1] /\ SubSeq(b, i, j)[k] = b[i + k - 1]
    BY <1>3, <1>5
  <2>5. \A k \in 1..j - i + 1 : SubSeq(p, i, j)[k] = SubSeq(b, i, j)[k]
    BY <1>3, <2>1, <2>4
  <2> QED
    BY <1>2, <2>2, <2>3, <2>5
<1> QED
  BY <1>4, <1>5

LEMMA SameBytes ==
  ASSUME NEW s \in Seq(Nat), NEW t \in Seq(Nat), Len(s) = Len(t), \A k \in 1..Len(t) : s[k] = t[k]
  PROVE  s = t
<1>1. s = [k \in 1..Len(s) |-> s[k]] /\ t = [k \in 1..Len(t) |-> t[k]]
  OBVIOUS
<1>2. [k \in 1..Len(s) |-> s[k]] = [k \in 1..Len(t) |-> t[k]]
  OBVIOUS
<1> QED
  BY <1>1, <1>2

LEMMA RestOf ==
  ASSUME NEW s \in Seq(Nat), NEW i \in 1..Len(s) + 1
  PROVE  /\ SubSeq(s, i, Len(s)) \in Seq(Nat) /\ Len(SubSeq(s, i, Len(s))) = Len(s) + 1 - i
         /\ \A k \in 1..Len(SubSeq(s, i, Len(s))) : SubSeq(s, i, Len(s))[k] = s[i + k - 1]
<1>1. i \in Nat \ {0} /\ Len(s) \in Nat
  OBVIOUS
<1>2. SubSeq(s, i, Len(s)) \in Seq(Nat)
  BY <1>1, Cut
<1>3. Len(SubSeq(s, i, Len(s))) = Len(s) + 1 - i
  OBVIOUS
<1> QED
  BY <1>2, <1>3

LEMMA Behind ==
  ASSUME NEW p \in Seq(Nat), NEW r \in Seq(Nat), NEW i \in 1..Len(p) + 1
  PROVE  SubSeq(p \o r, i, Len(p \o r)) = SubSeq(p, i, Len(p)) \o r
<1>1. PICK b : b = p \o r
  OBVIOUS
<1>2. b \in Seq(Nat) /\ Len(b) = Len(p) + Len(r)
      /\ (\A k \in 1..Len(p) : b[k] = p[k]) /\ (\A k \in 1..Len(r) : b[Len(p) + k] = r[k])
  BY <1>1
<1>3. PICK x, y : x = SubSeq(p, i, Len(p)) /\ y = SubSeq(b, i, Len(b))
  OBVIOUS
<1>4. /\ x \in Seq(Nat) /\ Len(x) = Len(p) + 1 - i /\ \A k \in 1..Len(x) : x[k] = p[i + k - 1]
  BY <1>3, RestOf
<1>5. /\ y \in Seq(Nat) /\ Len(y) = Len(b) + 1 - i /\ \A k \in 1..Len(y) : y[k] = b[i + k - 1]
  <2>1. i \in 1..Len(b) + 1
    BY <1>2
  <2>2. b \in Seq(Nat) /\ y = SubSeq(b, i, Len(b))
    BY <1>2, <1>3
  <2> QED
    BY <2>1, <2>2, RestOf
<1>6. x \o r \in Seq(Nat) /\ Len(x \o r) = Len(x) + Len(r) /\ Len(x) \in Nat /\ Len(r) \in Nat /\ Len(p) \in Nat
      /\ (\A k \in 1..Len(x) : (x \o r)[k] = x[k]) /\ \A k \in 1..Len(r) : (x \o r)[Len(x) + k] = r[k]
  <2>1. x \in Seq(Nat) /\ r \in Seq(Nat) /\ p \in Seq(Nat)
    BY <1>4
  <2> QED
    BY ONLY <2>1
<1>7. Len(x \o r) = Len(y)
  BY <1>2, <1>4, <1>5, <1>6
<1>8. ASSUME NEW k \in 1..Len(y) PROVE (x \o r)[k] = y[k]
  <2>1. k \in 1..Len(x) + Len(r) /\ y[k] = b[i + k - 1]
    BY <1>5, <1>6, <1>7
  <2>2. CASE k <= Len(x)
    <3>1. k \in 1..Len(x) /\ i + k - 1 \in 1..Len(p)
      BY <1>4, <1>6, <2>1, <2>2
    <3> QED
      BY <1>2, <1>4, <1>6, <2>1, <3>1
  <2>3. CASE k > Len(x)
    <3>1. PICK m : m = k - Len(x) /\ m \in 1..Len(r)
      BY <1>6, <2>1, <2>3
    <3>2. k = Len(x) + m /\ i + k - 1 = Len(p) + m
      BY <1>4, <1>6, <2>1, <3>1
    <3>3. (x \o r)[k] = r[m] /\ b[i + k - 1] = r[m]
      BY <1>2, <1>6, <3>1, <3>2
    <3> QED
      BY <2>1, <3>3
  <2> QED
    BY <1>6, <2>1, <2>2, <2>3
<1>9. x \o r = y
  BY <1>5, <1>6, <1>7, <1>8, SameBytes
<1> QED
  BY <1>1, <1>3, <1>9

LEMMA IndexStable ==
  ASSUME NEW p \in Seq(Nat), NEW r \in Seq(Nat), NEW i \in Nat \ {0}, ~(Redis!BytesIndexCR(p, i) < 0)
  PROVE  Redis!BytesIndexCR(p \o r, i) = Redis!BytesIndexCR(p, i)
<1>1. PICK e : e = Redis!BytesIndexCR(p, i)
  OBVIOUS
<1>2. e # -1
  BY <1>1
<1>3. e \in Nat /\ i + e + 1 <= Len(p) /\ IsEnd(p, i + e) /\ \A j \in i..i + e - 1 : ~IsEnd(p, j)
  BY <1>1, <1>2, IndexFound
<1>4. p \o r \in Seq(Nat) /\ Len(p) <= Len(p \o r) /\ \A k \in 1..Len(p) : (p \o r)[k] = p[k]
  BY FirstPart
<1>5. ASSUME NEW j \in i..i + e PROVE IsEnd(p \o r, j) <=> IsEnd(p, j)
  <2>1. j \in 1..Len(p) /\ j + 1 \in 1..Len(p) /\ j + 1 \in DOMAIN p /\ j + 1 \in DOMAIN (p \o r)
    BY <1>3, <1>4
  <2> QED
    BY <1>4, <2>1 DEF IsEnd
<1>6. IsEnd(p \o r, i + e) /\ \A j \in i..(i + e) - 1 : ~IsEnd(p \o r, j)
  BY <1>3, <1>5
<1>7. i + e \in Nat /\ i + e >= i /\ (i + e) - i = e
  BY <1>3
<1>8. Redis!BytesIndexCR(p \o r, i) = (i + e) - i
  BY <1>4, <1>6, <1>7, IndexIs
<1> QED
  BY <1>1, <1>7, <1>8

\* A loop that stopped for an element that is no bulk string has seen enough.
Settled(s, b) == s.stop = "incomplete" => s.off < Len(b) /\ b[s.off] # 36

LEMMA ElementStable ==
  ASSUME NEW p \in Seq(Nat), NEW r \in Seq(Nat), NEW s \in Loops, Settled(Redis!Element(s, p), p)
  PROVE  Settled(s, p) /\ Redis!Element(s, p \o r) = Redis!Element(s, p)
<1>1. PICK b : b = p \o r
  OBVIOUS
<1>2. b \in Seq(Nat) /\ Len(p) <= Len(b) /\ Len(p) \in Nat /\ Len(b) \in Nat /\ \A k \in 1..Len(p) : b[k] = p[k]
  BY <1>1, FirstPart
<1>3. PICK off, end, l, start :
        /\ off = s.off /\ end = Redis!BytesIndexCR(p, off)
        /\ l = Redis!Atoi(SubSeq(p, off + 1, off + end - 1)) /\ start = off + end + 2
  OBVIOUS
<1>4. Redis!Element(s, p) =
        IF s.stop # "no" THEN s
        ELSE IF off + 1 > Len(p) \/ p[off] # 36 \/ end < 0 THEN [s EXCEPT !.stop = "incomplete"]
        ELSE IF l < 0 THEN [s EXCEPT !.stop = "error"]
        ELSE IF start + l + 1 > Len(p) THEN [s EXCEPT !.stop = "incomplete"]
        ELSE IF SubSeq(p, start + l, start + l + 1) # <<13, 10>> THEN [s EXCEPT !.stop = "error"]
        ELSE [args |-> Append(s.args, SubSeq(p, start, start + l - 1)), off |-> start + l + 2, stop |-> "no"]
  BY <1>3 DEF Redis!Element, Redis!CRLF, Redis!CR, Redis!LF
<1>5. PICK end2, l2, start2 :
        /\ end2 = Redis!BytesIndexCR(b, off)
        /\ l2 = Redis!Atoi(SubSeq(b, off + 1, off + end2 - 1)) /\ start2 = off + end2 + 2
  OBVIOUS
<1>6. Redis!Element(s, b) =
        IF s.stop # "no" THEN s
        ELSE IF off + 1 > Len(b) \/ b[off] # 36 \/ end2 < 0 THEN [s EXCEPT !.stop = "incomplete"]
        ELSE IF l2 < 0 THEN [s EXCEPT !.stop = "error"]
        ELSE IF start2 + l2 + 1 > Len(b) THEN [s EXCEPT !.stop = "incomplete"]
        ELSE IF SubSeq(b, start2 + l2, start2 + l2 + 1) # <<13, 10>> THEN [s EXCEPT !.stop = "error"]
        ELSE [args |-> Append(s.args, SubSeq(b, start2, start2 + l2 - 1)), off |-> start2 + l2 + 2, stop |-> "no"]
  BY <1>3, <1>5 DEF Redis!Element, Redis!CRLF, Redis!CR, Redis!LF
<1>7. off \in Nat \ {0} /\ [s EXCEPT !.stop = "incomplete"].stop = "incomplete" /\ [s EXCEPT !.stop = "incomplete"].off = off
  BY <1>3 DEF Loops
<1>8. CASE s.stop # "no"
  BY <1>1, <1>4, <1>6, <1>8
<1>9. CASE s.stop = "no"
  <2>1. Settled(s, p)
    BY <1>9 DEF Settled
  <2>2. CASE Redis!Element(s, p) = [s EXCEPT !.stop = "incomplete"]
    <3>1. off < Len(p) /\ p[off] # 36
      BY <1>7, <2>2 DEF Settled
    <3>2. off \in 1..Len(p) /\ off + 1 <= Len(b)
      BY ONLY <1>2, <1>7, <3>1
    <3>4. b[off] # 36
      BY <1>2, <3>1, <3>2
    <3>3. Redis!Element(s, b) = [s EXCEPT !.stop = "incomplete"]
      BY <1>6, <1>9, <3>2, <3>4
    <3> QED
      BY <1>1, <2>1, <2>2, <3>3
  <2>3. CASE Redis!Element(s, p) # [s EXCEPT !.stop = "incomplete"]
    <3>1. ~(off + 1 > Len(p)) /\ p[off] = 36 /\ ~(end < 0) /\ (~(l < 0) => ~(start + l + 1 > Len(p)))
      BY <1>4, <1>9, <2>3
    <3>2. end2 = end
      BY <1>1, <1>3, <1>5, <1>7, <3>1, IndexStable
    <3>3. end \in Nat /\ off + end + 1 <= Len(p)
      <4>1. end # -1
        BY <3>1
      <4> QED
        BY <1>3, <1>7, <4>1, IndexFound
    <3>4. SubSeq(b, off + 1, off + end - 1) = SubSeq(p, off + 1, off + end - 1) /\ SubSeq(p, off + 1, off + end - 1) \in Seq(Nat)
      <4>1. off + 1 \in Nat \ {0} /\ off + end - 1 \in Int /\ off + end - 1 <= Len(p)
        <5>1. off \in Nat \ {0} /\ end \in Nat /\ off + end + 1 <= Len(p) /\ Len(p) \in Nat
          BY <1>2, <1>7, <3>3
        <5> QED
          BY ONLY <5>1
      <4> QED
        BY <1>1, <4>1, Within, Cut
    <3>5. l2 = l /\ start2 = start /\ l \in Nat \cup {-1} /\ start \in Nat \ {0}
      <4>1. l2 = l /\ start2 = start
        BY <1>3, <1>5, <3>2, <3>4
      <4>2. l \in Nat \cup {-1}
        BY <1>3, <3>4, AtoiType
      <4>3. start \in Nat \ {0}
        BY <1>3, <1>7, <3>3
      <4> QED
        BY <4>1, <4>2, <4>3
    <3>6. ~(off + 1 > Len(b)) /\ b[off] = 36 /\ ~(end2 < 0)
      <4>1. off \in 1..Len(p) /\ ~(off + 1 > Len(b))
        <5>1. off \in Nat \ {0} /\ off + 1 <= Len(p) /\ Len(p) <= Len(b) /\ Len(p) \in Nat /\ Len(b) \in Nat
          BY <1>2, <1>7, <3>1
        <5> QED
          BY ONLY <5>1
      <4>2. b[off] = 36
        BY <1>2, <3>1, <4>1
      <4>3. ~(end2 < 0)
        BY <3>1, <3>2
      <4> QED
        BY <4>1, <4>2, <4>3
    <3>7. CASE l < 0
      BY <1>1, <1>4, <1>6, <1>9, <2>1, <3>1, <3>5, <3>6, <3>7
    <3>8. CASE ~(l < 0)
      <4>1. l \in Nat /\ start + l + 1 <= Len(p) /\ start + l + 1 <= Len(b)
        <5>1. l \in Nat /\ ~(start + l + 1 > Len(p)) /\ start \in Nat
          BY <3>1, <3>5, <3>8
        <5>2. Len(p) <= Len(b) /\ Len(p) \in Nat /\ Len(b) \in Nat
          BY <1>2
        <5> QED
          BY ONLY <5>1, <5>2
      <4>2. SubSeq(b, start + l, start + l + 1) = SubSeq(p, start + l, start + l + 1)
        <5>1. start + l \in Nat \ {0} /\ start + l + 1 \in Int
          BY <3>5, <4>1
        <5> QED
          BY <1>1, <4>1, <5>1, Within
      <4>3. SubSeq(b, start, start + l - 1) = SubSeq(p, start, start + l - 1)
        <5>1. start + l - 1 \in Int /\ start + l - 1 <= Len(p)
          BY <1>2, <3>5, <4>1
        <5> QED
          BY <1>1, <3>5, <5>1, Within
      <4>4. Redis!Element(s, b) =
              IF SubSeq(b, start + l, start + l + 1) # <<13, 10>> THEN [s EXCEPT !.stop = "error"]
              ELSE [args |-> Append(s.args, SubSeq(b, start, start + l - 1)), off |-> start + l + 2, stop |-> "no"]
        <5>1. ~(start + l + 1 > Len(b))
          BY <1>2, <3>5, <4>1
        <5> QED
          BY <1>6, <1>9, <3>5, <3>6, <3>8, <5>1
      <4>5. Redis!Element(s, p) =
              IF SubSeq(p, start + l, start + l + 1) # <<13, 10>> THEN [s EXCEPT !.stop = "error"]
              ELSE [args |-> Append(s.args, SubSeq(p, start, start + l - 1)), off |-> start + l + 2, stop |-> "no"]
        BY <1>4, <1>9, <3>1, <3>8
      <4> QED
        BY <1>1, <2>1, <4>2, <4>3, <4>4, <4>5
    <3> QED
      BY <3>7, <3>8
  <2> QED
    BY <2>2, <2>3
<1> QED
  BY <1>8, <1>9

LEMMA BulkStringsStable ==
  ASSUME NEW p \in Seq(Nat), NEW r \in Seq(Nat), NEW m \in Nat, NEW first \in Nat \ {0},
         Settled(Redis!BulkStrings(p, m, first), p)
  PROVE  Redis!BulkStrings(p \o r, m, first) = Redis!BulkStrings(p, m, first)
<1>1. p \o r \in Seq(Nat)
  OBVIOUS
<1>2. PICK g : BulkStringsRun(g, p, m, first)
  BY BulkStringsSteps
<1>3. PICK h : BulkStringsRun(h, p \o r, m, first)
  BY <1>1, BulkStringsSteps
<1> DEFINE P == {k \in 0..m : Settled(g[k], p) => h[k] = g[k]}
<1>4. 0 \in P
  BY <1>2, <1>3 DEF BulkStringsRun
<1>5. ASSUME NEW k \in 1..m, k - 1 \in P PROVE k \in P
  <2>1. k \in 0..m /\ k - 1 \in 0..m
    OBVIOUS
  <2> SUFFICES ASSUME Settled(g[k], p) PROVE h[k] = g[k]
    BY <2>1
  <2>2. g[k] = Redis!Element(g[k - 1], p) /\ h[k] = Redis!Element(h[k - 1], p \o r) /\ g[k - 1] \in Loops
    BY <1>2, <1>3, <2>1 DEF BulkStringsRun
  <2>3. Settled(g[k - 1], p) /\ Redis!Element(g[k - 1], p \o r) = Redis!Element(g[k - 1], p)
    BY <2>2, ElementStable
  <2>4. h[k - 1] = g[k - 1]
    BY <1>5, <2>3
  <2> QED
    BY <2>2, <2>3, <2>4
<1>6. m \in P
  <2> HIDE DEF P
  <2>1. \A k \in 0..m : k \in P
    BY <1>4, <1>5, UpTo
  <2> QED
    BY <2>1
<1> QED
  BY <1>2, <1>3, <1>6 DEF BulkStringsRun

LEMMA EndsWithin ==
  ASSUME NEW b \in Seq(Nat), NEW m \in Nat, m # 0, NEW first \in Nat \ {0}, Redis!BulkStrings(b, m, first).stop = "no"
  PROVE  Redis!BulkStrings(b, m, first).off \in 1..Len(b) + 1
<1>0. PICK g : BulkStringsRun(g, b, m, first)
  BY BulkStringsSteps
<1>1. m \in 0..m /\ m \in 1..m /\ m - 1 \in 0..m
  OBVIOUS
<1>2. PICK s, e : s = g[m - 1] /\ e = Redis!BulkStrings(b, m, first)
  OBVIOUS
<1>3. s \in Loops /\ e = Redis!Element(s, b) /\ e \in Loops /\ e.stop = "no"
  BY <1>0, <1>1, <1>2 DEF BulkStringsRun
<1>4. PICK end, l : end = Redis!BytesIndexCR(b, s.off) /\ l = Redis!Atoi(SubSeq(b, s.off + 1, s.off + end - 1))
  OBVIOUS
<1>5. s.stop = "no" /\ e.off = s.off + end + 2 + l + 2 /\ ~(s.off + end + 2 + l + 1 > Len(b)) /\ ~(end < 0) /\ ~(l < 0)
  <2>1. s.stop \in {"no", "incomplete", "error"} /\ s.args \in Seq(Seq(Nat))
    BY <1>3 DEF Loops
  <2>2. s.stop = "no"
    BY <1>3, <2>1 DEF Redis!Element
  <2> QED
    BY <1>3, <1>4, <2>1, <2>2 DEF Redis!Element, Loops
<1>6. e.off \in Nat \ {0} /\ s.off \in Nat \ {0}
  BY <1>3 DEF Loops
<1>7. end \in Nat /\ s.off + end + 1 <= Len(b)
  <2>1. end # -1
    BY <1>5
  <2> QED
    BY <1>4, <1>6, <2>1, IndexFound
<1>8. l \in Nat
  <2>1. s.off + 1 \in Nat \ {0} /\ s.off + end - 1 \in Int /\ s.off + end - 1 <= Len(b)
    <3>1. Len(b) \in Nat
      OBVIOUS
    <3>2. PICK o : o = s.off /\ o \in Nat \ {0} /\ o + end + 1 <= Len(b)
      BY <1>6, <1>7
    <3>3. PICK len : len = Len(b) /\ len \in Nat /\ o + end + 1 <= len /\ end \in Nat /\ o \in Nat \ {0}
      BY <1>7, <3>1, <3>2
    <3>4. o + 1 \in Nat \ {0} /\ o + end - 1 \in Int /\ o + end - 1 <= len
      BY ONLY <3>3
    <3> QED
      BY <3>2, <3>3, <3>4
  <2>2. SubSeq(b, s.off + 1, s.off + end - 1) \in Seq(Nat)
    BY <2>1, Cut
  <2>3. l \in Nat \cup {-1}
    BY <1>4, <2>2, AtoiType
  <2> QED
    BY <1>5, <2>3
<1>9. e.off <= Len(b) + 1
  <2>1. Len(b) \in Nat
    OBVIOUS
  <2> QED
    BY ONLY <1>5, <1>6, <1>7, <1>8, <2>1
<1> QED
  BY <1>2, <1>6, <1>9

\* What comes of a buffer with r behind it, if that decides nothing.
Longer(o, r) == IF o.is \in {"command", "not yet"} THEN Redis!Result(o.is, o.args, o.rest \o r) ELSE o

LEMMA InlineStable ==
  ASSUME NEW p \in Seq(Nat), NEW r \in Seq(Nat), ~(Redis!BytesIndexCR(p, 1) < 0)
  PROVE  Redis!ParseInline(p \o r) = Longer(Redis!ParseInline(p), r)
<1>1. PICK i, b : i = Redis!BytesIndexCR(p, 1) /\ b = p \o r
  OBVIOUS
<1>2. i \in Nat /\ i + 2 <= Len(p) /\ Redis!BytesIndexCR(b, 1) = i
  <2>1. i # -1 /\ 1 \in Nat \ {0}
    BY <1>1
  <2> QED
    BY <1>1, <2>1, IndexFound, IndexStable
<1>3. SubSeq(b, 1, i) = SubSeq(p, 1, i) /\ SubSeq(b, i + 3, Len(b)) = SubSeq(p, i + 3, Len(p)) \o r
  <2>1. i \in Int /\ i <= Len(p) /\ i + 3 \in 1..Len(p) + 1
    <3>1. Len(p) \in Nat
      OBVIOUS
    <3> QED
      BY ONLY <1>2, <3>1
  <2>2. SubSeq(b, 1, i) = SubSeq(p, 1, i)
    BY <1>1, <2>1, Within
  <2> QED
    BY <1>1, <2>1, <2>2, Behind
<1>4. PICK words, fields :
        words = Redis!Trim(SubSeq(p, 1, i), {Redis!CR, Redis!LF}) /\ fields = Redis!Fields(words, {Redis!Space})
  OBVIOUS
<1>5. Redis!ParseInline(p) =
        IF words = <<>> THEN Redis!NotYet(SubSeq(p, i + 3, Len(p)))
        ELSE IF fields = <<>> THEN Redis!Panic
        ELSE Redis!Command(fields, SubSeq(p, i + 3, Len(p)))
  BY <1>1, <1>2, <1>4 DEF Redis!ParseInline
<1>6. Redis!ParseInline(b) =
        IF words = <<>> THEN Redis!NotYet(SubSeq(p, i + 3, Len(p)) \o r)
        ELSE IF fields = <<>> THEN Redis!Panic
        ELSE Redis!Command(fields, SubSeq(p, i + 3, Len(p)) \o r)
  BY <1>1, <1>2, <1>3, <1>4 DEF Redis!ParseInline
<1>7. PICK x : x = SubSeq(p, i + 3, Len(p))
  OBVIOUS
<1>8. /\ Longer(Redis!NotYet(x), r) = Redis!NotYet(x \o r) /\ Longer(Redis!Panic, r) = Redis!Panic
      /\ Longer(Redis!Command(fields, x), r) = Redis!Command(fields, x \o r)
  BY DEF Longer, Redis!NotYet, Redis!Panic, Redis!Command, Redis!Result
<1>9. Redis!ParseInline(b) = Longer(Redis!ParseInline(p), r)
  BY <1>5, <1>6, <1>7, <1>8
<1> QED
  BY <1>1, <1>9

\* More bytes change nothing.
Decided(p) ==
  \/ Redis!TryParse(p).is \in {"command", "panic"}
  \/ Redis!TryParse(p).is = "not yet" /\ Redis!TryParse(p).rest # p
  \/ Redis!TryParse(p).is = "violation" /\ p[1] \in Redis!Marks
  \/ Stuck(p)

LEMMA ArrayStable ==
  ASSUME NEW p \in Seq(Nat), NEW r \in Seq(Nat), p # <<>>, p[1] \in Redis!Marks, Decided(p)
  PROVE  Redis!ParseArray(p \o r) = Longer(Redis!ParseArray(p), r)
<1>1. PICK b : b = p \o r
  OBVIOUS
<1>2. b \in Seq(Nat) /\ Len(p) <= Len(b) /\ Len(p) \in Nat /\ Len(b) \in Nat /\ b[1] = p[1]
  <2>1. 1 \in 1..Len(p)
    OBVIOUS
  <2> QED
    BY <1>1, <2>1, FirstPart
<1>3. Redis!TryParse(p) = Redis!ParseArray(p)
  BY DEF Redis!TryParse
<1>4. PICK s, m, first : m = Redis!Elements(p) /\ first = Redis!Header(p) + 3 /\ s = Redis!BulkStrings(p, m, first)
  OBVIOUS
<1>5. Redis!ParseArray(p) =
        IF Len(p) < 4 \/ p[1] # 42 \/ Redis!Header(p) < 0 THEN Redis!NotYet(p)
        ELSE IF m < 1 THEN Redis!Violation
        ELSE IF s.stop = "incomplete" THEN Redis!NotYet(p)
        ELSE IF s.stop = "error" THEN Redis!Violation
        ELSE Redis!Command(s.args, SubSeq(p, s.off, Len(p)))
  BY <1>4 DEF Redis!ParseArray
<1>6. Redis!ParseArray(p) = Redis!NotYet(p) => Stuck(p)
  <2>1. Redis!NotYet(p).is = "not yet" /\ Redis!NotYet(p).rest = p
    BY DEF Redis!NotYet, Redis!Result
  <2> QED
    BY <1>3, <2>1 DEF Decided
<1>7. Len(p) >= 4
  BY <1>2, <1>5, <1>6 DEF Stuck
<1>8. Redis!Header(b) = Redis!Header(p)
  <2>1. SubSeq(b, 1, 4) = SubSeq(p, 1, 4)
    BY <1>1, <1>7, Within
  <2> QED
    BY <2>1 DEF Redis!Header
<1>9. Longer(Redis!NotYet(p), r) = Redis!NotYet(b) /\ Longer(Redis!Violation, r) = Redis!Violation
  BY <1>1 DEF Longer, Redis!NotYet, Redis!Violation, Redis!Result
<1>10. CASE p[1] # 42 \/ Redis!Header(p) < 0
  <2>1. Redis!ParseArray(b) = Redis!NotYet(b)
    BY <1>2, <1>8, <1>10 DEF Redis!ParseArray
  <2> QED
    BY <1>1, <1>5, <1>9, <1>10, <2>1
<1>11. CASE ~(p[1] # 42 \/ Redis!Header(p) < 0)
  <2>1. Redis!Header(p) \in Nat /\ Redis!Header(p) <= 2 /\ m \in Nat \cup {-1}
    BY <1>4, <1>7, <1>11, HeaderType
  <2>2. Redis!Elements(b) = m
    <3>1. SubSeq(b, 2, Redis!Header(p)) = SubSeq(p, 2, Redis!Header(p))
      <4>1. 2 \in Nat \ {0} /\ Redis!Header(p) \in Int /\ Redis!Header(p) <= Len(p)
        BY <1>7, <2>1
      <4> QED
        BY <1>1, <4>1, Within
    <3> QED
      BY <1>4, <1>8, <3>1 DEF Redis!Elements
  <2>3. ~(Len(b) < 4 \/ b[1] # 42 \/ Redis!Header(b) < 0) /\ ~(Len(p) < 4)
    BY <1>2, <1>7, <1>8, <1>11
  <2>4. CASE m < 1
    <3>1. Redis!ParseArray(b) = Redis!Violation
      BY <2>2, <2>3, <2>4 DEF Redis!ParseArray
    <3> QED
      BY <1>1, <1>5, <1>9, <1>11, <2>3, <2>4, <3>1
  <2>5. CASE ~(m < 1)
    <3>1. m \in Nat /\ m # 0 /\ first \in Nat \ {0}
      BY <1>4, <2>1, <2>5
    <3>2. Settled(s, p)
      <4> SUFFICES ASSUME s.stop = "incomplete" PROVE s.off < Len(p) /\ p[s.off] # 36
        BY DEF Settled
      <4>1. Stuck(p)
        BY <1>5, <1>6, <1>11, <2>3, <2>5
      <4> QED
        BY <1>4, <1>11, <4>1 DEF Stuck
    <3>3. Redis!BulkStrings(b, m, first) = s
      BY <1>1, <1>4, <3>1, <3>2, BulkStringsStable
    <3>4. Redis!ParseArray(b) =
            IF s.stop = "incomplete" THEN Redis!NotYet(b)
            ELSE IF s.stop = "error" THEN Redis!Violation
            ELSE Redis!Command(s.args, SubSeq(b, s.off, Len(b)))
      BY <1>4, <1>8, <2>2, <2>3, <2>5, <3>3 DEF Redis!ParseArray
    <3>5. Redis!ParseArray(p) =
            IF s.stop = "incomplete" THEN Redis!NotYet(p)
            ELSE IF s.stop = "error" THEN Redis!Violation
            ELSE Redis!Command(s.args, SubSeq(p, s.off, Len(p)))
      BY <1>5, <1>11, <2>3, <2>5
    <3>6. CASE s.stop \in {"incomplete", "error"}
      BY <1>1, <1>9, <3>4, <3>5, <3>6
    <3>7. CASE s.stop \notin {"incomplete", "error"}
      <4>1. s.stop = "no"
        <5>1. s \in Loops
          BY <1>4, <3>1, BulkStringsType
        <5> QED
          BY <3>7, <5>1 DEF Loops
      <4>2. s.off \in 1..Len(p) + 1
        BY <1>4, <3>1, <4>1, EndsWithin
      <4>3. SubSeq(b, s.off, Len(b)) = SubSeq(p, s.off, Len(p)) \o r
        BY <1>1, <4>2, Behind
      <4>4. Redis!ParseArray(b) = Redis!Command(s.args, SubSeq(p, s.off, Len(p)) \o r)
            /\ Redis!ParseArray(p) = Redis!Command(s.args, SubSeq(p, s.off, Len(p)))
        BY <3>4, <3>5, <3>7, <4>3
      <4> QED
        BY <1>1, <4>4 DEF Longer, Redis!Command, Redis!Result
    <3> QED
      BY <3>6, <3>7
  <2> QED
    BY <2>4, <2>5
<1> QED
  BY <1>10, <1>11

LEMMA TryParseStable ==
  ASSUME NEW p \in Seq(Nat), NEW r \in Seq(Nat), p # <<>>, Decided(p)
  PROVE  Redis!TryParse(p \o r) = Longer(Redis!TryParse(p), r)
<1>1. p \o r # <<>> /\ (p \o r)[1] = p[1]
  <2>1. 1 \in 1..Len(p) /\ Len(p) <= Len(p \o r) /\ p \o r \in Seq(Nat)
    BY FirstPart
  <2>2. (p \o r)[1] = p[1]
    BY <2>1, FirstPart
  <2> QED
    BY <2>1, <2>2
<1>2. CASE p[1] \in Redis!Marks
  BY <1>1, <1>2, ArrayStable DEF Redis!TryParse
<1>3. CASE p[1] \notin Redis!Marks
  <2>1. Redis!TryParse(p) = Redis!ParseInline(p) /\ Redis!TryParse(p \o r) = Redis!ParseInline(p \o r)
    BY <1>1, <1>3 DEF Redis!TryParse
  <2>2. ~(Redis!BytesIndexCR(p, 1) < 0)
    <3> SUFFICES ASSUME Redis!BytesIndexCR(p, 1) < 0 PROVE FALSE
      OBVIOUS
    <3>1. Redis!ParseInline(p) \in {Redis!Violation, Redis!NotYet(p)}
      BY DEF Redis!ParseInline
    <3>2. Redis!NotYet(p).is = "not yet" /\ Redis!NotYet(p).rest = p /\ Redis!Violation.is = "violation"
      BY DEF Redis!NotYet, Redis!Violation, Redis!Result
    <3> QED
      BY <1>3, <2>1, <3>1, <3>2 DEF Decided, Stuck
  <2> QED
    BY <2>1, <2>2, InlineStable
<1> QED
  BY <1>2, <1>3

-----------------------------------------------------------------------------
(* The first requests of several.                                          *)

LEMMA FirstRequests ==
  ASSUME NEW rs \in Seq(Requests), NEW k \in 0..Len(rs)
  PROVE  /\ SubSeq(rs, 1, k) \in Seq(Requests) /\ Len(SubSeq(rs, 1, k)) = k
         /\ \A i \in 1..k : SubSeq(rs, 1, k)[i] = rs[i]
OBVIOUS

LEMMA AllRequests ==
  ASSUME NEW rs \in Seq(Requests)
  PROVE  SubSeq(rs, 1, Len(rs)) = rs
OBVIOUS

LEMMA ThreeParts ==
  ASSUME NEW u \in Seq(Nat), NEW v \in Seq(Nat), NEW w \in Seq(Nat)
  PROVE  (u \o v) \o w = u \o (v \o w) /\ (u \o v) \o w \in Seq(Nat)
OBVIOUS

LEMMA BytesNext ==
  ASSUME NEW rs \in Seq(Requests), NEW k \in 0..Len(rs) - 1
  PROVE  Redis!Bytes(SubSeq(rs, 1, k + 1)) = Redis!Bytes(SubSeq(rs, 1, k)) \o rs[k + 1].bytes
<1>1. PICK q, p : q = SubSeq(rs, 1, k + 1) /\ p = SubSeq(rs, 1, k)
  OBVIOUS
<1>2. k \in 0..Len(rs) /\ k + 1 \in 0..Len(rs) /\ k \in Nat /\ k + 1 \in 1..k + 1 /\ (k + 1) - 1 = k
  OBVIOUS
<1>3. /\ q \in Seq(Requests) /\ Len(q) = k + 1 /\ \A i \in 1..k + 1 : q[i] = rs[i]
      /\ p \in Seq(Requests) /\ Len(p) = k /\ \A i \in 1..k : p[i] = rs[i]
  BY <1>1, <1>2, FirstRequests
<1>4. PICK g : BytesRun(g, q)
  BY <1>3, BytesSteps
<1>5. PICK h : BytesRun(h, p)
  BY <1>3, BytesSteps
<1> DEFINE P == {i \in 0..k : h[i] = g[i]}
<1>6. 0 \in P
  BY <1>2, <1>4, <1>5 DEF BytesRun
<1>7. ASSUME NEW i \in 1..k, i - 1 \in P PROVE i \in P
  <2>1. i \in 1..k + 1 /\ i \in 0..k
    BY <1>2
  <2>2. q[i] = rs[i] /\ p[i] = rs[i]
    BY <1>3, <2>1
  <2>3. h[i - 1] = g[i - 1]
    BY <1>7
  <2>4. h[i] = h[i - 1] \o p[i].bytes /\ g[i] = g[i - 1] \o q[i].bytes
    BY <1>3, <1>4, <1>5, <2>1 DEF BytesRun
  <2> QED
    BY <2>1, <2>2, <2>3, <2>4
<1>8. h[k] = g[k]
  <2> HIDE DEF P
  <2>1. \A i \in 0..k : i \in P
    BY <1>2, <1>6, <1>7, UpTo
  <2> QED
    BY <1>2, <2>1 DEF P
<1>9. g[k + 1] = g[(k + 1) - 1] \o q[k + 1].bytes
  BY <1>2, <1>3, <1>4 DEF BytesRun
<1>10. g[k + 1] = Redis!Bytes(q) /\ h[k] = Redis!Bytes(p)
  BY <1>3, <1>4, <1>5 DEF BytesRun
<1> QED
  BY <1>1, <1>2, <1>3, <1>8, <1>9, <1>10

LEMMA BytesPrefix ==
  ASSUME NEW rs \in Seq(Requests), NEW m \in 0..Len(rs), NEW k \in 0..m
  PROVE  \E t \in Seq(Nat) : Redis!Bytes(SubSeq(rs, 1, m)) = Redis!Bytes(SubSeq(rs, 1, k)) \o t
<1>1. PICK n : n = m - k /\ n \in Nat /\ k \in Nat
  OBVIOUS
<1>2. PICK w : w = Redis!Bytes(SubSeq(rs, 1, k)) /\ w \in Seq(Nat)
  <2>1. k \in 0..Len(rs)
    OBVIOUS
  <2> QED
    BY <2>1, FirstRequests, BytesType
<1> DEFINE P == {i \in 0..n : \E t \in Seq(Nat) : Redis!Bytes(SubSeq(rs, 1, k + i)) = w \o t}
<1>3. 0 \in P
  <2>1. w \o <<>> = w /\ <<>> \in Seq(Nat)
    BY <1>2
  <2>2. k + 0 = k /\ 0 \in 0..n
    BY <1>1
  <2> QED
    BY <1>2, <2>1, <2>2
<1>4. ASSUME NEW i \in 1..n, i - 1 \in P PROVE i \in P
  <2>1. PICK j : j = k + (i - 1) /\ j \in 0..Len(rs) - 1 /\ j + 1 = k + i /\ i \in 0..n
    BY <1>1
  <2>2. PICK t \in Seq(Nat) : Redis!Bytes(SubSeq(rs, 1, j)) = w \o t
    BY <1>4, <2>1
  <2>3. Redis!Bytes(SubSeq(rs, 1, j + 1)) = (w \o t) \o rs[j + 1].bytes
    BY <2>1, <2>2, BytesNext
  <2>4. \E u \in Seq(Nat) : (w \o t) \o rs[j + 1].bytes = w \o u
    <3>1. j + 1 \in 1..Len(rs)
      BY <2>1
    <3>2. PICK v : v = rs[j + 1].bytes /\ v \in Seq(Nat)
      BY <3>1, RequestType
    <3>3. t \o v \in Seq(Nat)
      BY <3>2
    <3>4. (w \o t) \o v = w \o (t \o v)
      BY <1>2, <3>2, ThreeParts
    <3> QED
      BY <3>2, <3>3, <3>4
  <2> QED
    BY <2>1, <2>3, <2>4
<1>5. n \in P
  <2> HIDE DEF P
  <2>1. \A i \in 0..n : i \in P
    BY <1>1, <1>3, <1>4, UpTo
  <2> QED
    BY <1>1, <2>1
<1>6. k + n = m
  BY <1>1
<1> QED
  BY <1>2, <1>5, <1>6

CommandsRun(g, rs) ==
  /\ g[0] = <<>> /\ g[Len(rs)] = Redis!Commands(rs)
  /\ \A k \in 1..Len(rs) : g[k] = (IF rs[k].is = "command" THEN Append(g[k - 1], rs[k].args) ELSE g[k - 1])
  /\ \A k \in 0..Len(rs) : g[k] \in Seq(Seq(Seq(Nat)))

LEMMA CommandsSteps ==
  ASSUME NEW rs \in Seq(Requests)
  PROVE  \E g : CommandsRun(g, rs)
<1> DEFINE n == Len(rs)
           T == Seq(Seq(Seq(Nat)))
           G == [k \in 1..n |-> [x \in T |-> (IF rs[k].is = "command" THEN Append(x, rs[k].args) ELSE x)]]
           It == CHOOSE h : h = [u \in SUBSET (1..n) |->
                   IF u = {} THEN <<>> ELSE (IF rs[Greatest(u)].is = "command" THEN Append(h[u \ {Greatest(u)}], rs[Greatest(u)].args) ELSE h[u \ {Greatest(u)}])]
<1>1. n \in Nat /\ <<>> \in T
  OBVIOUS
<1>0. DOMAIN rs = 1..n
  OBVIOUS
<1>2. ASSUME NEW k \in 1..n, NEW x \in T PROVE (IF rs[k].is = "command" THEN Append(x, rs[k].args) ELSE x) \in T
  BY RequestType
<1>3. G \in [1..n -> [T -> T]]
  BY <1>2
<1>4. PICK it \in [SUBSET (1..n) -> T] : Tabulates(it, n, <<>>, G)
  <2> HIDE DEF G, T, n
  <2> QED
    BY <1>1, <1>3, FoldTable
<1>5. it = [u \in SUBSET (1..n) |->
             IF u = {} THEN <<>> ELSE (IF rs[Greatest(u)].is = "command" THEN Append(it[u \ {Greatest(u)}], rs[Greatest(u)].args) ELSE it[u \ {Greatest(u)}])]
  <2>1. ASSUME NEW u \in SUBSET (1..n), u # {}
        PROVE G[Greatest(u)][it[u \ {Greatest(u)}]] = (IF rs[Greatest(u)].is = "command" THEN Append(it[u \ {Greatest(u)}], rs[Greatest(u)].args) ELSE it[u \ {Greatest(u)}])
    <3>1. Greatest(u) \in 1..n
      BY <1>1, <2>1, GreatestIn
    <3>2. it[u \ {Greatest(u)}] \in T
      OBVIOUS
    <3> QED
      BY <3>1, <3>2
  <2> HIDE DEF G, T, n
  <2> QED
    BY <1>4, <2>1 DEF Tabulates
<1>6. It = [u \in SUBSET (1..n) |->
             IF u = {} THEN <<>> ELSE (IF rs[Greatest(u)].is = "command" THEN Append(It[u \ {Greatest(u)}], rs[Greatest(u)].args) ELSE It[u \ {Greatest(u)}])]
  BY <1>5
<1>7. Redis!Commands(rs) = It[1..n]
  BY <1>1, <1>0 DEF Redis!Commands, Redis!FoldLeft, Redis!MapThenFoldSet, Redis!Max, Greatest
<1> HIDE DEF It
<1>8. It[{}] = <<>>
  BY <1>6
<1>9. ASSUME NEW k \in 1..n, It[1..k - 1] \in T PROVE It[1..k] = G[k][It[1..k - 1]]
  <2>1. Greatest(1..k) = k /\ (1..k) \ {k} = 1..k - 1 /\ 1..k \in SUBSET (1..n) /\ 1..k # {}
    BY <1>1, GreatestOfFirst
  <2>2. It[1..k] = (IF rs[k].is = "command" THEN Append(It[1..k - 1], rs[k].args) ELSE It[1..k - 1])
    <3> HIDE DEF G, T, n
    <3> QED
      BY <1>6, <2>1
  <2>3. G[k][It[1..k - 1]] = (IF rs[k].is = "command" THEN Append(It[1..k - 1], rs[k].args) ELSE It[1..k - 1])
    BY <1>9
  <2> QED
    BY <2>2, <2>3
<1>10. PICK g \in [0..n -> T] : Runs(g, It, n, <<>>, G)
  <2>1. Follows(It, n, <<>>, G, T)
    BY <1>8, <1>9 DEF Follows
  <2> HIDE DEF G, T, n
  <2> QED
    BY <1>1, <1>3, <2>1, FoldRun
<1>11. ASSUME NEW k \in 1..n PROVE g[k] = (IF rs[k].is = "command" THEN Append(g[k - 1], rs[k].args) ELSE g[k - 1])
  <2>1. g[k - 1] \in T
    <3>1. k - 1 \in 0..n
      BY <1>1
    <3> QED
      BY <1>10, <3>1
  <2> QED
    BY <1>10, <2>1 DEF Runs
<1> QED
  BY <1>7, <1>10, <1>11 DEF CommandsRun, Runs

LEMMA CommandsType ==
  ASSUME NEW rs \in Seq(Requests)
  PROVE  Redis!Commands(rs) \in Seq(Seq(Seq(Nat)))
<1>1. PICK g : CommandsRun(g, rs)
  BY CommandsSteps
<1>2. Len(rs) \in 0..Len(rs)
  OBVIOUS
<1> QED
  BY <1>1, <1>2 DEF CommandsRun

LEMMA CommandsNext ==
  ASSUME NEW rs \in Seq(Requests), NEW k \in 0..Len(rs) - 1
  PROVE  Redis!Commands(SubSeq(rs, 1, k + 1)) = (IF rs[k + 1].is = "command" THEN Append(Redis!Commands(SubSeq(rs, 1, k)), rs[k + 1].args) ELSE Redis!Commands(SubSeq(rs, 1, k)))
<1>1. PICK q, p : q = SubSeq(rs, 1, k + 1) /\ p = SubSeq(rs, 1, k)
  OBVIOUS
<1>2. k \in 0..Len(rs) /\ k + 1 \in 0..Len(rs) /\ k \in Nat /\ k + 1 \in 1..k + 1 /\ (k + 1) - 1 = k
  OBVIOUS
<1>3. /\ q \in Seq(Requests) /\ Len(q) = k + 1 /\ \A i \in 1..k + 1 : q[i] = rs[i]
      /\ p \in Seq(Requests) /\ Len(p) = k /\ \A i \in 1..k : p[i] = rs[i]
  BY <1>1, <1>2, FirstRequests
<1>4. PICK g : CommandsRun(g, q)
  BY <1>3, CommandsSteps
<1>5. PICK h : CommandsRun(h, p)
  BY <1>3, CommandsSteps
<1> DEFINE P == {i \in 0..k : h[i] = g[i]}
<1>6. 0 \in P
  BY <1>2, <1>4, <1>5 DEF CommandsRun
<1>7. ASSUME NEW i \in 1..k, i - 1 \in P PROVE i \in P
  <2>1. i \in 1..k + 1 /\ i \in 0..k
    BY <1>2
  <2>2. q[i] = rs[i] /\ p[i] = rs[i]
    BY <1>3, <2>1
  <2>3. h[i - 1] = g[i - 1]
    BY <1>7
  <2>4. h[i] = (IF p[i].is = "command" THEN Append(h[i - 1], p[i].args) ELSE h[i - 1]) /\ g[i] = (IF q[i].is = "command" THEN Append(g[i - 1], q[i].args) ELSE g[i - 1])
    BY <1>3, <1>4, <1>5, <2>1 DEF CommandsRun
  <2> QED
    BY <2>1, <2>2, <2>3, <2>4
<1>8. h[k] = g[k]
  <2> HIDE DEF P
  <2>1. \A i \in 0..k : i \in P
    BY <1>2, <1>6, <1>7, UpTo
  <2> QED
    BY <1>2, <2>1 DEF P
<1>9. g[k + 1] = (IF q[k + 1].is = "command" THEN Append(g[(k + 1) - 1], q[k + 1].args) ELSE g[(k + 1) - 1])
  BY <1>2, <1>3, <1>4 DEF CommandsRun
<1>10. g[k + 1] = Redis!Commands(q) /\ h[k] = Redis!Commands(p)
  BY <1>3, <1>4, <1>5 DEF CommandsRun
<1> QED
  BY <1>1, <1>2, <1>3, <1>8, <1>9, <1>10

LEMMA CommandsPrefix ==
  ASSUME NEW rs \in Seq(Requests), NEW m \in 0..Len(rs), NEW k \in 0..m
  PROVE  \E t \in Seq(Seq(Seq(Nat))) : Redis!Commands(SubSeq(rs, 1, m)) = Redis!Commands(SubSeq(rs, 1, k)) \o t
<1>1. PICK n : n = m - k /\ n \in Nat /\ k \in Nat
  OBVIOUS
<1>2. PICK w : w = Redis!Commands(SubSeq(rs, 1, k)) /\ w \in Seq(Seq(Seq(Nat)))
  <2>1. k \in 0..Len(rs)
    OBVIOUS
  <2> QED
    BY <2>1, FirstRequests, CommandsType
<1> DEFINE P == {i \in 0..n : \E t \in Seq(Seq(Seq(Nat))) : Redis!Commands(SubSeq(rs, 1, k + i)) = w \o t}
<1>3. 0 \in P
  <2>1. w \o <<>> = w /\ <<>> \in Seq(Seq(Seq(Nat)))
    BY <1>2
  <2>2. k + 0 = k /\ 0 \in 0..n
    BY <1>1
  <2> QED
    BY <1>2, <2>1, <2>2
<1>4. ASSUME NEW i \in 1..n, i - 1 \in P PROVE i \in P
  <2>1. PICK j : j = k + (i - 1) /\ j \in 0..Len(rs) - 1 /\ j + 1 = k + i /\ i \in 0..n
    BY <1>1
  <2>2. PICK t \in Seq(Seq(Seq(Nat))) : Redis!Commands(SubSeq(rs, 1, j)) = w \o t
    BY <1>4, <2>1
  <2>3. Redis!Commands(SubSeq(rs, 1, j + 1)) = (IF rs[j + 1].is = "command" THEN Append((w \o t), rs[j + 1].args) ELSE (w \o t))
    BY <2>1, <2>2, CommandsNext
  <2>4. \E u \in Seq(Seq(Seq(Nat))) : (IF rs[j + 1].is = "command" THEN Append(w \o t, rs[j + 1].args) ELSE w \o t) = w \o u
    <3>1. j + 1 \in 1..Len(rs)
      BY <2>1
    <3>2. PICK v : v = rs[j + 1].args /\ v \in Seq(Seq(Nat))
      BY <3>1, RequestType
    <3>3. Append(t, v) \in Seq(Seq(Seq(Nat)))
      BY <3>2
    <3>4. Append(w \o t, v) = w \o Append(t, v)
      <4>1. PICK S : S = Seq(Seq(Nat))
        OBVIOUS
      <4>2. w \in Seq(S) /\ t \in Seq(S) /\ v \in S
        BY <1>2, <3>2, <4>1
      <4> QED
        BY ONLY <4>2
    <3> QED
      BY <3>2, <3>3, <3>4
  <2> QED
    BY <2>1, <2>3, <2>4
<1>5. n \in P
  <2> HIDE DEF P
  <2>1. \A i \in 0..n : i \in P
    BY <1>1, <1>3, <1>4, UpTo
  <2> QED
    BY <1>1, <2>1
<1>6. k + n = m
  BY <1>1
<1> QED
  BY <1>2, <1>5, <1>6

-----------------------------------------------------------------------------
(* A stream of bytes, cut in two ways.                                     *)

LEMMA FirstAndRest ==
  ASSUME NEW u \in Seq(Nat), NEW v \in Seq(Nat)
  PROVE  SubSeq(u \o v, 1, Len(u)) = u /\ SubSeq(u \o v, Len(u) + 1, Len(u \o v)) = v
<1>1. SubSeq(u, 1, Len(u)) = u /\ SubSeq(u, Len(u) + 1, Len(u)) = <<>> /\ <<>> \o v = v
  OBVIOUS
<1>2. SubSeq(u \o v, 1, Len(u)) = SubSeq(u, 1, Len(u))
  BY Within
<1>3. SubSeq(u \o v, Len(u) + 1, Len(u \o v)) = SubSeq(u, Len(u) + 1, Len(u)) \o v
  <2>1. Len(u) + 1 \in 1..Len(u) + 1
    OBVIOUS
  <2> QED
    BY <2>1, Behind
<1> QED
  BY <1>1, <1>2, <1>3

LEMMA SplitAt ==
  ASSUME NEW b \in Seq(Nat), NEW i \in 0..Len(b)
  PROVE  b = SubSeq(b, 1, i) \o SubSeq(b, i + 1, Len(b))
<1>1. PICK x, y : x = SubSeq(b, 1, i) /\ y = SubSeq(b, i + 1, Len(b))
  OBVIOUS
<1>2. x \in Seq(Nat) /\ Len(x) = i /\ \A k \in 1..i : x[k] = b[k]
  BY <1>1
<1>3. y \in Seq(Nat) /\ Len(y) = Len(b) - i /\ \A k \in 1..Len(b) - i : y[k] = b[i + k]
  BY <1>1
<1>4. x \o y \in Seq(Nat) /\ Len(x \o y) = Len(x) + Len(y) /\ Len(b) \in Nat
      /\ (\A k \in 1..Len(x) : (x \o y)[k] = x[k]) /\ \A k \in 1..Len(y) : (x \o y)[Len(x) + k] = y[k]
  <2>1. x \in Seq(Nat) /\ y \in Seq(Nat) /\ b \in Seq(Nat)
    BY <1>2, <1>3
  <2> QED
    BY ONLY <2>1
<1>5. ASSUME NEW k \in 1..Len(b) PROVE (x \o y)[k] = b[k]
  <2>1. CASE k <= i
    <3>1. k \in 1..Len(x)
      BY <1>2, <2>1
    <3> QED
      BY <1>2, <1>4, <3>1
  <2>2. CASE k > i
    <3>1. PICK m : m = k - i /\ m \in 1..Len(b) - i /\ k = i + m
      BY <1>4, <2>2
    <3>2. (x \o y)[i + m] = y[m]
      BY <1>2, <1>3, <1>4, <3>1
    <3>3. y[m] = b[i + m]
      BY <1>3, <3>1
    <3> QED
      BY <3>1, <3>2, <3>3
  <2>3. k <= i \/ k > i
    BY <1>4
  <2> QED
    BY <2>1, <2>2, <2>3
<1>6. Len(x \o y) = Len(b)
  BY <1>2, <1>3, <1>4
<1>7. x \o y = b
  BY <1>4, <1>5, <1>6, SameBytes
<1> QED
  BY <1>1, <1>7

\* What is buffered begins with x, or x is still under way.
Overlap(b, w, x, t) ==
  \/ \E r \in Seq(Nat) : b = x \o r /\ t = r \o w
  \/ Len(b) < Len(x) /\ \E r \in Seq(Nat) : r # <<>> /\ x = b \o r

LEMMA TwoCuts ==
  ASSUME NEW b \in Seq(Nat), NEW w \in Seq(Nat), NEW x \in Seq(Nat), NEW t \in Seq(Nat), b \o w = x \o t
  PROVE  Overlap(b, w, x, t)
<1>1. SubSeq(b \o w, 1, Len(b)) = b /\ SubSeq(x \o t, 1, Len(x)) = x /\ SubSeq(x \o t, Len(x) + 1, Len(x \o t)) = t
  BY FirstAndRest
<1>2. Len(b) \in Nat /\ Len(x) \in Nat
  OBVIOUS
<1>3. CASE Len(x) <= Len(b)
  <2>1. PICK r : r = SubSeq(b, Len(x) + 1, Len(b)) /\ r \in Seq(Nat)
    <3>1. Len(x) + 1 \in Nat \ {0} /\ Len(b) \in Int /\ Len(b) <= Len(b)
      BY ONLY <1>2
    <3> QED
      BY <3>1, Cut
  <2>2. b = SubSeq(b, 1, Len(x)) \o r
    <3>1. Len(x) \in 0..Len(b)
      BY ONLY <1>2, <1>3
    <3> QED
      BY <2>1, <3>1, SplitAt
  <2>3. SubSeq(b \o w, 1, Len(x)) = SubSeq(b, 1, Len(x))
    <3>1. 1 \in Nat \ {0} /\ Len(x) \in Int
      BY <1>2
    <3> QED
      BY <1>3, <3>1, Within
  <2>4. SubSeq(b \o w, Len(x) + 1, Len(b \o w)) = r \o w
    <3>1. Len(x) + 1 \in 1..Len(b) + 1
      BY ONLY <1>2, <1>3
    <3> QED
      BY <2>1, <3>1, Behind
  <2>5. b = x \o r /\ t = r \o w
    BY <1>1, <2>2, <2>3, <2>4
  <2> QED
    BY <2>1, <2>5 DEF Overlap
<1>4. CASE ~(Len(x) <= Len(b))
  <2>1. PICK r : r = SubSeq(x, Len(b) + 1, Len(x)) /\ r \in Seq(Nat)
    <3>1. Len(b) + 1 \in Nat \ {0} /\ Len(x) \in Int /\ Len(x) <= Len(x)
      BY ONLY <1>2
    <3> QED
      BY <3>1, Cut
  <2>2. Len(r) = Len(x) - Len(b) /\ Len(b) < Len(x)
    BY <1>2, <1>4, <2>1
  <2>3. x = SubSeq(x, 1, Len(b)) \o r
    <3>1. Len(b) \in 0..Len(x)
      BY ONLY <1>2, <1>4
    <3> QED
      BY <2>1, <3>1, SplitAt
  <2>4. SubSeq(x \o t, 1, Len(b)) = SubSeq(x, 1, Len(b))
    <3>1. 1 \in Nat \ {0} /\ Len(b) \in Int /\ Len(b) <= Len(x)
      BY <1>2, <2>2
    <3> QED
      BY <3>1, Within
  <2>5. x = b \o r /\ r # <<>>
    <3>1. x = b \o r
      BY <1>1, <2>3, <2>4
    <3>2. Len(r) # 0
      BY ONLY <1>2, <2>2
    <3> QED
      BY <3>1, <3>2
  <2> QED
    BY <2>1, <2>2, <2>5 DEF Overlap
<1> QED
  BY <1>3, <1>4

LEMMA SameRest ==
  ASSUME NEW u \in Seq(Nat), NEW v \in Seq(Nat), NEW w \in Seq(Nat), u \o v = u \o w
  PROVE  v = w
<1>1. SubSeq(u \o v, Len(u) + 1, Len(u \o v)) = v /\ SubSeq(u \o w, Len(u) + 1, Len(u \o w)) = w
  BY FirstAndRest
<1> QED
  BY <1>1

LEMMA SameFirst ==
  ASSUME NEW u \in Seq(Nat), NEW v \in Seq(Nat), NEW w \in Seq(Nat), u \o w = v \o w
  PROVE  u = v
<1>1. Len(u) = Len(v)
  <2>1. Len(u \o w) = Len(u) + Len(w) /\ Len(v \o w) = Len(v) + Len(w) /\ Len(u) \in Nat /\ Len(v) \in Nat /\ Len(w) \in Nat
    OBVIOUS
  <2> QED
    BY <2>1
<1>2. SubSeq(u \o w, 1, Len(u)) = u /\ SubSeq(v \o w, 1, Len(v)) = v
  BY FirstAndRest
<1> QED
  BY <1>1, <1>2

-----------------------------------------------------------------------------
(* What comes of a request in the stream.                                  *)

LEMMA StuckMeans ==
  ASSUME NEW p \in Seq(Nat), Stuck(p)
  PROVE  Redis!TryParse(p) = Redis!NotYet(p) /\ p # <<>>
<1>1. p # <<>> /\ p[1] \in Redis!Marks /\ Len(p) >= 4
  BY DEF Stuck
<1>2. Redis!TryParse(p) = Redis!ParseArray(p)
  BY <1>1 DEF Redis!TryParse
<1>3. CASE p[1] # 42 \/ Redis!Header(p) < 0
  BY <1>1, <1>2, <1>3 DEF Redis!ParseArray
<1>4. CASE ~(p[1] # 42 \/ Redis!Header(p) < 0)
  <2>1. PICK s, m : m = Redis!Elements(p) /\ s = Redis!BulkStrings(p, m, Redis!Header(p) + 3)
    OBVIOUS
  <2>2. m >= 1 /\ s.stop = "incomplete"
    BY <1>4, <2>1 DEF Stuck
  <2>3. m \in Int
    BY <1>1, <1>4, <2>1, HeaderType
  <2> QED
    BY <1>1, <1>2, <1>4, <2>1, <2>2, <2>3 DEF Redis!ParseArray
<1> QED
  BY <1>3, <1>4

LEMMA ResultIs ==
  ASSUME NEW is, NEW args, NEW rest
  PROVE  Redis!Result(is, args, rest).is = is /\ Redis!Result(is, args, rest).args = args /\ Redis!Result(is, args, rest).rest = rest
BY DEF Redis!Result

LEMMA OthersAre ==
  ASSUME NEW rest
  PROVE  /\ Redis!NotYet(rest).is = "not yet" /\ Redis!NotYet(rest).rest = rest
         /\ Redis!Violation.is = "violation" /\ Redis!Panic.is = "panic"
BY DEF Redis!Result, Redis!NotYet, Redis!Violation, Redis!Panic

LEMMA LongerIs ==
  ASSUME NEW o, NEW r
  PROVE  /\ Longer(o, r).is = o.is
         /\ o.is \in {"command", "not yet"} => Longer(o, r).args = o.args /\ Longer(o, r).rest = o.rest \o r
<1>1. CASE o.is \in {"command", "not yet"}
  <2>1. PICK i, a, x : i = o.is /\ a = o.args /\ x = o.rest \o r
    OBVIOUS
  <2>2. Longer(o, r) = [is |-> i, args |-> a, rest |-> x]
    BY <1>1, <2>1 DEF Longer, Redis!Result
  <2>3. Longer(o, r).is = i /\ Longer(o, r).args = a /\ Longer(o, r).rest = x
    BY <2>2
  <2> QED
    BY <2>1, <2>3
<1>2. CASE o.is \notin {"command", "not yet"}
  BY <1>2 DEF Longer
<1> QED
  BY <1>1, <1>2

\* RequestsAssumption, case by case.
LEMMA Alone ==
  ASSUME NEW q \in Requests, NEW p, p = Redis!TryParse(q.bytes)
  PROVE  /\ q.bytes \in Seq(Nat) /\ q.bytes # <<>> /\ q.args \in Seq(Seq(Nat)) /\ q.is \in Redis!Meanings
         /\ q.is = "command" => p.is = "command" /\ p.args = q.args /\ p.rest = <<>>
         /\ q.is = "empty line" => p.is = "not yet" /\ p.rest = <<>>
         /\ q.is = "blank line" => p.is = "panic"
         /\ q.is = "malformed" => p.is = "violation" /\ q.bytes[1] \in Redis!Marks
         /\ q.is = "never complete" => Stuck(q.bytes) /\ p.is = "not yet" /\ p.rest = q.bytes
<1>1. /\ q.bytes \in Seq(Nat) \ {<<>>} /\ q.args \in Seq(Seq(Nat)) /\ q.is \in Redis!Meanings
      /\ CASE q.is = "command" -> p = Redis!Result("command", q.args, <<>>)
           [] q.is = "empty line" -> p = Redis!NotYet(<<>>)
           [] q.is = "blank line" -> p = Redis!Panic
           [] q.is = "malformed" -> p = Redis!Violation /\ q.bytes[1] \in Redis!Marks
           [] q.is = "never complete" -> Stuck(q.bytes)
  BY RequestsAssumption
<1>2. q.is = "command" => p.is = "command" /\ p.args = q.args /\ p.rest = <<>>
  <2>1. q.is = "command" => p = Redis!Result("command", q.args, <<>>)
    BY <1>1
  <2> QED
    BY <2>1, ResultIs
<1>3. q.is = "empty line" => p.is = "not yet" /\ p.rest = <<>>
  <2>1. q.is = "empty line" => p = Redis!NotYet(<<>>)
    BY <1>1
  <2> QED
    BY <2>1, OthersAre
<1>4. q.is = "blank line" => p.is = "panic"
  <2>1. q.is = "blank line" => p = Redis!Panic
    BY <1>1
  <2> QED
    BY <2>1, OthersAre
<1>5. q.is = "malformed" => p.is = "violation" /\ q.bytes[1] \in Redis!Marks
  <2>1. q.is = "malformed" => p = Redis!Violation /\ q.bytes[1] \in Redis!Marks
    BY <1>1
  <2> QED
    BY <2>1, OthersAre
<1>6. q.is = "never complete" => Stuck(q.bytes) /\ p.is = "not yet" /\ p.rest = q.bytes
  <2> SUFFICES ASSUME q.is = "never complete" PROVE Stuck(q.bytes) /\ p.is = "not yet" /\ p.rest = q.bytes
    OBVIOUS
  <2>1. Stuck(q.bytes) /\ q.bytes \in Seq(Nat)
    BY <1>1
  <2>2. p = Redis!NotYet(q.bytes)
    BY <2>1, StuckMeans
  <2> QED
    BY <2>1, <2>2, OthersAre
<1> QED
  BY <1>1, <1>2, <1>3, <1>4, <1>5, <1>6

LEMMA RequestDecided ==
  ASSUME NEW q \in Requests
  PROVE  Decided(q.bytes)
<1>1. PICK p : p = Redis!TryParse(q.bytes)
  OBVIOUS
<1>2. /\ q.bytes # <<>> /\ q.is \in {"command", "empty line", "blank line", "malformed", "never complete"}
      /\ q.is = "command" => p.is = "command"
      /\ q.is = "empty line" => p.is = "not yet" /\ p.rest = <<>>
      /\ q.is = "blank line" => p.is = "panic"
      /\ q.is = "malformed" => p.is = "violation" /\ q.bytes[1] \in Redis!Marks
      /\ q.is = "never complete" => Stuck(q.bytes)
  BY <1>1, Alone DEF Redis!Meanings
<1>3. \/ p.is \in {"command", "panic"}
      \/ p.is = "not yet" /\ p.rest # q.bytes
      \/ p.is = "violation" /\ q.bytes[1] \in Redis!Marks
      \/ Stuck(q.bytes)
  BY <1>2
<1> QED
  BY <1>1, <1>3 DEF Decided

\* A request that is there, with r behind it.
Whole(q, r, o) ==
  /\ q.is = "command" => o.is = "command" /\ o.args = q.args /\ o.rest = r
  /\ q.is = "empty line" => o.is = "not yet" /\ o.rest = r
  /\ q.is = "blank line" => o.is = "panic"
  /\ q.is = "malformed" => o.is = "violation"
  /\ q.is = "never complete" => o.is = "not yet" /\ o.rest = q.bytes \o r

LEMMA WholeRequest ==
  ASSUME NEW q \in Requests, NEW r \in Seq(Nat)
  PROVE  Whole(q, r, Redis!TryParse(q.bytes \o r))
<1>0. PICK o : o = Redis!TryParse(q.bytes \o r)
  OBVIOUS
<1>1. PICK p : p = Redis!TryParse(q.bytes)
  OBVIOUS
<1>2. /\ q.bytes \in Seq(Nat) /\ q.bytes # <<>>
      /\ q.is = "command" => p.is = "command" /\ p.args = q.args /\ p.rest = <<>>
      /\ q.is = "empty line" => p.is = "not yet" /\ p.rest = <<>>
      /\ q.is = "blank line" => p.is = "panic"
      /\ q.is = "malformed" => p.is = "violation"
      /\ q.is = "never complete" => p.is = "not yet" /\ p.rest = q.bytes
  BY <1>1, Alone
<1>3. o = Longer(p, r)
  BY <1>0, <1>1, <1>2, RequestDecided, TryParseStable
<1>4. o.is = p.is /\ (p.is \in {"command", "not yet"} => o.args = p.args /\ o.rest = p.rest \o r)
  BY <1>3, LongerIs
<1>5. <<>> \o r = r
  OBVIOUS
<1> QED
  BY <1>0, <1>2, <1>4, <1>5 DEF Whole

\* A part of a request: bytes are missing, or enough have come to give up.
LEMMA PartOfRequest ==
  ASSUME NEW q \in Requests, NEW b \in Seq(Nat), b # <<>>, NEW t \in Seq(Nat), t # <<>>, q.bytes = b \o t,
         NEW o, o = Redis!TryParse(b)
  PROVE  \/ o.is = "not yet" /\ o.rest = b
         \/ o.is = "violation"
         \/ o.is = "panic" /\ q.is = "blank line"
<1> SUFFICES ASSUME ~(o.is = "not yet" /\ o.rest = b), o.is # "violation", ~(o.is = "panic" /\ q.is = "blank line")
             PROVE  FALSE
  OBVIOUS
<1>1. o \in Outcomes
  BY TryParseType
<1>2. o.rest \in Seq(Nat) /\ o.is \in {"command", "not yet", "panic"}
  BY <1>1 DEF Outcomes
<1>3. Decided(b)
  BY <1>2 DEF Decided
<1>4. PICK p : p = Redis!TryParse(q.bytes) /\ p = Longer(o, t)
  BY <1>3, TryParseStable
<1>5. PICK w : w = o.rest \o t
  OBVIOUS
<1>6. w # <<>> /\ (o.rest # b => w # q.bytes)
  <2>1. PICK u : u = o.rest /\ u \in Seq(Nat)
    BY <1>2
  <2>2. Len(u \o t) = Len(u) + Len(t) /\ Len(u) \in Nat /\ Len(t) \in Nat /\ Len(t) # 0
    <3>1. u \in Seq(Nat) /\ t \in Seq(Nat) /\ t # <<>>
      BY <2>1
    <3> QED
      BY ONLY <3>1
  <2>3. Len(u \o t) # 0
    BY ONLY <2>2
  <2>4. u # b => u \o t # b \o t
    BY <2>1, SameFirst
  <2> QED
    BY <1>5, <2>1, <2>3, <2>4
<1>7. p.is = o.is /\ (o.is \in {"command", "not yet"} => p.rest = w)
  <2>1. /\ Longer(o, t).is = o.is
        /\ o.is \in {"command", "not yet"} => Longer(o, t).args = o.args /\ Longer(o, t).rest = o.rest \o t
    BY LongerIs
  <2> QED
    BY <1>4, <1>5, <2>1
<1>8. /\ q.is \in {"command", "empty line", "blank line", "malformed", "never complete"}
      /\ q.is = "command" => p.is = "command" /\ p.rest = <<>>
      /\ q.is = "empty line" => p.is = "not yet" /\ p.rest = <<>>
      /\ q.is = "blank line" => p.is = "panic"
      /\ q.is = "malformed" => p.is = "violation"
      /\ q.is = "never complete" => p.is = "not yet" /\ p.rest = q.bytes
  BY <1>4, Alone DEF Redis!Meanings
<1> QED
  BY <1>2, <1>6, <1>7, <1>8

-----------------------------------------------------------------------------
(* The connection: what is served is what was sent.                        *)

\* The requests that are readable are the first ones.
LEMMA ReadableIs ==
  ASSUME NEW n, n = Len(Redis!Readable), sent \in Seq(Requests)
  PROVE  /\ n \in 0..Len(sent) /\ Redis!Readable = SubSeq(sent, 1, n)
         /\ \A i \in 1..n : sent[i].is \in {"command", "empty line"}
         /\ n < Len(sent) => sent[n + 1].is \notin {"command", "empty line"}
<1> DEFINE bad == {i \in DOMAIN sent : sent[i].is \notin {"command", "empty line"}}
<1>1. Redis!Readable = IF bad = {} THEN sent ELSE SubSeq(sent, 1, Redis!Min(bad) - 1)
  BY DEF Redis!Readable
<1>2. Len(sent) \in Nat /\ DOMAIN sent = 1..Len(sent)
  OBVIOUS
<1>3. \A i \in 1..Len(sent) : i \in bad <=> sent[i].is \notin {"command", "empty line"}
  BY <1>2
<1>4. bad \in SUBSET (1..Len(sent))
  BY <1>2
<1> HIDE DEF bad
<1>5. CASE bad = {}
  <2>1. n = Len(sent) /\ Redis!Readable = SubSeq(sent, 1, n)
    BY <1>1, <1>5, AllRequests
  <2>2. n \in 0..Len(sent) /\ ~(n < Len(sent))
    BY ONLY <1>2, <2>1
  <2> QED
    BY <1>3, <1>5, <2>1, <2>2
<1>6. CASE bad # {}
  <2>1. PICK e : e = Redis!Min(bad)
    OBVIOUS
  <2>2. e \in bad /\ \A x \in bad : e <= x
    BY <1>2, <1>4, <1>6, <2>1, LeastIn
  <2>3. e \in 1..Len(sent)
    BY <1>4, <2>2
  <2>4. e - 1 \in 0..Len(sent) /\ (e - 1) + 1 = e /\ \A i \in 1..e - 1 : i \in 1..Len(sent) /\ ~(e <= i)
    BY ONLY <1>2, <2>3
  <2>5. Redis!Readable = SubSeq(sent, 1, e - 1) /\ Len(SubSeq(sent, 1, e - 1)) = e - 1
    BY <1>1, <1>6, <2>1, <2>4, FirstRequests
  <2>6. n = e - 1
    BY <2>5
  <2>7. ASSUME NEW i \in 1..n PROVE sent[i].is \in {"command", "empty line"}
    <3>1. i \in 1..Len(sent) /\ i \notin bad
      BY <2>2, <2>4, <2>6
    <3> QED
      BY <1>3, <3>1
  <2>8. sent[n + 1].is \notin {"command", "empty line"}
    BY <1>3, <2>2, <2>3, <2>4, <2>6
  <2> QED
    BY <2>4, <2>5, <2>6, <2>7, <2>8
<1> QED
  BY <1>5, <1>6

\* The first j of the requests have been taken from the stream: their commands
\* are those got, and what is left of it is in the buffer or under way.
Before(j) == SubSeq(sent, 1, j)

Taken(j) ==
  /\ got = Redis!Commands(Before(j))
  /\ reader \in {"parse", "read", "serve"} => Redis!Bytes(sent) = Redis!Bytes(Before(j)) \o (buf \o wire)
  /\ reader = "crashed" => j < Len(sent) /\ sent[j + 1].is = "blank line"

TakenInv == \E j \in 0..Len(Redis!Readable) : Taken(j)

\* Who waits for bytes, and not because of an empty line, can do no more.
WaitsInv ==
  reader = "read" /\ ~skipped => Redis!TryParse(buf).is = "not yet" /\ Redis!TryParse(buf).rest = buf

LEMMA InitTaken == Redis!Init => TakenInv /\ WaitsInv
<1> SUFFICES ASSUME Redis!Init PROVE TakenInv /\ WaitsInv
  OBVIOUS
<1>1. sent \in Seq(Requests) /\ wire = Redis!Bytes(sent) /\ buf = <<>> /\ got = <<>> /\ reader = "parse"
  BY RequestsAssumption DEF Redis!Init
<1>2. 0 \in 0..Len(Redis!Readable) /\ Before(0) = <<>> /\ <<>> \in Seq(Requests)
  <2>1. PICK n : n = Len(Redis!Readable) /\ n \in 0..Len(sent)
    BY <1>1, ReadableIs
  <2>2. 0 \in 0..n
    BY <1>1, <2>1
  <2> QED
    BY <1>1, <2>1, <2>2 DEF Before
<1>3. Redis!Commands(<<>>) = <<>> /\ Redis!Bytes(<<>>) = <<>>
  <2>1. Len(<<>>) = 0
    OBVIOUS
  <2>2. PICK g : BytesRun(g, <<>>)
    BY <1>2, BytesSteps
  <2>3. PICK h : CommandsRun(h, <<>>)
    BY <1>2, CommandsSteps
  <2> QED
    BY <2>1, <2>2, <2>3 DEF BytesRun, CommandsRun
<1>4. wire \in Seq(Nat) /\ <<>> \o (<<>> \o wire) = wire
  <2>1. wire \in Seq(Nat)
    BY <1>1, BytesType
  <2> QED
    BY <2>1
<1>5. Taken(0)
  BY <1>1, <1>2, <1>3, <1>4 DEF Taken
<1> QED
  BY <1>1, <1>2, <1>5 DEF TakenInv, WaitsInv

\* What the buffer begins with, behind the requests taken: nothing more comes,
\* the next request is there, or a part of it.
LEMMA NextInBuffer ==
  ASSUME RedisTypes, NEW j \in 0..Len(sent), Redis!Bytes(sent) = Redis!Bytes(Before(j)) \o (buf \o wire)
  PROVE  \/ buf = <<>>
         \/ /\ j < Len(sent) /\ sent[j + 1] \in Requests
            /\ \E r \in Seq(Nat) : buf = sent[j + 1].bytes \o r /\ Redis!Bytes(sent) = Redis!Bytes(Before(j + 1)) \o (r \o wire)
         \/ /\ j < Len(sent) /\ sent[j + 1] \in Requests /\ Len(buf) < Len(sent[j + 1].bytes)
            /\ \E r \in Seq(Nat) : r # <<>> /\ sent[j + 1].bytes = buf \o r
<1>1. sent \in Seq(Requests) /\ buf \in Seq(Nat) /\ wire \in Seq(Nat)
  BY DEF RedisTypes
<1>2. PICK w, u : w = Redis!Bytes(Before(j)) /\ u = buf \o wire
  OBVIOUS
<1>3. w \in Seq(Nat) /\ u \in Seq(Nat) /\ Redis!Bytes(sent) = w \o u
  <2>1. w \in Seq(Nat)
    BY <1>1, <1>2, FirstRequests, BytesType DEF Before
  <2> QED
    BY <1>1, <1>2, <2>1
<1>4. CASE j = Len(sent)
  <2>1. Redis!Bytes(sent) = w
    BY <1>1, <1>2, <1>4, AllRequests DEF Before
  <2>2. u = <<>>
    <3>1. w \o u = w \o <<>> /\ <<>> \in Seq(Nat)
      BY <1>3, <2>1
    <3> QED
      BY <1>3, <3>1, SameRest
  <2>3. Len(u) = Len(buf) + Len(wire) /\ Len(buf) \in Nat /\ Len(wire) \in Nat
    BY <1>1, <1>2
  <2>4. Len(buf) = 0
    BY <2>2, <2>3
  <2> QED
    BY <1>1, <2>4
<1>5. CASE j # Len(sent)
  <2>1. j \in 0..Len(sent) - 1 /\ j + 1 \in 1..Len(sent) /\ j + 1 \in 0..Len(sent) /\ j < Len(sent) /\ Len(sent) \in 0..Len(sent)
    BY <1>1, <1>5
  <2>2. PICK q, x : q = sent[j + 1] /\ x = q.bytes /\ q \in Requests /\ x \in Seq(Nat)
    BY <1>1, <2>1, RequestType
  <2>3. Redis!Bytes(Before(j + 1)) = w \o x
    BY <1>1, <1>2, <2>1, <2>2, BytesNext DEF Before
  <2>4. PICK t \in Seq(Nat) : Redis!Bytes(sent) = Redis!Bytes(Before(j + 1)) \o t
    <3>1. Before(Len(sent)) = sent
      BY <1>1, AllRequests DEF Before
    <3>2. j + 1 \in 0..Len(sent) /\ Len(sent) \in Nat /\ sent \in Seq(Requests)
      BY <1>1, <2>1
    <3>3. j + 1 \in 0..Len(sent) /\ Len(sent) \in 0..Len(sent)
      BY <2>1
    <3>4. PICK t \in Seq(Nat) : Redis!Bytes(Before(Len(sent))) = Redis!Bytes(Before(j + 1)) \o t
      BY <3>2, <3>3, BytesPrefix DEF Before
    <3> QED
      BY <3>1, <3>4
  <2>5. (w \o x) \o t = w \o (x \o t) /\ x \o t \in Seq(Nat)
    <3>1. x \o t \in Seq(Nat)
      BY <2>2
    <3>2. w \in Seq(Nat) /\ x \in Seq(Nat) /\ t \in Seq(Nat)
      BY <1>3, <2>2
    <3> QED
      BY <3>1, <3>2, ThreeParts
  <2>6. buf \o wire = x \o t
    <3>1. PICK y : y = buf \o wire /\ y \in Seq(Nat)
      BY <1>2, <1>3
    <3>2. w \o y = w \o (x \o t)
      BY <1>2, <1>3, <2>3, <2>4, <2>5, <3>1
    <3>3. w \in Seq(Nat)
      BY <1>3
    <3>4. y = x \o t
      BY <2>5, <3>1, <3>2, <3>3, SameRest
    <3> QED
      BY <3>1, <3>4
  <2>7. \/ \E r \in Seq(Nat) : buf = x \o r /\ t = r \o wire
        \/ Len(buf) < Len(x) /\ \E r \in Seq(Nat) : r # <<>> /\ x = buf \o r
    <3>1. buf \in Seq(Nat) /\ wire \in Seq(Nat) /\ x \in Seq(Nat) /\ t \in Seq(Nat)
      BY <1>1, <2>2
    <3>2. Overlap(buf, wire, x, t)
      BY <2>6, <3>1, TwoCuts
    <3> QED
      BY <3>2 DEF Overlap
  <2> QED
    BY <2>1, <2>2, <2>4, <2>7
<1> QED
  BY <1>4, <1>5

LEMMA ParseTakes ==
  ASSUME RedisTypes, TakenInv, WaitsInv, Redis!Parse
  PROVE  TakenInv' /\ WaitsInv'
<1>1. sent \in Seq(Requests) /\ buf \in Seq(Nat) /\ wire \in Seq(Nat) /\ sent' = sent /\ wire' = wire /\ reader = "parse"
  BY DEF RedisTypes, Redis!Parse
<1>2. PICK n : n = Len(Redis!Readable)
  OBVIOUS
<1>3. /\ n \in 0..Len(sent)
      /\ \A i \in 1..n : sent[i].is \in {"command", "empty line"}
      /\ n < Len(sent) => sent[n + 1].is \notin {"command", "empty line"}
      /\ n = Len(Redis!Readable)'
  <2>1. Len(Redis!Readable)' = n
    BY <1>1, <1>2 DEF Redis!Readable
  <2> QED
    BY <1>1, <1>2, <2>1, ReadableIs
<1>4. PICK j \in 0..n : got = Redis!Commands(Before(j)) /\ Redis!Bytes(sent) = Redis!Bytes(Before(j)) \o (buf \o wire)
  BY <1>1, <1>2 DEF TakenInv, Taken
<1>5. PICK o : o = Redis!TryParse(buf) /\ o \in Outcomes
  BY <1>1, TryParseType
<1>6. /\ buf' = o.rest
      /\ reader' = (CASE o.is = "command" -> "serve" [] o.is = "not yet" -> "read"
                       [] o.is = "violation" -> "closed" [] o.is = "panic" -> "crashed")
      /\ got' = (IF o.is = "command" THEN Append(got, o.args) ELSE got)
      /\ skipped' = (o.is = "not yet" /\ o.rest # buf)
  BY <1>5 DEF Redis!Parse
<1>7. ASSUME NEW i \in 0..Len(sent) PROVE Before(i)' = Before(i) /\ Redis!Commands(Before(i))' = Redis!Commands(Before(i))
             /\ Redis!Bytes(Before(i))' = Redis!Bytes(Before(i)) /\ Redis!Bytes(sent)' = Redis!Bytes(sent)
  <2>1. Before(i)' = Before(i) /\ i' = i
    BY <1>1 DEF Before
  <2>2. Redis!Commands(Before(i))' = Redis!Commands(Before(i))
    BY <2>1
  <2>3. Redis!Bytes(Before(i))' = Redis!Bytes(Before(i))
    BY <2>1
  <2>4. Redis!Bytes(sent)' = Redis!Bytes(sent)
    BY <1>1
  <2> QED
    BY <2>1, <2>2, <2>3, <2>4
<1>8. j \in 0..Len(sent) /\ j \in Nat /\ n \in Nat /\ Len(sent) \in Nat
  <2>1. Len(sent) \in Nat
    BY <1>1
  <2>2. n \in 0..Len(sent) /\ j \in 0..n
    BY <1>3
  <2> QED
    BY ONLY <2>1, <2>2
<1>9. CASE o.is = "violation"
  <2>1. reader' = "closed" /\ got' = got
    BY <1>6, <1>9
  <2>2. Taken(j)'
    BY <1>4, <1>7, <1>8, <2>1 DEF Taken
  <2> QED
    BY <1>3, <2>1, <2>2 DEF TakenInv, WaitsInv
<1>10. CASE o.is = "not yet" /\ o.rest = buf
  <2>1. reader' = "read" /\ got' = got /\ buf' = buf
    BY <1>6, <1>10
  <2>2. Taken(j)'
    BY <1>1, <1>4, <1>7, <1>8, <2>1 DEF Taken
  <2>3. WaitsInv'
    BY <1>5, <1>10, <2>1 DEF WaitsInv
  <2> QED
    BY <1>3, <2>2, <2>3 DEF TakenInv
<1>11. CASE o.is = "panic" /\ j < Len(sent) /\ sent[j + 1].is = "blank line"
  <2>1. reader' = "crashed" /\ got' = got
    BY <1>6, <1>11
  <2>2. Taken(j)'
    BY <1>1, <1>4, <1>7, <1>8, <1>11, <2>1 DEF Taken
  <2> QED
    BY <1>3, <2>1, <2>2 DEF TakenInv, WaitsInv
<1>12. ASSUME j < Len(sent), sent[j + 1] \in Requests,
              NEW r \in Seq(Nat), buf = sent[j + 1].bytes \o r, Redis!Bytes(sent) = Redis!Bytes(Before(j + 1)) \o (r \o wire)
       PROVE  TakenInv' /\ WaitsInv'
  <2>1. PICK q : q = sent[j + 1] /\ q \in Requests
    BY <1>12
  <2>2. /\ q.is = "command" => o.is = "command" /\ o.args = q.args /\ o.rest = r
        /\ q.is = "empty line" => o.is = "not yet" /\ o.rest = r
        /\ q.is = "blank line" => o.is = "panic"
        /\ q.is = "malformed" => o.is = "violation"
        /\ q.is = "never complete" => o.is = "not yet" /\ o.rest = buf
    <3>1. o = Redis!TryParse(q.bytes \o r) /\ buf = q.bytes \o r
      BY <1>5, <1>12, <2>1
    <3> QED
      BY <2>1, <3>1, WholeRequest DEF Whole
  <2>3. q.is \in {"command", "empty line", "blank line", "malformed", "never complete"} /\ q.bytes \in Seq(Nat) /\ q.bytes # <<>>
    BY <2>1, Alone DEF Redis!Meanings
  <2>4. CASE q.is \in {"command", "empty line"}
    <3>1. j + 1 \in 0..n /\ j + 1 \in 0..Len(sent) /\ j \in 0..Len(sent) - 1
      <4>1. j # n
        BY <1>3, <1>12, <2>1, <2>4
      <4>2. j < Len(sent) /\ n \in 0..Len(sent) /\ j \in 0..n
        BY <1>3, <1>4, <1>12
      <4> QED
        BY ONLY <1>8, <4>1, <4>2
    <3>2. Redis!Commands(Before(j + 1)) = IF q.is = "command" THEN Append(got, q.args) ELSE got
      BY <1>1, <1>4, <2>1, <3>1, CommandsNext DEF Before
    <3>3. got' = Redis!Commands(Before(j + 1)) /\ buf' = r /\ reader' \in {"serve", "read"}
      BY <1>6, <2>2, <2>4, <3>2
    <3>4. Taken(j + 1)'
      BY <1>1, <1>7, <1>12, <3>1, <3>3 DEF Taken
    <3>5. reader' = "read" => skipped'
      <4>1. r # buf
        <5>1. Len(q.bytes \o r) = Len(q.bytes) + Len(r) /\ Len(q.bytes) \in Nat /\ Len(r) \in Nat /\ Len(q.bytes) # 0
          <6>1. q.bytes \in Seq(Nat) /\ q.bytes # <<>> /\ r \in Seq(Nat)
            BY <2>3
          <6> QED
            BY ONLY <6>1
        <5>2. Len(buf) # Len(r)
          BY <1>12, <2>1, <5>1
        <5> QED
          BY <5>2
      <4> QED
        BY <1>6, <2>2, <2>4, <4>1
    <3> QED
      BY <1>3, <3>1, <3>4, <3>5 DEF TakenInv, WaitsInv
  <2> QED
    BY <1>9, <1>10, <1>11, <1>12, <2>1, <2>2, <2>3, <2>4
<1>13. ASSUME j < Len(sent), sent[j + 1] \in Requests, buf # <<>>,
              NEW r \in Seq(Nat), r # <<>>, sent[j + 1].bytes = buf \o r
       PROVE  TakenInv' /\ WaitsInv'
  <2>1. \/ o.is = "not yet" /\ o.rest = buf
        \/ o.is = "violation"
        \/ o.is = "panic" /\ sent[j + 1].is = "blank line"
    <3>1. o = Redis!TryParse(buf) /\ buf \in Seq(Nat)
      BY <1>1, <1>5
    <3> QED
      BY <1>13, <3>1, PartOfRequest
  <2> QED
    BY <1>9, <1>10, <1>11, <1>13, <2>1
<1>14. CASE buf = <<>>
  <2>1. o.is = "not yet" /\ o.rest = buf
    BY <1>5, <1>14, OthersAre DEF Redis!TryParse
  <2> QED
    BY <1>10, <2>1
<1> QED
  BY <1>4, <1>8, <1>12, <1>13, <1>14, NextInBuffer

LEMMA StillTaken ==
  ASSUME RedisTypes, TakenInv, sent' = sent, got' = got, reader \in {"parse", "read", "serve"},
         \/ reader' \in {"parse", "read", "serve"} /\ (buf \o wire)' = buf \o wire
         \/ reader' = "closed"
  PROVE  TakenInv'
<1>1. PICK n : n = Len(Redis!Readable)
  OBVIOUS
<1>2. Len(Redis!Readable)' = n
  BY <1>1 DEF Redis!Readable
<1>3. PICK j \in 0..n : got = Redis!Commands(Before(j)) /\ Redis!Bytes(sent) = Redis!Bytes(Before(j)) \o (buf \o wire)
  BY <1>1 DEF TakenInv, Taken
<1>4. Redis!Commands(Before(j))' = Redis!Commands(Before(j)) /\ Redis!Bytes(Before(j))' = Redis!Bytes(Before(j))
      /\ Redis!Bytes(sent)' = Redis!Bytes(sent)
  <2>1. Before(j)' = Before(j)
    BY DEF Before
  <2>2. Redis!Commands(Before(j))' = Redis!Commands(Before(j))
    BY <2>1
  <2>3. Redis!Bytes(Before(j))' = Redis!Bytes(Before(j))
    BY <2>1
  <2>4. Redis!Bytes(sent)' = Redis!Bytes(sent)
    OBVIOUS
  <2> QED
    BY <2>2, <2>3, <2>4
<1>5. Taken(j)'
  BY <1>3, <1>4 DEF Taken
<1> QED
  BY <1>2, <1>5 DEF TakenInv

LEMMA TakenPreserved == RedisTypes /\ TakenInv /\ WaitsInv /\ [Redis!Next]_(Redis!vars) => TakenInv' /\ WaitsInv'
<1> SUFFICES ASSUME RedisTypes, TakenInv, WaitsInv, [Redis!Next]_(Redis!vars) PROVE TakenInv' /\ WaitsInv'
  OBVIOUS
<1>1. CASE Redis!Parse
  BY <1>1, ParseTakes
<1>2. CASE Redis!Serve
  <2>1. sent' = sent /\ got' = got /\ reader = "serve" /\ reader' = "parse" /\ buf' = buf /\ wire' = wire
    BY <1>2 DEF Redis!Serve
  <2> QED
    BY <2>1, StillTaken DEF WaitsInv
<1>3. ASSUME NEW n \in 1..Len(wire), Redis!Fill(n) PROVE TakenInv' /\ WaitsInv'
  <2>1. /\ sent' = sent /\ got' = got /\ reader = "read" /\ reader' = "parse"
        /\ buf' = buf \o SubSeq(wire, 1, n) /\ wire' = SubSeq(wire, n + 1, Len(wire))
    BY <1>3 DEF Redis!Fill
  <2>2. buf \in Seq(Nat) /\ wire \in Seq(Nat)
    BY DEF RedisTypes
  <2>3. PICK x, y : x = SubSeq(wire, 1, n) /\ y = SubSeq(wire, n + 1, Len(wire)) /\ x \in Seq(Nat) /\ y \in Seq(Nat)
    <3>1. SubSeq(wire, 1, n) \in Seq(Nat) /\ SubSeq(wire, n + 1, Len(wire)) \in Seq(Nat)
      BY <2>2
    <3> QED
      BY <3>1
  <2>4. wire = x \o y
    <3>1. n \in 0..Len(wire)
      BY <2>2
    <3> QED
      BY <2>2, <2>3, <3>1, SplitAt
  <2>5. (buf \o x) \o y = buf \o (x \o y)
    <3>1. buf \in Seq(Nat) /\ x \in Seq(Nat) /\ y \in Seq(Nat)
      BY <2>2, <2>3
    <3> QED
      BY <3>1, ThreeParts
  <2>6. (buf \o wire)' = buf \o wire
    BY <2>1, <2>3, <2>4, <2>5
  <2> QED
    BY <2>1, <2>6, StillTaken DEF WaitsInv
<1>4. CASE Redis!ReadFails
  <2>1. sent' = sent /\ got' = got /\ reader = "read" /\ reader' = "closed"
    BY <1>4 DEF Redis!ReadFails
  <2> QED
    BY <2>1, StillTaken DEF WaitsInv
<1>5. CASE UNCHANGED Redis!vars
  <2>1. sent' = sent /\ got' = got /\ reader' = reader /\ buf' = buf /\ wire' = wire /\ skipped' = skipped
    BY <1>5 DEF Redis!vars
  <2>2. TakenInv'
    BY <2>1 DEF TakenInv, Taken, Before, Redis!Readable
  <2>3. WaitsInv'
    BY <2>1 DEF WaitsInv
  <2> QED
    BY <2>2, <2>3
<1> QED
  BY <1>1, <1>2, <1>3, <1>4, <1>5 DEF Redis!Next, Redis!Closed

LEMMA PrefixOf ==
  ASSUME NEW S, NEW u \in Seq(S), NEW t \in Seq(S)
  PROVE  u = SubSeq(u \o t, 1, Len(u)) /\ Len(u) <= Len(u \o t)
<1>1. u \o t \in Seq(S) /\ Len(u \o t) = Len(u) + Len(t) /\ Len(u) \in Nat /\ Len(t) \in Nat
      /\ \A k \in 1..Len(u) : (u \o t)[k] = u[k]
  OBVIOUS
<1>2. PICK b : b = u \o t
  OBVIOUS
<1>3. u = [k \in 1..Len(u) |-> u[k]] /\ SubSeq(b, 1, Len(u)) = [k \in 1..Len(u) |-> b[k]]
  BY <1>1, <1>2
<1>4. u = SubSeq(u \o t, 1, Len(u))
  BY <1>1, <1>2, <1>3
<1>5. Len(u) <= Len(u \o t)
  BY <1>1
<1> QED
  BY <1>4, <1>5

LEMMA ServedBefore ==
  ASSUME sent \in Seq(Requests), NEW m \in 0..Len(sent), NEW k \in 0..m
  PROVE  /\ Redis!Commands(Before(k)) = SubSeq(Redis!Commands(Before(m)), 1, Len(Redis!Commands(Before(k))))
         /\ Len(Redis!Commands(Before(k))) <= Len(Redis!Commands(Before(m)))
         /\ Len(Redis!Bytes(Before(k))) <= Len(Redis!Bytes(Before(m)))
<1>1. k \in 0..Len(sent)
  OBVIOUS
<1>2. Before(k) \in Seq(Requests)
  BY <1>1, FirstRequests DEF Before
<1>3. PICK t \in Seq(Seq(Seq(Nat))) : Redis!Commands(Before(m)) = Redis!Commands(Before(k)) \o t
  BY CommandsPrefix DEF Before
<1>4. PICK w \in Seq(Nat) : Redis!Bytes(Before(m)) = Redis!Bytes(Before(k)) \o w
  BY BytesPrefix DEF Before
<1>5. Redis!Commands(Before(k)) \in Seq(Seq(Seq(Nat))) /\ Redis!Bytes(Before(k)) \in Seq(Nat)
  BY <1>2, CommandsType, BytesType
<1> QED
  BY <1>3, <1>4, <1>5, PrefixOf

\* Who waits has been served every command that is there.
LEMMA WaitsForMissing ==
  ASSUME RedisTypes, TakenInv, WaitsInv, reader = "read", ~skipped,
         NEW k \in 1..Len(Redis!Readable), Redis!Size(k) <= Redis!Received
  PROVE  Len(got) >= Len(Redis!Commands(SubSeq(sent, 1, k)))
<1>1. PICK n : n = Len(Redis!Readable)
  OBVIOUS
<1>2. sent \in Seq(Requests) /\ buf \in Seq(Nat) /\ wire \in Seq(Nat) /\ got \in Seq(Calls)
  BY DEF RedisTypes
<1>3. n \in 0..Len(sent) /\ \A i \in 1..n : sent[i].is \in {"command", "empty line"}
  BY <1>1, <1>2, ReadableIs
<1>4. PICK j \in 0..n : got = Redis!Commands(Before(j)) /\ Redis!Bytes(sent) = Redis!Bytes(Before(j)) \o (buf \o wire)
  BY <1>1 DEF TakenInv, Taken
<1>5. k \in 1..n /\ j \in 0..n /\ Len(sent) \in Nat /\ n \in 0..Len(sent)
  <2>1. Len(sent) \in Nat
    BY <1>2
  <2>2. k \in 1..n
    BY <1>1
  <2> QED
    BY <1>3, <2>1, <2>2
<1>6. j \in 0..Len(sent) /\ k \in 0..Len(sent)
  BY ONLY <1>5
<1>7. PICK c : c = Len(Redis!Commands(Before(k))) /\ c \in Nat
  <2>1. Before(k) \in Seq(Requests)
    BY <1>2, <1>6, FirstRequests DEF Before
  <2> QED
    BY <2>1, CommandsType
<1>8. CASE k <= j
  <2>1. k \in 0..j
    BY ONLY <1>5, <1>8
  <2>2. c <= Len(got)
    BY <1>2, <1>4, <1>6, <1>7, <2>1, ServedBefore
  <2> QED
    BY <1>2, <1>7, <2>2 DEF Before
<1>9. CASE ~(k <= j)
  <2>1. j + 1 \in 0..k /\ j + 1 \in 1..n /\ j + 1 \in 0..Len(sent) /\ j + 1 \in 1..Len(sent) /\ j \in 0..Len(sent) - 1
    BY ONLY <1>5, <1>9
  <2>2. PICK q, w, x : q = sent[j + 1] /\ w = Redis!Bytes(Before(j)) /\ x = q.bytes /\ q \in Requests /\ w \in Seq(Nat) /\ x \in Seq(Nat) /\ x # <<>>
    <3>1. sent[j + 1] \in Requests /\ sent[j + 1].bytes \in Seq(Nat) /\ sent[j + 1].bytes # <<>>
      BY <1>2, <2>1, RequestType
    <3>2. Redis!Bytes(Before(j)) \in Seq(Nat)
      BY <1>2, <1>6, FirstRequests, BytesType DEF Before
    <3> QED
      BY <3>1, <3>2
  <2>3. Redis!Bytes(Before(j + 1)) = w \o x
    BY <1>2, <2>1, <2>2, BytesNext DEF Before
  <2>4. Len(w \o x) = Len(w) + Len(x) /\ Len(w) \in Nat /\ Len(x) \in Nat /\ Len(x) # 0
    BY ONLY <2>2
  <2>5. Len(w) + Len(x) <= Redis!Size(k)
    <3>1. Len(Redis!Bytes(Before(j + 1))) <= Len(Redis!Bytes(Before(k)))
      BY <1>2, <1>6, <2>1, ServedBefore
    <3> QED
      BY <2>3, <2>4, <3>1 DEF Redis!Size, Before
  <2>6. Redis!Received = Len(w) + Len(buf) /\ Len(buf) \in Nat
    <3>1. buf \o wire \in Seq(Nat) /\ Len(buf \o wire) = Len(buf) + Len(wire) /\ Len(buf) \in Nat /\ Len(wire) \in Nat
      BY <1>2
    <3>2. Len(w \o (buf \o wire)) = Len(w) + Len(buf \o wire)
      BY <2>2, <3>1
    <3>3. Len(Redis!Bytes(sent)) = Len(w) + (Len(buf) + Len(wire))
      BY <1>4, <2>2, <3>1, <3>2
    <3>4. Len(Redis!Bytes(sent)) - Len(wire) = Len(w) + Len(buf)
      BY ONLY <2>4, <3>1, <3>3
    <3> QED
      BY <3>1, <3>4 DEF Redis!Received
  <2>7. Len(x) <= Len(buf)
    <3>1. Redis!Size(k) \in Nat
      <4>1. Redis!Bytes(Before(k)) \in Seq(Nat)
        BY <1>2, <1>6, FirstRequests, BytesType DEF Before
      <4> QED
        BY <4>1 DEF Redis!Size, Before
    <3>2. Redis!Size(k) <= Redis!Received
      OBVIOUS
    <3> QED
      BY ONLY <2>4, <2>5, <2>6, <3>1, <3>2
  <2>8. buf # <<>> /\ ~(Len(buf) < Len(x))
    <3>1. Len(buf) # 0 /\ ~(Len(buf) < Len(x))
      BY ONLY <2>4, <2>6, <2>7
    <3> QED
      BY <3>1
  <2>9. PICK r \in Seq(Nat) : buf = x \o r
    BY <1>4, <1>6, <2>2, <2>8, NextInBuffer
  <2>10. PICK o : o = Redis!TryParse(buf)
    OBVIOUS
  <2>11. o.is = "not yet" /\ o.rest = buf
    BY <2>10 DEF WaitsInv
  <2>12. Whole(q, r, o)
    BY <2>2, <2>9, <2>10, WholeRequest
  <2>13. q.is \in {"command", "empty line"}
    BY <1>3, <2>1, <2>2
  <2>14. o.is = "command" \/ (o.is = "not yet" /\ o.rest = r)
    BY <2>12, <2>13 DEF Whole
  <2>15. r # buf
    <3>1. Len(x \o r) = Len(x) + Len(r) /\ Len(r) \in Nat
      BY <2>2, <2>9
    <3>2. Len(buf) # Len(r)
      BY <2>4, <2>9, <3>1
    <3> QED
      BY <3>2
  <2> QED
    BY <2>11, <2>14, <2>15
<1> QED
  BY <1>8, <1>9

LEMMA RedisInvariant == Spec => [](RedisTypes /\ AnsweredInv /\ TakenInv /\ WaitsInv)
<1>1. Init => RedisTypes /\ AnsweredInv /\ TakenInv /\ WaitsInv
  BY InitRedis, InitTaken DEF Init
<1>2. RedisTypes /\ AnsweredInv /\ TakenInv /\ WaitsInv /\ [Next]_vars => (RedisTypes /\ AnsweredInv /\ TakenInv /\ WaitsInv)'
  <2>1. [Next]_vars => [Redis!Next]_(Redis!vars)
    BY DEF Next, vars, RedisStep, SshStep, TlsStep, KeysStep, redisVars, Redis!vars
  <2> QED
    BY <2>1, RedisTypesPreserved, AnsweredPreserved, TakenPreserved
<1> QED
  BY <1>1, <1>2, PTL DEF Spec

\* However the stream of requests is cut into fragments, the Redis decoy serves
\* the commands that were sent, in their order, with their arguments, and waits
\* for missing bytes only.
THEOREM RequestsAreServedAsSent == Spec => []ServedAsSent
<1>1. RedisTypes /\ TakenInv /\ WaitsInv => ServedAsSent
  <2> SUFFICES ASSUME RedisTypes, TakenInv, WaitsInv PROVE Redis!ServedAsSent
    BY DEF ServedAsSent
  <2>1. PICK n : n = Len(Redis!Readable)
    OBVIOUS
  <2>2. sent \in Seq(Requests)
    BY DEF RedisTypes
  <2>3. /\ n \in 0..Len(sent) /\ Redis!Readable = SubSeq(sent, 1, n)
        /\ \A i \in 1..n : sent[i].is \in {"command", "empty line"}
        /\ n < Len(sent) => sent[n + 1].is \notin {"command", "empty line"}
    BY <2>1, <2>2, ReadableIs
  <2>4. PICK j \in 0..n : Taken(j)
    BY <2>1 DEF TakenInv
  <2>5. \E c \in 0..Len(Redis!Commands(Redis!Readable)) : got = SubSeq(Redis!Commands(Redis!Readable), 1, c)
    <3> DEFINE cs == Redis!Commands(Redis!Readable)
    <3>1. got = Redis!Commands(Before(j)) /\ cs = Redis!Commands(Before(n))
      BY <2>3, <2>4 DEF Taken, Before
    <3>2. got = SubSeq(cs, 1, Len(got)) /\ Len(got) <= Len(cs)
      BY <2>2, <2>3, <3>1, ServedBefore
    <3>3. Len(got) \in Nat /\ Len(cs) \in Nat
      <4>1. Before(n) \in Seq(Requests)
        BY <2>2, <2>3, FirstRequests DEF Before
      <4> QED
        BY <2>2, <3>1, <4>1, CommandsType
    <3>4. Len(got) \in 0..Len(cs)
      BY <3>2, <3>3
    <3> QED
      BY <3>2, <3>4
  <2>6. reader = "crashed" => n < Len(sent) /\ sent[n + 1].is = "blank line"
    <3> SUFFICES ASSUME reader = "crashed" PROVE n < Len(sent) /\ sent[n + 1].is = "blank line"
      OBVIOUS
    <3>1. j < Len(sent) /\ sent[j + 1].is = "blank line"
      BY <2>4 DEF Taken
    <3>2. j + 1 \notin 1..n
      BY <2>3, <3>1
    <3>3. Len(sent) \in Nat /\ n \in 0..Len(sent) /\ j \in 0..n
      <4>1. Len(sent) \in Nat
        BY <2>2
      <4> QED
        BY <2>3, <4>1
    <3>4. j = n
      BY ONLY <3>2, <3>3
    <3> QED
      BY <3>1, <3>4
  <2> QED
    BY <2>1, <2>5, <2>6, WaitsForMissing DEF Redis!ServedAsSent
<1> QED
  BY <1>1, RedisInvariant, PTL

\* The Redis decoy answers each command with one complete reply.
THEOREM RepliesAreComplete == Spec => []RepliesStayInStep
<1>1. RedisTypes /\ AnsweredInv => RepliesStayInStep
  <2> SUFFICES ASSUME RedisTypes, AnsweredInv, NEW i \in DOMAIN replies, Redis!BytesIndexCR(got[i][1], 1) < 0
               PROVE  Redis!AfterReply(replies[i]) = Len(replies[i]) + 1
    BY DEF RepliesStayInStep, Redis!RepliesStayInStep
  <2>1. i \in 1..Len(replies) /\ i \in 1..Len(got)
    BY DEF AnsweredInv, RedisTypes
  <2>2. got[i] \in Calls /\ replies[i] = Redis!Reply(got[i])
    BY <2>1 DEF AnsweredInv, RedisTypes
  <2> QED
    BY <2>2, ReplyEnds
<1> QED
  BY <1>1, RedisInvariant, PTL

-----------------------------------------------------------------------------
(* The shell: words, and what is left without the empty ones.               *)

Letters == Chars \cup {";"}

\* Texts of the shell, and those that are not empty.
Said == Seq(Letters) \ {<<>>}

LEMMA ShellWordType ==
  ASSUME NEW s \in Seq(Letters), NEW i \in 1..Len(s), NEW white, NEW ws \in Seq(Said)
  PROVE  Ssh!Word(ws, s, i, white) \in Seq(Said)
<1>1. s[i] \in Letters
  OBVIOUS
<1>2. <<s[i]>> \in Said
  BY <1>1 DEF Said
<1>3. ASSUME ws # <<>> PROVE [ws EXCEPT ![Len(ws)] = Append(ws[Len(ws)], s[i])] \in Seq(Said)
  <2>1. Len(ws) \in 1..Len(ws) /\ ws[Len(ws)] \in Said
    BY <1>3
  <2>2. PICK w : w = ws[Len(ws)] /\ w \in Seq(Letters)
    BY <2>1 DEF Said
  <2>3. Append(w, s[i]) \in Seq(Letters) /\ Len(Append(w, s[i])) = Len(w) + 1
    BY <1>1, <2>2
  <2>4. Append(w, s[i]) \in Said
    <3>1. PICK v : v = Append(w, s[i])
      OBVIOUS
    <3>2. v \in Seq(Letters) /\ Len(v) # 0
      BY <2>2, <2>3, <3>1
    <3> QED
      BY <3>1, <3>2 DEF Said
  <2> QED
    BY <2>1, <2>2, <2>4
<1>4. ASSUME ws = <<>> PROVE [ws EXCEPT ![Len(ws)] = Append(ws[Len(ws)], s[i])] = ws
  BY <1>4
<1>5. Append(ws, <<s[i]>>) \in Seq(Said)
  BY <1>2
<1> QED
  BY <1>3, <1>4, <1>5 DEF Ssh!Word

ShellFieldsRun(g, s, white) ==
  /\ g[0] = <<>> /\ g[Len(s)] = Ssh!Fields(s, white)
  /\ \A k \in 1..Len(s) : g[k] = Ssh!Word(g[k - 1], s, k, white)
  /\ \A k \in 0..Len(s) : g[k] \in Seq(Said)

LEMMA ShellFieldsSteps ==
  ASSUME NEW s \in Seq(Letters), NEW white
  PROVE  \E g : ShellFieldsRun(g, s, white)
<1> DEFINE n == Len(s)
           T == Seq(Said)
           d == [k \in 1..n |-> k]
           G == [k \in 1..n |-> [x \in T |-> Ssh!Word(x, s, k, white)]]
           It == CHOOSE h : h = [u \in SUBSET (1..n) |->
                   IF u = {} THEN <<>> ELSE Ssh!Word(h[u \ {Greatest(u)}], s, d[Greatest(u)], white)]
<1>1. n \in Nat /\ <<>> \in T
  OBVIOUS
<1>2. ASSUME NEW k \in 1..n, NEW x \in T PROVE Ssh!Word(x, s, k, white) \in T
  BY ShellWordType
<1>3. G \in [1..n -> [T -> T]]
  BY <1>2
<1>4. PICK it \in [SUBSET (1..n) -> T] : Tabulates(it, n, <<>>, G)
  <2> HIDE DEF G, T, n
  <2> QED
    BY <1>1, <1>3, FoldTable
<1>5. it = [u \in SUBSET (1..n) |->
             IF u = {} THEN <<>> ELSE Ssh!Word(it[u \ {Greatest(u)}], s, d[Greatest(u)], white)]
  <2>1. ASSUME NEW u \in SUBSET (1..n), u # {}
        PROVE G[Greatest(u)][it[u \ {Greatest(u)}]] = Ssh!Word(it[u \ {Greatest(u)}], s, d[Greatest(u)], white)
    <3>1. Greatest(u) \in 1..n
      BY <1>1, <2>1, GreatestIn
    <3>2. it[u \ {Greatest(u)}] \in T
      OBVIOUS
    <3> QED
      BY <3>1, <3>2
  <2> HIDE DEF G, T, n, d
  <2> QED
    BY <1>4, <2>1 DEF Tabulates
<1>6. It = [u \in SUBSET (1..n) |->
             IF u = {} THEN <<>> ELSE Ssh!Word(It[u \ {Greatest(u)}], s, d[Greatest(u)], white)]
  BY <1>5
<1>7. Ssh!Fields(s, white) = It[1..n]
  BY <1>1 DEF Ssh!Fields, Ssh!FoldLeft, Ssh!MapThenFoldSet, Ssh!Max, Greatest
<1> HIDE DEF It
<1>8. It[{}] = <<>>
  BY <1>6
<1>9. ASSUME NEW k \in 1..n, It[1..k - 1] \in T PROVE It[1..k] = G[k][It[1..k - 1]]
  <2>1. Greatest(1..k) = k /\ (1..k) \ {k} = 1..k - 1 /\ 1..k \in SUBSET (1..n) /\ 1..k # {}
    BY <1>1, GreatestOfFirst
  <2> QED
    BY <1>6, <1>9, <2>1
<1>10. PICK g \in [0..n -> T] : Runs(g, It, n, <<>>, G)
  <2>1. Follows(It, n, <<>>, G, T)
    BY <1>8, <1>9 DEF Follows
  <2> HIDE DEF G, T, n
  <2> QED
    BY <1>1, <1>3, <2>1, FoldRun
<1>11. ASSUME NEW k \in 1..n PROVE g[k] = Ssh!Word(g[k - 1], s, k, white)
  <2>1. g[k - 1] \in T
    <3>1. k - 1 \in 0..n
      BY <1>1
    <3> QED
      BY <1>10, <3>1
  <2> QED
    BY <1>10, <2>1 DEF Runs
<1> QED
  BY <1>7, <1>10, <1>11 DEF ShellFieldsRun, Runs

NotEmptyRun(g, X, texts) ==
  /\ g[0] = <<>> /\ g[Len(texts)] = Ssh!NotEmpty(texts)
  /\ \A k \in 1..Len(texts) : g[k] = (IF texts[k] = <<>> THEN g[k - 1] ELSE Append(g[k - 1], texts[k]))
  /\ \A k \in 0..Len(texts) : g[k] \in Seq(X \ {<<>>})

LEMMA NotEmptySteps ==
  ASSUME NEW X, NEW texts \in Seq(X)
  PROVE  \E g : NotEmptyRun(g, X, texts)
<1> DEFINE n == Len(texts)
           T == Seq(X \ {<<>>})
           G == [k \in 1..n |-> [x \in T |-> (IF texts[k] = <<>> THEN x ELSE Append(x, texts[k]))]]
           It == CHOOSE h : h = [u \in SUBSET (1..n) |->
                   IF u = {} THEN <<>> ELSE (IF texts[Greatest(u)] = <<>> THEN h[u \ {Greatest(u)}] ELSE Append(h[u \ {Greatest(u)}], texts[Greatest(u)]))]
<1>1. n \in Nat /\ <<>> \in T
  OBVIOUS
<1>0. DOMAIN texts = 1..n
  OBVIOUS
<1>2. ASSUME NEW k \in 1..n, NEW x \in T PROVE (IF texts[k] = <<>> THEN x ELSE Append(x, texts[k])) \in T
  OBVIOUS
<1>3. G \in [1..n -> [T -> T]]
  BY <1>2
<1>4. PICK it \in [SUBSET (1..n) -> T] : Tabulates(it, n, <<>>, G)
  <2> HIDE DEF G, T, n
  <2> QED
    BY <1>1, <1>3, FoldTable
<1>5. it = [u \in SUBSET (1..n) |->
             IF u = {} THEN <<>> ELSE (IF texts[Greatest(u)] = <<>> THEN it[u \ {Greatest(u)}] ELSE Append(it[u \ {Greatest(u)}], texts[Greatest(u)]))]
  <2>1. ASSUME NEW u \in SUBSET (1..n), u # {}
        PROVE G[Greatest(u)][it[u \ {Greatest(u)}]] = (IF texts[Greatest(u)] = <<>> THEN it[u \ {Greatest(u)}] ELSE Append(it[u \ {Greatest(u)}], texts[Greatest(u)]))
    <3>1. Greatest(u) \in 1..n
      BY <1>1, <2>1, GreatestIn
    <3>2. it[u \ {Greatest(u)}] \in T
      OBVIOUS
    <3> QED
      BY <3>1, <3>2
  <2> HIDE DEF G, T, n
  <2> QED
    BY <1>4, <2>1 DEF Tabulates
<1>6. It = [u \in SUBSET (1..n) |->
             IF u = {} THEN <<>> ELSE (IF texts[Greatest(u)] = <<>> THEN It[u \ {Greatest(u)}] ELSE Append(It[u \ {Greatest(u)}], texts[Greatest(u)]))]
  BY <1>5
<1>7. Ssh!NotEmpty(texts) = It[1..n]
  BY <1>1, <1>0 DEF Ssh!NotEmpty, Ssh!FoldLeft, Ssh!MapThenFoldSet, Ssh!Max, Greatest
<1> HIDE DEF It
<1>8. It[{}] = <<>>
  BY <1>6
<1>9. ASSUME NEW k \in 1..n, It[1..k - 1] \in T PROVE It[1..k] = G[k][It[1..k - 1]]
  <2>1. Greatest(1..k) = k /\ (1..k) \ {k} = 1..k - 1 /\ 1..k \in SUBSET (1..n) /\ 1..k # {}
    BY <1>1, GreatestOfFirst
  <2> QED
    BY <1>6, <1>9, <2>1
<1>10. PICK g \in [0..n -> T] : Runs(g, It, n, <<>>, G)
  <2>1. Follows(It, n, <<>>, G, T)
    BY <1>8, <1>9 DEF Follows
  <2> HIDE DEF G, T, n
  <2> QED
    BY <1>1, <1>3, <2>1, FoldRun
<1>11. ASSUME NEW k \in 1..n PROVE g[k] = (IF texts[k] = <<>> THEN g[k - 1] ELSE Append(g[k - 1], texts[k]))
  <2>1. g[k - 1] \in T
    <3>1. k - 1 \in 0..n
      BY <1>1
    <3> QED
      BY <1>10, <3>1
  <2> QED
    BY <1>10, <2>1 DEF Runs
<1> QED
  BY <1>7, <1>10, <1>11 DEF NotEmptyRun, Runs

KeptOf(s) == Ssh!FoldLeft(LAMBDA cs, c : IF c = "return" THEN cs ELSE Append(cs, c), <<>>, s)

KeptRun(g, s) ==
  /\ g[0] = <<>> /\ g[Len(s)] = KeptOf(s)
  /\ \A k \in 1..Len(s) : g[k] = (IF s[k] = "return" THEN g[k - 1] ELSE Append(g[k - 1], s[k]))
  /\ \A k \in 0..Len(s) : g[k] \in Seq(Letters)

LEMMA KeptSteps ==
  ASSUME NEW s \in Seq(Letters)
  PROVE  \E g : KeptRun(g, s)
<1> DEFINE n == Len(s)
           T == Seq(Letters)
           G == [k \in 1..n |-> [x \in T |-> (IF s[k] = "return" THEN x ELSE Append(x, s[k]))]]
           It == CHOOSE h : h = [u \in SUBSET (1..n) |->
                   IF u = {} THEN <<>> ELSE (IF s[Greatest(u)] = "return" THEN h[u \ {Greatest(u)}] ELSE Append(h[u \ {Greatest(u)}], s[Greatest(u)]))]
<1>1. n \in Nat /\ <<>> \in T
  OBVIOUS
<1>0. DOMAIN s = 1..n
  OBVIOUS
<1>2. ASSUME NEW k \in 1..n, NEW x \in T PROVE (IF s[k] = "return" THEN x ELSE Append(x, s[k])) \in T
  <2>1. PICK S : S = Letters
    OBVIOUS
  <2>2. s[k] \in S /\ x \in Seq(S)
    BY <2>1
  <2>3. Append(x, s[k]) \in Seq(S)
    BY ONLY <2>2
  <2> QED
    BY <2>1, <2>3
<1>3. G \in [1..n -> [T -> T]]
  BY <1>2
<1>4. PICK it \in [SUBSET (1..n) -> T] : Tabulates(it, n, <<>>, G)
  <2> HIDE DEF G, T, n
  <2> QED
    BY <1>1, <1>3, FoldTable
<1>5. it = [u \in SUBSET (1..n) |->
             IF u = {} THEN <<>> ELSE (IF s[Greatest(u)] = "return" THEN it[u \ {Greatest(u)}] ELSE Append(it[u \ {Greatest(u)}], s[Greatest(u)]))]
  <2>1. ASSUME NEW u \in SUBSET (1..n), u # {}
        PROVE G[Greatest(u)][it[u \ {Greatest(u)}]] = (IF s[Greatest(u)] = "return" THEN it[u \ {Greatest(u)}] ELSE Append(it[u \ {Greatest(u)}], s[Greatest(u)]))
    <3>1. Greatest(u) \in 1..n
      BY <1>1, <2>1, GreatestIn
    <3>2. it[u \ {Greatest(u)}] \in T
      OBVIOUS
    <3> QED
      BY <3>1, <3>2
  <2> HIDE DEF G, T, n
  <2> QED
    BY <1>4, <2>1 DEF Tabulates
<1>6. It = [u \in SUBSET (1..n) |->
             IF u = {} THEN <<>> ELSE (IF s[Greatest(u)] = "return" THEN It[u \ {Greatest(u)}] ELSE Append(It[u \ {Greatest(u)}], s[Greatest(u)]))]
  BY <1>5
<1>7. KeptOf(s) = It[1..n]
  BY <1>1, <1>0 DEF KeptOf, Ssh!FoldLeft, Ssh!MapThenFoldSet, Ssh!Max, Greatest
<1> HIDE DEF It
<1>8. It[{}] = <<>>
  BY <1>6
<1>9. ASSUME NEW k \in 1..n, It[1..k - 1] \in T PROVE It[1..k] = G[k][It[1..k - 1]]
  <2>1. Greatest(1..k) = k /\ (1..k) \ {k} = 1..k - 1 /\ 1..k \in SUBSET (1..n) /\ 1..k # {}
    BY <1>1, GreatestOfFirst
  <2> QED
    BY <1>6, <1>9, <2>1
<1>10. PICK g \in [0..n -> T] : Runs(g, It, n, <<>>, G)
  <2>1. Follows(It, n, <<>>, G, T)
    BY <1>8, <1>9 DEF Follows
  <2> HIDE DEF G, T, n
  <2> QED
    BY <1>1, <1>3, <2>1, FoldRun
<1>11. ASSUME NEW k \in 1..n PROVE g[k] = (IF s[k] = "return" THEN g[k - 1] ELSE Append(g[k - 1], s[k]))
  <2>1. g[k - 1] \in T
    <3>1. k - 1 \in 0..n
      BY <1>1
    <3> QED
      BY <1>10, <3>1
  <2> QED
    BY <1>10, <2>1 DEF Runs
<1> QED
  BY <1>7, <1>10, <1>11 DEF KeptRun, Runs

\* The loop that splits a line.
Unsplit == [parts |-> <<>>, cur |-> <<>>, next |-> 1]
Splits == [parts : Seq(Seq(Letters)), cur : Seq(Letters), next : Nat]

SplitOf(cmd) ==
  Ssh!FoldLeft(LAMBDA s, i : Ssh!Turn(s, cmd, i), [parts |-> <<>>, cur |-> <<>>, next |-> 1], [i \in 1..Len(cmd) |-> i])

LEMMA TurnType ==
  ASSUME NEW s \in Splits, NEW cmd \in Seq(Letters), NEW i \in 1..Len(cmd)
  PROVE  Ssh!Turn(s, cmd, i) \in Splits
<1>1. s.parts \in Seq(Seq(Letters)) /\ s.cur \in Seq(Letters) /\ s.next \in Nat
  BY DEF Splits
<1>2. Append(s.parts, s.cur) \in Seq(Seq(Letters)) /\ Append(s.cur, cmd[i]) \in Seq(Letters) /\ i + 1 \in Nat /\ i + 2 \in Nat
  <2>1. PICK S : S = Seq(Letters)
    OBVIOUS
  <2>2. Append(s.parts, s.cur) \in Seq(S)
    BY ONLY <1>1, <2>1
  <2> QED
    BY <1>1, <2>1, <2>2
<1>3. <<>> \in Seq(Letters)
  OBVIOUS
<1> QED
  BY <1>1, <1>2, <1>3 DEF Splits, Ssh!Turn

SplitRun(g, cmd) ==
  /\ g[0] = Unsplit /\ g[Len(cmd)] = SplitOf(cmd)
  /\ \A k \in 1..Len(cmd) : g[k] = Ssh!Turn(g[k - 1], cmd, k)
  /\ \A k \in 0..Len(cmd) : g[k] \in Splits

LEMMA SplitSteps ==
  ASSUME NEW cmd \in Seq(Letters)
  PROVE  \E g : SplitRun(g, cmd)
<1> DEFINE n == Len(cmd)
           T == Splits
           d == [k \in 1..n |-> k]
           G == [k \in 1..n |-> [x \in T |-> Ssh!Turn(x, cmd, k)]]
           It == CHOOSE h : h = [u \in SUBSET (1..n) |->
                   IF u = {} THEN Unsplit ELSE Ssh!Turn(h[u \ {Greatest(u)}], cmd, d[Greatest(u)])]
<1>1. n \in Nat /\ Unsplit \in T
  BY DEF Unsplit, Splits
<1>2. ASSUME NEW k \in 1..n, NEW x \in T PROVE Ssh!Turn(x, cmd, k) \in T
  BY TurnType
<1>3. G \in [1..n -> [T -> T]]
  BY <1>2
<1>4. PICK it \in [SUBSET (1..n) -> T] : Tabulates(it, n, Unsplit, G)
  <2> HIDE DEF G, T, n
  <2> QED
    BY <1>1, <1>3, FoldTable
<1>5. it = [u \in SUBSET (1..n) |->
             IF u = {} THEN Unsplit ELSE Ssh!Turn(it[u \ {Greatest(u)}], cmd, d[Greatest(u)])]
  <2>1. ASSUME NEW u \in SUBSET (1..n), u # {}
        PROVE G[Greatest(u)][it[u \ {Greatest(u)}]] = Ssh!Turn(it[u \ {Greatest(u)}], cmd, d[Greatest(u)])
    <3>1. Greatest(u) \in 1..n
      BY <1>1, <2>1, GreatestIn
    <3>2. it[u \ {Greatest(u)}] \in T
      OBVIOUS
    <3> QED
      BY <3>1, <3>2
  <2> HIDE DEF G, T, n, d
  <2> QED
    BY <1>4, <2>1 DEF Tabulates
<1>6. It = [u \in SUBSET (1..n) |->
             IF u = {} THEN Unsplit ELSE Ssh!Turn(It[u \ {Greatest(u)}], cmd, d[Greatest(u)])]
  BY <1>5
<1>7. SplitOf(cmd) = It[1..n]
  BY <1>1 DEF SplitOf, Unsplit, Ssh!FoldLeft, Ssh!MapThenFoldSet, Ssh!Max, Greatest
<1> HIDE DEF It
<1>8. It[{}] = Unsplit
  BY <1>6
<1>9. ASSUME NEW k \in 1..n, It[1..k - 1] \in T PROVE It[1..k] = G[k][It[1..k - 1]]
  <2>1. Greatest(1..k) = k /\ (1..k) \ {k} = 1..k - 1 /\ 1..k \in SUBSET (1..n) /\ 1..k # {}
    BY <1>1, GreatestOfFirst
  <2> QED
    BY <1>6, <1>9, <2>1
<1>10. PICK g \in [0..n -> T] : Runs(g, It, n, Unsplit, G)
  <2>1. Follows(It, n, Unsplit, G, T)
    BY <1>8, <1>9 DEF Follows
  <2> HIDE DEF G, T, n
  <2> QED
    BY <1>1, <1>3, <2>1, FoldRun
<1>11. ASSUME NEW k \in 1..n PROVE g[k] = Ssh!Turn(g[k - 1], cmd, k)
  <2>1. g[k - 1] \in T
    <3>1. k - 1 \in 0..n
      BY <1>1
    <3> QED
      BY <1>10, <3>1
  <2> QED
    BY <1>10, <2>1 DEF Runs
<1> QED
  BY <1>7, <1>10, <1>11 DEF SplitRun, Runs

LEMMA Appended ==
  ASSUME NEW S, NEW s \in Seq(S), NEW c \in S
  PROVE  /\ Append(s, c) \in Seq(S) /\ Len(Append(s, c)) = Len(s) + 1 /\ Append(s, c)[Len(s) + 1] = c
         /\ \A i \in 1..Len(s) : Append(s, c)[i] = s[i]
OBVIOUS

LEMMA ShellFieldsNext ==
  ASSUME NEW s \in Seq(Letters), NEW c \in Letters, NEW white
  PROVE  Ssh!Fields(Append(s, c), white) = Ssh!Word(Ssh!Fields(s, white), Append(s, c), Len(s) + 1, white)
<1>1. PICK t : /\ t = Append(s, c) /\ t \in Seq(Letters) /\ Len(t) = Len(s) + 1 /\ t[Len(s) + 1] = c
              /\ \A i \in 1..Len(s) : t[i] = s[i]
  <2>1. /\ Append(s, c) \in Seq(Letters) /\ Len(Append(s, c)) = Len(s) + 1 /\ Append(s, c)[Len(s) + 1] = c
        /\ \A i \in 1..Len(s) : Append(s, c)[i] = s[i]
    BY Appended
  <2>2. PICK t : t = Append(s, c)
    OBVIOUS
  <2> QED
    BY <2>1, <2>2
<1>2. PICK n : n = Len(s) /\ n \in Nat /\ n + 1 \in 1..n + 1 /\ (n + 1) - 1 = n /\ n + 1 = Len(t)
  BY <1>1
<1>3. PICK g : ShellFieldsRun(g, t, white)
  BY <1>1, ShellFieldsSteps
<1>4. PICK h : ShellFieldsRun(h, s, white)
  BY ShellFieldsSteps
<1> DEFINE P == {i \in 0..n : h[i] = g[i]}
<1>5. 0 \in P
  BY <1>2, <1>3, <1>4 DEF ShellFieldsRun
<1>6. ASSUME NEW i \in 1..n, i - 1 \in P PROVE i \in P
  <2>1. i \in 1..Len(t) /\ i \in 1..Len(s) /\ i \in 0..n
    BY <1>2
  <2>2. h[i - 1] = g[i - 1]
    BY <1>6
  <2>3. h[i] = Ssh!Word(h[i - 1], s, i, white)
    BY <1>4, <2>1 DEF ShellFieldsRun
  <2>4. g[i] = Ssh!Word(g[i - 1], t, i, white)
    BY <1>3, <2>1 DEF ShellFieldsRun
  <2>5. Ssh!Word(g[i - 1], s, i, white) = Ssh!Word(g[i - 1], t, i, white)
    <3>1. t[i] = s[i]
      BY <1>1, <2>1
    <3>2. i = 1 \/ (i - 1 \in 1..Len(s) /\ t[i - 1] = s[i - 1])
      <4>1. i = 1 \/ i - 1 \in 1..Len(s)
        BY <1>2
      <4> QED
        BY <1>1, <4>1
    <3> QED
      BY <3>1, <3>2 DEF Ssh!Word
  <2> QED
    BY <1>1, <2>1, <2>2, <2>3, <2>4, <2>5
<1>7. h[n] = g[n]
  <2> HIDE DEF P
  <2>1. \A i \in 0..n : i \in P
    BY <1>2, <1>5, <1>6, UpTo
  <2> QED
    BY <1>2, <2>1 DEF P
<1>8. g[n + 1] = Ssh!Word(g[(n + 1) - 1], t, n + 1, white)
  BY <1>2, <1>3 DEF ShellFieldsRun
<1>9. g[n + 1] = Ssh!Fields(t, white) /\ h[n] = Ssh!Fields(s, white)
  BY <1>2, <1>3, <1>4 DEF ShellFieldsRun
<1> QED
  BY <1>1, <1>2, <1>7, <1>8, <1>9

LEMMA NotEmptyNext ==
  ASSUME NEW X, NEW s \in Seq(X), NEW c \in X
  PROVE  Ssh!NotEmpty(Append(s, c)) = (IF c = <<>> THEN Ssh!NotEmpty(s) ELSE Append(Ssh!NotEmpty(s), c))
<1>1. PICK t : /\ t = Append(s, c) /\ t \in Seq(X) /\ Len(t) = Len(s) + 1 /\ t[Len(s) + 1] = c
              /\ \A i \in 1..Len(s) : t[i] = s[i]
  <2>1. /\ Append(s, c) \in Seq(X) /\ Len(Append(s, c)) = Len(s) + 1 /\ Append(s, c)[Len(s) + 1] = c
        /\ \A i \in 1..Len(s) : Append(s, c)[i] = s[i]
    BY Appended
  <2>2. PICK t : t = Append(s, c)
    OBVIOUS
  <2> QED
    BY <2>1, <2>2
<1>2. PICK n : n = Len(s) /\ n \in Nat /\ n + 1 \in 1..n + 1 /\ (n + 1) - 1 = n /\ n + 1 = Len(t)
  BY <1>1
<1>3. PICK g : NotEmptyRun(g, X, t)
  BY <1>1, NotEmptySteps
<1>4. PICK h : NotEmptyRun(h, X, s)
  BY NotEmptySteps
<1> DEFINE P == {i \in 0..n : h[i] = g[i]}
<1>5. 0 \in P
  BY <1>2, <1>3, <1>4 DEF NotEmptyRun
<1>6. ASSUME NEW i \in 1..n, i - 1 \in P PROVE i \in P
  <2>1. i \in 1..Len(t) /\ i \in 1..Len(s) /\ i \in 0..n
    BY <1>2
  <2>2. h[i - 1] = g[i - 1]
    BY <1>6
  <2>3. h[i] = (IF s[i] = <<>> THEN h[i - 1] ELSE Append(h[i - 1], s[i]))
    BY <1>4, <2>1 DEF NotEmptyRun
  <2>4. g[i] = (IF t[i] = <<>> THEN g[i - 1] ELSE Append(g[i - 1], t[i]))
    BY <1>3, <2>1 DEF NotEmptyRun
  <2> QED
    BY <1>1, <2>1, <2>2, <2>3, <2>4
<1>7. h[n] = g[n]
  <2> HIDE DEF P
  <2>1. \A i \in 0..n : i \in P
    BY <1>2, <1>5, <1>6, UpTo
  <2> QED
    BY <1>2, <2>1 DEF P
<1>8. g[n + 1] = (IF t[n + 1] = <<>> THEN g[(n + 1) - 1] ELSE Append(g[(n + 1) - 1], t[n + 1]))
  BY <1>2, <1>3 DEF NotEmptyRun
<1>9. g[n + 1] = Ssh!NotEmpty(t) /\ h[n] = Ssh!NotEmpty(s)
  BY <1>2, <1>3, <1>4 DEF NotEmptyRun
<1> QED
  BY <1>1, <1>2, <1>7, <1>8, <1>9

LEMMA KeptNext ==
  ASSUME NEW s \in Seq(Letters), NEW c \in Letters
  PROVE  KeptOf(Append(s, c)) = (IF c = "return" THEN KeptOf(s) ELSE Append(KeptOf(s), c))
<1>1. PICK t : /\ t = Append(s, c) /\ t \in Seq(Letters) /\ Len(t) = Len(s) + 1 /\ t[Len(s) + 1] = c
              /\ \A i \in 1..Len(s) : t[i] = s[i]
  <2>1. /\ Append(s, c) \in Seq(Letters) /\ Len(Append(s, c)) = Len(s) + 1 /\ Append(s, c)[Len(s) + 1] = c
        /\ \A i \in 1..Len(s) : Append(s, c)[i] = s[i]
    BY Appended
  <2>2. PICK t : t = Append(s, c)
    OBVIOUS
  <2> QED
    BY <2>1, <2>2
<1>2. PICK n : n = Len(s) /\ n \in Nat /\ n + 1 \in 1..n + 1 /\ (n + 1) - 1 = n /\ n + 1 = Len(t)
  BY <1>1
<1>3. PICK g : KeptRun(g, t)
  BY <1>1, KeptSteps
<1>4. PICK h : KeptRun(h, s)
  BY KeptSteps
<1> DEFINE P == {i \in 0..n : h[i] = g[i]}
<1>5. 0 \in P
  BY <1>2, <1>3, <1>4 DEF KeptRun
<1>6. ASSUME NEW i \in 1..n, i - 1 \in P PROVE i \in P
  <2>1. i \in 1..Len(t) /\ i \in 1..Len(s) /\ i \in 0..n
    BY <1>2
  <2>2. h[i - 1] = g[i - 1]
    BY <1>6
  <2>3. h[i] = (IF s[i] = "return" THEN h[i - 1] ELSE Append(h[i - 1], s[i]))
    BY <1>4, <2>1 DEF KeptRun
  <2>4. g[i] = (IF t[i] = "return" THEN g[i - 1] ELSE Append(g[i - 1], t[i]))
    BY <1>3, <2>1 DEF KeptRun
  <2> QED
    BY <1>1, <2>1, <2>2, <2>3, <2>4
<1>7. h[n] = g[n]
  <2> HIDE DEF P
  <2>1. \A i \in 0..n : i \in P
    BY <1>2, <1>5, <1>6, UpTo
  <2> QED
    BY <1>2, <2>1 DEF P
<1>8. g[n + 1] = (IF t[n + 1] = "return" THEN g[(n + 1) - 1] ELSE Append(g[(n + 1) - 1], t[n + 1]))
  BY <1>2, <1>3 DEF KeptRun
<1>9. g[n + 1] = KeptOf(t) /\ h[n] = KeptOf(s)
  BY <1>2, <1>3, <1>4 DEF KeptRun
<1> QED
  BY <1>1, <1>2, <1>7, <1>8, <1>9

LEMMA ShellFieldsType ==
  ASSUME NEW s \in Seq(Letters), NEW white
  PROVE  Ssh!Fields(s, white) \in Seq(Said) /\ (s = <<>> => Ssh!Fields(s, white) = <<>>)
<1>1. PICK g : ShellFieldsRun(g, s, white)
  BY ShellFieldsSteps
<1>2. Len(s) \in 0..Len(s) /\ (s = <<>> => Len(s) = 0)
  OBVIOUS
<1> QED
  BY <1>1, <1>2 DEF ShellFieldsRun

LEMMA NotEmptyType ==
  ASSUME NEW X, NEW s \in Seq(X)
  PROVE  Ssh!NotEmpty(s) \in Seq(X \ {<<>>}) /\ (s = <<>> => Ssh!NotEmpty(s) = <<>>)
<1>1. PICK g : NotEmptyRun(g, X, s)
  BY NotEmptySteps
<1>2. Len(s) \in 0..Len(s) /\ (s = <<>> => Len(s) = 0)
  OBVIOUS
<1> QED
  BY <1>1, <1>2 DEF NotEmptyRun

LEMMA KeptType ==
  ASSUME NEW s \in Seq(Letters)
  PROVE  KeptOf(s) \in Seq(Letters) /\ (s = <<>> => KeptOf(s) = <<>>)
<1>1. PICK g : KeptRun(g, s)
  BY KeptSteps
<1>2. Len(s) \in 0..Len(s) /\ (s = <<>> => Len(s) = 0)
  OBVIOUS
<1> QED
  BY <1>1, <1>2 DEF KeptRun

-----------------------------------------------------------------------------
(* The splitting of a line, and its stretches.                              *)

LEMMA MaxIs ==
  ASSUME NEW s \in SUBSET Int, NEW m \in s, \A x \in s : x <= m
  PROVE  Ssh!Max(s) = m
<1>1. m \in s /\ \A x \in s : m >= x
  OBVIOUS
<1>2. Ssh!Max(s) \in s /\ \A x \in s : Ssh!Max(s) >= x
  BY <1>1 DEF Ssh!Max
<1>3. PICK y : y = Ssh!Max(s)
  OBVIOUS
<1>4. y \in s /\ y >= m /\ y <= m /\ y \in Int /\ m \in Int
  BY <1>2, <1>3
<1>5. y = m
  BY <1>4
<1> QED
  BY <1>3, <1>5

LEMMA MaxIn ==
  ASSUME NEW n \in Nat, NEW s \in SUBSET (0..n), 0 \in s
  PROVE  Ssh!Max(s) \in s
<1>1. CASE s = {0}
  BY <1>1, MaxIs
<1>2. CASE s # {0}
  <2>1. s \ {0} \in SUBSET (1..n) /\ s \ {0} # {}
    BY <1>2
  <2>2. PICK m : m \in s \ {0} /\ \A x \in s \ {0} : x <= m
    BY <2>1, GreatestIn
  <2>3. m \in s /\ (\A x \in s : x <= m) /\ s \in SUBSET Int
    BY <2>2
  <2> QED
    BY <2>3, MaxIs
<1> QED
  BY <1>1, <1>2

\* Two separators that are alike and touch are a pair, unless the first one
\* ends a pair.
PairAt(cmd, i) == i < Len(cmd) /\ cmd[i] \in {"&", "|"} /\ cmd[i + 1] = cmd[i]
EndsPair(cmd, i) == i > 1 /\ Ssh!BeginsPair(cmd, i - 1)

LEMMA Alternate ==
  ASSUME NEW cmd \in Seq(Letters), NEW i \in 1..Len(cmd)
  PROVE  Ssh!BeginsPair(cmd, i) <=> PairAt(cmd, i) /\ ~EndsPair(cmd, i)
<1> DEFINE O(k) == {j \in 0..k - 1 : j = 0 \/ cmd[j] # cmd[k]}
<1>1. \A k : Ssh!BeginsPair(cmd, k) <=> PairAt(cmd, k) /\ (k - Ssh!Max(O(k))) % 2 = 1
  BY DEF Ssh!BeginsPair, PairAt
<1>2. i \in Nat /\ i >= 1 /\ Len(cmd) \in Nat
  OBVIOUS
<1> SUFFICES ASSUME PairAt(cmd, i) PROVE (i - Ssh!Max(O(i))) % 2 = 1 <=> ~EndsPair(cmd, i)
  BY <1>1
<1>3. CASE i = 1 \/ cmd[i - 1] # cmd[i]
  <2>1. i - 1 \in O(i) /\ (\A x \in O(i) : x <= i - 1) /\ O(i) \in SUBSET Int
    BY <1>2, <1>3
  <2>2. Ssh!Max(O(i)) = i - 1
    BY <2>1, MaxIs
  <2>3. (i - (i - 1)) % 2 = 1
    BY <1>2
  <2>4. ~EndsPair(cmd, i)
    <3>1. CASE i = 1
      BY <3>1 DEF EndsPair
    <3>2. CASE cmd[i - 1] # cmd[i]
      <4>1. (i - 1) + 1 = i
        BY <1>2
      <4>2. ~PairAt(cmd, i - 1)
        BY <3>2, <4>1 DEF PairAt
      <4> QED
        BY <1>1, <4>2 DEF EndsPair
    <3> QED
      BY <1>3, <3>1, <3>2
  <2> QED
    BY <2>2, <2>3, <2>4
<1>4. CASE i > 1 /\ cmd[i - 1] = cmd[i]
  <2>1. O(i) = O(i - 1)
    <3>1. ASSUME NEW j \in O(i) PROVE j \in O(i - 1)
      BY <1>2, <1>4, <3>1
    <3>2. ASSUME NEW j \in O(i - 1) PROVE j \in O(i)
      BY <1>2, <1>4, <3>2
    <3> QED
      BY <3>1, <3>2
  <2>2. 0 \in O(i) /\ O(i) \in SUBSET (0..i)
    BY <1>2
  <2>3. PICK m : m = Ssh!Max(O(i)) /\ m \in 0..i
    BY <1>2, <2>2, MaxIn
  <2>4. PairAt(cmd, i - 1)
    <3>1. (i - 1) + 1 = i /\ i - 1 < Len(cmd)
      BY <1>2
    <3> QED
      BY <1>4, <3>1 DEF PairAt
  <2>5. EndsPair(cmd, i) <=> ((i - 1) - m) % 2 = 1
    BY <1>1, <1>4, <2>1, <2>3, <2>4 DEF EndsPair
  <2>6. (i - m) % 2 = 1 <=> ~(((i - 1) - m) % 2 = 1)
    BY ONLY <1>2, <2>3
  <2> HIDE DEF O
  <2> QED
    BY <2>3, <2>5, <2>6
<1> QED
  BY <1>2, <1>3, <1>4

\* What the characters of a line are turned into.
LEMMA MarkedIs ==
  ASSUME NEW cmd \in Seq(Letters)
  PROVE  /\ Ssh!Marked(cmd) \in Seq(Letters) /\ Len(Ssh!Marked(cmd)) = Len(cmd)
         /\ \A i \in 1..Len(cmd) :
              Ssh!Marked(cmd)[i] =
                IF cmd[i] = ";" \/ Ssh!BeginsPair(cmd, i) \/ EndsPair(cmd, i) THEN ";" ELSE cmd[i]
<1>1. ";" \in Letters
  BY DEF Letters
<1>2. \A i \in 1..Len(cmd) :
        Ssh!Marked(cmd)[i] =
          IF cmd[i] = ";" \/ Ssh!BeginsPair(cmd, i) \/ EndsPair(cmd, i) THEN ";" ELSE cmd[i]
  BY DEF Ssh!Marked, EndsPair
<1>3. \A i \in 1..Len(cmd) : Ssh!Marked(cmd)[i] \in Letters
  <2>1. \A i \in 1..Len(cmd) : cmd[i] \in Letters
    OBVIOUS
  <2> QED
    BY <1>1, <1>2, <2>1
<1>4. Ssh!Marked(cmd) = [i \in 1..Len(cmd) |-> Ssh!Marked(cmd)[i]]
  BY DEF Ssh!Marked
<1>5. Len(cmd) \in Nat
  OBVIOUS
<1>6. PICK t : t = Ssh!Marked(cmd)
  OBVIOUS
<1>7. t \in [1..Len(cmd) -> Letters]
  BY <1>3, <1>4, <1>6
<1>8. t \in Seq(Letters) /\ Len(t) = Len(cmd)
  BY ONLY <1>5, <1>7
<1> QED
  BY <1>2, <1>6, <1>8

\* How far the loop and the words of the marked line have come together.
Cutting(s, w, cmd, k) ==
  /\ s.next <= k + 2 /\ (s.next = k + 2 <=> k >= 1 /\ Ssh!BeginsPair(cmd, k))
  /\ w = IF s.cur = <<>> THEN Ssh!NotEmpty(s.parts) ELSE Append(Ssh!NotEmpty(s.parts), s.cur)
  /\ s.cur = <<>> <=> k = 0 \/ Ssh!Marked(cmd)[k] = ";"

WithLast(x, b) == [x EXCEPT ![Len(x)] = b]

LEMMA ReplaceLast ==
  ASSUME NEW S, NEW N \in Seq(S), NEW a \in S, NEW b \in S
  PROVE  Append(N, a)[Len(Append(N, a))] = a /\ WithLast(Append(N, a), b) = Append(N, b)
<1>0. PICK x : x = Append(N, a)
  OBVIOUS
<1>1. Len(x) = Len(N) + 1 /\ Len(N) \in Nat /\ x[Len(N) + 1] = a /\ x \in Seq(S)
  BY <1>0
<1>2. PICK y : y = [x EXCEPT ![Len(x)] = b] /\ y = WithLast(x, b)
  BY DEF WithLast
<1>3. y \in Seq(S) /\ Len(y) = Len(x) /\ y[Len(x)] = b /\ \A i \in 1..Len(N) : y[i] = N[i]
  <2>1. PICK n : n = Len(x) /\ n \in 1..Len(x) /\ \A i \in 1..Len(N) : i \in 1..Len(x) /\ i # n
    BY <1>1
  <2>2. y = [x EXCEPT ![n] = b]
    BY <1>2, <2>1
  <2>3. y \in Seq(S) /\ Len(y) = Len(x) /\ y[n] = b /\ \A i \in 1..Len(x) : i # n => y[i] = x[i]
    <3>1. x \in [1..n -> S] /\ n \in Nat
      <4>1. x \in Seq(S)
        BY <1>1
      <4>2. Len(x) \in Nat /\ x \in [1..Len(x) -> S]
        BY ONLY <4>1
      <4> QED
        BY <2>1, <4>2
    <3>2. y \in [1..n -> S] /\ y[n] = b /\ \A i \in 1..n : i # n => y[i] = x[i]
      BY <2>1, <2>2, <3>1
    <3>3. y \in Seq(S) /\ Len(y) = n
      BY ONLY <3>1, <3>2
    <3> QED
      BY <2>1, <3>2, <3>3
  <2>4. \A i \in 1..Len(N) : x[i] = N[i]
    BY <1>0
  <2> QED
    BY <2>1, <2>3, <2>4
<1>4. PICK z : z = Append(N, b)
  OBVIOUS
<1>5. z \in Seq(S) /\ Len(z) = Len(x) /\ z[Len(x)] = b /\ \A i \in 1..Len(N) : z[i] = N[i]
  BY <1>1, <1>4
<1>6. ASSUME NEW i \in 1..Len(x) PROVE y[i] = z[i]
  <2>1. i = Len(x) \/ i \in 1..Len(N)
    BY <1>1
  <2> QED
    BY <1>3, <1>5, <2>1
<1>7. y = [i \in 1..Len(x) |-> y[i]] /\ z = [i \in 1..Len(x) |-> z[i]]
  BY <1>3, <1>5
<1>8. y = z
  BY <1>6, <1>7
<1> QED
  BY <1>0, <1>1, <1>2, <1>4, <1>8

LEMMA CuttingNext ==
  ASSUME NEW cmd \in Seq(Letters), NEW k \in 1..Len(cmd), NEW s \in Splits, NEW w, Cutting(s, w, cmd, k - 1)
  PROVE  Cutting(Ssh!Turn(s, cmd, k), Ssh!Word(w, Ssh!Marked(cmd), k, {";"}), cmd, k)
<1>1. PICK M : M = Ssh!Marked(cmd)
  OBVIOUS
<1>2. M[k] = IF cmd[k] = ";" \/ Ssh!BeginsPair(cmd, k) \/ EndsPair(cmd, k) THEN ";" ELSE cmd[k]
  BY <1>1, MarkedIs
<1>3. Ssh!BeginsPair(cmd, k) <=> PairAt(cmd, k) /\ ~EndsPair(cmd, k)
  BY Alternate
<1>4. s.parts \in Seq(Seq(Letters)) /\ s.cur \in Seq(Letters) /\ s.next \in Nat /\ k \in Nat /\ k >= 1
  BY DEF Splits
<1>5. /\ s.next <= k + 1 /\ (s.next = k + 1 <=> EndsPair(cmd, k))
      /\ w = IF s.cur = <<>> THEN Ssh!NotEmpty(s.parts) ELSE Append(Ssh!NotEmpty(s.parts), s.cur)
      /\ s.cur = <<>> <=> k = 1 \/ M[k - 1] = ";"
  <2>1. (k - 1) + 2 = k + 1 /\ (k - 1 >= 1 <=> k > 1) /\ (k - 1 = 0 <=> k = 1)
    BY <1>4
  <2> QED
    BY <1>1, <2>1 DEF Cutting, EndsPair
<1>6. PICK N : N = Ssh!NotEmpty(s.parts) /\ N \in Seq(Seq(Letters))
  <2>1. Ssh!NotEmpty(s.parts) \in Seq(Seq(Letters) \ {<<>>})
    BY <1>4, NotEmptyType
  <2>2. \A X, Y : X \subseteq Y => Seq(X) \subseteq Seq(Y)
    OBVIOUS
  <2> QED
    BY <2>1, <2>2
<1>7. PICK u, v : u = Ssh!Turn(s, cmd, k) /\ v = Ssh!Word(w, M, k, {";"})
  OBVIOUS
<1>8. M[k] = ";" => v = w
  BY <1>7 DEF Ssh!Word
<1>9. ASSUME u.parts = Append(s.parts, s.cur), u.cur = <<>>
      PROVE w = Ssh!NotEmpty(u.parts)
  <2>1. Ssh!NotEmpty(Append(s.parts, s.cur)) = (IF s.cur = <<>> THEN N ELSE Append(N, s.cur))
    <3>1. PICK X : X = Seq(Letters)
      OBVIOUS
    <3>2. s.parts \in Seq(X) /\ s.cur \in X
      BY <1>4, <3>1
    <3> QED
      BY <1>6, <3>2, NotEmptyNext
  <2> QED
    BY <1>5, <1>6, <1>9, <2>1
<1>10. k + 1 # k + 2 /\ k + 1 <= k + 2 /\ k # 0 /\ k <= k + 2
  BY <1>4
<1>15. \/ k < s.next /\ s.next = k + 1 /\ EndsPair(cmd, k)
       \/ ~(k < s.next) /\ s.next <= k /\ s.next # k + 1 /\ s.next # k + 2 /\ ~EndsPair(cmd, k)
  <2>1. PICK x : x = s.next /\ x \in Nat /\ x <= k + 1 /\ (x = k + 1 <=> EndsPair(cmd, k))
    BY <1>4, <1>5
  <2>2. (k < x /\ x = k + 1) \/ (~(k < x) /\ x <= k /\ x # k + 1 /\ x # k + 2)
    BY <1>4, <2>1
  <2> QED
    BY <2>1, <2>2
<1>11. CASE k < s.next
  <2>1. s.next = k + 1 /\ EndsPair(cmd, k)
    BY <1>11, <1>15
  <2>2. M[k] = ";" /\ ~Ssh!BeginsPair(cmd, k)
    BY <1>2, <1>3, <2>1
  <2>3. u = s /\ v = w
    BY <1>7, <1>8, <1>11, <2>2 DEF Ssh!Turn
  <2>4. s.cur = <<>>
    <3>1. k > 1 /\ Ssh!BeginsPair(cmd, k - 1)
      BY <2>1 DEF EndsPair
    <3>2. k - 1 \in 1..Len(cmd)
      BY <3>1
    <3>3. M[k - 1] = ";"
      BY <1>1, <3>1, <3>2, MarkedIs
    <3> QED
      BY <1>5, <3>3
  <2> QED
    BY <1>1, <1>5, <1>7, <1>10, <2>1, <2>2, <2>3, <2>4 DEF Cutting
<1>12. CASE ~(k < s.next) /\ PairAt(cmd, k)
  <2>1. s.next # k + 1 /\ ~EndsPair(cmd, k)
    BY <1>12, <1>15
  <2>2. M[k] = ";" /\ Ssh!BeginsPair(cmd, k) /\ v = w
    BY <1>2, <1>3, <1>8, <1>12, <2>1
  <2>3. u = [parts |-> Append(s.parts, s.cur), cur |-> <<>>, next |-> k + 2]
    BY <1>7, <1>12 DEF Ssh!Turn, PairAt
  <2>4. u.parts = Append(s.parts, s.cur) /\ u.cur = <<>> /\ u.next = k + 2
    BY <2>3
  <2>5. w = Ssh!NotEmpty(u.parts)
    BY <1>9, <2>4
  <2>6. k + 2 <= k + 2 /\ k >= 1
    BY <1>4
  <2>7. Cutting(u, v, cmd, k)
    BY <1>1, <1>10, <2>2, <2>4, <2>5, <2>6 DEF Cutting
  <2> QED
    BY <1>1, <1>7, <2>7
<1>13. CASE ~(k < s.next) /\ ~PairAt(cmd, k) /\ cmd[k] = ";"
  <2>1. M[k] = ";" /\ ~Ssh!BeginsPair(cmd, k) /\ v = w
    BY <1>2, <1>3, <1>8, <1>13
  <2>2. u = [parts |-> Append(s.parts, s.cur), cur |-> <<>>, next |-> k + 1]
    BY <1>7, <1>13 DEF Ssh!Turn, PairAt
  <2>3. u.parts = Append(s.parts, s.cur) /\ u.cur = <<>> /\ u.next = k + 1
    BY <2>2
  <2>4. w = Ssh!NotEmpty(u.parts)
    BY <1>9, <2>3
  <2> QED
    BY <1>1, <1>7, <1>10, <2>1, <2>3, <2>4 DEF Cutting
<1>14. CASE ~(k < s.next) /\ ~PairAt(cmd, k) /\ cmd[k] # ";"
  <2>1. s.next <= k /\ s.next # k + 2 /\ ~EndsPair(cmd, k)
    BY <1>14, <1>15
  <2>2. ~Ssh!BeginsPair(cmd, k) /\ M[k] = cmd[k] /\ M[k] # ";"
    BY <1>2, <1>3, <1>14, <2>1
  <2>3. u = [s EXCEPT !.cur = Append(s.cur, cmd[k])]
    BY <1>7, <1>14 DEF Ssh!Turn, PairAt
  <2>4. u.parts = s.parts /\ u.cur = Append(s.cur, cmd[k]) /\ u.next = s.next
    BY <2>3 DEF Splits
  <2>5. u.cur \in Seq(Letters) /\ u.cur # <<>>
    <3>1. cmd[k] \in Letters
      OBVIOUS
    <3>2. PICK a, c : a = s.cur /\ c = cmd[k] /\ a \in Seq(Letters) /\ c \in Letters
      BY <1>4, <3>1
    <3>3. Append(a, c) \in Seq(Letters) /\ Append(a, c) # <<>>
      BY ONLY <3>2
    <3> QED
      BY <2>4, <3>2, <3>3
  <2>6. v = Append(N, u.cur)
    <3>1. CASE s.cur = <<>>
      <4>1. v = Append(w, <<M[k]>>)
        BY <1>5, <1>7, <2>2, <3>1 DEF Ssh!Word
      <4>2. Append(s.cur, cmd[k]) = <<cmd[k]>>
        BY <3>1
      <4> QED
        BY <1>5, <1>6, <2>2, <2>4, <3>1, <4>1, <4>2
    <3>2. CASE s.cur # <<>>
      <4>1. v = WithLast(w, Append(w[Len(w)], M[k]))
        BY <1>5, <1>7, <2>2, <3>2 DEF Ssh!Word, WithLast
      <4>2. w = Append(N, s.cur)
        BY <1>5, <1>6, <3>2
      <4>3. PICK S : S = Seq(Letters)
        OBVIOUS
      <4>4. N \in Seq(S) /\ s.cur \in S /\ u.cur \in S
        BY <1>4, <1>6, <2>5, <4>3
      <4>5. w[Len(w)] = s.cur /\ WithLast(w, u.cur) = Append(N, u.cur)
        <5>1. Append(N, s.cur)[Len(Append(N, s.cur))] = s.cur /\ WithLast(Append(N, s.cur), u.cur) = Append(N, u.cur)
          BY <4>4, ReplaceLast
        <5> QED
          BY <4>2, <5>1
      <4> QED
        BY <2>2, <2>4, <4>1, <4>5
    <3> QED
      BY <3>1, <3>2
  <2>7. u.next <= k + 2 /\ u.next # k + 2
    <3>1. PICK x : x = s.next /\ x \in Nat /\ x <= k /\ x # k + 2
      BY <1>4, <2>1
    <3> QED
      BY <1>4, <2>4, <3>1
  <2> QED
    BY <1>1, <1>6, <1>7, <1>10, <2>2, <2>4, <2>5, <2>6, <2>7 DEF Cutting
<1> QED
  BY <1>11, <1>12, <1>13, <1>14

\* The stretches between the separators are the parts that are not empty.
LEMMA CutAsMarked ==
  ASSUME NEW cmd \in Seq(Letters)
  PROVE  Ssh!Fields(Ssh!Marked(cmd), {";"}) = Ssh!NotEmpty(Ssh!SplitShell(cmd))
<1>1. PICK M, n : M = Ssh!Marked(cmd) /\ M \in Seq(Letters) /\ n = Len(cmd) /\ Len(M) = n /\ n \in Nat
  <2>1. Len(cmd) \in Nat
    OBVIOUS
  <2>2. Ssh!Marked(cmd) \in Seq(Letters) /\ Len(Ssh!Marked(cmd)) = Len(cmd)
    BY MarkedIs
  <2> QED
    BY <2>1, <2>2
<1>2. PICK g : SplitRun(g, cmd)
  BY SplitSteps
<1>3. PICK h : ShellFieldsRun(h, M, {";"})
  BY <1>1, ShellFieldsSteps
<1> DEFINE P == {k \in 0..n : Cutting(g[k], h[k], cmd, k)}
<1>4. 0 \in P
  <2>1. g[0].parts = <<>> /\ g[0].cur = <<>> /\ g[0].next = 1 /\ h[0] = <<>>
    <3>1. g[0] = Unsplit /\ h[0] = <<>>
      BY <1>2, <1>3 DEF SplitRun, ShellFieldsRun
    <3> QED
      BY <3>1 DEF Unsplit
  <2>2. Ssh!NotEmpty(<<>>) = <<>>
    <3>1. <<>> \in Seq(Seq(Letters))
      OBVIOUS
    <3> QED
      BY <3>1, NotEmptyType
  <2>3. Cutting(g[0], h[0], cmd, 0)
    BY <2>1, <2>2 DEF Cutting
  <2> QED
    BY <1>1, <2>3
<1>5. ASSUME NEW k \in 1..n, k - 1 \in P PROVE k \in P
  <2>1. k \in 1..Len(cmd) /\ k - 1 \in 0..Len(cmd) /\ k \in 0..n
    BY <1>1
  <2>2. g[k] = Ssh!Turn(g[k - 1], cmd, k) /\ g[k - 1] \in Splits
    BY <1>2, <2>1 DEF SplitRun
  <2>3. h[k] = Ssh!Word(h[k - 1], M, k, {";"})
    BY <1>1, <1>3, <2>1 DEF ShellFieldsRun
  <2>4. Cutting(g[k - 1], h[k - 1], cmd, k - 1)
    BY <1>5
  <2>5. Cutting(g[k], h[k], cmd, k)
    BY <1>1, <2>1, <2>2, <2>3, <2>4, CuttingNext
  <2> QED
    BY <2>1, <2>5
<1>6. Cutting(g[n], h[n], cmd, n)
  <2> HIDE DEF P
  <2>1. \A k \in 0..n : k \in P
    BY <1>1, <1>4, <1>5, UpTo
  <2>2. n \in P
    BY <1>1, <2>1
  <2> QED
    BY <2>2 DEF P
<1>7. g[n] \in Splits /\ g[n] = SplitOf(cmd) /\ h[n] = Ssh!Fields(M, {";"})
  <2>1. n \in 0..Len(cmd)
    BY <1>1
  <2> QED
    BY <1>1, <1>2, <1>3, <2>1 DEF SplitRun, ShellFieldsRun
<1>8. Ssh!SplitShell(cmd) = Append(g[n].parts, g[n].cur)
  BY <1>7 DEF Ssh!SplitShell, SplitOf
<1>9. PICK X : X = Seq(Letters)
  OBVIOUS
<1>10. g[n].parts \in Seq(X) /\ g[n].cur \in X
  BY <1>7, <1>9 DEF Splits
<1>11. Ssh!NotEmpty(Append(g[n].parts, g[n].cur)) =
         (IF g[n].cur = <<>> THEN Ssh!NotEmpty(g[n].parts) ELSE Append(Ssh!NotEmpty(g[n].parts), g[n].cur))
  BY <1>10, NotEmptyNext
<1> QED
  BY <1>1, <1>6, <1>7, <1>8, <1>11 DEF Cutting

LEMMA SplitType ==
  ASSUME NEW cmd \in Seq(Letters)
  PROVE  Ssh!SplitShell(cmd) \in Seq(Seq(Letters))
<1>1. PICK g : SplitRun(g, cmd)
  BY SplitSteps
<1>2. Len(cmd) \in 0..Len(cmd)
  OBVIOUS
<1>3. SplitOf(cmd) \in Splits
  BY <1>1, <1>2 DEF SplitRun
<1>4. PICK p, c, X : p = SplitOf(cmd).parts /\ c = SplitOf(cmd).cur /\ X = Seq(Letters) /\ p \in Seq(X) /\ c \in X
  BY <1>3 DEF Splits
<1>5. Append(p, c) \in Seq(X)
  BY ONLY <1>4
<1> QED
  BY <1>4, <1>5 DEF Ssh!SplitShell, SplitOf

\* The words of each part.
PartWords(ps) == [i \in DOMAIN ps |-> Ssh!Fields(ps[i], Ssh!White)]

LEMMA PartWordsNext ==
  ASSUME NEW ps \in Seq(Seq(Letters)), NEW p \in Seq(Letters)
  PROVE  /\ PartWords(ps) \in Seq(Seq(Said))
         /\ PartWords(Append(ps, p)) = Append(PartWords(ps), Ssh!Fields(p, Ssh!White))
<1>1. PICK X, Y, n : X = Seq(Letters) /\ Y = Seq(Said) /\ n = Len(ps)
  OBVIOUS
<1>2. ps \in Seq(X) /\ p \in X /\ n \in Nat /\ \A x \in X : Ssh!Fields(x, Ssh!White) \in Y
  BY <1>1, ShellFieldsType
<1>3. PICK q : q = Append(ps, p)
  OBVIOUS
<1>4. /\ q \in Seq(X) /\ Len(q) = n + 1 /\ q[n + 1] = p
      /\ \A i \in 1..n : q[i] = ps[i]
  BY <1>1, <1>2, <1>3, Appended
<1>5. PICK a, b, f : a = PartWords(ps) /\ b = PartWords(q) /\ f = Ssh!Fields(p, Ssh!White)
  OBVIOUS
<1>6. a = [i \in 1..n |-> Ssh!Fields(ps[i], Ssh!White)] /\ b = [i \in 1..n + 1 |-> Ssh!Fields(q[i], Ssh!White)]
  <2>1. DOMAIN ps = 1..n /\ DOMAIN q = 1..n + 1
    BY <1>1, <1>2, <1>4
  <2> QED
    BY <1>5, <2>1 DEF PartWords
<1>7. a \in Seq(Y) /\ Len(a) = n
  <2>1. \A i \in 1..n : ps[i] \in X
    BY <1>1, <1>2
  <2>2. a \in [1..n -> Y]
    BY <1>2, <1>6, <2>1
  <2> QED
    BY ONLY <1>2, <2>2
<1>8. f \in Y
  BY <1>2, <1>5
<1>9. PICK c : c = Append(a, f)
  OBVIOUS
<1>10. c \in Seq(Y) /\ Len(c) = n + 1 /\ c[n + 1] = f /\ \A i \in 1..n : c[i] = a[i]
  BY <1>7, <1>8, <1>9, Appended
<1>11. ASSUME NEW i \in 1..n + 1 PROVE b[i] = c[i]
  <2>1. CASE i = n + 1
    BY <1>4, <1>5, <1>6, <1>10, <2>1
  <2>2. CASE i \in 1..n
    BY <1>4, <1>6, <1>10, <2>2
  <2> QED
    BY <1>2, <2>1, <2>2
<1>12. c = [i \in 1..n + 1 |-> c[i]]
  BY <1>10
<1>13. b = c
  BY <1>6, <1>11, <1>12
<1> QED
  BY <1>1, <1>3, <1>5, <1>7, <1>9, <1>13

LEMMA InWordsNext ==
  ASSUME NEW ps \in Seq(Seq(Letters)), NEW p \in Seq(Letters)
  PROVE  Ssh!InWords(Append(ps, p)) =
           (IF Ssh!Fields(p, Ssh!White) = <<>> THEN Ssh!InWords(ps)
            ELSE Append(Ssh!InWords(ps), Ssh!Fields(p, Ssh!White)))
<1>1. \A x : Ssh!InWords(x) = Ssh!NotEmpty(PartWords(x))
  BY DEF Ssh!InWords, PartWords
<1>2. PICK X, a, f : X = Seq(Said) /\ a = PartWords(ps) /\ f = Ssh!Fields(p, Ssh!White)
  OBVIOUS
<1>3. a \in Seq(X) /\ f \in X /\ PartWords(Append(ps, p)) = Append(a, f)
  BY <1>2, PartWordsNext, ShellFieldsType
<1>4. Ssh!NotEmpty(Append(a, f)) = (IF f = <<>> THEN Ssh!NotEmpty(a) ELSE Append(Ssh!NotEmpty(a), f))
  BY <1>3, NotEmptyNext
<1> QED
  BY <1>1, <1>2, <1>3, <1>4

LEMMA EmptyPartsDoNotCount ==
  ASSUME NEW ps \in Seq(Seq(Letters))
  PROVE  Ssh!InWords(Ssh!NotEmpty(ps)) = Ssh!InWords(ps)
<1>1. PICK X, Y, n, a : X = Seq(Letters) /\ Y = Seq(Said) /\ n = Len(ps) /\ a = PartWords(ps)
  OBVIOUS
<1>2. ps \in Seq(X) /\ n \in Nat /\ a \in Seq(Y) /\ Len(a) = n
  <2>1. <<>> \in X /\ a \in Seq(Y)
    <3>1. <<>> \in Seq(Letters)
      OBVIOUS
    <3>2. PartWords(ps) \in Seq(Seq(Said))
      BY <3>1, PartWordsNext
    <3> QED
      BY <1>1, <3>1, <3>2
  <2>2. DOMAIN a = DOMAIN ps
    BY <1>1 DEF PartWords
  <2> QED
    BY <1>1, <2>1, <2>2
<1>3. PICK g : NotEmptyRun(g, X, ps)
  BY <1>2, NotEmptySteps
<1>4. PICK h : NotEmptyRun(h, Y, a)
  BY <1>2, NotEmptySteps
<1>5. \A x : Ssh!InWords(x) = Ssh!NotEmpty(PartWords(x))
  BY DEF Ssh!InWords, PartWords
<1> DEFINE P == {k \in 0..n : h[k] = Ssh!InWords(g[k])}
<1>6. 0 \in P
  <2>1. g[0] = <<>> /\ h[0] = <<>>
    BY <1>3, <1>4 DEF NotEmptyRun
  <2>2. PartWords(<<>>) = <<>>
    BY DEF PartWords
  <2>3. Ssh!NotEmpty(<<>>) = <<>>
    <3>1. <<>> \in Seq(X)
      OBVIOUS
    <3> QED
      BY <3>1, NotEmptyType
  <2> QED
    BY <1>2, <1>5, <2>1, <2>2, <2>3
<1>7. ASSUME NEW k \in 1..n, k - 1 \in P PROVE k \in P
  <2>1. k \in 0..n /\ k \in 1..Len(ps) /\ k - 1 \in 0..Len(ps) /\ k \in 1..Len(a)
    BY <1>1, <1>2
  <2>2. PICK w, v, p, f : w = g[k - 1] /\ v = h[k - 1] /\ p = ps[k] /\ f = Ssh!Fields(p, Ssh!White)
    OBVIOUS
  <2>3. v = Ssh!InWords(w)
    BY <1>7, <2>2
  <2>4. g[k] = (IF p = <<>> THEN w ELSE Append(w, p)) /\ w \in Seq(X \ {<<>>}) /\ p \in X
    <3>1. g[k] = (IF ps[k] = <<>> THEN g[k - 1] ELSE Append(g[k - 1], ps[k]))
      BY <1>3, <2>1 DEF NotEmptyRun
    <3>2. g[k - 1] \in Seq(X \ {<<>>})
      BY <1>3, <2>1 DEF NotEmptyRun
    <3>3. ps[k] \in X
      BY <1>2, <2>1
    <3> QED
      BY <2>2, <3>1, <3>2, <3>3
  <2>5. a[k] = f
    <3>1. k \in DOMAIN ps
      BY <1>2, <2>1
    <3> QED
      BY <1>1, <2>2, <3>1 DEF PartWords
  <2>6. h[k] = (IF f = <<>> THEN v ELSE Append(v, f))
    BY <1>4, <2>1, <2>2, <2>5 DEF NotEmptyRun
  <2>7. p = <<>> => f = <<>>
    BY <1>1, <2>2, <2>4, ShellFieldsType
  <2>8. Ssh!InWords(Append(w, p)) = (IF f = <<>> THEN Ssh!InWords(w) ELSE Append(Ssh!InWords(w), f))
    <3>1. w \in Seq(X)
      BY <2>4
    <3> QED
      BY <1>1, <2>2, <2>4, <3>1, InWordsNext
  <2>9. h[k] = Ssh!InWords(g[k])
    BY <2>3, <2>4, <2>6, <2>7, <2>8
  <2> QED
    BY <2>1, <2>9
<1>8. h[n] = Ssh!InWords(g[n])
  <2> HIDE DEF P
  <2>1. \A k \in 0..n : k \in P
    BY <1>2, <1>6, <1>7, UpTo
  <2>2. n \in P
    BY <1>2, <2>1
  <2> QED
    BY <2>2 DEF P
<1>9. g[n] = Ssh!NotEmpty(ps) /\ h[n] = Ssh!NotEmpty(a)
  BY <1>1, <1>2, <1>3, <1>4 DEF NotEmptyRun
<1> QED
  BY <1>1, <1>5, <1>8, <1>9

\* The simple commands of a line that is no pipeline.
LEMMA CommandsAreStretches ==
  ASSUME NEW cmd \in Seq(Letters), ~Ssh!IsPipeline(cmd)
  PROVE  Ssh!SimpleCommands(cmd) = Ssh!Stretches(cmd)
<1>1. Ssh!SimpleCommands(cmd) = Ssh!InWords(Ssh!SplitShell(cmd))
  BY DEF Ssh!SimpleCommands
<1>2. Ssh!Stretches(cmd) = Ssh!InWords(Ssh!NotEmpty(Ssh!SplitShell(cmd)))
  BY CutAsMarked DEF Ssh!Stretches
<1>3. Ssh!SplitShell(cmd) \in Seq(Seq(Letters))
  BY SplitType
<1> QED
  BY <1>1, <1>2, <1>3, EmptyPartsDoNotCount

-----------------------------------------------------------------------------
(* The lines typed.                                                         *)

LEMMA LastEnd ==
  ASSUME NEW s \in Seq(Letters), NEW ends, ends = {i \in DOMAIN s : s[i] = "newline"}, ends # {}
  PROVE  Ssh!Max(ends) \in 1..Len(s)
<1>1. ends \in SUBSET (1..Len(s)) /\ Len(s) \in Nat
  OBVIOUS
<1>2. Greatest(ends) \in ends
  BY <1>1, GreatestIn
<1> QED
  BY <1>1, <1>2 DEF Ssh!Max, Greatest

LEMMA FirstOf ==
  ASSUME NEW S, NEW s \in Seq(S), NEW c \in S, NEW m \in 0..Len(s)
  PROVE  SubSeq(Append(s, c), 1, m) = SubSeq(s, 1, m)
<1>1. Len(Append(s, c)) = Len(s) + 1 /\ Len(s) \in Nat
  OBVIOUS
<1>2. PICK a, b : a = SubSeq(Append(s, c), 1, m) /\ b = SubSeq(s, 1, m)
  OBVIOUS
<1>3. a = [i \in 1..m |-> Append(s, c)[i]] /\ b = [i \in 1..m |-> s[i]]
  BY <1>1, <1>2
<1>4. \A i \in 1..m : Append(s, c)[i] = s[i]
  OBVIOUS
<1> QED
  BY <1>2, <1>3, <1>4

LEMMA FirstType ==
  ASSUME NEW S, NEW s \in Seq(S), NEW m \in 0..Len(s)
  PROVE  SubSeq(s, 1, m) \in Seq(S)
OBVIOUS

LEMMA WholeSeq ==
  ASSUME NEW S, NEW s \in Seq(S)
  PROVE  SubSeq(s, 1, Len(s)) = s
OBVIOUS

LEMMA WholeLinesNext ==
  ASSUME NEW s \in Seq(Letters), NEW c \in Letters
  PROVE  Ssh!WholeLines(Append(s, c)) =
           (IF c = "newline" THEN Ssh!Fields(Append(s, c), {"newline"}) ELSE Ssh!WholeLines(s))
<1>1. PICK t : t = Append(s, c)
  OBVIOUS
<1>2. /\ t \in Seq(Letters) /\ Len(t) = Len(s) + 1 /\ t[Len(s) + 1] = c /\ Len(s) \in Nat
      /\ \A i \in 1..Len(s) : t[i] = s[i]
  BY <1>1, Appended
<1> DEFINE ends(x) == {i \in DOMAIN x : x[i] = "newline"}
<1>3. \A x : Ssh!WholeLines(x) =
               IF ends(x) = {} THEN <<>> ELSE Ssh!Fields(SubSeq(x, 1, Ssh!Max(ends(x))), {"newline"})
  BY DEF Ssh!WholeLines
<1>4. DOMAIN t = 1..Len(s) + 1 /\ DOMAIN s = 1..Len(s)
  BY <1>2
<1>5. CASE c = "newline"
  <2>1. Len(t) \in ends(t) /\ (\A x \in ends(t) : x <= Len(t)) /\ ends(t) \in SUBSET Int
    BY <1>2, <1>4, <1>5
  <2>2. Ssh!Max(ends(t)) = Len(t)
    BY <2>1, MaxIs
  <2>3. SubSeq(t, 1, Len(t)) = t
    BY <1>2, WholeSeq
  <2>4. ends(t) # {}
    BY <2>1
  <2> HIDE DEF ends
  <2> QED
    BY <1>1, <1>3, <1>5, <2>2, <2>3, <2>4
<1>6. CASE c # "newline"
  <2>1. ends(t) = ends(s)
    <3>1. ASSUME NEW i \in ends(t) PROVE i \in ends(s)
      BY <1>2, <1>4, <1>6, <3>1
    <3>2. ASSUME NEW i \in ends(s) PROVE i \in ends(t)
      BY <1>2, <1>4, <3>2
    <3> QED
      BY <3>1, <3>2
  <2>2. CASE ends(s) = {}
    <3> HIDE DEF ends
    <3> QED
      BY <1>1, <1>3, <1>6, <2>1, <2>2
  <2>3. CASE ends(s) # {}
    <3>1. PICK m : m = Ssh!Max(ends(s)) /\ m \in 0..Len(s)
      <4>1. Ssh!Max(ends(s)) \in 1..Len(s)
        BY <2>3, LastEnd
      <4>2. Ssh!Max(ends(s)) \in 0..Len(s)
        BY <1>2, <4>1
      <4> QED
        BY <4>2
    <3>2. SubSeq(t, 1, m) = SubSeq(s, 1, m)
      BY <1>1, <3>1, FirstOf
    <3> HIDE DEF ends
    <3> QED
      BY <1>1, <1>3, <1>6, <2>1, <2>3, <3>1, <3>2
  <2> QED
    BY <2>2, <2>3
<1> QED
  BY <1>5, <1>6

LEMMA WholeLinesType ==
  ASSUME NEW s \in Seq(Letters)
  PROVE  Ssh!WholeLines(s) \in Seq(Said) /\ (s = <<>> => Ssh!WholeLines(s) = <<>>)
<1> DEFINE ends == {i \in DOMAIN s : s[i] = "newline"}
<1>1. Ssh!WholeLines(s) = IF ends = {} THEN <<>> ELSE Ssh!Fields(SubSeq(s, 1, Ssh!Max(ends)), {"newline"})
  BY DEF Ssh!WholeLines
<1>2. CASE ends = {}
  BY <1>1, <1>2
<1>3. CASE ends # {}
  <2>1. PICK m : m = Ssh!Max(ends) /\ m \in 1..Len(s)
    BY <1>3, LastEnd
  <2>2. SubSeq(s, 1, m) \in Seq(Letters)
    <3>1. m \in 0..Len(s)
      BY <2>1
    <3> QED
      BY <3>1, FirstType
  <2>3. Ssh!Fields(SubSeq(s, 1, m), {"newline"}) \in Seq(Said)
    BY <2>2, ShellFieldsType
  <2>4. s # <<>>
    BY <1>3
  <2> HIDE DEF ends
  <2> QED
    BY <1>1, <1>3, <2>1, <2>3, <2>4
<1> QED
  BY <1>2, <1>3

\* l is the open line of what was kept.
OpenLine(kept, l) ==
  /\ Ssh!Fields(kept, {"newline"}) = (IF l = <<>> THEN Ssh!WholeLines(kept) ELSE Append(Ssh!WholeLines(kept), l))
  /\ l = <<>> <=> kept = <<>> \/ kept[Len(kept)] = "newline"

LEMMA OpenLineGrows ==
  ASSUME NEW kept \in Seq(Letters), NEW l \in Seq(Letters), NEW c \in Letters, c # "newline", OpenLine(kept, l)
  PROVE  OpenLine(Append(kept, c), Append(l, c))
<1>1. PICK t, n : t = Append(kept, c) /\ n = Len(kept)
  OBVIOUS
<1>2. /\ t \in Seq(Letters) /\ Len(t) = n + 1 /\ t[n + 1] = c /\ n \in Nat
      /\ \A i \in 1..n : t[i] = kept[i]
  BY <1>1, Appended
<1>3. PICK W, F, NL : W = Ssh!WholeLines(kept) /\ NL = {"newline"} /\ F = Ssh!Fields(kept, NL)
  OBVIOUS
<1>4. Ssh!WholeLines(t) = W /\ Ssh!Fields(t, NL) = Ssh!Word(F, t, n + 1, NL)
  BY <1>1, <1>3, WholeLinesNext, ShellFieldsNext
<1>5. PICK m : m = Append(l, c) /\ m \in Seq(Letters) /\ m # <<>>
  <2>1. Append(l, c) \in Seq(Letters) /\ Append(l, c) # <<>>
    OBVIOUS
  <2> QED
    BY <2>1
<1>6. c \notin NL
  BY <1>3
<1>7. Ssh!Fields(t, NL) = Append(W, m)
  <2>1. CASE l = <<>>
    <3>1. n + 1 = 1 \/ t[(n + 1) - 1] \in NL
      <4>1. CASE kept = <<>>
        BY <1>1, <1>2, <4>1
      <4>2. CASE kept # <<>> /\ kept[n] = "newline"
        <5>1. n \in 1..n /\ (n + 1) - 1 = n
          BY <1>1, <1>2, <4>2
        <5> QED
          BY <1>2, <1>3, <4>2, <5>1
      <4> QED
        BY <1>1, <2>1, <4>1, <4>2 DEF OpenLine
    <3>2. Ssh!Word(F, t, n + 1, NL) = Append(F, <<c>>)
      BY <1>2, <1>6, <3>1 DEF Ssh!Word
    <3>3. m = <<c>> /\ F = W
      BY <1>3, <1>5, <2>1 DEF OpenLine
    <3> QED
      BY <1>4, <3>2, <3>3
  <2>2. CASE l # <<>>
    <3>1. kept # <<>> /\ kept[n] # "newline"
      BY <1>1, <2>2 DEF OpenLine
    <3>2. n \in 1..n /\ (n + 1) - 1 = n /\ n + 1 # 1
      BY <1>1, <1>2, <3>1
    <3>3. t[(n + 1) - 1] \notin NL
      BY <1>2, <1>3, <3>1, <3>2
    <3>4. Ssh!Word(F, t, n + 1, NL) = WithLast(F, Append(F[Len(F)], c))
      BY <1>2, <1>6, <3>2, <3>3 DEF Ssh!Word, WithLast
    <3>5. F = Append(W, l)
      BY <1>3, <2>2 DEF OpenLine
    <3>6. PICK S : S = Seq(Letters)
      OBVIOUS
    <3>7. W \in Seq(S) /\ l \in S /\ m \in S
      <4>1. W \in Seq(Said) /\ Said \subseteq S
        BY <1>3, <3>6, WholeLinesType DEF Said
      <4>2. W \in Seq(S)
        BY ONLY <4>1
      <4> QED
        BY <1>5, <3>6, <4>2
    <3>8. F[Len(F)] = l /\ WithLast(F, m) = Append(W, m)
      <4>1. Append(W, l)[Len(Append(W, l))] = l /\ WithLast(Append(W, l), m) = Append(W, m)
        BY <3>7, ReplaceLast
      <4> QED
        BY <3>5, <4>1
    <3> QED
      BY <1>4, <1>5, <3>4, <3>8
  <2> QED
    BY <2>1, <2>2
<1>8. t # <<>> /\ t[Len(t)] # "newline"
  BY <1>2
<1> QED
  BY <1>1, <1>3, <1>4, <1>5, <1>7, <1>8 DEF OpenLine

LEMMA OpenLineEnds ==
  ASSUME NEW kept \in Seq(Letters), NEW l \in Seq(Letters), "newline" \in Letters, OpenLine(kept, l)
  PROVE  /\ OpenLine(Append(kept, "newline"), <<>>)
         /\ Ssh!WholeLines(Append(kept, "newline")) =
              (IF l = <<>> THEN Ssh!WholeLines(kept) ELSE Append(Ssh!WholeLines(kept), l))
<1>1. PICK t, n, c : t = Append(kept, c) /\ n = Len(kept) /\ c = "newline" /\ c \in Letters
  OBVIOUS
<1>2. t \in Seq(Letters) /\ Len(t) = n + 1 /\ t[n + 1] = c /\ n \in Nat
  BY <1>1, Appended
<1>3. PICK F, NL : NL = {"newline"} /\ F = Ssh!Fields(kept, NL)
  OBVIOUS
<1>4. Ssh!WholeLines(t) = Ssh!Fields(t, NL) /\ Ssh!Fields(t, NL) = Ssh!Word(F, t, n + 1, NL)
  BY <1>1, <1>3, WholeLinesNext, ShellFieldsNext
<1>5. Ssh!Word(F, t, n + 1, NL) = F
  BY <1>1, <1>2, <1>3 DEF Ssh!Word
<1>6. t # <<>> /\ t[Len(t)] = "newline"
  BY <1>1, <1>2
<1>7. F = (IF l = <<>> THEN Ssh!WholeLines(kept) ELSE Append(Ssh!WholeLines(kept), l))
  BY <1>3 DEF OpenLine
<1> QED
  BY <1>1, <1>3, <1>4, <1>5, <1>6, <1>7 DEF OpenLine

LEMMA ShellTrimType ==
  ASSUME NEW s \in Seq(Letters), NEW cut
  PROVE  Ssh!Trim(s, cut) \in Seq(Letters) /\ (s = <<>> => Ssh!Trim(s, cut) = <<>>)
<1> DEFINE kept == {i \in DOMAIN s : s[i] \notin cut}
<1>1. CASE kept = {}
  BY <1>1 DEF Ssh!Trim
<1>2. CASE kept # {}
  <2>1. kept \in SUBSET (1..Len(s)) /\ Len(s) \in Nat /\ s # <<>>
    BY <1>2
  <2>2. Ssh!Trim(s, cut) = SubSeq(s, Ssh!Min(kept), Ssh!Max(kept))
    BY <1>2 DEF Ssh!Trim
  <2> HIDE DEF kept
  <2>3. Ssh!Min(kept) \in 1..Len(s)
    BY <1>2, <2>1, LeastIn DEF Redis!Min, Ssh!Min
  <2>4. Ssh!Max(kept) \in 1..Len(s)
    BY <1>2, <2>1, GreatestIn DEF Ssh!Max, Greatest
  <2>5. PICK S, i, j : S = Letters /\ i = Ssh!Min(kept) /\ j = Ssh!Max(kept) /\ i \in 1..Len(s) /\ j \in 1..Len(s)
    BY <2>3, <2>4
  <2>6. SubSeq(s, i, j) \in Seq(S)
    <3>1. s \in Seq(S)
      BY <2>5
    <3> QED
      BY ONLY <2>5, <3>1
  <2> QED
    BY <2>1, <2>2, <2>5, <2>6
<1> QED
  BY <1>1, <1>2

\* Whole lines without the white space around, none of which is an exit.
Trimmed(lines) == [i \in DOMAIN lines |-> Ssh!Trim(lines[i], Ssh!White)]
NoExit(lines) == \A i \in DOMAIN lines : lines[i] # <<"e">>

LEMMA TrimmedNext ==
  ASSUME NEW ps \in Seq(Seq(Letters)), NEW p \in Seq(Letters)
  PROVE  /\ Trimmed(ps) \in Seq(Seq(Letters))
         /\ Trimmed(Append(ps, p)) = Append(Trimmed(ps), Ssh!Trim(p, Ssh!White))
<1>1. PICK X, n : X = Seq(Letters) /\ n = Len(ps)
  OBVIOUS
<1>2. ps \in Seq(X) /\ p \in X /\ n \in Nat /\ \A x \in X : Ssh!Trim(x, Ssh!White) \in X
  BY <1>1, ShellTrimType
<1>3. PICK q : q = Append(ps, p)
  OBVIOUS
<1>4. /\ q \in Seq(X) /\ Len(q) = n + 1 /\ q[n + 1] = p
      /\ \A i \in 1..n : q[i] = ps[i]
  BY <1>1, <1>2, <1>3, Appended
<1>5. PICK a, b, f : a = Trimmed(ps) /\ b = Trimmed(q) /\ f = Ssh!Trim(p, Ssh!White)
  OBVIOUS
<1>6. a = [i \in 1..n |-> Ssh!Trim(ps[i], Ssh!White)] /\ b = [i \in 1..n + 1 |-> Ssh!Trim(q[i], Ssh!White)]
  <2>1. DOMAIN ps = 1..n /\ DOMAIN q = 1..n + 1
    BY <1>1, <1>2, <1>4
  <2> QED
    BY <1>5, <2>1 DEF Trimmed
<1>7. a \in Seq(X) /\ Len(a) = n
  <2>1. \A i \in 1..n : ps[i] \in X
    BY <1>1, <1>2
  <2>2. a \in [1..n -> X]
    BY <1>2, <1>6, <2>1
  <2> QED
    BY ONLY <1>2, <2>2
<1>8. f \in X
  BY <1>2, <1>5
<1>9. PICK c : c = Append(a, f)
  OBVIOUS
<1>10. c \in Seq(X) /\ Len(c) = n + 1 /\ c[n + 1] = f /\ \A i \in 1..n : c[i] = a[i]
  BY <1>7, <1>8, <1>9, Appended
<1>11. ASSUME NEW i \in 1..n + 1 PROVE b[i] = c[i]
  <2>1. CASE i = n + 1
    BY <1>4, <1>5, <1>6, <1>10, <2>1
  <2>2. CASE i \in 1..n
    BY <1>4, <1>6, <1>10, <2>2
  <2> QED
    BY <1>2, <2>1, <2>2
<1>12. c = [i \in 1..n + 1 |-> c[i]]
  BY <1>10
<1>13. b = c
  BY <1>6, <1>11, <1>12
<1> QED
  BY <1>1, <1>3, <1>5, <1>7, <1>9, <1>13

LEMMA WithoutExit ==
  ASSUME NEW X, NEW ps \in Seq(X), NEW p \in X, NoExit(ps)
  PROVE  /\ Ssh!UpToExit(ps) = ps
         /\ p # <<"e">> => NoExit(Append(ps, p))
         /\ p = <<"e">> => Ssh!UpToExit(Append(ps, p)) = ps
<1> DEFINE exits(x) == {i \in DOMAIN x : x[i] = <<"e">>}
<1>1. \A x : Ssh!UpToExit(x) = IF exits(x) = {} THEN x ELSE SubSeq(x, 1, Ssh!Min(exits(x)) - 1)
  BY DEF Ssh!UpToExit
<1>2. exits(ps) = {}
  BY DEF NoExit
<1>3. PICK q, n : q = Append(ps, p) /\ n = Len(ps)
  OBVIOUS
<1>4. q \in Seq(X) /\ Len(q) = n + 1 /\ q[n + 1] = p /\ n \in Nat /\ \A i \in 1..n : q[i] = ps[i]
  BY <1>3, Appended
<1>5. DOMAIN q = 1..n + 1 /\ DOMAIN ps = 1..n
  BY <1>3, <1>4
<1>6. \A i \in 1..n : q[i] # <<"e">>
  BY <1>4, <1>5 DEF NoExit
<1>7. \A i \in 1..n + 1 : i = n + 1 \/ i \in 1..n
  BY <1>4
<1>8. p # <<"e">> => NoExit(q)
  BY <1>4, <1>5, <1>6, <1>7 DEF NoExit
<1>9. ASSUME p = <<"e">> PROVE Ssh!UpToExit(q) = ps
  <2>1. exits(q) = {n + 1}
    BY <1>4, <1>5, <1>6, <1>7, <1>9
  <2>2. Ssh!Min({n + 1}) = n + 1
    BY <1>4 DEF Ssh!Min
  <2>3. SubSeq(q, 1, n) = ps
    <3>1. n \in 0..Len(ps)
      BY <1>3, <1>4
    <3> QED
      BY <1>3, <3>1, FirstOf, WholeSeq
  <2>4. (n + 1) - 1 = n /\ exits(q) # {}
    BY <1>4, <2>1
  <2> HIDE DEF exits
  <2> QED
    BY <1>1, <2>1, <2>2, <2>3, <2>4
<1> HIDE DEF exits
<1> QED
  BY <1>1, <1>2, <1>3, <1>8, <1>9

\* The whole lines of what was kept, as they are executed.
LinesIn(kept) == Trimmed(Ssh!WholeLines(kept))

LEMMA WholeType ==
  ASSUME NEW kept \in Seq(Letters)
  PROVE  /\ Ssh!WholeLines(kept) \in Seq(Seq(Letters)) /\ LinesIn(kept) \in Seq(Seq(Letters))
         /\ kept = <<>> => LinesIn(kept) = <<>>
<1>1. PICK X, W : X = Seq(Letters) /\ W = Ssh!WholeLines(kept)
  OBVIOUS
<1>2. W \in Seq(Said) /\ Said \subseteq X
  BY <1>1, WholeLinesType DEF Said
<1>3. W \in Seq(X)
  BY ONLY <1>2
<1>4. <<>> \in Seq(Letters)
  OBVIOUS
<1>5. Trimmed(W) \in Seq(X)
  BY <1>1, <1>3, <1>4, TrimmedNext
<1>6. kept = <<>> => Trimmed(W) = <<>>
  <2>1. kept = <<>> => W = <<>>
    BY <1>1, WholeLinesType
  <2>2. Trimmed(<<>>) = <<>>
    BY DEF Trimmed
  <2> QED
    BY <2>1, <2>2
<1> QED
  BY <1>1, <1>3, <1>5, <1>6 DEF LinesIn

\* The end of a line: what comes of the line that was open.
LEMMA LineTaken ==
  ASSUME NEW kept \in Seq(Letters), NEW l \in Seq(Letters), "newline" \in Letters,
         OpenLine(kept, l), NoExit(LinesIn(kept)), NEW cmd, cmd = Ssh!Trim(l, Ssh!White),
         NEW more, more = LinesIn(Append(kept, "newline"))
  PROVE  /\ OpenLine(Append(kept, "newline"), <<>>)
         /\ cmd = <<>> => NoExit(more) /\ Ssh!NotEmpty(more) = Ssh!NotEmpty(LinesIn(kept))
         /\ cmd = <<"e">> => Ssh!NotEmpty(Ssh!UpToExit(more)) = Ssh!NotEmpty(LinesIn(kept))
         /\ cmd \notin {<<>>, <<"e">>} => NoExit(more) /\ Ssh!NotEmpty(more) = Append(Ssh!NotEmpty(LinesIn(kept)), cmd)
<1>1. PICK X, W, T : X = Seq(Letters) /\ W = Ssh!WholeLines(kept) /\ T = LinesIn(kept) /\ T = Trimmed(W)
  BY DEF LinesIn
<1>2. W \in Seq(X) /\ T \in Seq(X) /\ cmd \in X /\ NoExit(T) /\ l \in X
  BY <1>1, WholeType, ShellTrimType
<1>3. /\ OpenLine(Append(kept, "newline"), <<>>)
      /\ Ssh!WholeLines(Append(kept, "newline")) = (IF l = <<>> THEN W ELSE Append(W, l))
  BY <1>1, OpenLineEnds
<1>4. CASE l = <<>>
  <2>1. more = T /\ cmd = <<>>
    BY <1>1, <1>3, <1>4, ShellTrimType DEF LinesIn
  <2>2. <<>> # <<"e">>
    OBVIOUS
  <2> QED
    BY <1>1, <1>2, <1>3, <2>1, <2>2
<1>5. CASE l # <<>>
  <2>1. more = Append(T, cmd)
    <3>1. more = Trimmed(Append(W, l))
      BY <1>3, <1>5 DEF LinesIn
    <3> QED
      BY <1>1, <1>2, <3>1, TrimmedNext
  <2>2. Ssh!NotEmpty(more) = (IF cmd = <<>> THEN Ssh!NotEmpty(T) ELSE Append(Ssh!NotEmpty(T), cmd))
    BY <1>2, <2>1, NotEmptyNext
  <2>3. cmd # <<"e">> => NoExit(more)
    BY <1>2, <2>1, WithoutExit
  <2>4. cmd = <<"e">> => Ssh!UpToExit(more) = T
    BY <1>2, <2>1, WithoutExit
  <2>5. <<>> # <<"e">>
    OBVIOUS
  <2>6. OpenLine(Append(kept, "newline"), <<>>)
    BY <1>3
  <2>7. cmd = <<>> => NoExit(more) /\ Ssh!NotEmpty(more) = Ssh!NotEmpty(LinesIn(kept))
    <3> SUFFICES ASSUME cmd = <<>>
                 PROVE  NoExit(more) /\ Ssh!NotEmpty(more) = Ssh!NotEmpty(LinesIn(kept))
      OBVIOUS
    <3>1. cmd # <<"e">>
      BY <2>5
    <3>2. NoExit(more)
      BY <2>3, <3>1
    <3>3. Ssh!NotEmpty(more) = Ssh!NotEmpty(T)
      BY <2>2
    <3>4. T = LinesIn(kept)
      BY <1>1
    <3> QED
      BY <3>2, <3>3, <3>4
  <2>8. cmd = <<"e">> => Ssh!NotEmpty(Ssh!UpToExit(more)) = Ssh!NotEmpty(LinesIn(kept))
    <3>1. T = LinesIn(kept)
      BY <1>1
    <3> QED
      BY <2>4, <3>1
  <2>9. cmd \notin {<<>>, <<"e">>}
        => NoExit(more) /\ Ssh!NotEmpty(more) = Append(Ssh!NotEmpty(LinesIn(kept)), cmd)
    <3> SUFFICES ASSUME cmd # <<>>, cmd # <<"e">>
                 PROVE  NoExit(more) /\ Ssh!NotEmpty(more) = Append(Ssh!NotEmpty(LinesIn(kept)), cmd)
      OBVIOUS
    <3>1. NoExit(more)
      BY <2>3
    <3>2. Ssh!NotEmpty(more) = Append(Ssh!NotEmpty(T), cmd)
      BY <2>2
    <3>3. T = LinesIn(kept)
      BY <1>1
    <3> QED
      BY <3>1, <3>2, <3>3
  <2> QED
    BY <2>6, <2>7, <2>8, <2>9
<1> QED
  BY <1>4, <1>5

\* What is recorded of a line that is executed.
Executed(cmd) ==
  [line |-> cmd, commands |-> Ssh!SimpleCommands(cmd),
   output |-> [i \in DOMAIN Ssh!SimpleCommands(cmd) |-> Ssh!RunSimple(Ssh!SimpleCommands(cmd)[i])]]

Execs == {Executed(c) : c \in Seq(Letters)}
LinesOf(r) == [i \in DOMAIN r |-> r[i].line]

LEMMA ExecIs == \A cmd : Ssh!Exec(cmd) <=> ran' = Append(ran, Executed(cmd))
BY DEF Ssh!Exec, Executed

LEMMA RanNext ==
  ASSUME NEW r \in Seq(Execs), NEW cmd \in Seq(Letters)
  PROVE  Append(r, Executed(cmd)) \in Seq(Execs) /\ LinesOf(Append(r, Executed(cmd))) = Append(LinesOf(r), cmd)
<1>1. PICK e, n : e = Executed(cmd) /\ e \in Execs /\ e.line = cmd /\ n = Len(r) /\ n \in Nat
  <2>1. Executed(cmd) \in Execs
    BY DEF Execs
  <2>2. Executed(cmd).line = cmd
    BY DEF Executed
  <2>3. Len(r) \in Nat
    OBVIOUS
  <2> QED
    BY <2>1, <2>2, <2>3
<1>2. PICK q : q = Append(r, e)
  OBVIOUS
<1>3. q \in Seq(Execs) /\ Len(q) = n + 1 /\ q[n + 1] = e /\ \A i \in 1..n : q[i] = r[i]
  BY <1>1, <1>2, Appended
<1>4. DOMAIN q = 1..n + 1 /\ DOMAIN r = 1..n
  BY <1>1, <1>3
<1>5. PICK S : S = {r[i].line : i \in 1..n} \cup {cmd}
  OBVIOUS
<1>6. PICK a, b : a = LinesOf(r) /\ b = LinesOf(q) /\ a = [i \in 1..n |-> r[i].line] /\ b = [i \in 1..n + 1 |-> q[i].line]
  BY <1>4 DEF LinesOf
<1>7. a \in Seq(S) /\ Len(a) = n
  <2>1. a \in [1..n -> S]
    BY <1>5, <1>6
  <2> QED
    BY ONLY <1>1, <2>1
<1>8. PICK c : c = Append(a, cmd)
  OBVIOUS
<1>9. c \in Seq(S) /\ Len(c) = n + 1 /\ c[n + 1] = cmd /\ \A i \in 1..n : c[i] = a[i]
  <2>1. cmd \in S
    BY <1>5
  <2> QED
    BY <1>7, <1>8, <2>1, Appended
<1>10. ASSUME NEW i \in 1..n + 1 PROVE b[i] = c[i]
  <2>1. CASE i = n + 1
    BY <1>1, <1>3, <1>6, <1>9, <2>1
  <2>2. CASE i \in 1..n
    BY <1>3, <1>6, <1>9, <2>2
  <2> QED
    BY <1>1, <2>1, <2>2
<1>11. c = [i \in 1..n + 1 |-> c[i]]
  BY <1>9
<1>12. b = c
  BY <1>6, <1>10, <1>11
<1> QED
  BY <1>1, <1>2, <1>3, <1>6, <1>8, <1>12

-----------------------------------------------------------------------------
(* The session: the lines executed are those typed so far.                 *)

ShellTypes ==
  /\ typed \in Seq(Letters) /\ line \in Seq(Letters) /\ ran \in Seq(Execs)
  /\ shell \in {"requests", "loop", "closed"}

LoopInv ==
  /\ shell = "requests" => typed = <<>> /\ line = <<>> /\ ran = <<>>
  /\ shell = "loop" => /\ OpenLine(KeptOf(typed), line)
                       /\ NoExit(LinesIn(KeptOf(typed)))
                       /\ LinesOf(ran) = Ssh!NotEmpty(LinesIn(KeptOf(typed)))
  /\ shell = "closed" /\ typed # <<>> => LinesOf(ran) = Ssh!NotEmpty(Ssh!UpToExit(LinesIn(KeptOf(typed))))

LEMMA InitShell == Ssh!Init => ShellTypes /\ LoopInv
<1> SUFFICES ASSUME Ssh!Init PROVE ShellTypes /\ LoopInv
  OBVIOUS
<1>1. <<>> \in Seq(Letters) /\ <<>> \in Seq(Execs)
  OBVIOUS
<1> QED
  BY <1>1 DEF Ssh!Init, ShellTypes, LoopInv

LEMMA CharType == Chars \subseteq Letters
BY DEF Letters

LEMMA ExecRuns ==
  ASSUME NEW cmd \in Seq(Letters), Ssh!Exec(cmd), ran \in Seq(Execs)
  PROVE  ran' \in Seq(Execs) /\ LinesOf(ran') = Append(LinesOf(ran), cmd)
<1>1. ran' = Append(ran, Executed(cmd))
  BY ExecIs
<1> QED
  BY <1>1, RanNext

LEMMA ReadBytePreserves ==
  ASSUME ShellTypes, LoopInv, NEW b \in Chars, Ssh!ReadByte(b)
  PROVE  (ShellTypes /\ LoopInv)'
<1>1. /\ shell = "loop" /\ typed' = Append(typed, b) /\ b \in Letters
      /\ \/ b = "newline" /\ Ssh!Newline
         \/ b = "return" /\ UNCHANGED <<shell, line, ran>>
         \/ b \notin {"newline", "return"} /\ line' = Append(line, b) /\ UNCHANGED <<shell, ran>>
  BY CharType DEF Ssh!ReadByte
<1>2. /\ typed \in Seq(Letters) /\ line \in Seq(Letters) /\ ran \in Seq(Execs)
      /\ OpenLine(KeptOf(typed), line) /\ NoExit(LinesIn(KeptOf(typed)))
      /\ LinesOf(ran) = Ssh!NotEmpty(LinesIn(KeptOf(typed)))
  BY <1>1 DEF ShellTypes, LoopInv
<1>3. PICK K : K = KeptOf(typed) /\ K \in Seq(Letters)
  BY <1>2, KeptType
<1>4. typed' \in Seq(Letters)
  BY <1>1, <1>2, Appended
<1>5. KeptOf(typed') = (IF b = "return" THEN K ELSE Append(K, b))
  BY <1>1, <1>2, <1>3, KeptNext
<1>6. "loop" # "requests" /\ "loop" # "closed"
  OBVIOUS
<1>7. CASE b = "return"
  <2>1. shell' = "loop" /\ line' = line /\ ran' = ran /\ KeptOf(typed') = K
    BY <1>1, <1>5, <1>7
  <2>2. ShellTypes'
    BY <1>2, <1>4, <2>1 DEF ShellTypes
  <2>3. OpenLine(KeptOf(typed'), line') /\ NoExit(LinesIn(KeptOf(typed'))) /\ LinesOf(ran') = Ssh!NotEmpty(LinesIn(KeptOf(typed')))
    BY <1>2, <1>3, <2>1
  <2>4. LoopInv'
    BY <1>6, <2>1, <2>3 DEF LoopInv
  <2> QED
    BY <2>2, <2>4
<1>8. CASE b \notin {"newline", "return"}
  <2>1. shell' = "loop" /\ line' = Append(line, b) /\ ran' = ran /\ KeptOf(typed') = Append(K, b)
    BY <1>1, <1>5, <1>8
  <2>2. ShellTypes'
    <3>1. line' \in Seq(Letters)
      BY <1>1, <1>2, <2>1, Appended
    <3> QED
      BY <1>2, <1>4, <2>1, <3>1 DEF ShellTypes
  <2>3. OpenLine(KeptOf(typed'), line')
    BY <1>1, <1>2, <1>3, <1>8, <2>1, OpenLineGrows
  <2>4. LinesIn(KeptOf(typed')) = LinesIn(K)
    <3>1. Ssh!WholeLines(Append(K, b)) = Ssh!WholeLines(K)
      BY <1>1, <1>3, <1>8, WholeLinesNext
    <3> QED
      BY <2>1, <3>1 DEF LinesIn
  <2>5. NoExit(LinesIn(KeptOf(typed'))) /\ LinesOf(ran') = Ssh!NotEmpty(LinesIn(KeptOf(typed')))
    BY <1>2, <1>3, <2>1, <2>4
  <2>6. LoopInv'
    BY <1>6, <2>1, <2>3, <2>5 DEF LoopInv
  <2> QED
    BY <2>2, <2>6
<1>9. CASE b = "newline"
  <2>1. PICK cmd : /\ cmd = Ssh!Trim(line, Ssh!White) /\ line' = <<>>
                   /\ IF cmd \in {<<>>, <<"e">>} THEN UNCHANGED ran ELSE Ssh!Exec(cmd)
                   /\ shell' = IF cmd = <<"e">> THEN "closed" ELSE "loop"
    BY <1>1, <1>9 DEF Ssh!Newline
  <2>2. cmd \in Seq(Letters)
    BY <1>2, <2>1, ShellTrimType
  <2>3. PICK T, U : T = LinesIn(K) /\ U = LinesIn(Append(K, "newline"))
    OBVIOUS
  <2>4. KeptOf(typed') = Append(K, "newline") /\ "newline" \in Letters
    BY <1>1, <1>5, <1>9
  <2>5. /\ OpenLine(Append(K, "newline"), <<>>)
        /\ cmd = <<>> => NoExit(U) /\ Ssh!NotEmpty(U) = Ssh!NotEmpty(T)
        /\ cmd = <<"e">> => Ssh!NotEmpty(Ssh!UpToExit(U)) = Ssh!NotEmpty(T)
        /\ cmd \notin {<<>>, <<"e">>} => NoExit(U) /\ Ssh!NotEmpty(U) = Append(Ssh!NotEmpty(T), cmd)
    BY <1>2, <1>3, <2>1, <2>3, <2>4, LineTaken
  <2>6. LinesOf(ran) = Ssh!NotEmpty(T)
    BY <1>2, <1>3, <2>3
  <2>7. <<>> \in Seq(Letters) /\ <<>> # <<"e">>
    OBVIOUS
  <2>8. CASE cmd = <<>>
    <3>1. ran' = ran /\ shell' = "loop"
      BY <2>1, <2>7, <2>8
    <3>2. ShellTypes'
      BY <1>2, <1>4, <2>1, <2>7, <3>1 DEF ShellTypes
    <3>3. LoopInv'
      BY <1>6, <2>1, <2>3, <2>4, <2>5, <2>6, <2>8, <3>1 DEF LoopInv
    <3> QED
      BY <3>2, <3>3
  <2>9. CASE cmd = <<"e">>
    <3>1. ran' = ran /\ shell' = "closed"
      BY <2>1, <2>9
    <3>2. ShellTypes'
      BY <1>2, <1>4, <2>1, <2>7, <3>1 DEF ShellTypes
    <3>3. LoopInv'
      BY <2>3, <2>4, <2>5, <2>6, <2>9, <3>1 DEF LoopInv
    <3> QED
      BY <3>2, <3>3
  <2>10. CASE cmd \notin {<<>>, <<"e">>}
    <3>1. Ssh!Exec(cmd) /\ shell' = "loop"
      BY <2>1, <2>10
    <3>2. ran' \in Seq(Execs) /\ LinesOf(ran') = Append(LinesOf(ran), cmd)
      BY <1>2, <2>2, <3>1, ExecRuns
    <3>3. ShellTypes'
      BY <1>4, <2>1, <2>7, <3>1, <3>2 DEF ShellTypes
    <3>4. LoopInv'
      BY <1>6, <2>1, <2>3, <2>4, <2>5, <2>6, <2>10, <3>1, <3>2 DEF LoopInv
    <3> QED
      BY <3>3, <3>4
  <2> QED
    BY <2>8, <2>9, <2>10
<1> QED
  BY <1>7, <1>8, <1>9

LEMMA ShellPreserved == ShellTypes /\ LoopInv /\ [Ssh!Next]_(Ssh!vars) => (ShellTypes /\ LoopInv)'
<1> SUFFICES ASSUME ShellTypes, LoopInv, [Ssh!Next]_(Ssh!vars) PROVE (ShellTypes /\ LoopInv)'
  OBVIOUS
<1>1. CASE UNCHANGED Ssh!vars
  BY <1>1 DEF Ssh!vars, ShellTypes, LoopInv
<1>2. CASE Ssh!ShellRequest
  <2>1. shell' = "loop" /\ typed' = <<>> /\ line' = <<>> /\ ran' = <<>> /\ UNCHANGED <<typed, line, ran>>
    BY <1>2 DEF Ssh!ShellRequest, LoopInv
  <2>2. <<>> \in Seq(Letters) /\ <<>> \in Seq(Seq(Letters))
    OBVIOUS
  <2>3. KeptOf(<<>>) = <<>>
    BY <2>2, KeptType
  <2>4. LinesIn(<<>>) = <<>> /\ Ssh!WholeLines(<<>>) = <<>> /\ Ssh!Fields(<<>>, {"newline"}) = <<>> /\ Ssh!NotEmpty(<<>>) = <<>>
    BY <2>2, WholeType, WholeLinesType, ShellFieldsType, NotEmptyType
  <2>5. OpenLine(<<>>, <<>>) /\ NoExit(<<>>) /\ LinesOf(<<>>) = <<>>
    BY <2>4 DEF OpenLine, NoExit, LinesOf
  <2>6. ShellTypes'
    BY <2>1 DEF ShellTypes
  <2>7. LoopInv'
    BY <2>1, <2>3, <2>4, <2>5 DEF LoopInv
  <2> QED
    BY <2>6, <2>7
<1>3. ASSUME NEW p \in Payloads, Ssh!ExecRequest(p) PROVE (ShellTypes /\ LoopInv)'
  <2>1. shell' = "closed" /\ typed' = typed /\ line' = line /\ typed = <<>>
    BY <1>3 DEF Ssh!ExecRequest, LoopInv
  <2>2. PICK c : c = Ssh!ExecCommand(p) /\ c \in Seq(Letters)
    <3>1. p.announced \in Nat /\ p.text \in Seq(Letters)
      <4>1. p.announced \in Nat /\ p.text \in Seq(Chars)
        BY PayloadsAssumption
      <4>2. PICK x : x = p.text /\ x \in Seq(Chars)
        BY <4>1
      <4>3. x \in Seq(Letters)
        BY ONLY <4>2, CharType
      <4> QED
        BY <4>1, <4>2, <4>3
    <3>2. <<>> \in Seq(Letters)
      OBVIOUS
    <3>3. ASSUME ~(p.announced > Len(p.text)) PROVE SubSeq(p.text, 1, p.announced) \in Seq(Letters)
      <4>1. PICK x, n : x = p.text /\ n = p.announced /\ x \in Seq(Letters) /\ n \in Nat /\ ~(n > Len(x))
        BY <3>1, <3>3
      <4>2. n \in 0..Len(x)
        BY <4>1
      <4>3. SubSeq(x, 1, n) \in Seq(Letters)
        BY <4>1, <4>2, FirstType
      <4> QED
        BY <4>1, <4>3
    <3> QED
      BY <3>2, <3>3 DEF Ssh!ExecCommand
  <2>3. PICK cmd : cmd = Ssh!Trim(c, Ssh!White) /\ cmd \in Seq(Letters)
    BY <2>2, ShellTrimType
  <2>4. IF cmd = <<>> THEN UNCHANGED ran ELSE Ssh!Exec(cmd)
    BY <1>3, <2>2, <2>3 DEF Ssh!ExecRequest
  <2>5. ran' \in Seq(Execs)
    BY <2>3, <2>4, ExecRuns DEF ShellTypes
  <2>6. ShellTypes'
    BY <2>1, <2>5 DEF ShellTypes
  <2>7. LoopInv'
    BY <2>1 DEF LoopInv
  <2> QED
    BY <2>6, <2>7
<1>4. CASE Ssh!NoRequest
  <2>1. shell' = "closed" /\ typed' = typed /\ line' = line /\ ran' = ran /\ typed = <<>>
    BY <1>4 DEF Ssh!NoRequest, LoopInv
  <2> QED
    BY <2>1 DEF ShellTypes, LoopInv
<1>5. ASSUME NEW b \in Chars, Ssh!ReadByte(b) PROVE (ShellTypes /\ LoopInv)'
  BY <1>5, ReadBytePreserves
<1>6. CASE Ssh!Eof
  <2>1. shell = "loop" /\ shell' = "closed" /\ typed' = typed /\ line' = line /\ ran' = ran
    BY <1>6 DEF Ssh!Eof
  <2>2. ShellTypes'
    BY <2>1 DEF ShellTypes
  <2>3. /\ typed \in Seq(Letters) /\ NoExit(LinesIn(KeptOf(typed)))
        /\ LinesOf(ran) = Ssh!NotEmpty(LinesIn(KeptOf(typed)))
    BY <2>1 DEF ShellTypes, LoopInv
  <2>4. Ssh!UpToExit(LinesIn(KeptOf(typed))) = LinesIn(KeptOf(typed))
    <3>1. PICK K : K = KeptOf(typed) /\ K \in Seq(Letters)
      BY <2>3, KeptType
    <3>2. LinesIn(K) \in Seq(Seq(Letters)) /\ <<>> \in Seq(Letters)
      BY <3>1, WholeType
    <3> QED
      BY <2>3, <3>1, <3>2, WithoutExit
  <2>5. LoopInv'
    BY <2>1, <2>3, <2>4 DEF LoopInv
  <2> QED
    BY <2>2, <2>5
<1> QED
  BY <1>1, <1>2, <1>3, <1>4, <1>5, <1>6 DEF Ssh!Next

LEMMA ShellInvariant == Spec => [](ShellTypes /\ LoopInv)
<1>1. Init => ShellTypes /\ LoopInv
  BY InitShell DEF Init
<1>2. ShellTypes /\ LoopInv /\ [Next]_vars => (ShellTypes /\ LoopInv)'
  <2>1. [Next]_vars => [Ssh!Next]_(Ssh!vars)
    BY DEF Next, RedisStep, SshStep, TlsStep, KeysStep, vars, sshVars, Ssh!vars
  <2> QED
    BY <2>1, ShellPreserved
<1> QED
  BY <1>1, <1>2, PTL DEF Spec

\* The fake shell executes the lines typed into it, whole, in order and once
\* each, up to the exit, and runs of every line the stretches between its
\* separators, for any characters, known commands and exec requests.
THEOREM TypedIsRun == Spec => []RunsWhatWasTyped
<1>1. ShellTypes /\ LoopInv => RunsWhatWasTyped
  <2> SUFFICES ASSUME ShellTypes, LoopInv PROVE RunsWhatWasTyped
    OBVIOUS
  <2>1. typed \in Seq(Letters) /\ ran \in Seq(Execs) /\ shell \in {"requests", "loop", "closed"}
    BY DEF ShellTypes
  <2>2. Ssh!LinesTyped = Ssh!NotEmpty(Ssh!UpToExit(LinesIn(KeptOf(typed))))
    BY DEF Ssh!LinesTyped, LinesIn, Trimmed, Ssh!Kept, KeptOf
  <2>3. ASSUME typed # <<>> PROVE [i \in DOMAIN ran |-> ran[i].line] = Ssh!LinesTyped
    <3>1. CASE shell = "loop"
      <4>1. PICK K : K = KeptOf(typed) /\ K \in Seq(Letters)
        BY <2>1, KeptType
      <4>2. LinesIn(K) \in Seq(Seq(Letters)) /\ <<>> \in Seq(Letters) /\ NoExit(LinesIn(K))
        BY <3>1, <4>1, WholeType DEF LoopInv
      <4>3. Ssh!UpToExit(LinesIn(K)) = LinesIn(K)
        BY <4>2, WithoutExit
      <4>4. LinesOf(ran) = Ssh!NotEmpty(LinesIn(K))
        BY <3>1, <4>1 DEF LoopInv
      <4> QED
        BY <2>2, <4>1, <4>3, <4>4 DEF LinesOf
    <3>2. CASE shell = "closed"
      BY <2>2, <2>3, <3>2 DEF LoopInv, LinesOf
    <3>3. shell # "requests"
      BY <2>3 DEF LoopInv
    <3> QED
      BY <2>1, <3>1, <3>2, <3>3
  <2>4. ASSUME NEW i \in DOMAIN ran, ~Ssh!IsPipeline(ran[i].line)
        PROVE  ran[i].commands = Ssh!Stretches(ran[i].line)
    <3>1. ran[i] \in Execs
      BY <2>1
    <3>2. PICK c \in Seq(Letters) : ran[i] = Executed(c)
      BY <3>1 DEF Execs
    <3>3. ran[i].line = c /\ ran[i].commands = Ssh!SimpleCommands(c)
      BY <3>2 DEF Executed
    <3> QED
      BY <2>4, <3>3, CommandsAreStretches
  <2> QED
    BY <2>3, <2>4 DEF RunsWhatWasTyped, Ssh!RunsWhatWasTyped
<1> QED
  BY <1>1, ShellInvariant, PTL

=============================================================================
