------------------------------- MODULE Canary -------------------------------
(***************************************************************************)
(* The canary registry of internal/canary: SetFor under its mutex, the new *)
(* set it makes when the source has no live one, and the SQLite table that *)
(* set is saved to, row by row in one transaction, before anyone sees it.  *)
(*                                                                         *)
(* The callers are goroutines of the decoys. SetFor keeps the mutex while  *)
(* it writes to the database; the other callers wait for it, and time goes *)
(* on. A set is identified by its number (randHex(8) is taken to be new).  *)
(* The process may be killed at any moment and started again: the memory   *)
(* and an open transaction are gone, the committed rows are not.           *)
(***************************************************************************)
EXTENDS Integers, FiniteSets, Sequences

CONSTANTS
  Callers,     \* goroutines of the decoys
  IPs,         \* source addresses
  AllKinds,    \* sequence of the token kinds
  PooledKinds, \* the kinds generate draws from a short list
  Pool,        \* that list
  TTL,         \* Registry.ttl
  NoCaller,    \* the mutex is free
  NoIP,        \* a caller that is not in SetFor
  NoSet,       \* no session for this source
  MaxTime,     \* bound of the clock
  MaxBoots,    \* bound of the number of starts of the process
  MaxCalls     \* bound of the number of calls

ASSUME CallersAssumption == NoCaller \notin Callers /\ NoIP \notin IPs
ASSUME KindsAssumption == AllKinds \in Seq(STRING) /\ AllKinds # <<>>
ASSUME NoSetAssumption == NoSet \notin [set : Nat, expires : Int] \cup [set : Nat, made : Int]
ASSUME BoundsAssumption == TTL \in Nat /\ MaxTime \in Nat /\ MaxBoots \in Nat \ {0} /\ MaxCalls \in Nat

VARIABLES
  clock,     \* the current time
  pc,        \* where each caller is: "idle", "waiting", "saving", "saved"
  ipOf,      \* the argument of each caller's SetFor
  mu,        \* the holder of Registry.mu
  sessions,  \* Registry.sessions
  new,       \* the set each caller's newSet is making: [set, made]
  tx,        \* the rows of each caller's open transaction
  table,     \* the committed rows of the table canaries
  lastSet,   \* history: number of the last set made
  unsaved,   \* history: sets whose SaveTokens failed
  boots,     \* history: how often the process was started
  handed,    \* history: every hand-out
  calls      \* history: number of calls

vars == <<clock, pc, ipOf, mu, sessions, new, tx, table, lastSet, unsaved, boots, handed, calls>>

Init ==
  /\ clock = 0
  /\ pc = [c \in Callers |-> "idle"]
  /\ ipOf = [c \in Callers |-> NoIP]
  /\ mu = NoCaller
  /\ sessions = [ip \in IPs |-> NoSet]
  /\ new = [c \in Callers |-> NoSet]
  /\ tx = [c \in Callers |-> {}]
  /\ table = {}
  /\ lastSet = 0
  /\ unsaved = {}
  /\ boots = 1
  /\ handed = {}
  /\ calls = 0

-----------------------------------------------------------------------------
TimePasses ==
  /\ clock < MaxTime
  /\ clock' = clock + 1
  /\ UNCHANGED <<pc, ipOf, mu, sessions, new, tx, table, lastSet, unsaved, boots, handed, calls>>

\* A decoy calls SetFor and waits for the mutex.
Call(c, ip) ==
  /\ pc[c] = "idle"
  /\ calls < MaxCalls
  /\ calls' = calls + 1
  /\ pc' = [pc EXCEPT ![c] = "waiting"]
  /\ ipOf' = [ipOf EXCEPT ![c] = ip]
  /\ UNCHANGED <<clock, mu, sessions, new, tx, table, lastSet, unsaved, boots, handed>>

\* The expiry is written with !After: the last instant is handed out, too.
LiveInclusive(ip) == sessions[ip] # NoSet /\ clock <= sessions[ip].expires

Live(ip) == sessions[ip] # NoSet /\ clock < sessions[ip].expires

\* SetFor returns set s to caller c and releases the mutex.
Return(c, s, made) ==
  /\ handed' = handed \cup {[ip |-> ipOf[c], set |-> s, made |-> made, at |-> clock, boot |-> boots]}
  /\ mu' = NoCaller
  /\ pc' = [pc EXCEPT ![c] = "idle"]
  /\ ipOf' = [ipOf EXCEPT ![c] = NoIP]

\* SetFor has the mutex and finds a live session.
Reuse(c) ==
  /\ pc[c] = "waiting"
  /\ mu = NoCaller
  /\ Live(ipOf[c])
  /\ LET s == sessions[ipOf[c]] IN Return(c, s.set, s.expires - TTL)
  /\ UNCHANGED <<clock, sessions, new, tx, table, lastSet, unsaved, boots, calls>>

\* SetFor has the mutex and finds none: newSet makes a set, with the time read
\* before, and begins to save it. The mutex is kept.
Create(c) ==
  /\ pc[c] = "waiting"
  /\ mu = NoCaller
  /\ ~Live(ipOf[c])
  /\ lastSet' = lastSet + 1
  /\ new' = [new EXCEPT ![c] = [set |-> lastSet', made |-> clock]]
  /\ mu' = c
  /\ pc' = [pc EXCEPT ![c] = "saving"]
  /\ UNCHANGED <<clock, ipOf, sessions, tx, table, unsaved, boots, handed, calls>>

\* The values generate may give to a token: a value of its own, or, for the
\* kinds it picks from a list, any of the list.
Values(kind, s) == IF kind \in PooledKinds THEN Pool ELSE {s}

\* The next token of the new set, as a row of the table.
NextRows(c) ==
  LET kind == AllKinds[Cardinality(tx[c]) + 1]
  IN {[set |-> new[c].set, kind |-> kind, value |-> v, ip |-> ipOf[c]] : v \in Values(kind, new[c].set)}

\* SaveTokens inserts one row. The ids are new: nothing is replaced.
Insert(c) ==
  /\ pc[c] = "saving"
  /\ Cardinality(tx[c]) < Len(AllKinds)
  /\ \E row \in NextRows(c) : tx' = [tx EXCEPT ![c] = @ \cup {row}]
  /\ UNCHANGED <<clock, pc, ipOf, mu, sessions, new, table, lastSet, unsaved, boots, handed, calls>>

\* SaveTokens returns without tx.Commit: the rows are gone.
CommitForgotten(c) ==
  /\ pc[c] = "saving"
  /\ Cardinality(tx[c]) = Len(AllKinds)
  /\ tx' = [tx EXCEPT ![c] = {}]
  /\ pc' = [pc EXCEPT ![c] = "saved"]
  /\ UNCHANGED <<clock, ipOf, mu, sessions, new, table, lastSet, unsaved, boots, handed, calls>>

Commit(c) ==
  /\ pc[c] = "saving"
  /\ Cardinality(tx[c]) = Len(AllKinds)
  /\ table' = table \cup tx[c]
  /\ tx' = [tx EXCEPT ![c] = {}]
  /\ pc' = [pc EXCEPT ![c] = "saved"]
  /\ UNCHANGED <<clock, ipOf, mu, sessions, new, lastSet, unsaved, boots, handed, calls>>

\* The rows already inserted are committed although a later one failed.
SaveFailsCommitting(c) ==
  /\ pc[c] = "saving"
  /\ table' = table \cup tx[c]
  /\ tx' = [tx EXCEPT ![c] = {}]
  /\ unsaved' = unsaved \cup {new[c].set}
  /\ pc' = [pc EXCEPT ![c] = "saved"]
  /\ UNCHANGED <<clock, ipOf, mu, sessions, new, lastSet, boots, handed, calls>>

\* Begin, an insert or the commit fails (the database stays busy for 5 s, the
\* disk is full): the transaction is rolled back. newSet drops the error.
SaveFails(c) ==
  /\ pc[c] = "saving"
  /\ tx' = [tx EXCEPT ![c] = {}]
  /\ unsaved' = unsaved \cup {new[c].set}
  /\ pc' = [pc EXCEPT ![c] = "saved"]
  /\ UNCHANGED <<clock, ipOf, mu, sessions, new, table, lastSet, boots, handed, calls>>

\* The mutex is not released on the way out.
RecordHoldingMutex(c) ==
  /\ pc[c] = "saved"
  /\ sessions' = [sessions EXCEPT ![ipOf[c]] = [set |-> new[c].set, expires |-> new[c].made + TTL]]
  /\ handed' = handed \cup {[ip |-> ipOf[c], set |-> new[c].set, made |-> new[c].made, at |-> clock, boot |-> boots]}
  /\ pc' = [pc EXCEPT ![c] = "idle"]
  /\ ipOf' = [ipOf EXCEPT ![c] = NoIP]
  /\ new' = [new EXCEPT ![c] = NoSet]
  /\ UNCHANGED <<clock, mu, tx, table, lastSet, unsaved, boots, calls>>

\* SetFor records the session, whose lifetime counts from the time read at the
\* start, and returns.
Record(c) ==
  /\ pc[c] = "saved"
  /\ sessions' = [sessions EXCEPT ![ipOf[c]] = [set |-> new[c].set, expires |-> new[c].made + TTL]]
  /\ Return(c, new[c].set, new[c].made)
  /\ new' = [new EXCEPT ![c] = NoSet]
  /\ UNCHANGED <<clock, tx, table, lastSet, unsaved, boots, calls>>

\* A new process starts with memory only and the table as it was committed.
Restart ==
  /\ boots < MaxBoots
  /\ boots' = boots + 1
  /\ pc' = [c \in Callers |-> "idle"]
  /\ ipOf' = [c \in Callers |-> NoIP]
  /\ mu' = NoCaller
  /\ sessions' = [ip \in IPs |-> NoSet]
  /\ new' = [c \in Callers |-> NoSet]
  /\ tx' = [c \in Callers |-> {}]
  /\ UNCHANGED <<clock, table, lastSet, unsaved, handed, calls>>

SetFor(c) ==
  \/ Reuse(c)
  \/ Create(c)
  \/ Insert(c)
  \/ Commit(c)
  \/ SaveFails(c)
  \/ Record(c)

Next ==
  \/ TimePasses
  \/ \E c \in Callers : (\E ip \in IPs : Call(c, ip)) \/ SetFor(c)
  \/ Restart

Spec == Init /\ [][Next]_vars

\* The goroutines run, SQLite answers (busy_timeout bounds every statement),
\* and the mutex is granted: sync.Mutex hands itself to a waiter that was
\* overtaken for a millisecond.
FairSpec ==
  /\ Spec
  /\ \A c \in Callers : /\ WF_vars(Insert(c) \/ Commit(c) \/ SaveFails(c))
                        /\ WF_vars(Record(c))
                        /\ SF_vars(Reuse(c) \/ Create(c))

-----------------------------------------------------------------------------
Row == [set : 1..MaxCalls, kind : {AllKinds[i] : i \in DOMAIN AllKinds},
        value : Pool \cup 1..MaxCalls, ip : IPs]

TypeOK ==
  /\ clock \in 0..MaxTime
  /\ pc \in [Callers -> {"idle", "waiting", "saving", "saved"}]
  /\ ipOf \in [Callers -> IPs \cup {NoIP}]
  /\ mu \in Callers \cup {NoCaller}
  /\ \A c \in Callers : mu = c <=> pc[c] \in {"saving", "saved"}
  /\ sessions \in [IPs -> [set : 1..lastSet, expires : TTL..(clock + TTL)] \cup {NoSet}]
  /\ new \in [Callers -> [set : 1..lastSet, made : 0..clock] \cup {NoSet}]
  /\ tx \in [Callers -> SUBSET Row]
  /\ table \subseteq Row
  /\ lastSet \in 0..MaxCalls
  /\ unsaved \subseteq 1..lastSet
  /\ boots \in 1..MaxBoots
  /\ handed \subseteq [ip : IPs, set : 1..lastSet, made : 0..clock, at : 0..clock, boot : 1..boots]
  /\ calls \in 0..MaxCalls

\* What somebody has seen can be traced: the rows of a set are in the table
\* before the set is handed out and for ever, with the source they were made
\* for, unless its save failed.
HandedIsTraceable ==
  \A h \in handed :
    h.set \in unsaved \/ \A i \in DOMAIN AllKinds :
      \E row \in table : row.set = h.set /\ row.kind = AllKinds[i] /\ row.ip = h.ip

\* All the rows of a set are in the table or none is, whatever failed and
\* whenever the process died.
AllOrNothing ==
  \A s \in 1..lastSet : Cardinality({row \in table : row.set = s}) \in {0, Len(AllKinds)}

\* SetFor returns, although it waits for the mutex behind a database write of
\* another caller: no decoy is stuck in it.
SetForReturns == \A c \in Callers : pc[c] # "idle" ~> pc[c] = "idle"

\* The detailed registry implements the abstract one.
RegistrySession(s) == IF s = NoSet THEN NoSet ELSE [set |-> s.set, made |-> s.expires - TTL]

Promise == INSTANCE Registry WITH
  SetIds <- 1..MaxCalls,
  current <- [ip \in IPs |-> RegistrySession(sessions[ip])],
  handed <- {[ip |-> h.ip, set |-> h.set, at |-> h.at] : h \in handed}

ImplementsRegistry == Promise!Spec
=============================================================================
