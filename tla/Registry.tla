------------------------------ MODULE Registry ------------------------------
(***************************************************************************)
(* What the canary registry of internal/canary promises its callers,       *)
(* without the mutex, the database or the goroutines that wait: every      *)
(* source has at most one live set, a hand-out is that set or a new one,   *)
(* a set lives for TTL and belongs to the source it was made for.          *)
(***************************************************************************)
EXTENDS Integers

CONSTANTS
  IPs,      \* source addresses
  SetIds,   \* identifiers of canary sets
  NoSet,    \* "this source never had a set since the process started"
  TTL       \* lifetime of a set

VARIABLES
  clock,    \* the current time
  current,  \* the last set of each source and the time it was made
  handed    \* every hand-out: to whom, which set, when

vars == <<clock, current, handed>>

Init ==
  /\ clock = 0
  /\ current = [ip \in IPs |-> NoSet]
  /\ handed = {}

\* The last set of ip was still live at t.
LiveAt(ip, t) == current[ip] # NoSet /\ t < current[ip].made + TTL

HandOut(ip, s) == handed' = handed \cup {[ip |-> ip, set |-> s, at |-> clock]}

\* A caller gets the live set.
Keep(ip) ==
  /\ LiveAt(ip, clock)
  /\ HandOut(ip, current[ip].set)
  /\ UNCHANGED <<clock, current>>

\* A caller gets a set nobody has seen. It was made at some moment since the
\* set before expired; making it may have taken time.
Renew(ip) ==
  \E s \in SetIds, t \in 0..clock :
    /\ ~LiveAt(ip, t)
    /\ \A h \in handed : h.set # s
    /\ current' = [current EXCEPT ![ip] = [set |-> s, made |-> t]]
    /\ HandOut(ip, s)
    /\ UNCHANGED clock

TimePasses == clock' = clock + 1 /\ UNCHANGED <<current, handed>>

\* The process restarts: the registry is in memory only.
Forget == current' = [ip \in IPs |-> NoSet] /\ UNCHANGED <<clock, handed>>

Next == (\E ip \in IPs : Keep(ip) \/ Renew(ip)) \/ TimePasses \/ Forget

Spec == Init /\ [][Next]_vars
=============================================================================
