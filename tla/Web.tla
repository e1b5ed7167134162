--------------------------------- MODULE Web ---------------------------------
(***************************************************************************)
(* The HTTP decoy of internal/decoy/web/server.go: one goroutine per       *)
(* request, which turns away a quarantined source, and otherwise builds    *)
(* the event, takes the source's canary set where the page needs one,      *)
(* publishes the event and serves the bait.                                *)
(*                                                                         *)
(* The canary registry is module Registry, shared by all requests; the     *)
(* quarantine is the set of sources for which the tracker's IsBlocked      *)
(* answers yes, and changes at any moment. The pages are reduced to the    *)
(* canary set they show. Module Decoys runs it beside the other decoys.    *)
(***************************************************************************)
EXTENDS Integers, FiniteSets

CONSTANTS
  Reqs,     \* requests
  IPs,      \* source addresses
  Trusted,  \* the addresses of IPs that are trusted proxies
  NoIP,     \* a request without X-Real-IP and X-Forwarded-For
  SetIds,   \* identifiers of canary sets
  NoSet,    \* no canary set
  NoReq,    \* a request that has not come yet
  TTL,      \* lifetime of a canary set
  MaxTime   \* bound of the clock

VARIABLES
  clock, current, handed,  \* the canary registry (module Registry)
  blocked,    \* the quarantined sources
  pc,         \* where the goroutine of each request is
  req,        \* each request: its peer, the address its headers claim, its page
  set,        \* the canary set the handler took
  hot,        \* history: the peer was quarantined ever since the request came
  published,  \* the events given to Bus.Publish
  served      \* history: the responses

vars == <<clock, current, handed, blocked, pc, req, set, hot, published, served>>

R == INSTANCE Registry

\* A POST of credentials to /admin/login, or an admin page asked for with the
\* cookie: a page for which the handler takes the canary set. Everything else.
Pages == {"planted", "plain"}

Requests == [peer : IPs, claims : IPs \cup {NoIP}, page : Pages]

Init ==
  /\ R!Init
  /\ blocked = {}
  /\ pc = [r \in Reqs |-> "idle"]
  /\ req = [r \in Reqs |-> NoReq]
  /\ set = [r \in Reqs |-> NoSet]
  /\ hot = [r \in Reqs |-> FALSE]
  /\ published = {}
  /\ served = {}

\* The headers are believed whoever sends them.
ClientIPBelieving(q) == IF q.claims # NoIP THEN q.claims ELSE q.peer

ClientIP(q) == IF q.peer \in Trusted /\ q.claims # NoIP THEN q.claims ELSE q.peer

Goto(r, from, to) == pc[r] = from /\ pc' = [pc EXCEPT ![r] = to]

-----------------------------------------------------------------------------
TimePasses ==
  /\ clock < MaxTime
  /\ R!TimePasses
  /\ UNCHANGED <<blocked, pc, req, set, hot, published, served>>

\* The tracker, in the dispatcher's goroutine, starts a quarantine.
Quarantine(ip) ==
  /\ ip \notin blocked
  /\ blocked' = blocked \cup {ip}
  /\ UNCHANGED <<clock, current, handed, pc, req, set, hot, published, served>>

\* A quarantine ends.
Release(ip) ==
  /\ ip \in blocked
  /\ blocked' = blocked \ {ip}
  /\ hot' = [r \in Reqs |-> hot[r] /\ req[r].peer # ip]
  /\ UNCHANGED <<clock, current, handed, pc, req, set, published, served>>

Arrive(r, q) ==
  /\ Goto(r, "idle", "arrived")
  /\ req' = [req EXCEPT ![r] = q]
  /\ hot' = [hot EXCEPT ![r] = q.peer \in blocked]
  /\ UNCHANGED <<clock, current, handed, blocked, set, published, served>>

\* `spared': the bait came although the source was quarantined from the
\* request on.
Respond(r, status, s) ==
  served' = served \cup {[req |-> r, status |-> status, set |-> s, spared |-> hot[r] /\ status = 200]}

\* ServeHTTP asks the tracker about the address it derived. A quarantined
\* source gets a late 403, and no event is made of its request.
Absorb(r) ==
  /\ Goto(r, "arrived", "done")
  /\ ClientIP(req[r]) \in blocked
  /\ Respond(r, 403, NoSet)
  /\ UNCHANGED <<clock, current, handed, blocked, req, set, hot, published>>

\* The request is read and classified; a planted page takes a set.
Capture(r) ==
  /\ Goto(r, "arrived", IF req[r].page = "plain" THEN "publishing" ELSE "planting")
  /\ ClientIP(req[r]) \notin blocked
  /\ UNCHANGED <<clock, current, handed, blocked, req, set, hot, published, served>>

\* The set is taken for the peer, which may be a proxy of many sources.
PlantForPeer(r) ==
  /\ Goto(r, "planting", "publishing")
  /\ LET ip == req[r].peer IN
       /\ R!Keep(ip) \/ R!Renew(ip)
       /\ set' = [set EXCEPT ![r] = current'[ip].set]
  /\ UNCHANGED <<blocked, req, hot, published, served>>

Plant(r) ==
  /\ Goto(r, "planting", "publishing")
  /\ LET ip == ClientIP(req[r]) IN
       /\ R!Keep(ip) \/ R!Renew(ip)
       /\ set' = [set EXCEPT ![r] = current'[ip].set]
  /\ UNCHANGED <<blocked, req, hot, published, served>>

Publish(r) ==
  /\ Goto(r, "publishing", "serving")
  /\ published' = published \cup {[req |-> r, ip |-> ClientIP(req[r]), canary |-> set[r]]}
  /\ UNCHANGED <<clock, current, handed, blocked, req, set, hot, served>>

\* The bait, the dashboard with the values of the set, or the redirect whose
\* cookie is the set's id.
Serve(r) ==
  /\ Goto(r, "serving", "done")
  /\ Respond(r, 200, set[r])
  /\ UNCHANGED <<clock, current, handed, blocked, req, set, hot, published>>

ServeHTTP(r) == Absorb(r) \/ Capture(r) \/ Plant(r) \/ Publish(r) \/ Serve(r)

-----------------------------------------------------------------------------
TypeOK ==
  /\ clock \in 0..MaxTime
  /\ blocked \subseteq IPs
  /\ pc \in [Reqs -> {"idle", "arrived", "planting", "publishing", "serving", "done"}]
  /\ req \in [Reqs -> Requests \cup {NoReq}]
  /\ \A r \in Reqs : req[r] = NoReq <=> pc[r] = "idle"
  /\ set \in [Reqs -> SetIds \cup {NoSet}]
  /\ \A r \in Reqs : pc[r] \in {"publishing", "serving"} => (set[r] = NoSet <=> req[r].page = "plain")
  /\ hot \in [Reqs -> BOOLEAN]
  /\ published \subseteq [req : Reqs, ip : IPs, canary : SetIds \cup {NoSet}]
  /\ served \subseteq [req : Reqs, status : {200, 403}, set : SetIds \cup {NoSet}, spared : BOOLEAN]

\* Bait never leaves unrecorded: a response that is not the 403 comes after
\* the event of its request, which names the canary set the response shows.
BaitIsPublished ==
  \A s \in served : s.status = 200 =>
    \E e \in published : e.req = s.req /\ e.canary = s.set

\* What a page shows leads back: its set was made for the one address the
\* event names, whatever headers the request carried and although sets are
\* replaced while handlers run (docs/security.md, canary hits).
BaitIsAttributable ==
  \A e \in published : e.canary # NoSet =>
    /\ \E h \in handed : h.set = e.canary
    /\ \A h \in handed : h.set = e.canary => h.ip = e.ip

\* No header gets a quarantined source its bait: a request that is not from a
\* trusted proxy, and whose peer is quarantined from its arrival to its end,
\* gets the 403.
SpoofingIsUseless ==
  \A s \in served : s.spared => req[s.req].peer \in Trusted
=============================================================================
