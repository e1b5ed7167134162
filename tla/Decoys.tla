------------------------------- MODULE Decoys -------------------------------
(***************************************************************************)
(* The three decoys as main.go runs them: in one process, on one canary    *)
(* registry and under one quarantine (main.go:116-206 hands the same       *)
(* registry, tracker and bus to the HTTP, Redis and SSH servers). A source *)
(* that talks to several of them at once is handed sets in one of them     *)
(* that another replaces, and is slowed or turned away in all.             *)
(***************************************************************************)
EXTENDS Integers, FiniteSetsExt

CONSTANTS
  Reqs, RedisConns, SshConns,  \* requests and connections
  Chans,        \* session channels of an SSH connection
  IPs, Trusted, NoIP,
  SetIds, NoSet, NoReq,
  TTL,          \* lifetime of a canary set
  MaxTime,      \* bound of the clock
  MaxClients,   \* bound of the requests and connections that come at all
  Suspects,     \* bound of the sources that are ever quarantined
  MaxInputs,    \* bound of the requests, commands and credentials
  MaxCommands,  \* bound of the commands of a Redis connection or an SSH session
  MaxLogins     \* bound of the credentials of an SSH connection

ASSUME IPsAssumption == NoIP \notin IPs /\ Trusted \subseteq IPs /\ Suspects \subseteq IPs
ASSUME NoSetAssumption == NoSet \notin SetIds
ASSUME MaxTimeAssumption == MaxTime \in Nat
ASSUME MaxInputsAssumption == MaxCommands \in Nat /\ MaxLogins \in Nat

VARIABLES
  clock, current, handed, blocked,                                \* shared
  webPc, req, set, hot, webPublished, served,                     \* module Web
  redisPc, redisHost, ks, read, call, redisPublished, replies,    \* module Redis
  sshPc, sshHost, metaSet, logins, chan, sshPublished, answers    \* module Ssh

webVars == <<webPc, req, set, hot, webPublished, served>>
redisVars == <<redisPc, redisHost, ks, read, call, redisPublished, replies>>
sshVars == <<sshPc, sshHost, metaSet, logins, chan, sshPublished, answers>>
vars == <<clock, current, handed, blocked, webVars, redisVars, sshVars>>

W == INSTANCE Web WITH pc <- webPc, published <- webPublished
D == INSTANCE Redis WITH Conns <- RedisConns, pc <- redisPc, host <- redisHost,
                         published <- redisPublished
S == INSTANCE Ssh WITH Conns <- SshConns, pc <- sshPc, host <- sshHost,
                       published <- sshPublished

ASSUME NoReqAssumption == NoReq \notin W!Requests

Init == W!Init /\ D!Init /\ S!Init

-----------------------------------------------------------------------------
TimePasses == W!TimePasses /\ D!TimePasses /\ S!TimePasses

Quarantine(ip) == W!Quarantine(ip) /\ D!Quarantine(ip) /\ S!Quarantine(ip)

Release(ip) == W!Release(ip) /\ D!Release(ip) /\ S!Release(ip)

Requests == Cardinality({r \in Reqs : webPc[r] # "idle"})

\* The requests and connections that have come.
Clients ==
  Requests
  + Cardinality({c \in RedisConns : redisPc[c] # "idle"})
  + Cardinality({c \in SshConns : sshPc[c] # "idle"})

\* The requests, commands and credentials that have come.
Inputs ==
  Requests
  + MapThenSumSet(LAMBDA c : read[c], RedisConns)
  + MapThenSumSet(LAMBDA c : logins[c], SshConns) + S!Commands

\* Requests and connections are numbered as they come: c is the next of its
\* kind.
Comes(c, Kind, pc) ==
  /\ Clients < MaxClients
  /\ pc[c] = "idle"
  /\ c = CHOOSE d \in Kind : pc[d] = "idle"

WebComes(r) ==
  /\ Comes(r, Reqs, webPc)
  /\ Inputs < MaxInputs
  /\ \E q \in W!Requests : W!Arrive(r, q)
  /\ UNCHANGED <<redisVars, sshVars>>

RedisComes(c) ==
  /\ Comes(c, RedisConns, redisPc)
  /\ \E ip \in IPs : D!Seed(c, ip)
  /\ UNCHANGED <<webVars, sshVars>>

SshComes(c) ==
  /\ Comes(c, SshConns, sshPc)
  /\ \E ip \in IPs : S!Accept(c, ip)
  /\ UNCHANGED <<webVars, redisVars>>

WebServes(r) == W!ServeHTTP(r) /\ UNCHANGED <<redisVars, sshVars>>

RedisServes(c) ==
  /\ D!HandleConn(c)
  /\ UNCHANGED <<webVars, sshVars>>
  /\ Inputs' <= MaxInputs

SshServes(c) ==
  /\ S!HandleConn(c)
  /\ UNCHANGED <<webVars, redisVars>>
  /\ Inputs' <= MaxInputs

Next ==
  \/ TimePasses
  \/ \E ip \in Suspects : Quarantine(ip) \/ Release(ip)
  \/ \E r \in Reqs : WebComes(r) \/ WebServes(r)
  \/ \E c \in RedisConns : RedisComes(c) \/ RedisServes(c)
  \/ \E c \in SshConns : SshComes(c) \/ SshServes(c)

Spec == Init /\ [][Next]_vars

-----------------------------------------------------------------------------
TypeOK == W!TypeOK /\ D!TypeOK /\ S!TypeOK

\* Bait never leaves unrecorded. A page comes after the event of its request
\* and an SSH answer after the event of its command, and the event names the
\* set that was shown; a Redis reply comes before its event, which is missing
\* only when the reply could not be written.
BaitIsRecorded ==
  /\ W!BaitIsPublished
  /\ D!OnlyFailedRepliesUnpublished
  /\ S!AnswerIsPublished

\* What was shown leads back to one address, whatever headers a request
\* carries, and although the other decoys replace a source's expired set while
\* a handler holds on to the old one (docs/security.md, canary hits).
BaitIsAttributable ==
  /\ W!BaitIsAttributable
  /\ D!ReplyIsAttributable
  /\ S!SessionSetWasAnnounced

\* README.en.md:122-123: the quarantine is shared. A source quarantined from
\* the arrival of a request or command to its answer gets the 403, whatever
\* headers it sends, or a late answer; AUTH and exit are the exceptions.
QuarantineIsShared ==
  /\ W!SpoofingIsUseless
  /\ D!SlowedUnlessAuth
  /\ S!SlowedUnlessExit

\* The events of a Redis connection are published in the order of its commands.
PublishedInOrder == D!PublishedInOrder
=============================================================================
