---------------------------- MODULE DecoysProofs ----------------------------
(***************************************************************************)
(* Proofs about module Decoys: whatever the three decoys show is recorded  *)
(* and leads back to one source, a quarantined source is slowed by all of  *)
(* them, and a Redis connection is published in order, for any number of   *)
(* requests, connections, channels, sources and sets.                      *)
(***************************************************************************)
EXTENDS Decoys, Sequences, TLAPS

R == INSTANCE Registry

\* The set s was handed to ip, and to nobody else.
Owned(s, ip) ==
  /\ \E h \in handed : h.set = s /\ h.ip = ip
  /\ \A h \in handed : h.set = s => h.ip = ip

RegistryInv ==
  /\ current \in [IPs -> [set : SetIds, made : Int] \cup {NoSet}]
  /\ \A ip \in IPs : current[ip] # NoSet => Owned(current[ip].set, ip)
  /\ blocked \subseteq IPs

-----------------------------------------------------------------------------
(* The HTTP decoy.                                                         *)

\* A request on its way.
WebRequest(r) ==
  /\ webPc[r] \in {"idle", "arrived", "planting"} => set[r] = NoSet
  /\ set[r] # NoSet => Owned(set[r], W!ClientIP(req[r]))
  /\ webPc[r] = "planting" => req[r].page # "plain"
  /\ hot[r] => webPc[r] # "idle" /\ req[r].peer \in blocked
  /\ hot[r] /\ webPc[r] \in {"planting", "publishing", "serving"} => req[r].peer \in Trusted
  /\ webPc[r] = "serving" => \E e \in webPublished : e.req = r /\ e.canary = set[r]

\* What was published and served.
WebRecord ==
  /\ \A e \in webPublished : e.canary # NoSet => Owned(e.canary, e.ip)
  /\ \A s \in served : webPc[s.req] = "done"
  /\ W!BaitIsPublished /\ W!SpoofingIsUseless

WebInv == W!TypeOK /\ WebRecord /\ \A r \in Reqs : WebRequest(r)

-----------------------------------------------------------------------------
(* The Redis decoy.                                                        *)

RedisEvents == [action : {"connect", "auth", "cmd"}, n : Nat, canary : SetIds \cup {NoSet}]

Calls == [name : {"AUTH", "CMD"}, slow : BOOLEAN, linked : SetIds \cup {NoSet}, hot : BOOLEAN]
Replies == [conn : RedisConns, n : Nat, name : {"AUTH", "CMD"}, set : SetIds \cup {NoSet},
            failed : BOOLEAN, spared : BOOLEAN]

RedisTypes ==
  /\ redisPc \in [RedisConns -> {"idle", "seeded", "reading", "auth", "auth_publish",
                                 "auth_reply", "cmd", "reply", "publish", "closed"}]
  /\ redisHost \in [RedisConns -> IPs \cup {NoIP}]
  /\ ks \in [RedisConns -> SetIds \cup {NoSet}]
  /\ read \in [RedisConns -> Nat]
  /\ call \in [RedisConns -> Calls]
  /\ redisPublished \in [RedisConns -> Seq(RedisEvents)]
  /\ replies \subseteq Replies

\* A connection: its source and set, and the command in hand.
RedisConn(c) ==
  /\ redisPc[c] \in {"idle", "seeded"} => read[c] = 0 /\ redisPublished[c] = <<>>
  /\ redisPc[c] # "idle" => redisHost[c] \in IPs /\ ks[c] \in SetIds /\ Owned(ks[c], redisHost[c])
  /\ redisPc[c] \in {"auth", "auth_publish", "auth_reply"} => call[c].name = "AUTH"
  /\ redisPc[c] \in {"cmd", "reply", "publish"} => call[c].name = "CMD"
  /\ call[c].hot => redisPc[c] # "idle" /\ redisHost[c] \in blocked
  /\ redisPc[c] = "reply" /\ call[c].hot => call[c].slow

\* What a connection published: the command in hand only once serve got there.
RedisOrder(c) ==
  /\ \A i \in DOMAIN redisPublished[c] : LET e == redisPublished[c][i] IN
       /\ e.n <= read[c]
       /\ redisPc[c] \in {"auth", "auth_publish", "cmd", "reply", "publish"} => e.n < read[c]
       /\ e.action = "cmd" => e.canary = ks[c]
       /\ e.n >= i - 1
       /\ i > 1 => redisPublished[c][i - 1].n < e.n
  /\ redisPc[c] = "auth_reply" => D!Published(c, read[c])

\* A reply: the command in hand has none before its turn.
RedisReply(r) ==
  /\ redisPc[r.conn] # "idle" /\ r.n <= read[r.conn]
  /\ redisPc[r.conn] \in {"auth", "auth_publish", "auth_reply", "cmd", "reply"} => r.n < read[r.conn]
  /\ redisPc[r.conn] = "publish" /\ r.n = read[r.conn] => ~r.failed
  /\ r.set # NoSet => r.set = ks[r.conn]
  /\ r.spared => r.name = "AUTH"

RedisInv ==
  /\ RedisTypes
  /\ \A c \in RedisConns : RedisConn(c)
  /\ \A c \in RedisConns : RedisOrder(c)
  /\ \A r \in replies : RedisReply(r)
  /\ D!OnlyFailedRepliesUnpublished

-----------------------------------------------------------------------------
(* The SSH decoy.                                                          *)

Sessions == [at : {"none", "reading", "exec", "leaving", "publishing", "answering", "closed"},
             set : SetIds \cup {NoSet}, kind : {"run", "exit"}, n : Nat, slow : BOOLEAN, hot : BOOLEAN]

SshTypes ==
  /\ sshPc \in [SshConns -> {"idle", "handshake", "login", "open", "closed"}]
  /\ sshHost \in [SshConns -> IPs \cup {NoIP}]
  /\ metaSet \in [SshConns -> SetIds \cup {NoSet}]
  /\ logins \in [SshConns -> Nat]
  /\ chan \in [SshConns -> [Chans -> Sessions]]
  /\ sshPublished = [c \in SshConns |-> sshPublished[c]]
  /\ \A a \in answers : a.conn \in SshConns

Announced(c, s) == \E e \in sshPublished[c] : e.action = "login" /\ e.canary = s

\* A connection: the set of its last login is announced outside the callback.
SshConn(c) ==
  /\ sshPc[c] = "idle" => logins[c] = 0
  /\ sshPc[c] # "idle" => sshHost[c] \in IPs
  /\ sshPc[c] = "login" \/ (sshPc[c] \in {"handshake", "open"} /\ logins[c] > 0) => Owned(metaSet[c], sshHost[c])
  /\ sshPc[c] \in {"handshake", "open"} /\ logins[c] > 0 => Announced(c, metaSet[c])
  /\ sshPc[c] = "open" => logins[c] > 0

\* A session: its set, and the command in hand.
SshSession(c, k) ==
  LET s == chan[c][k] IN
  /\ s.at # "none" => sshPc[c] = "open"
  /\ s.at \notin {"none", "closed"} => Owned(s.set, sshHost[c]) /\ Announced(c, s.set)
  /\ s.at = "leaving" => s.kind = "exit"
  /\ s.hot => s.at # "none" /\ sshHost[c] \in blocked
  /\ s.at \in {"publishing", "answering"} /\ s.hot => s.slow
  /\ s.at = "answering" =>
       \E e \in sshPublished[c] : e.action = "cmd" /\ e.chan = k /\ e.n = s.n /\ e.canary = s.set

SshInv ==
  /\ SshTypes
  /\ \A c \in SshConns : SshConn(c)
  /\ \A c \in SshConns, k \in Chans : SshSession(c, k)
  /\ S!AnswerIsPublished /\ S!SlowedUnlessExit

IInv == RegistryInv /\ WebInv /\ RedisInv /\ SshInv

-----------------------------------------------------------------------------
(* The registry.                                                           *)

\* What belongs to a source stays its own.
Kept == \A s, ip : Owned(s, ip) => Owned(s, ip)'

\* A hand-out belongs to the caller, whether it is the live set or a new one.
LEMMA HandOutIsOwned ==
  ASSUME RegistryInv, NEW ip \in IPs, R!Keep(ip) \/ R!Renew(ip), blocked' = blocked
  PROVE  /\ RegistryInv' /\ Kept
         /\ current'[ip].set \in SetIds /\ Owned(current[ip].set, ip)'
<1>1. CASE R!Keep(ip)
  <2> USE <1>1 DEF R!Keep, R!HandOut, R!LiveAt
  <2>1. PICK s \in SetIds : s = current[ip].set /\ Owned(s, ip) /\ current' = current
    BY DEF RegistryInv
  <2>2. handed' = handed \cup {[ip |-> ip, set |-> s, at |-> clock]}
    BY <2>1
  <2>3. Kept /\ Owned(s, ip)'
    BY <2>1, <2>2 DEF Kept, Owned
  <2>4. RegistryInv'
    BY <2>1, <2>3 DEF RegistryInv, Kept
  <2> QED
    BY <2>1, <2>3, <2>4
<1>2. CASE R!Renew(ip)
  <2>1. PICK s \in SetIds, t \in 0..clock :
          /\ \A h \in handed : h.set # s
          /\ current' = [current EXCEPT ![ip] = [set |-> s, made |-> t]]
          /\ handed' = handed \cup {[ip |-> ip, set |-> s, at |-> clock]}
    BY <1>2 DEF R!Renew, R!HandOut
  <2>2. Kept
    BY <2>1 DEF Kept, Owned
  <2>3. \A h \in handed' : h.set = s => h.ip = ip
    BY <2>1
  <2>4. current'[ip] = [set |-> s, made |-> t]
    BY <2>1 DEF RegistryInv
  <2>5. Owned(current[ip].set, ip)' /\ current'[ip].set \in SetIds
    <3>1. current'[ip].set = s
      BY <2>4
    <3>2. \E h \in handed' : h.set = s /\ h.ip = ip
      <4> DEFINE new == [ip |-> ip, set |-> s, at |-> clock]
      <4>1. new.set = s /\ new.ip = ip
        OBVIOUS
      <4>2. new \in handed'
        BY <2>1
      <4> HIDE DEF new
      <4> QED
        BY <4>1, <4>2
    <3> QED
      BY <2>3, <3>1, <3>2 DEF Owned
  <2>6. RegistryInv'
    <3>1. current' \in [IPs -> [set : SetIds, made : Int] \cup {NoSet}]
      BY <2>1 DEF RegistryInv
    <3>2. \A o \in IPs : current'[o] # NoSet => Owned(current[o].set, o)'
      <4> TAKE o \in IPs
      <4>1. CASE o = ip
        BY <4>1, <2>5
      <4>2. CASE o # ip
        <5>1. current'[o] = current[o]
          BY <4>2, <2>1 DEF RegistryInv
        <5> QED
          BY <5>1, <2>2 DEF RegistryInv, Kept, Owned
      <4> QED
        BY <4>1, <4>2
    <3> QED
      BY <3>1, <3>2 DEF RegistryInv, Owned
  <2> QED
    BY <2>2, <2>5, <2>6
<1> QED
  BY <1>1, <1>2

\* Steps without a hand-out.
LEMMA RegistryFrame ==
  ASSUME RegistryInv, UNCHANGED <<current, handed>>, blocked' \subseteq IPs
  PROVE  RegistryInv' /\ Kept
  BY DEF RegistryInv, Kept, Owned

-----------------------------------------------------------------------------
(* Steps of others: sets stay where they belong, sources may be quarantined *)
(* but not released.                                                       *)

Elsewhere == Kept /\ blocked \subseteq blocked' /\ blocked' \subseteq IPs /\ clock' \in 0..MaxTime

LEMMA WebFrame ==
  ASSUME WebInv, Elsewhere, UNCHANGED webVars
  PROVE  WebInv'
<1> USE DEF Elsewhere, webVars, Kept
<1>1. W!TypeOK'
  BY DEF WebInv, W!TypeOK
<1>2. WebRecord'
  BY DEF WebInv, WebRecord, W!BaitIsPublished, W!SpoofingIsUseless
<1>3. \A r \in Reqs : WebRequest(r)'
  BY DEF WebInv, WebRequest, W!ClientIP
<1> QED
  BY <1>1, <1>2, <1>3 DEF WebInv

LEMMA RedisFrame ==
  ASSUME RedisInv, Elsewhere, UNCHANGED redisVars
  PROVE  RedisInv'
<1> USE DEF Elsewhere, redisVars, Kept
<1>1. RedisTypes'
  BY DEF RedisInv, RedisTypes
<1>2. \A c \in RedisConns : RedisConn(c)'
  BY DEF RedisInv, RedisConn
<1>3. \A c \in RedisConns : RedisOrder(c)'
  BY DEF RedisInv, RedisOrder, D!Published
<1>4. \A r \in replies' : RedisReply(r)'
  BY DEF RedisInv, RedisReply
<1>5. D!OnlyFailedRepliesUnpublished'
  BY DEF RedisInv, D!OnlyFailedRepliesUnpublished, D!Served, D!Published
<1> QED
  BY <1>1, <1>2, <1>3, <1>4, <1>5 DEF RedisInv

LEMMA SshFrame ==
  ASSUME SshInv, Elsewhere, UNCHANGED sshVars
  PROVE  SshInv'
<1> USE DEF Elsewhere, sshVars, Kept
<1>1. SshTypes'
  BY DEF SshInv, SshTypes
<1>2. \A c \in SshConns : SshConn(c)'
  BY DEF SshInv, SshConn, Announced
<1>3. \A c \in SshConns, k \in Chans : SshSession(c, k)'
  BY DEF SshInv, SshSession, Announced
<1>4. S!AnswerIsPublished' /\ S!SlowedUnlessExit'
  BY DEF SshInv, S!AnswerIsPublished, S!SlowedUnlessExit
<1> QED
  BY <1>1, <1>2, <1>3, <1>4 DEF SshInv

-----------------------------------------------------------------------------
(* Steps of the HTTP decoy.                                                *)

LEMMA ClientIPIsSource ==
  ASSUME NEW q \in W!Requests
  PROVE  W!ClientIP(q) \in IPs
  BY DEF W!Requests, W!ClientIP

LEMMA WebArrives ==
  ASSUME RegistryInv, WebInv, NEW r \in Reqs, NEW q \in W!Requests, W!Arrive(r, q)
  PROVE  RegistryInv' /\ WebInv' /\ Elsewhere
<1> USE DEF W!Arrive, W!Goto
<1>1. RegistryInv' /\ Kept
  BY RegistryFrame DEF RegistryInv
<1>2. Elsewhere
  BY <1>1 DEF Elsewhere, RegistryInv, WebInv, W!TypeOK
<1>3. W!TypeOK'
  BY NoReqAssumption DEF WebInv, W!TypeOK
<1>4. WebRecord'
  BY <1>1 DEF WebInv, W!TypeOK, WebRecord, W!BaitIsPublished, W!SpoofingIsUseless, Kept
<1>5. \A x \in Reqs : WebRequest(x)'
  BY <1>1 DEF WebInv, W!TypeOK, WebRequest, Kept, W!ClientIP
<1> QED
  BY <1>1, <1>2, <1>3, <1>4, <1>5 DEF WebInv

Responses == [req : Reqs, status : {200, 403}, set : SetIds \cup {NoSet}, spared : BOOLEAN]

LEMMA RespondAdds ==
  ASSUME W!TypeOK, NEW r \in Reqs, NEW status \in {200, 403}, NEW s \in SetIds \cup {NoSet},
         W!Respond(r, status, s)
  PROVE  /\ served' \subseteq Responses
         /\ \A x \in served' : x \in served
              \/ (x.req = r /\ x.status = status /\ x.set = s /\ (x.spared => hot[r] /\ status = 200))
<1>1. PICK b \in BOOLEAN : b = (hot[r] /\ status = 200)
  OBVIOUS
<1>2. served' = served \cup {[req |-> r, status |-> status, set |-> s, spared |-> b]}
  BY <1>1 DEF W!Respond
<1>3. [req |-> r, status |-> status, set |-> s, spared |-> b] \in Responses
  BY DEF Responses
<1>4. served \subseteq Responses
  BY DEF W!TypeOK, Responses
<1>5. b => hot[r] /\ status = 200
  BY <1>1
<1> QED
  BY <1>2, <1>3, <1>4, <1>5

LEMMA WebServed ==
  ASSUME RegistryInv, WebInv, NEW r \in Reqs, W!ServeHTTP(r)
  PROVE  RegistryInv' /\ WebInv' /\ Elsewhere
<1> USE DEF W!Goto
<1>1. req[r] \in W!Requests /\ W!ClientIP(req[r]) \in IPs
  BY ClientIPIsSource DEF WebInv, W!TypeOK, W!ServeHTTP, W!Absorb, W!Capture, W!Plant, W!Publish, W!Serve
<1>2. ASSUME W!Plant(r) PROVE RegistryInv' /\ WebInv' /\ Elsewhere
  <2> USE <1>2 DEF W!Plant
  <2> DEFINE ip == W!ClientIP(req[r])
  <2>1. /\ RegistryInv' /\ Kept
        /\ current'[ip].set \in SetIds /\ \A x : x = current'[ip].set => Owned(x, ip)'
    <3>1. PICK a \in IPs : a = ip
      BY <1>1
    <3>2. R!Keep(a) \/ R!Renew(a)
      BY <3>1 DEF W!R!Keep, W!R!Renew, W!R!LiveAt, W!R!HandOut, R!Keep, R!Renew, R!LiveAt, R!HandOut
    <3>3. RegistryInv' /\ Kept /\ current'[a].set \in SetIds /\ Owned(current[a].set, a)'
      BY <3>2, HandOutIsOwned
    <3> QED
      BY <3>1, <3>3 DEF Owned
  <2>2. set' = [set EXCEPT ![r] = current'[ip].set]
    OBVIOUS
  <2>3. Elsewhere
    BY <2>1 DEF Elsewhere, RegistryInv, WebInv, W!TypeOK, W!R!Keep, W!R!Renew
  <2>4. W!TypeOK'
    BY <2>1, <2>3, NoSetAssumption DEF Elsewhere, WebInv, WebRequest, W!TypeOK
  <2>5. WebRecord'
    BY <2>1 DEF WebInv, W!TypeOK, WebRecord, W!BaitIsPublished, W!SpoofingIsUseless, Kept
  <2>6. \A x \in Reqs : WebRequest(x)'
    BY <2>1 DEF WebInv, W!TypeOK, WebRequest, Kept, W!ClientIP
  <2> QED
    BY <2>1, <2>3, <2>4, <2>5, <2>6 DEF WebInv
<1>3. ASSUME W!Absorb(r) PROVE RegistryInv' /\ WebInv' /\ Elsewhere
  <2> USE <1>3 DEF W!Absorb
  <2>0. /\ served' \subseteq Responses
        /\ \A x \in served' : x \in served
             \/ (x.req = r /\ x.status = 403 /\ x.set = NoSet /\ (x.spared => hot[r] /\ 403 = 200))
    <3>1. PICK s \in SetIds \cup {NoSet} : s = NoSet
      BY DEF WebInv, W!TypeOK
    <3> QED
      BY <3>1, RespondAdds DEF WebInv
  <2>1. RegistryInv' /\ Kept
    BY RegistryFrame DEF RegistryInv
  <2>2. Elsewhere
    BY <2>1 DEF Elsewhere, RegistryInv, WebInv, W!TypeOK
  <2>3. W!TypeOK'
    <3>1. webPc' \in [Reqs -> {"idle", "arrived", "planting", "publishing", "serving", "done"}]
      BY DEF WebInv, W!TypeOK
    <3>2. /\ \A x \in Reqs : req[x] = NoReq <=> webPc'[x] = "idle"
          /\ \A x \in Reqs : webPc'[x] \in {"publishing", "serving"} => (set[x] = NoSet <=> req[x].page = "plain")
      BY <1>1 DEF WebInv, W!TypeOK, WebRequest, W!Requests, W!Pages
    <3>3. webPublished' \subseteq [req : Reqs, ip : IPs, canary : SetIds \cup {NoSet}]
      BY <1>1 DEF WebInv, W!TypeOK
    <3>4. served' \subseteq Responses
      BY <2>0 DEF WebInv, W!TypeOK
    <3> QED
      BY <3>1, <3>2, <3>3, <3>4 DEF Responses, WebInv, W!TypeOK
  <2>4. WebRecord'
    BY <1>1, <2>0, <2>1 DEF WebInv, W!TypeOK, WebRecord, WebRequest, W!BaitIsPublished, W!SpoofingIsUseless, Kept
  <2>5. \A x \in Reqs : WebRequest(x)'
    BY <1>1, <2>1 DEF WebInv, W!TypeOK, WebRequest, Kept, W!ClientIP
  <2> QED
    BY <2>1, <2>2, <2>3, <2>4, <2>5 DEF WebInv
<1>4. ASSUME W!Capture(r) PROVE RegistryInv' /\ WebInv' /\ Elsewhere
  <2> USE <1>4 DEF W!Capture
  <2>1. RegistryInv' /\ Kept
    BY RegistryFrame DEF RegistryInv
  <2>2. Elsewhere
    BY <2>1 DEF Elsewhere, RegistryInv, WebInv, W!TypeOK
  <2>3. W!TypeOK'
    <3>1. webPc' \in [Reqs -> {"idle", "arrived", "planting", "publishing", "serving", "done"}]
      BY DEF WebInv, W!TypeOK
    <3>2. /\ \A x \in Reqs : req[x] = NoReq <=> webPc'[x] = "idle"
          /\ \A x \in Reqs : webPc'[x] \in {"publishing", "serving"} => (set[x] = NoSet <=> req[x].page = "plain")
      BY <1>1 DEF WebInv, W!TypeOK, WebRequest, W!Requests, W!Pages
    <3>3. webPublished' \subseteq [req : Reqs, ip : IPs, canary : SetIds \cup {NoSet}]
      BY <1>1 DEF WebInv, W!TypeOK
    <3>4. served' \subseteq Responses
      BY DEF Responses, WebInv, W!TypeOK
    <3> QED
      BY <3>1, <3>2, <3>3, <3>4 DEF Responses, WebInv, W!TypeOK
  <2>4. WebRecord'
    BY <1>1, <2>1 DEF WebInv, W!TypeOK, WebRecord, WebRequest, W!BaitIsPublished, W!SpoofingIsUseless, Kept
  <2>5. \A x \in Reqs : WebRequest(x)'
    BY <1>1, <2>1 DEF WebInv, W!TypeOK, WebRequest, Kept, W!ClientIP
  <2> QED
    BY <2>1, <2>2, <2>3, <2>4, <2>5 DEF WebInv
<1>5. ASSUME W!Publish(r) PROVE RegistryInv' /\ WebInv' /\ Elsewhere
  <2> USE <1>5 DEF W!Publish
  <2>1. RegistryInv' /\ Kept
    BY RegistryFrame DEF RegistryInv
  <2>2. Elsewhere
    BY <2>1 DEF Elsewhere, RegistryInv, WebInv, W!TypeOK
  <2>3. W!TypeOK'
    <3>1. webPc' \in [Reqs -> {"idle", "arrived", "planting", "publishing", "serving", "done"}]
      BY DEF WebInv, W!TypeOK
    <3>2. /\ \A x \in Reqs : req[x] = NoReq <=> webPc'[x] = "idle"
          /\ \A x \in Reqs : webPc'[x] \in {"publishing", "serving"} => (set[x] = NoSet <=> req[x].page = "plain")
      BY <1>1 DEF WebInv, W!TypeOK, WebRequest, W!Requests, W!Pages
    <3>3. webPublished' \subseteq [req : Reqs, ip : IPs, canary : SetIds \cup {NoSet}]
      BY <1>1 DEF WebInv, W!TypeOK
    <3>4. served' \subseteq Responses
      BY DEF Responses, WebInv, W!TypeOK
    <3> QED
      BY <3>1, <3>2, <3>3, <3>4 DEF Responses, WebInv, W!TypeOK
  <2>4. WebRecord'
    BY <1>1, <2>1 DEF WebInv, W!TypeOK, WebRecord, WebRequest, W!BaitIsPublished, W!SpoofingIsUseless, Kept
  <2>5. \A x \in Reqs : WebRequest(x)'
    <3>1. webPc' = [webPc EXCEPT ![r] = "serving"] /\ DOMAIN webPc = Reqs
      BY DEF WebInv, W!TypeOK
    <3>2. [req |-> r, ip |-> W!ClientIP(req[r]), canary |-> set[r]] \in webPublished'
      OBVIOUS
    <3>3. \E e \in webPublished' : e.req = r /\ e.canary = set[r]
      BY <3>2
    <3>4. ASSUME NEW x \in Reqs PROVE WebRequest(x)'
      <4>1. CASE x = r
        BY <1>1, <2>1, <3>1, <3>3, <4>1 DEF WebInv, W!TypeOK, WebRequest, Kept, W!ClientIP
      <4>2. CASE x # r
        BY <2>1, <3>1, <4>2 DEF WebInv, WebRequest, Kept, W!ClientIP
      <4> QED
        BY <4>1, <4>2
    <3> QED
      BY <3>4
  <2> QED
    BY <2>1, <2>2, <2>3, <2>4, <2>5 DEF WebInv
<1>6. ASSUME W!Serve(r) PROVE RegistryInv' /\ WebInv' /\ Elsewhere
  <2> USE <1>6 DEF W!Serve
  <2>0. /\ served' \subseteq Responses
        /\ \A x \in served' : x \in served
             \/ (x.req = r /\ x.status = 200 /\ x.set = set[r] /\ (x.spared => hot[r] /\ 200 = 200))
    <3>1. PICK s \in SetIds \cup {NoSet} : s = set[r]
      BY DEF WebInv, W!TypeOK
    <3> QED
      BY <3>1, RespondAdds DEF WebInv
  <2>1. RegistryInv' /\ Kept
    BY RegistryFrame DEF RegistryInv
  <2>2. Elsewhere
    BY <2>1 DEF Elsewhere, RegistryInv, WebInv, W!TypeOK
  <2>3. W!TypeOK'
    <3>1. webPc' \in [Reqs -> {"idle", "arrived", "planting", "publishing", "serving", "done"}]
      BY DEF WebInv, W!TypeOK
    <3>2. /\ \A x \in Reqs : req[x] = NoReq <=> webPc'[x] = "idle"
          /\ \A x \in Reqs : webPc'[x] \in {"publishing", "serving"} => (set[x] = NoSet <=> req[x].page = "plain")
      BY <1>1 DEF WebInv, W!TypeOK, WebRequest, W!Requests, W!Pages
    <3>3. webPublished' \subseteq [req : Reqs, ip : IPs, canary : SetIds \cup {NoSet}]
      BY <1>1 DEF WebInv, W!TypeOK
    <3>4. served' \subseteq Responses
      BY <2>0 DEF WebInv, W!TypeOK
    <3> QED
      BY <3>1, <3>2, <3>3, <3>4 DEF Responses, WebInv, W!TypeOK
  <2>4. WebRecord'
    BY <1>1, <2>0, <2>1 DEF WebInv, W!TypeOK, WebRecord, WebRequest, W!BaitIsPublished, W!SpoofingIsUseless, Kept
  <2>5. \A x \in Reqs : WebRequest(x)'
    BY <1>1, <2>1 DEF WebInv, W!TypeOK, WebRequest, Kept, W!ClientIP
  <2> QED
    BY <2>1, <2>2, <2>3, <2>4, <2>5 DEF WebInv
<1> QED
  BY <1>2, <1>3, <1>4, <1>5, <1>6 DEF W!ServeHTTP

-----------------------------------------------------------------------------
(* Steps of the Redis decoy.                                               *)

LEMMA RedisFacts ==
  ASSUME RedisInv
  PROVE  /\ \A c \in RedisConns : /\ call[c] \in Calls /\ read[c] \in Nat /\ ks[c] \in SetIds \cup {NoSet}
                                 /\ call[c].name \in {"AUTH", "CMD"} /\ call[c].linked \in SetIds \cup {NoSet}
         /\ \A r \in replies : r.conn \in RedisConns /\ r.n \in Nat
<1>1. \A c \in RedisConns : call[c] \in Calls /\ read[c] \in Nat /\ ks[c] \in SetIds \cup {NoSet}
  BY DEF RedisInv, RedisTypes
<1>2. \A x \in Calls : x.name \in {"AUTH", "CMD"} /\ x.linked \in SetIds \cup {NoSet}
  BY DEF Calls
<1>3. \A x \in Replies : x.conn \in RedisConns /\ x.n \in Nat
  BY DEF Replies
<1> QED
  BY <1>1, <1>2, <1>3 DEF RedisInv, RedisTypes

\* The conjunct of OnlyFailedRepliesUnpublished for one connection.
OnlyFailed(c) ==
  \A n \in D!Served(c) :
    D!Published(c, n) <=> ~\E r \in replies : r.conn = c /\ r.n = n /\ r.failed /\ r.name = "CMD"

\* Only connection c takes part.
OnlyConn(c) ==
  /\ \A x \in RedisConns \ {c} :
       /\ redisPc'[x] = redisPc[x] /\ redisHost'[x] = redisHost[x] /\ ks'[x] = ks[x]
       /\ read'[x] = read[x] /\ call'[x] = call[x] /\ redisPublished'[x] = redisPublished[x]
  /\ replies \subseteq replies' /\ \A r \in replies' \ replies : r.conn = c

LEMMA RedisStep ==
  ASSUME RedisInv, NEW c \in RedisConns, Elsewhere, OnlyConn(c), RedisTypes',
         RedisConn(c)', RedisOrder(c)', OnlyFailed(c)',
         \A r \in replies' : r.conn = c => RedisReply(r)'
  PROVE  RedisInv'
<1> USE DEF OnlyConn
<1>1. \A x \in RedisConns : RedisConn(x)'
  BY DEF RedisInv, RedisConn, Elsewhere, Kept
<1>2. \A x \in RedisConns : RedisOrder(x)'
  BY DEF RedisInv, RedisOrder, D!Published
<1>3. \A r \in replies' : RedisReply(r)'
  <2>1. ASSUME NEW r \in replies', r.conn # c PROVE RedisReply(r)'
    <3>1. r \in replies /\ r.conn \in RedisConns \ {c} /\ RedisReply(r)
      BY <2>1, RedisFacts DEF RedisInv
    <3> QED
      BY <3>1 DEF RedisReply
  <2> QED
    BY <2>1
<1>4. D!OnlyFailedRepliesUnpublished'
  <2>1. ASSUME NEW x \in RedisConns PROVE OnlyFailed(x)'
    <3>1. CASE x # c
      <4>1. OnlyFailed(x)
        BY DEF RedisInv, D!OnlyFailedRepliesUnpublished, OnlyFailed
      <4>2. D!Served(x)' = D!Served(x)
        BY <3>1 DEF D!Served
      <4>3. \A n : D!Published(x, n)' <=> D!Published(x, n)
        BY <3>1 DEF D!Published
      <4>4. \A n : (\E r \in replies' : r.conn = x /\ r.n = n /\ r.failed /\ r.name = "CMD")
                <=> (\E r \in replies : r.conn = x /\ r.n = n /\ r.failed /\ r.name = "CMD")
        BY <3>1
      <4> QED
        BY <4>1, <4>2, <4>3, <4>4 DEF OnlyFailed
    <3> QED
      BY <3>1
  <2> QED
    BY <2>1 DEF D!OnlyFailedRepliesUnpublished, OnlyFailed
<1> QED
  BY <1>1, <1>2, <1>3, <1>4 DEF RedisInv

\* One more event in the order of the commands.
LEMMA AppendInOrder ==
  ASSUME NEW es \in Seq(RedisEvents), NEW e \in RedisEvents,
         \A i \in DOMAIN es : es[i].n < e.n /\ es[i].n >= i - 1 /\ (i > 1 => es[i - 1].n < es[i].n)
  PROVE  /\ Append(es, e) \in Seq(RedisEvents)
         /\ \A i \in DOMAIN Append(es, e) :
              /\ Append(es, e)[i] = (IF i = Len(es) + 1 THEN e ELSE es[i])
              /\ i = Len(es) + 1 \/ i \in DOMAIN es
              /\ Append(es, e)[i].n >= i - 1
              /\ i > 1 => Append(es, e)[i - 1].n < Append(es, e)[i].n
         /\ Len(es) + 1 \in DOMAIN Append(es, e) /\ DOMAIN es \subseteq DOMAIN Append(es, e)
<1> DEFINE es2 == Append(es, e)
<1>1. es2 \in Seq(RedisEvents) /\ Len(es2) = Len(es) + 1 /\ Len(es) \in Nat
  OBVIOUS
<1>2. DOMAIN es = 1..Len(es) /\ DOMAIN es2 = 1..(Len(es) + 1)
  BY <1>1
<1>3. es2[Len(es) + 1] = e /\ \A i \in 1..Len(es) : es2[i] = es[i]
  OBVIOUS
<1>4. e.n \in Nat /\ \A i \in 1..Len(es) : es[i].n \in Nat
  <2>1. \A i \in 1..Len(es) : es[i] \in RedisEvents
    OBVIOUS
  <2>2. \A x \in RedisEvents : x.n \in Nat
    BY DEF RedisEvents
  <2> QED
    BY <2>1, <2>2
<1> HIDE DEF es2
<1>5. ASSUME NEW i \in 1..(Len(es) + 1)
      PROVE  es2[i].n >= i - 1 /\ (i > 1 => es2[i - 1].n < es2[i].n)
  <2>1. CASE i \in 1..Len(es)
    <3>1. i > 1 => i - 1 \in 1..Len(es)
      BY <1>1, <2>1
    <3> QED
      BY <1>2, <1>3, <2>1, <3>1
  <2>2. CASE i = Len(es) + 1 /\ Len(es) = 0
    BY <1>3, <1>4, <2>2
  <2>3. CASE i = Len(es) + 1 /\ Len(es) > 0
    <3>1. Len(es) \in 1..Len(es)
      BY <1>1, <2>3
    <3>2. es[Len(es)].n < e.n /\ es[Len(es)].n >= Len(es) - 1 /\ es[Len(es)].n \in Nat
      BY <1>2, <1>4, <3>1
    <3> QED
      BY <1>1, <1>3, <1>4, <2>3, <3>1, <3>2
  <2> QED
    BY <1>1, <2>1, <2>2, <2>3
<1>6. \A i \in 1..(Len(es) + 1) : i = Len(es) + 1 \/ i \in 1..Len(es)
  BY <1>1
<1>7. Len(es) + 1 \in 1..(Len(es) + 1) /\ 1..Len(es) \subseteq 1..(Len(es) + 1)
  BY <1>1
<1> QED
  BY <1>1, <1>2, <1>3, <1>5, <1>6, <1>7 DEF es2

\* The commands served are those served before, or they include the one in hand
\* and its reply and event are in step.
LEMMA ServedInStep ==
  ASSUME RedisInv, NEW c \in RedisConns, replies \subseteq replies',
         \A n \in D!Served(c)' :
           \/ /\ n \in D!Served(c)
              /\ D!Published(c, n)' <=> D!Published(c, n)
              /\ \A r \in replies' \ replies : r.n # n \/ ~r.failed
           \/ D!Published(c, n)' /\ \A r \in replies' : r.conn = c /\ r.n = n => ~r.failed
           \/ ~D!Published(c, n)' /\ \E r \in replies' : r.conn = c /\ r.n = n /\ r.failed /\ r.name = "CMD"
  PROVE  OnlyFailed(c)'
<1>1. ASSUME NEW n \in D!Served(c)'
      PROVE  D!Published(c, n)' <=> ~\E r \in replies' : r.conn = c /\ r.n = n /\ r.failed /\ r.name = "CMD"
  <2>1. n \in D!Served(c) =>
          (D!Published(c, n) <=> ~\E r \in replies : r.conn = c /\ r.n = n /\ r.failed /\ r.name = "CMD")
    BY DEF RedisInv, D!OnlyFailedRepliesUnpublished
  <2> QED
    BY <2>1
<1> QED
  BY <1>1 DEF OnlyFailed

\* serve or handleConn publishes the command in hand.
LEMMA RedisPublishes ==
  ASSUME RedisInv, NEW c \in RedisConns, NEW e \in RedisEvents,
         redisPublished' = [redisPublished EXCEPT ![c] = Append(@, e)],
         UNCHANGED <<ks, read>>, e.n = read[c], e.action = "cmd" => e.canary = ks[c],
         redisPc[c] \in {"auth_publish", "publish"} \/ redisPublished[c] = <<>>,
         redisPc'[c] \in {"reading", "auth_reply"}
  PROVE  /\ redisPublished' \in [RedisConns -> Seq(RedisEvents)]
         /\ \A x \in RedisConns \ {c} : redisPublished'[x] = redisPublished[x]
         /\ \A n : D!Published(c, n)' <=> (D!Published(c, n) \/ n = read[c])
         /\ RedisOrder(c)'
<1> DEFINE es == redisPublished[c]
<1>1. es \in Seq(RedisEvents)
  BY DEF RedisInv, RedisTypes
<1>2. \A i \in DOMAIN es : es[i].n < e.n /\ es[i].n >= i - 1 /\ (i > 1 => es[i - 1].n < es[i].n)
  <2>1. CASE es = <<>>
    BY <2>1
  <2>2. CASE redisPc[c] \in {"auth_publish", "publish"}
    BY <2>2 DEF RedisInv, RedisOrder
  <2> QED
    BY <2>1, <2>2
<1>3. \A i \in DOMAIN es : es[i].action = "cmd" => es[i].canary = ks[c]
  BY DEF RedisInv, RedisOrder
<1>4. redisPublished'[c] = Append(es, e) /\ \A x \in RedisConns \ {c} : redisPublished'[x] = redisPublished[x]
  BY DEF RedisInv, RedisTypes
<1>5. /\ Append(es, e) \in Seq(RedisEvents)
      /\ \A i \in DOMAIN Append(es, e) :
           /\ Append(es, e)[i] = (IF i = Len(es) + 1 THEN e ELSE es[i])
           /\ i = Len(es) + 1 \/ i \in DOMAIN es
           /\ Append(es, e)[i].n >= i - 1
           /\ i > 1 => Append(es, e)[i - 1].n < Append(es, e)[i].n
      /\ Len(es) + 1 \in DOMAIN Append(es, e) /\ DOMAIN es \subseteq DOMAIN Append(es, e)
  BY <1>1, <1>2, AppendInOrder
<1>6. Len(es) + 1 \notin DOMAIN es /\ read[c] \in Nat
  BY <1>1 DEF RedisInv, RedisTypes
<1>7. redisPublished' \in [RedisConns -> Seq(RedisEvents)]
  BY <1>5 DEF RedisInv, RedisTypes
<1> HIDE DEF es
<1>8. \A n : D!Published(c, n)' <=> (D!Published(c, n) \/ n = read[c])
  <2>1. \A n : D!Published(c, n)' <=> \E i \in DOMAIN Append(es, e) : Append(es, e)[i].n = n
    BY <1>4 DEF D!Published
  <2>2. \A n : D!Published(c, n) <=> \E i \in DOMAIN es : es[i].n = n
    BY DEF D!Published, es
  <2>3. \A i \in DOMAIN es : i # Len(es) + 1
    BY <1>6
  <2> QED
    BY <1>5, <2>1, <2>2, <2>3
<1>9. RedisOrder(c)'
  <2>1. ASSUME NEW i \in DOMAIN redisPublished'[c]
        PROVE  LET f == redisPublished'[c][i] IN
                 /\ f.n <= read[c] /\ (f.action = "cmd" => f.canary = ks[c])
                 /\ f.n >= i - 1 /\ (i > 1 => redisPublished'[c][i - 1].n < f.n)
    <3>1. i \in DOMAIN Append(es, e)
      BY <1>4
    <3>2. \A j \in DOMAIN es : es[j].n <= read[c]
      BY DEF RedisInv, RedisOrder, es
    <3> QED
      BY <1>3, <1>4, <1>5, <1>6, <3>1, <3>2
  <2>2. D!Published(c, read[c])'
    BY <1>8 DEF D!Published
  <2> QED
    BY <2>1, <2>2 DEF RedisOrder
<1> QED
  BY <1>4, <1>7, <1>8, <1>9

LEMMA RedisServed ==
  ASSUME RegistryInv, RedisInv, clock \in 0..MaxTime, NEW c \in RedisConns, D!HandleConn(c)
  PROVE  RegistryInv' /\ RedisInv' /\ Elsewhere
<1> USE DEF D!Goto
<1>1. ASSUME D!ReadFails(c) PROVE RegistryInv' /\ RedisInv' /\ Elsewhere
  <2> USE <1>1 DEF D!ReadFails
  <2>1. RegistryInv' /\ Kept
    BY RegistryFrame DEF RegistryInv
  <2>2. Elsewhere
    BY <2>1 DEF Elsewhere, RegistryInv
  <2>3. RedisTypes'
    BY DEF RedisInv, RedisTypes
  <2>4. OnlyConn(c)
    BY DEF OnlyConn, RedisInv, RedisTypes
  <2>5. RedisConn(c)'
    BY <2>1 DEF Calls, RedisInv, RedisTypes, RedisConn, Kept
  <2>6. RedisOrder(c)'
    BY DEF RedisInv, RedisTypes, RedisOrder, D!Published
  <2>7. \A r \in replies' : r.conn = c => RedisReply(r)'
    BY DEF RedisInv, RedisTypes, RedisReply
  <2>8. OnlyFailed(c)'
    <3>1. \A n \in D!Served(c)' : n \in D!Served(c) /\ (D!Published(c, n)' <=> D!Published(c, n))
      BY DEF RedisInv, RedisTypes, D!Served, D!Published
    <3> QED
      BY <3>1, ServedInStep
  <2> QED
    BY <2>1, <2>2, <2>3, <2>4, <2>5, <2>6, <2>7, <2>8, RedisStep
<1>2. ASSUME NEW name \in {"AUTH", "CMD"}, D!ReadCommand(c, name) PROVE RegistryInv' /\ RedisInv' /\ Elsewhere
  <2> USE <1>2 DEF D!ReadCommand
  <2>1. RegistryInv' /\ Kept
    BY RegistryFrame DEF RegistryInv
  <2>2. Elsewhere
    BY <2>1 DEF Elsewhere, RegistryInv
  <2>3. RedisTypes'
    <3>1. [D!NoCall EXCEPT !.name = name, !.hot = redisHost[c] \in blocked] \in Calls
      <4> DEFINE b == redisHost[c] \in blocked
      <4>1. b \in BOOLEAN
        OBVIOUS
      <4> HIDE DEF b
      <4>2. [D!NoCall EXCEPT !.name = name, !.hot = b] \in Calls
        BY <4>1 DEF D!NoCall, Calls
      <4> QED
        BY <4>2 DEF b
    <3>2. call' \in [RedisConns -> Calls]
      BY <3>1 DEF RedisInv, RedisTypes, Calls
    <3> QED
      BY <3>2 DEF RedisInv, RedisTypes, Calls
  <2>4. OnlyConn(c)
    BY DEF OnlyConn, RedisInv, RedisTypes
  <2>5. RedisConn(c)'
    BY <2>1 DEF Calls, RedisInv, RedisTypes, RedisConn, Kept, D!NoCall
  <2>6. RedisOrder(c)'
    <3>1. read'[c] = read[c] + 1 /\ read[c] \in Nat /\ redisPc[c] = "reading" /\ redisPc'[c] # "auth_reply"
      BY DEF RedisInv, RedisTypes
    <3>2. \A i \in DOMAIN redisPublished[c] : redisPublished[c][i].n \in Nat
      <4>1. \A i \in DOMAIN redisPublished[c] : redisPublished[c][i] \in RedisEvents
        BY DEF RedisInv, RedisTypes
      <4>2. \A x \in RedisEvents : x.n \in Nat
        BY DEF RedisEvents
      <4> QED
        BY <4>1, <4>2
    <3>3. \A i \in DOMAIN redisPublished[c] : redisPublished[c][i].n < read'[c]
      BY <3>1, <3>2 DEF RedisInv, RedisOrder
    <3> QED
      BY <3>1, <3>2, <3>3 DEF RedisInv, RedisOrder
  <2>7. \A r \in replies' : r.conn = c => RedisReply(r)'
    <3>1. read'[c] = read[c] + 1 /\ read[c] \in Nat /\ redisPc[c] = "reading" /\ redisPc'[c] \in {"auth", "cmd"}
      BY DEF RedisInv, RedisTypes
    <3>2. \A r \in replies : r.n \in Nat
      BY RedisFacts
    <3> QED
      BY <3>1, <3>2 DEF RedisInv, RedisReply
  <2>8. OnlyFailed(c)'
    <3>1. \A n \in D!Served(c)' : n \in D!Served(c) /\ (D!Published(c, n)' <=> D!Published(c, n))
      BY DEF RedisInv, RedisTypes, D!Served, D!Published
    <3> QED
      BY <3>1, ServedInStep
  <2> QED
    BY <2>1, <2>2, <2>3, <2>4, <2>5, <2>6, <2>7, <2>8, RedisStep
<1>3. ASSUME D!CheckBlocked(c) PROVE RegistryInv' /\ RedisInv' /\ Elsewhere
  <2> USE <1>3 DEF D!CheckBlocked
  <2>1. RegistryInv' /\ Kept
    BY RegistryFrame DEF RegistryInv
  <2>2. Elsewhere
    BY <2>1 DEF Elsewhere, RegistryInv
  <2>3. RedisTypes'
    <3>1. call' = [call EXCEPT ![c] = [call[c] EXCEPT !.slow = redisHost[c] \in blocked]]
      BY DEF RedisInv, RedisTypes
    <3>2. [call[c] EXCEPT !.slow = redisHost[c] \in blocked] \in Calls
      <4> DEFINE b == redisHost[c] \in blocked
      <4>1. b \in BOOLEAN
        OBVIOUS
      <4> HIDE DEF b
      <4>2. [call[c] EXCEPT !.slow = b] \in Calls
        BY <4>1, RedisFacts DEF Calls
      <4> QED
        BY <4>2 DEF b
    <3>3. call' \in [RedisConns -> Calls]
      BY <3>1, <3>2 DEF RedisInv, RedisTypes, Calls
    <3> QED
      BY <3>3 DEF RedisInv, RedisTypes, Calls
  <2>4. OnlyConn(c)
    BY DEF OnlyConn, RedisInv, RedisTypes
  <2>5. RedisConn(c)'
    BY <2>1 DEF Calls, RedisInv, RedisTypes, RedisConn, Kept
  <2>6. RedisOrder(c)'
    BY DEF RedisInv, RedisTypes, RedisOrder, D!Published
  <2>7. \A r \in replies' : r.conn = c => RedisReply(r)'
    BY DEF RedisInv, RedisTypes, RedisReply
  <2>8. OnlyFailed(c)'
    <3>1. \A n \in D!Served(c)' : n \in D!Served(c) /\ (D!Published(c, n)' <=> D!Published(c, n))
      BY DEF RedisInv, RedisTypes, D!Served, D!Published
    <3> QED
      BY <3>1, ServedInStep
  <2> QED
    BY <2>1, <2>2, <2>3, <2>4, <2>5, <2>6, <2>7, <2>8, RedisStep
<1>4. ASSUME D!Connect(c) PROVE RegistryInv' /\ RedisInv' /\ Elsewhere
  <2> USE <1>4 DEF D!Connect
  <2>0. /\ redisPublished' \in [RedisConns -> Seq(RedisEvents)]
        /\ \A x \in RedisConns \ {c} : redisPublished'[x] = redisPublished[x]
        /\ \A n : D!Published(c, n)' <=> (D!Published(c, n) \/ n = read[c])
        /\ RedisOrder(c)'
    <3> DEFINE e == D!Event(c, "connect", NoSet)
    <3>1. /\ e \in RedisEvents /\ e.n = read[c] /\ (e.action = "cmd" => e.canary = ks[c])
          /\ redisPublished' = [redisPublished EXCEPT ![c] = Append(@, e)]
      BY RedisFacts DEF D!Event, D!Publish, RedisEvents
    <3>2. redisPc[c] \in {"auth_publish", "publish"} \/ redisPublished[c] = <<>>
      BY DEF RedisInv, RedisConn
    <3>3. redisPc'[c] \in {"reading", "auth_reply"}
      BY DEF RedisInv, RedisTypes
    <3> HIDE DEF e
    <3> QED
      BY <3>1, <3>2, <3>3, RedisPublishes
  <2>1. RegistryInv' /\ Kept
    BY RegistryFrame DEF RegistryInv
  <2>2. Elsewhere
    BY <2>1 DEF Elsewhere, RegistryInv
  <2>3. RedisTypes'
    BY <2>0 DEF RedisInv, RedisTypes
  <2>4. OnlyConn(c)
    BY <2>0 DEF OnlyConn, RedisInv, RedisTypes
  <2>5. RedisConn(c)'
    BY <2>0, <2>1 DEF Calls, RedisInv, RedisTypes, RedisConn, Kept, D!Return, D!NoCall
  <2>6. RedisOrder(c)'
    BY <2>0
  <2>7. \A r \in replies' : r.conn = c => RedisReply(r)'
    BY DEF RedisInv, RedisTypes, RedisReply
  <2>8. OnlyFailed(c)'
    <3>1. \A n \in D!Served(c)' : n \in D!Served(c) /\ n # read[c]
      BY DEF RedisInv, RedisTypes, RedisConn, D!Served
    <3> QED
      BY <2>0, <3>1, ServedInStep
  <2> QED
    BY <2>1, <2>2, <2>3, <2>4, <2>5, <2>6, <2>7, <2>8, RedisStep
<1>5. ASSUME D!AuthPublish(c) PROVE RegistryInv' /\ RedisInv' /\ Elsewhere
  <2> USE <1>5 DEF D!AuthPublish
  <2>0. /\ redisPublished' \in [RedisConns -> Seq(RedisEvents)]
        /\ \A x \in RedisConns \ {c} : redisPublished'[x] = redisPublished[x]
        /\ \A n : D!Published(c, n)' <=> (D!Published(c, n) \/ n = read[c])
        /\ RedisOrder(c)'
    <3> DEFINE e == D!Event(c, "auth", call[c].linked)
    <3>1. /\ e \in RedisEvents /\ e.n = read[c] /\ (e.action = "cmd" => e.canary = ks[c])
          /\ redisPublished' = [redisPublished EXCEPT ![c] = Append(@, e)]
      BY RedisFacts DEF D!Event, D!Publish, RedisEvents
    <3>2. redisPc[c] \in {"auth_publish", "publish"} \/ redisPublished[c] = <<>>
      BY DEF RedisInv, RedisConn
    <3>3. redisPc'[c] \in {"reading", "auth_reply"}
      BY DEF RedisInv, RedisTypes
    <3> HIDE DEF e
    <3> QED
      BY <3>1, <3>2, <3>3, RedisPublishes
  <2>1. RegistryInv' /\ Kept
    BY RegistryFrame DEF RegistryInv
  <2>2. Elsewhere
    BY <2>1 DEF Elsewhere, RegistryInv
  <2>3. RedisTypes'
    BY <2>0 DEF RedisInv, RedisTypes
  <2>4. OnlyConn(c)
    BY <2>0 DEF OnlyConn, RedisInv, RedisTypes
  <2>5. RedisConn(c)'
    BY <2>0, <2>1 DEF Calls, RedisInv, RedisTypes, RedisConn, Kept, D!Return, D!NoCall
  <2>6. RedisOrder(c)'
    BY <2>0
  <2>7. \A r \in replies' : r.conn = c => RedisReply(r)'
    BY DEF RedisInv, RedisTypes, RedisReply
  <2>8. OnlyFailed(c)'
    <3>1. \A n \in D!Served(c)' : n \in D!Served(c) /\ n # read[c]
      BY DEF RedisInv, RedisTypes, RedisConn, D!Served
    <3> QED
      BY <2>0, <3>1, ServedInStep
  <2> QED
    BY <2>1, <2>2, <2>3, <2>4, <2>5, <2>6, <2>7, <2>8, RedisStep
<1>6. ASSUME D!PublishCommand(c) PROVE RegistryInv' /\ RedisInv' /\ Elsewhere
  <2> USE <1>6 DEF D!PublishCommand
  <2>0. /\ redisPublished' \in [RedisConns -> Seq(RedisEvents)]
        /\ \A x \in RedisConns \ {c} : redisPublished'[x] = redisPublished[x]
        /\ \A n : D!Published(c, n)' <=> (D!Published(c, n) \/ n = read[c])
        /\ RedisOrder(c)'
    <3> DEFINE e == D!Event(c, "cmd", ks[c])
    <3>1. /\ e \in RedisEvents /\ e.n = read[c] /\ (e.action = "cmd" => e.canary = ks[c])
          /\ redisPublished' = [redisPublished EXCEPT ![c] = Append(@, e)]
      BY RedisFacts DEF D!Event, D!Publish, RedisEvents
    <3>2. redisPc[c] \in {"auth_publish", "publish"} \/ redisPublished[c] = <<>>
      BY DEF RedisInv, RedisConn
    <3>3. redisPc'[c] \in {"reading", "auth_reply"}
      BY DEF RedisInv, RedisTypes
    <3> HIDE DEF e
    <3> QED
      BY <3>1, <3>2, <3>3, RedisPublishes
  <2>1. RegistryInv' /\ Kept
    BY RegistryFrame DEF RegistryInv
  <2>2. Elsewhere
    BY <2>1 DEF Elsewhere, RegistryInv
  <2>3. RedisTypes'
    <3>1. call' \in [RedisConns -> Calls]
      BY DEF D!NoCall, D!Return, RedisInv, RedisTypes, Calls
    <3> QED
      BY <2>0, <3>1 DEF RedisInv, RedisTypes
  <2>4. OnlyConn(c)
    BY <2>0 DEF OnlyConn, RedisInv, RedisTypes, D!Return
  <2>5. RedisConn(c)'
    BY <2>0, <2>1 DEF Calls, RedisInv, RedisTypes, RedisConn, Kept, D!Return, D!NoCall
  <2>6. RedisOrder(c)'
    BY <2>0
  <2>7. \A r \in replies' : r.conn = c => RedisReply(r)'
    BY DEF RedisInv, RedisTypes, RedisReply
  <2>8. OnlyFailed(c)'
    <3>1. \A n \in D!Served(c)' : (n \in D!Served(c) /\ n # read[c]) \/ n = read[c]
      BY DEF RedisInv, RedisTypes, D!Served
    <3>2. \A r \in replies : r.conn = c /\ r.n = read[c] => ~r.failed
      BY DEF RedisInv, RedisReply
    <3> QED
      BY <2>0, <3>1, <3>2, ServedInStep
  <2> QED
    BY <2>1, <2>2, <2>3, <2>4, <2>5, <2>6, <2>7, <2>8, RedisStep
<1>7. ASSUME D!AuthReply(c) PROVE RegistryInv' /\ RedisInv' /\ Elsewhere
  <2> USE <1>7 DEF D!AuthReply
  <2>0. /\ replies' \subseteq Replies /\ replies \subseteq replies'
        /\ \A r \in replies' : r \in replies
             \/ (/\ r.conn = c /\ r.n = read[c] /\ r.name = call[c].name /\ r.set = NoSet /\ r.failed = FALSE
                 /\ (r.spared => call[c].hot /\ ~FALSE))
        /\ \E r \in replies' : r.conn = c /\ r.n = read[c] /\ r.name = call[c].name /\ r.failed = FALSE
    <3>1. PICK b \in BOOLEAN : b = (call[c].hot /\ ~FALSE)
      OBVIOUS
    <3> DEFINE new == [conn |-> c, n |-> read[c], name |-> call[c].name, set |-> NoSet, failed |-> FALSE, spared |-> b]
    <3>2. replies' = replies \cup {new}
      BY <3>1 DEF D!Reply
    <3>3. new \in Replies
      BY RedisFacts DEF Replies
    <3>4. /\ new.conn = c /\ new.n = read[c] /\ new.name = call[c].name /\ new.set = NoSet /\ new.failed = FALSE
          /\ (new.spared => call[c].hot /\ ~FALSE)
      BY <3>1
    <3>5. replies \subseteq Replies
      BY DEF Replies, RedisInv, RedisTypes
    <3> HIDE DEF new
    <3> QED
      BY <3>2, <3>3, <3>4, <3>5
  <2>1. RegistryInv' /\ Kept
    BY RegistryFrame DEF RegistryInv
  <2>2. Elsewhere
    BY <2>1 DEF Elsewhere, RegistryInv
  <2>3. RedisTypes'
    <3>1. call' \in [RedisConns -> Calls]
      BY DEF D!NoCall, D!Return, RedisInv, RedisTypes, Calls
    <3> QED
      BY <2>0, <3>1 DEF Replies, RedisInv, RedisTypes, Calls
  <2>4. OnlyConn(c)
    BY <2>0 DEF OnlyConn, RedisInv, RedisTypes, D!Return
  <2>5. RedisConn(c)'
    BY <2>1 DEF Calls, RedisInv, RedisTypes, RedisConn, Kept, D!Return, D!NoCall
  <2>6. RedisOrder(c)'
    BY DEF RedisInv, RedisTypes, RedisOrder, D!Published
  <2>7. \A r \in replies' : r.conn = c => RedisReply(r)'
    BY <2>0 DEF RedisInv, RedisTypes, RedisReply, RedisConn
  <2>8. OnlyFailed(c)'
    <3>1. \A n \in D!Served(c)' : (n \in D!Served(c) /\ n # read[c]) \/ n = read[c]
      BY DEF RedisInv, RedisTypes, D!Served
    <3>2. \A r \in replies' : r.conn = c /\ r.n = read[c] => ~r.failed
      BY <2>0, RedisFacts DEF RedisInv, RedisReply
    <3>3. D!Published(c, read[c])
      BY DEF RedisInv, RedisOrder
    <3>4. \A n : D!Published(c, n)' <=> D!Published(c, n)
      BY DEF D!Published
    <3> QED
      BY <2>0, <3>1, <3>2, <3>3, <3>4, ServedInStep
  <2> QED
    BY <2>1, <2>2, <2>3, <2>4, <2>5, <2>6, <2>7, <2>8, RedisStep
<1>8. ASSUME NEW failed \in BOOLEAN, D!ReplyCommand(c, failed) PROVE RegistryInv' /\ RedisInv' /\ Elsewhere
  <2> USE <1>8 DEF D!ReplyCommand
  <2>0. /\ replies' \subseteq Replies /\ replies \subseteq replies'
        /\ \A r \in replies' : r \in replies
             \/ (/\ r.conn = c /\ r.n = read[c] /\ r.name = call[c].name /\ r.set = ks[c] /\ r.failed = failed
                 /\ (r.spared => call[c].hot /\ ~call[c].slow))
        /\ \E r \in replies' : r.conn = c /\ r.n = read[c] /\ r.name = call[c].name /\ r.failed = failed
    <3>1. PICK b \in BOOLEAN : b = (call[c].hot /\ ~call[c].slow)
      OBVIOUS
    <3> DEFINE new == [conn |-> c, n |-> read[c], name |-> call[c].name, set |-> ks[c], failed |-> failed, spared |-> b]
    <3>2. replies' = replies \cup {new}
      BY <3>1 DEF D!Reply
    <3>3. new \in Replies
      BY RedisFacts DEF Replies
    <3>4. /\ new.conn = c /\ new.n = read[c] /\ new.name = call[c].name /\ new.set = ks[c] /\ new.failed = failed
          /\ (new.spared => call[c].hot /\ ~call[c].slow)
      BY <3>1
    <3>5. replies \subseteq Replies
      BY DEF Replies, RedisInv, RedisTypes
    <3> HIDE DEF new
    <3> QED
      BY <3>2, <3>3, <3>4, <3>5
  <2>1. RegistryInv' /\ Kept
    BY RegistryFrame DEF RegistryInv
  <2>2. Elsewhere
    BY <2>1 DEF Elsewhere, RegistryInv
  <2>3. RedisTypes'
    <3>1. call' \in [RedisConns -> Calls]
      <4>1. D!NoCall \in Calls
        BY DEF D!NoCall, Calls
      <4>2. call' = call \/ call' = [call EXCEPT ![c] = D!NoCall]
        BY DEF D!Return
      <4> QED
        BY <4>1, <4>2 DEF RedisInv, RedisTypes
    <3>2. redisPc' \in [RedisConns -> {"idle", "seeded", "reading", "auth", "auth_publish",
                                        "auth_reply", "cmd", "reply", "publish", "closed"}]
      BY DEF RedisInv, RedisTypes
    <3> QED
      BY <2>0, <3>1, <3>2 DEF RedisInv, RedisTypes
  <2>4. OnlyConn(c)
    BY <2>0 DEF OnlyConn, RedisInv, RedisTypes, D!Return
  <2>5. RedisConn(c)'
    <3>1. redisPc[c] = "reply" /\ redisPc'[c] = (IF failed THEN "reading" ELSE "publish")
      BY DEF RedisInv, RedisTypes
    <3>2. call'[c] = (IF failed THEN D!NoCall ELSE call[c])
      BY DEF RedisInv, RedisTypes, D!Return
    <3> QED
      BY <2>1, <3>1, <3>2 DEF RedisInv, RedisTypes, RedisConn, Kept, D!NoCall
  <2>6. RedisOrder(c)'
    BY DEF RedisInv, RedisTypes, RedisOrder, D!Published
  <2>7. \A r \in replies' : r.conn = c => RedisReply(r)'
    BY <2>0, RedisFacts DEF RedisInv, RedisTypes, RedisReply, RedisConn
  <2>8. OnlyFailed(c)'
    <3>1. \A n : D!Published(c, n)' <=> D!Published(c, n)
      BY DEF D!Published
    <3>2. CASE ~failed
      <4>1. \A n \in D!Served(c)' : n \in D!Served(c) /\ n # read[c]
        BY <3>2 DEF RedisInv, RedisTypes, D!Served
      <4> QED
        BY <2>0, <3>1, <3>2, <4>1, ServedInStep
    <3>3. CASE failed
      <4>1. \A n \in D!Served(c)' : (n \in D!Served(c) /\ n # read[c]) \/ n = read[c]
        BY <3>3 DEF RedisInv, RedisTypes, D!Served
      <4>2. ~D!Published(c, read[c])
        BY RedisFacts DEF RedisInv, RedisOrder, D!Published
      <4>3. \E r \in replies' : r.conn = c /\ r.n = read[c] /\ r.failed /\ r.name = "CMD"
        BY <2>0, <3>3 DEF RedisInv, RedisConn
      <4> QED
        BY <2>0, <3>1, <4>1, <4>2, <4>3, ServedInStep
    <3> QED
      BY <3>2, <3>3
  <2> QED
    BY <2>1, <2>2, <2>3, <2>4, <2>5, <2>6, <2>7, <2>8, RedisStep
<1>9. ASSUME D!AuthSetFor(c) PROVE RegistryInv' /\ RedisInv' /\ Elsewhere
  <2> USE <1>9 DEF D!AuthSetFor
  <2>1. /\ RegistryInv' /\ Kept
        /\ \E s \in SetIds : s = current'[redisHost[c]].set /\ Owned(s, redisHost[c])'
    <3>1. PICK a \in IPs : a = redisHost[c]
      BY DEF RedisInv, RedisTypes, RedisConn
    <3>2. R!Keep(a) \/ R!Renew(a)
      BY <3>1 DEF RedisInv, RedisTypes, D!SetFor, D!R!Keep, D!R!Renew, D!R!LiveAt, D!R!HandOut, R!Keep, R!Renew, R!LiveAt, R!HandOut
    <3>3. RegistryInv' /\ Kept /\ current'[a].set \in SetIds /\ Owned(current[a].set, a)'
      BY <3>2, HandOutIsOwned
    <3> QED
      BY <3>1, <3>3 DEF Owned
  <2>2. Elsewhere
    BY <2>1 DEF Elsewhere, RegistryInv, D!SetFor, D!R!Keep, D!R!Renew
  <2>3. RedisTypes'
    <3>1. PICK s \in SetIds : s = current'[redisHost[c]].set
      BY <2>1
    <3>2. call' = [call EXCEPT ![c] = [call[c] EXCEPT !.linked = s]]
      BY <3>1 DEF D!SetFor, RedisInv, RedisTypes
    <3>3. [call[c] EXCEPT !.linked = s] \in Calls
      BY RedisFacts DEF Calls
    <3>4. call' \in [RedisConns -> Calls]
      BY <3>2, <3>3 DEF RedisInv, RedisTypes
    <3> QED
      BY <3>4 DEF RedisInv, RedisTypes
  <2>4. /\ call'[c].name = call[c].name /\ call'[c].hot = call[c].hot
        /\ \A x \in RedisConns \ {c} : call'[x] = call[x]
    BY RedisFacts DEF D!SetFor, RedisInv, RedisTypes, Calls
  <2>5. OnlyConn(c)
    BY <2>4 DEF OnlyConn, RedisInv, RedisTypes
  <2>6. RedisConn(c)'
    BY <2>1, <2>4 DEF RedisInv, RedisTypes, RedisConn, Kept
  <2>7. RedisOrder(c)'
    BY DEF RedisInv, RedisTypes, RedisOrder, D!Published
  <2>8. \A r \in replies' : r.conn = c => RedisReply(r)'
    BY DEF RedisInv, RedisTypes, RedisReply
  <2>9. OnlyFailed(c)'
    <3>1. \A n \in D!Served(c)' : n \in D!Served(c) /\ (D!Published(c, n)' <=> D!Published(c, n))
      BY DEF RedisInv, RedisTypes, D!Served, D!Published
    <3> QED
      BY <3>1, ServedInStep
  <2> QED
    BY <2>1, <2>2, <2>3, <2>5, <2>6, <2>7, <2>8, <2>9, RedisStep
<1> QED
  BY <1>1, <1>2, <1>3, <1>4, <1>5, <1>6, <1>7, <1>8, <1>9 DEF D!HandleConn, D!Serve

LEMMA RedisSeeds ==
  ASSUME RegistryInv, RedisInv, clock \in 0..MaxTime, NEW c \in RedisConns, NEW ip \in IPs, D!Seed(c, ip)
  PROVE  RegistryInv' /\ RedisInv' /\ Elsewhere
<1> USE DEF D!Seed, D!Goto
<1>1. RegistryInv' /\ Kept /\ \E s \in SetIds : s = current'[ip].set /\ Owned(s, ip)'
  <2>1. R!Keep(ip) \/ R!Renew(ip)
    BY DEF D!SetFor, D!R!Keep, D!R!Renew, D!R!LiveAt, D!R!HandOut, R!Keep, R!Renew, R!LiveAt, R!HandOut
  <2>2. RegistryInv' /\ Kept /\ current'[ip].set \in SetIds /\ Owned(current[ip].set, ip)'
    BY <2>1, HandOutIsOwned
  <2> QED
    BY <2>2 DEF Owned
<1>2. PICK s \in SetIds : Owned(s, ip)' /\ ks' = [ks EXCEPT ![c] = s]
  BY <1>1 DEF D!SetFor
<1>3. Elsewhere
  BY <1>1 DEF Elsewhere, RegistryInv, D!SetFor, D!R!Keep, D!R!Renew
<1>4. RedisTypes'
  BY <1>2 DEF RedisInv, RedisTypes
<1>5. OnlyConn(c)
  BY <1>2 DEF OnlyConn, RedisInv, RedisTypes
<1>6. RedisConn(c)'
  BY <1>2 DEF RedisInv, RedisTypes, RedisConn
<1>7. RedisOrder(c)'
  BY DEF RedisInv, RedisTypes, RedisConn, RedisOrder, D!Published
<1>8. \A r \in replies' : r.conn = c => RedisReply(r)'
  BY DEF RedisInv, RedisReply
<1>9. OnlyFailed(c)'
  BY DEF RedisInv, RedisTypes, RedisConn, D!Served, OnlyFailed
<1> QED
  BY <1>1, <1>3, <1>4, <1>5, <1>6, <1>7, <1>8, <1>9, RedisStep

-----------------------------------------------------------------------------
(* Steps of the SSH decoy.                                                 *)

\* An answer comes after its event, and late from a quarantined source.
Answered(a) ==
  /\ a.kind # "exit" =>
       \E e \in sshPublished[a.conn] : e.action = "cmd" /\ e.chan = a.chan /\ e.n = a.n /\ e.canary = a.set
  /\ a.spared => a.kind = "exit"

\* Only connection c takes part; what was published stays published.
OnlySsh(c) ==
  /\ \A x \in SshConns \ {c} :
       /\ sshPc'[x] = sshPc[x] /\ sshHost'[x] = sshHost[x] /\ metaSet'[x] = metaSet[x]
       /\ logins'[x] = logins[x] /\ chan'[x] = chan[x] /\ sshPublished'[x] = sshPublished[x]
  /\ sshPublished[c] \subseteq sshPublished'[c]

LEMMA SshStep ==
  ASSUME SshInv, NEW c \in SshConns, Elsewhere, OnlySsh(c), SshTypes', SshConn(c)',
         \A k \in Chans : SshSession(c, k)',
         \A a \in answers' : a \in answers \/ Answered(a)'
  PROVE  SshInv'
<1> USE DEF OnlySsh
<1>1. \A x \in SshConns : SshConn(x)'
  BY DEF SshInv, SshConn, Announced, Elsewhere, Kept
<1>2. \A x \in SshConns, k \in Chans : SshSession(x, k)'
  BY DEF SshInv, SshSession, Announced, Elsewhere, Kept
<1>3. \A a \in answers' : Answered(a)'
  <2>1. ASSUME NEW a \in answers PROVE Answered(a)'
    <3>1. a.conn \in SshConns /\ Answered(a)
      BY DEF SshInv, SshTypes, S!AnswerIsPublished, S!SlowedUnlessExit, Answered
    <3>2. sshPublished[a.conn] \subseteq sshPublished'[a.conn]
      BY <3>1
    <3> QED
      BY <3>1, <3>2 DEF Answered
  <2> QED
    BY <2>1
<1>4. S!AnswerIsPublished' /\ S!SlowedUnlessExit'
  BY <1>3 DEF S!AnswerIsPublished, S!SlowedUnlessExit, Answered
<1> QED
  BY <1>1, <1>2, <1>4 DEF SshInv

LEMMA SshAccepts ==
  ASSUME RegistryInv, SshInv, clock \in 0..MaxTime, NEW c \in SshConns, NEW ip \in IPs, S!Accept(c, ip)
  PROVE  RegistryInv' /\ SshInv' /\ Elsewhere
<1> USE DEF S!Accept, S!Goto
<1>1. RegistryInv' /\ Kept
  BY RegistryFrame DEF RegistryInv
<1>2. Elsewhere
  BY <1>1 DEF Elsewhere, RegistryInv
<1>3. SshTypes'
  BY DEF SshInv, SshTypes
<1>4. OnlySsh(c)
  BY DEF OnlySsh, SshInv, SshTypes
<1>5. SshConn(c)'
  BY DEF SshInv, SshTypes, SshConn
<1>6. \A k \in Chans : SshSession(c, k)'
  BY DEF SshInv, SshTypes, SshSession
<1> QED
  BY <1>1, <1>2, <1>3, <1>4, <1>5, <1>6, SshStep

LEMMA SshConnects ==
  ASSUME RegistryInv, SshInv, clock \in 0..MaxTime, NEW c \in SshConns,
         S!Login(c) \/ S!PublishLogin(c) \/ S!HandshakeFails(c) \/ S!Banner(c)
  PROVE  RegistryInv' /\ SshInv' /\ Elsewhere
<1> USE DEF S!Goto
<1>0. sshHost[c] \in IPs /\ \A k \in Chans : chan[c][k].at = "none"
  BY DEF S!Login, S!PublishLogin, S!HandshakeFails, S!Banner, SshInv, SshConn, SshSession
<1>1. ASSUME S!Login(c) PROVE RegistryInv' /\ SshInv' /\ Elsewhere
  <2> USE <1>1 DEF S!Login
  <2>1. RegistryInv' /\ Kept /\ \E s \in SetIds : s = current'[sshHost[c]].set /\ Owned(s, sshHost[c])'
    <3>1. PICK a \in IPs : a = sshHost[c]
      BY <1>0
    <3>2. R!Keep(a) \/ R!Renew(a)
      BY <3>1 DEF S!R!Keep, S!R!Renew, S!R!LiveAt, S!R!HandOut, R!Keep, R!Renew, R!LiveAt, R!HandOut
    <3>3. RegistryInv' /\ Kept /\ current'[a].set \in SetIds /\ Owned(current[a].set, a)'
      BY <3>2, HandOutIsOwned
    <3> QED
      BY <3>1, <3>3 DEF Owned
  <2>2. PICK s \in SetIds : Owned(s, sshHost[c])' /\ metaSet' = [metaSet EXCEPT ![c] = s]
    BY <2>1
  <2>3. Elsewhere
    BY <2>1 DEF Elsewhere, RegistryInv, S!R!Keep, S!R!Renew
  <2>4. SshTypes'
    BY <2>2 DEF SshInv, SshTypes
  <2>5. OnlySsh(c)
    BY <2>2 DEF OnlySsh, SshInv, SshTypes
  <2>6. SshConn(c)'
    BY <1>0, <2>2 DEF SshInv, SshTypes, SshConn
  <2>7. \A k \in Chans : SshSession(c, k)'
    BY <1>0 DEF SshInv, SshTypes, SshSession
  <2> QED
    BY <2>1, <2>3, <2>4, <2>5, <2>6, <2>7, SshStep
<1>2. ASSUME S!PublishLogin(c) \/ S!HandshakeFails(c) \/ S!Banner(c)
      PROVE  RegistryInv' /\ SshInv' /\ Elsewhere
  <2> USE <1>2 DEF S!PublishLogin, S!HandshakeFails, S!Banner
  <2>1. RegistryInv' /\ Kept
    BY RegistryFrame DEF RegistryInv
  <2>2. Elsewhere
    BY <2>1 DEF Elsewhere, RegistryInv
  <2>3. SshTypes'
    BY DEF SshInv, SshTypes, S!Publish
  <2>4. OnlySsh(c)
    BY DEF OnlySsh, SshInv, SshTypes, S!Publish
  <2>5. SshConn(c)'
    <3>1. sshHost' = sshHost /\ metaSet' = metaSet /\ logins' = logins /\ c \in SshConns
      OBVIOUS
    <3>2. Owned(metaSet[c], sshHost[c]) => Owned(metaSet[c], sshHost[c])'
      BY <2>1, <3>1 DEF Kept, Owned
    <3>3. CASE S!PublishLogin(c)
      <4>1. sshPc[c] = "login" /\ sshPc'[c] = "handshake"
        BY <3>3 DEF SshInv, SshTypes
      <4>2. [action |-> "login", n |-> logins[c], canary |-> metaSet[c]] \in sshPublished'[c]
        BY <3>3 DEF S!Publish, SshInv, SshTypes
      <4>3. Announced(c, metaSet[c])'
        BY <3>1, <4>2 DEF Announced
      <4> QED
        BY <1>0, <3>1, <3>2, <4>1, <4>3 DEF SshInv, SshConn
    <3>4. CASE S!HandshakeFails(c)
      <4>1. sshPc'[c] = "closed"
        BY <3>4 DEF SshInv, SshTypes
      <4> QED
        BY <1>0, <3>1, <4>1 DEF SshInv, SshConn
    <3>5. CASE S!Banner(c)
      <4>1. sshPc[c] = "handshake" /\ sshPc'[c] = "open" /\ logins[c] > 0
        BY <3>5 DEF SshInv, SshTypes
      <4>2. sshPublished[c] \subseteq sshPublished'[c]
        BY <2>4 DEF OnlySsh
      <4>3. Announced(c, metaSet[c])'
        BY <3>1, <4>1, <4>2 DEF SshInv, SshConn, Announced
      <4> QED
        BY <1>0, <3>1, <3>2, <4>1, <4>3 DEF SshInv, SshConn
    <3> QED
      BY <3>3, <3>4, <3>5
  <2>6. \A k \in Chans : SshSession(c, k)'
    BY <1>0 DEF SshInv, SshTypes, SshSession
  <2> QED
    BY <2>1, <2>2, <2>3, <2>4, <2>5, <2>6, SshStep
<1> QED
  BY <1>1, <1>2

\* A session goes from one place to another, and may publish.
LEMMA SessionStep ==
  ASSUME SshInv, NEW c \in SshConns, NEW k \in Chans, Elsewhere, NEW f \in Sessions,
         chan' = [chan EXCEPT ![c][k] = f], UNCHANGED <<sshPc, sshHost, metaSet, logins>>,
         NEW E, sshPublished' = [sshPublished EXCEPT ![c] = @ \cup E], SshSession(c, k)',
         \A a \in answers' : a \in answers \/ (a.conn = c /\ Answered(a)')
  PROVE  SshInv'
<1>1. chan' = [chan EXCEPT ![c] = [chan[c] EXCEPT ![k] = f]] /\ chan[c] \in [Chans -> Sessions]
  BY DEF SshInv, SshTypes
<1>2. SshTypes'
  <2>1. [chan[c] EXCEPT ![k] = f] \in [Chans -> Sessions]
    BY <1>1
  <2>2. chan' \in [SshConns -> [Chans -> Sessions]]
    BY <1>1, <2>1 DEF SshInv, SshTypes
  <2> QED
    BY <2>2 DEF SshInv, SshTypes
<1>3. OnlySsh(c)
  BY DEF OnlySsh, SshInv, SshTypes
<1>4. SshConn(c)'
  BY <1>3 DEF OnlySsh, SshInv, SshConn, Announced, Elsewhere, Kept
<1>5. \A j \in Chans : SshSession(c, j)'
  <2>1. ASSUME NEW j \in Chans, j # k PROVE SshSession(c, j)'
    <3>1. chan'[c][j] = chan[c][j]
      BY <1>1, <2>1 DEF SshInv, SshTypes
    <3> QED
      BY <1>3, <3>1 DEF OnlySsh, SshInv, SshSession, Announced, Elsewhere, Kept
  <2> QED
    BY <2>1
<1> QED
  BY <1>2, <1>3, <1>4, <1>5, SshStep

LEMMA SshServes1 ==
  ASSUME RegistryInv, SshInv, clock \in 0..MaxTime, NEW c \in SshConns, NEW k \in Chans, S!Session(c, k)
  PROVE  RegistryInv' /\ SshInv' /\ Elsewhere
<1> DEFINE s == chan[c][k]
<1> USE DEF S!Run
<1>0. /\ s \in Sessions /\ s.n \in Nat /\ s.set \in SetIds \cup {NoSet}
      /\ s.kind \in {"run", "exit"} /\ SshSession(c, k) /\ SshConn(c)
      /\ UNCHANGED <<clock, current, handed, blocked, sshPc, sshHost, metaSet, logins>>
  <2>1. s \in Sessions
    BY DEF SshInv, SshTypes
  <2>2. UNCHANGED <<clock, current, handed, blocked, sshPc, sshHost, metaSet, logins>>
    BY DEF S!Session, S!OpenSession, S!ReadCommand, S!CloseSession, S!Exit, S!CheckBlocked, S!PublishCommand, S!WriteAnswer
  <2>3. \A x \in Sessions : x.n \in Nat /\ x.set \in SetIds \cup {NoSet} /\ x.kind \in {"run", "exit"}
    BY DEF Sessions
  <2> QED
    BY <2>1, <2>2, <2>3 DEF SshInv
<1>1. RegistryInv' /\ Kept
  BY <1>0, RegistryFrame DEF RegistryInv
<1>2. Elsewhere
  BY <1>0, <1>1 DEF Elsewhere, RegistryInv
\* A session as a record of its own.
<1>3. ASSUME NEW f \in Sessions, chan' = [chan EXCEPT ![c][k] = f], UNCHANGED <<sshPublished, answers>>,
             f.at # "none" => sshPc[c] = "open",
             f.at \notin {"none", "closed"} => Owned(f.set, sshHost[c]) /\ Announced(c, f.set),
             f.at = "leaving" => f.kind = "exit",
             f.hot => f.at # "none" /\ sshHost[c] \in blocked,
             f.at = "publishing" /\ f.hot => f.slow,
             f.at # "answering"
      PROVE  SshInv'
  <2>1. chan'[c][k] = f
    BY <1>3 DEF SshInv, SshTypes
  <2>2. SshSession(c, k)'
    BY <1>0, <1>3, <2>1 DEF SshSession, Owned, Announced
  <2>3. sshPublished' = [sshPublished EXCEPT ![c] = @ \cup {}]
    BY <1>3 DEF SshInv, SshTypes
  <2> QED
    BY <1>0, <1>2, <1>3, <2>2, <2>3, SessionStep
<1>4. ASSUME NEW f \in Sessions, chan' = [chan EXCEPT ![c][k] = f], UNCHANGED sshPublished,
             f.at \in {"reading", "closed"}, f.set = s.set \/ f.at = "closed", ~f.hot,
             s.at \in {"leaving", "answering"}, s.at = "answering" \/ s.kind = "exit", S!Answer(c, k)
      PROVE  SshInv'
  <2>1. chan'[c][k] = f
    BY <1>4 DEF SshInv, SshTypes
  <2>2. SshSession(c, k)'
    BY <1>0, <1>4, <2>1 DEF SshSession, Owned, Announced
  <2>3. sshPublished' = [sshPublished EXCEPT ![c] = @ \cup {}]
    BY <1>4 DEF SshInv, SshTypes
  <2>4. PICK b \in BOOLEAN : b = (s.hot /\ ~s.slow)
    OBVIOUS
  <2>5. PICK new :
          /\ answers' = answers \cup {new}
          /\ new.conn = c /\ new.chan = k /\ new.n = s.n /\ new.kind = s.kind /\ new.set = s.set
          /\ (new.spared => s.hot /\ ~s.slow)
    <3> DEFINE new == [conn |-> c, chan |-> k, n |-> s.n, kind |-> s.kind, set |-> s.set, spared |-> b]
    <3>1. answers' = answers \cup {new}
      BY <1>4, <2>4 DEF S!Answer
    <3>2. /\ new.conn = c /\ new.chan = k /\ new.n = s.n /\ new.kind = s.kind /\ new.set = s.set
          /\ (new.spared => s.hot /\ ~s.slow)
      BY <2>4
    <3> HIDE DEF new
    <3> QED
      BY <3>1, <3>2
  <2> HIDE DEF s
  <2>7. Answered(new)'
    <3>1. s.at = "leaving" => s.kind = "exit"
      BY <1>0 DEF SshSession, s
    <3>2. s.at = "answering" => (s.hot => s.slow)
      BY <1>0 DEF SshSession, s
    <3>3. s.at = "answering" =>
            \E e \in sshPublished[c] : e.action = "cmd" /\ e.chan = k /\ e.n = s.n /\ e.canary = s.set
      BY <1>0 DEF SshSession, s
    <3> QED
      BY <1>4, <2>5, <3>1, <3>2, <3>3 DEF Answered
  <2> QED
    BY <1>0, <1>2, <1>4, <2>2, <2>3, <2>5, <2>7, SessionStep
<1>5. ASSUME S!OpenSession(c, k) PROVE SshInv'
  <2> DEFINE f == [S!NoChan EXCEPT !.at = "reading", !.set = metaSet[c]]
  <2>1. f \in Sessions /\ f.at = "reading" /\ f.set = metaSet[c] /\ f.hot = FALSE
    BY DEF Sessions, S!NoChan, SshInv, SshTypes
  <2>2. chan' = [chan EXCEPT ![c][k] = f] /\ UNCHANGED <<sshPublished, answers>> /\ sshPc[c] = "open"
    BY <1>5 DEF S!OpenSession
  <2> HIDE DEF f
  <2>3. Owned(metaSet[c], sshHost[c]) /\ Announced(c, metaSet[c])
    BY <1>0, <2>2 DEF SshConn
  <2> QED
    BY <1>3, <2>1, <2>2, <2>3
<1>6. ASSUME NEW kind \in {"run", "exit"}, S!ReadCommand(c, k, kind) PROVE SshInv'
  <2> DEFINE b == sshHost[c] \in blocked
             at == IF kind = "exit" THEN "leaving" ELSE "exec"
             f == [at |-> at, set |-> s.set, kind |-> kind, n |-> s.n + 1, slow |-> FALSE, hot |-> b]
  <2>1. b \in BOOLEAN
    OBVIOUS
  <2>2. chan' = [chan EXCEPT ![c][k] = f] /\ UNCHANGED <<sshPublished, answers>> /\ s.at = "reading"
    BY <1>6 DEF S!ReadCommand
  <2>3. b => sshHost[c] \in blocked
    OBVIOUS
  <2>6. at \in {"leaving", "exec"} /\ s.n + 1 \in Nat
    BY <1>0
  <2> HIDE DEF b, s, at
  <2>8. s.set \in SetIds \cup {NoSet}
    BY <1>0
  <2>9. f \in Sessions
    BY <1>6, <2>1, <2>6, <2>8 DEF Sessions
  <2>4. f.set = s.set /\ f.hot = b /\ f.kind = kind /\ f.at = (IF kind = "exit" THEN "leaving" ELSE "exec")
    BY DEF at
  <2> HIDE DEF f
  <2>5. sshPc[c] = "open" /\ Owned(s.set, sshHost[c]) /\ Announced(c, s.set)
    BY <1>0, <2>2 DEF SshSession, s
  <2> QED
    BY <1>3, <1>6, <2>2, <2>3, <2>4, <2>5, <2>9
<1>7. /\ S!Closed(c, k) \in Sessions /\ S!Closed(c, k).at = "closed" /\ S!Closed(c, k).hot = FALSE
  BY <1>0 DEF S!Closed, S!NoChan, Sessions
<1>8. ASSUME S!CloseSession(c, k) PROVE SshInv'
  <2>1. /\ chan' = [chan EXCEPT ![c][k] = S!Closed(c, k)] /\ UNCHANGED <<sshPublished, answers>>
        /\ sshPc[c] = "open"
    BY <1>0, <1>8 DEF S!CloseSession, SshSession
  <2> QED
    BY <1>3, <1>7, <2>1
<1>9. ASSUME S!Exit(c, k) PROVE SshInv'
  <2>1. /\ chan' = [chan EXCEPT ![c][k] = S!Closed(c, k)] /\ UNCHANGED sshPublished /\ S!Answer(c, k)
        /\ s.at = "leaving" /\ s.kind = "exit"
    BY <1>0, <1>9 DEF S!Exit, SshSession
  <2> HIDE DEF s
  <2> QED
    BY <1>4, <1>7, <2>1
<1>10. ASSUME S!CheckBlocked(c, k) PROVE SshInv'
  <2> DEFINE b == sshHost[c] \in blocked
             f == [s EXCEPT !.at = "publishing", !.slow = b]
  <2>1. b \in BOOLEAN
    OBVIOUS
  <2>2. chan' = [chan EXCEPT ![c][k] = f] /\ UNCHANGED <<sshPublished, answers>> /\ s.at = "exec"
    BY <1>10 DEF S!CheckBlocked
  <2>3. /\ s.hot => b
        /\ s.hot => sshHost[c] \in blocked
    BY <1>0 DEF SshSession
  <2> HIDE DEF b, s
  <2>4. f \in Sessions /\ f.set = s.set /\ f.hot = s.hot /\ f.slow = b /\ f.at = "publishing"
    BY <1>0, <2>1 DEF Sessions
  <2> HIDE DEF f
  <2>5. sshPc[c] = "open" /\ Owned(s.set, sshHost[c]) /\ Announced(c, s.set)
    BY <1>0, <2>2 DEF SshSession, s
  <2> QED
    BY <1>3, <2>2, <2>3, <2>4, <2>5
<1>11. ASSUME S!PublishCommand(c, k) PROVE SshInv'
  <2> DEFINE f == [s EXCEPT !.at = "answering"]
             e == S!CommandEvent(c, k, s.set)
  <2>1. /\ chan' = [chan EXCEPT ![c][k] = f] /\ UNCHANGED answers /\ s.at = "publishing"
        /\ sshPublished' = [sshPublished EXCEPT ![c] = @ \cup {e}]
    BY <1>11 DEF S!PublishCommand, S!Publish
  <2>2. e.action = "cmd" /\ e.chan = k /\ e.n = s.n /\ e.canary = s.set
    BY DEF S!CommandEvent
  <2>3. e \in sshPublished'[c] /\ sshPublished[c] \subseteq sshPublished'[c]
    BY <2>1 DEF SshInv, SshTypes
  <2>4. /\ sshPc[c] = "open" /\ Owned(s.set, sshHost[c]) /\ Announced(c, s.set)
        /\ (s.hot => s.slow /\ sshHost[c] \in blocked)
    BY <1>0, <2>1 DEF SshSession
  <2> HIDE DEF e, s
  <2>5. /\ f \in Sessions /\ f.at = "answering" /\ f.set = s.set /\ f.n = s.n
        /\ f.hot = s.hot /\ f.slow = s.slow
    BY <1>0 DEF Sessions
  <2> HIDE DEF f
  <2>6. chan'[c][k] = f
    BY <2>1 DEF SshInv, SshTypes
  <2>7. SshSession(c, k)'
    BY <1>0, <2>2, <2>3, <2>4, <2>5, <2>6 DEF SshSession, Owned, Announced
  <2> QED
    BY <1>0, <1>2, <2>1, <2>5, <2>7, SessionStep
<1>12. ASSUME NEW again \in BOOLEAN, S!WriteAnswer(c, k, again) PROVE SshInv'
  <2> DEFINE g == [s EXCEPT !.at = "reading", !.slow = FALSE, !.hot = FALSE]
  <2>1. /\ chan' = [chan EXCEPT ![c][k] = IF again THEN g ELSE S!Closed(c, k)] /\ UNCHANGED sshPublished
        /\ S!Answer(c, k) /\ s.at = "answering"
    BY <1>12 DEF S!WriteAnswer
  <2> HIDE DEF s
  <2>2. g \in Sessions /\ g.at = "reading" /\ g.set = s.set /\ g.hot = FALSE
    BY <1>0 DEF Sessions
  <2> HIDE DEF g
  <2>3. CASE again
    BY <1>4, <2>1, <2>2, <2>3
  <2>4. CASE ~again
    BY <1>4, <1>7, <2>1, <2>4
  <2> QED
    BY <2>3, <2>4
<1> QED
  BY <1>1, <1>2, <1>5, <1>6, <1>8, <1>9, <1>10, <1>11, <1>12 DEF S!Session

-----------------------------------------------------------------------------
(* Steps of all three.                                                     *)

LEMMA InitIInv == Init => IInv
<1> SUFFICES ASSUME Init PROVE IInv
  OBVIOUS
<1> USE DEF Init
<1>1. RegistryInv
  BY DEF RegistryInv, W!Init, W!R!Init
<1>2. WebInv
  <2> USE DEF W!Init
  <2>1. W!TypeOK
    BY MaxTimeAssumption DEF W!TypeOK, W!R!Init
  <2>2. WebRecord
    BY DEF WebRecord, W!BaitIsPublished, W!SpoofingIsUseless
  <2>3. \A r \in Reqs : WebRequest(r)
    BY DEF WebRequest
  <2> QED
    BY <2>1, <2>2, <2>3 DEF WebInv
<1>3. RedisInv
  <2> USE DEF D!Init
  <2>1. RedisTypes
    BY DEF RedisTypes, D!NoCall, Calls
  <2>2. \A c \in RedisConns : RedisConn(c)
    BY DEF RedisConn, D!NoCall
  <2>3. \A c \in RedisConns : RedisOrder(c)
    BY DEF RedisOrder
  <2>4. \A r \in replies : RedisReply(r)
    OBVIOUS
  <2>5. D!OnlyFailedRepliesUnpublished
    BY DEF D!OnlyFailedRepliesUnpublished, D!Served
  <2> QED
    BY <2>1, <2>2, <2>3, <2>4, <2>5 DEF RedisInv
<1>4. SshInv
  <2> USE DEF S!Init
  <2>1. SshTypes
    BY DEF SshTypes, S!NoChan, Sessions
  <2>2. \A c \in SshConns : SshConn(c)
    BY DEF SshConn
  <2>3. \A c \in SshConns, k \in Chans : SshSession(c, k)
    BY DEF SshSession, S!NoChan
  <2>4. S!AnswerIsPublished /\ S!SlowedUnlessExit
    BY DEF S!AnswerIsPublished, S!SlowedUnlessExit
  <2> QED
    BY <2>1, <2>2, <2>3, <2>4 DEF SshInv
<1> QED
  BY <1>1, <1>2, <1>3, <1>4 DEF IInv

\* Time passes, or a source is quarantined: no decoy moves.
LEMMA NothingMoves ==
  ASSUME IInv, TimePasses \/ \E ip \in Suspects : Quarantine(ip)
  PROVE  IInv'
<1>1. /\ UNCHANGED <<current, handed, webVars, redisVars, sshVars>>
      /\ blocked \subseteq blocked' /\ blocked' \subseteq IPs /\ clock' \in 0..MaxTime
  <2>1. CASE TimePasses
    <3>1. clock' = clock + 1 /\ clock < MaxTime /\ clock \in 0..MaxTime /\ blocked' = blocked
      BY <2>1 DEF TimePasses, W!TimePasses, W!R!TimePasses, IInv, WebInv, W!TypeOK
    <3> QED
      BY <2>1, <3>1, MaxTimeAssumption DEF TimePasses, W!TimePasses, D!TimePasses, S!TimePasses, W!R!TimePasses,
           webVars, redisVars, sshVars, IInv, RegistryInv
  <2>2. CASE \E ip \in Suspects : Quarantine(ip)
    BY <2>2, IPsAssumption DEF Quarantine, W!Quarantine, D!Quarantine, S!Quarantine, webVars, redisVars, sshVars,
         IInv, RegistryInv, WebInv, W!TypeOK
  <2> QED
    BY <2>1, <2>2
<1>2. RegistryInv' /\ Kept
  BY <1>1, RegistryFrame DEF IInv
<1>3. Elsewhere
  BY <1>1, <1>2 DEF Elsewhere
<1> QED
  BY <1>1, <1>2, <1>3, WebFrame, RedisFrame, SshFrame DEF IInv

\* A source is released: what was in hand since before counts no longer.
LEMMA Released ==
  ASSUME IInv, NEW ip \in Suspects, Release(ip)
  PROVE  IInv'
<1> USE DEF Release
<1>1. /\ blocked' = blocked \ {ip} /\ UNCHANGED <<clock, current, handed>>
      /\ UNCHANGED <<webPc, req, set, webPublished, served>>
      /\ hot' = [r \in Reqs |-> hot[r] /\ req[r].peer # ip]
  BY DEF W!Release
<1>2. /\ UNCHANGED <<redisPc, redisHost, ks, read, redisPublished, replies>>
      /\ call' = [c \in RedisConns |-> [call[c] EXCEPT !.hot = @ /\ redisHost[c] # ip]]
  BY DEF D!Release
<1>3. /\ UNCHANGED <<sshPc, sshHost, metaSet, logins, sshPublished, answers>>
      /\ chan' = [c \in SshConns |-> [k \in Chans |-> [chan[c][k] EXCEPT !.hot = @ /\ sshHost[c] # ip]]]
  BY DEF S!Release
<1> HIDE DEF Release
<1>4. RegistryInv' /\ Kept
  BY <1>1, RegistryFrame DEF IInv, RegistryInv
<1>5. WebInv'
  <2>1. W!TypeOK'
    BY <1>1 DEF IInv, WebInv, W!TypeOK
  <2>2. WebRecord'
    BY <1>1, <1>4 DEF IInv, WebInv, WebRecord, W!BaitIsPublished, W!SpoofingIsUseless, Kept
  <2>3. \A r \in Reqs : WebRequest(r)'
    BY <1>1, <1>4 DEF IInv, WebInv, WebRequest, W!ClientIP, Kept
  <2> QED
    BY <2>1, <2>2, <2>3 DEF WebInv
<1>6. RedisInv'
  <2>1. ASSUME NEW c \in RedisConns
        PROVE  /\ call'[c] \in Calls /\ call'[c].name = call[c].name /\ call'[c].slow = call[c].slow
               /\ (call'[c].hot => call[c].hot /\ redisHost[c] # ip)
    <3> DEFINE b == call[c].hot /\ redisHost[c] # ip
    <3>1. call[c] \in Calls
      BY DEF IInv, RedisInv, RedisTypes
    <3>2. b \in BOOLEAN /\ (b => call[c].hot /\ redisHost[c] # ip)
      OBVIOUS
    <3>3. call'[c] = [call[c] EXCEPT !.hot = b]
      BY <1>2
    <3> HIDE DEF b
    <3> QED
      BY <3>1, <3>2, <3>3 DEF Calls
  <2>2. RedisTypes'
    BY <1>2, <2>1 DEF IInv, RedisInv, RedisTypes
  <2>3. \A c \in RedisConns : RedisConn(c)'
    BY <1>1, <1>2, <1>4, <2>1 DEF IInv, RedisInv, RedisConn, Kept
  <2>4. \A c \in RedisConns : RedisOrder(c)'
    BY <1>2 DEF IInv, RedisInv, RedisOrder, D!Published
  <2>5. \A r \in replies' : RedisReply(r)'
    BY <1>2 DEF IInv, RedisInv, RedisReply
  <2>6. D!OnlyFailedRepliesUnpublished'
    BY <1>2 DEF IInv, RedisInv, D!OnlyFailedRepliesUnpublished, D!Served, D!Published
  <2> QED
    BY <2>2, <2>3, <2>4, <2>5, <2>6 DEF RedisInv
<1>7. SshInv'
  <2>1. ASSUME NEW c \in SshConns, NEW k \in Chans
        PROVE  /\ chan'[c][k] \in Sessions
               /\ chan'[c][k].at = chan[c][k].at /\ chan'[c][k].set = chan[c][k].set
               /\ chan'[c][k].kind = chan[c][k].kind /\ chan'[c][k].n = chan[c][k].n
               /\ chan'[c][k].slow = chan[c][k].slow
               /\ (chan'[c][k].hot => chan[c][k].hot /\ sshHost[c] # ip)
    <3> DEFINE b == chan[c][k].hot /\ sshHost[c] # ip
    <3>1. chan[c][k] \in Sessions
      BY DEF IInv, SshInv, SshTypes
    <3>2. b \in BOOLEAN /\ (b => chan[c][k].hot /\ sshHost[c] # ip)
      OBVIOUS
    <3>3. chan'[c][k] = [chan[c][k] EXCEPT !.hot = b]
      BY <1>3
    <3> HIDE DEF b
    <3> QED
      BY <3>1, <3>2, <3>3 DEF Sessions
  <2>2. SshTypes'
    BY <1>3, <2>1 DEF IInv, SshInv, SshTypes
  <2>3. \A c \in SshConns : SshConn(c)'
    BY <1>3, <1>4 DEF IInv, SshInv, SshConn, Announced, Kept
  <2>4. \A c \in SshConns, k \in Chans : SshSession(c, k)'
    BY <1>1, <1>3, <1>4, <2>1 DEF IInv, SshInv, SshSession, Announced, Kept
  <2>5. S!AnswerIsPublished' /\ S!SlowedUnlessExit'
    BY <1>3 DEF IInv, SshInv, S!AnswerIsPublished, S!SlowedUnlessExit
  <2> QED
    BY <2>2, <2>3, <2>4, <2>5 DEF SshInv
<1> QED
  BY <1>4, <1>5, <1>6, <1>7 DEF IInv

\* Each decoy keeps its own invariant and leaves the others' alone.
LEMMA StepIInv == IInv /\ [Next]_vars => IInv'
<1> SUFFICES ASSUME IInv, [Next]_vars PROVE IInv'
  OBVIOUS
<1>0. clock \in 0..MaxTime
  BY DEF IInv, WebInv, W!TypeOK
<1>1. CASE TimePasses \/ \E ip \in Suspects : Quarantine(ip)
  BY <1>1, NothingMoves
<1>2. CASE \E ip \in Suspects : Release(ip)
  BY <1>2, Released
<1>3. ASSUME NEW r \in Reqs, WebComes(r) \/ WebServes(r) PROVE IInv'
  <2>1. RegistryInv' /\ WebInv' /\ Elsewhere
    BY <1>3, WebArrives, WebServed DEF WebComes, WebServes, IInv
  <2>2. UNCHANGED <<redisVars, sshVars>>
    BY <1>3 DEF WebComes, WebServes
  <2> QED
    BY <2>1, <2>2, RedisFrame, SshFrame DEF IInv
<1>4. ASSUME NEW c \in RedisConns, RedisComes(c) \/ RedisServes(c) PROVE IInv'
  <2>1. RegistryInv' /\ RedisInv' /\ Elsewhere
    BY <1>0, <1>4, RedisSeeds, RedisServed DEF RedisComes, RedisServes, IInv
  <2>2. UNCHANGED <<webVars, sshVars>>
    BY <1>4 DEF RedisComes, RedisServes
  <2> QED
    BY <2>1, <2>2, WebFrame, SshFrame DEF IInv
<1>5. ASSUME NEW c \in SshConns, SshComes(c) \/ SshServes(c) PROVE IInv'
  <2>1. RegistryInv' /\ SshInv' /\ Elsewhere
    BY <1>0, <1>5, SshAccepts, SshConnects, SshServes1 DEF SshComes, SshServes, S!HandleConn, IInv
  <2>2. UNCHANGED <<webVars, redisVars>>
    BY <1>5 DEF SshComes, SshServes
  <2> QED
    BY <2>1, <2>2, WebFrame, RedisFrame DEF IInv
<1>6. CASE UNCHANGED vars
  <2>1. /\ UNCHANGED <<clock, current, handed, blocked>>
        /\ UNCHANGED <<webVars, redisVars, sshVars>>
    BY <1>6 DEF vars
  <2>2. RegistryInv' /\ Kept
    BY <2>1, RegistryFrame DEF IInv, RegistryInv
  <2>3. Elsewhere
    BY <1>0, <2>1, <2>2 DEF Elsewhere, IInv, RegistryInv
  <2> QED
    BY <2>1, <2>2, <2>3, WebFrame, RedisFrame, SshFrame DEF IInv
<1> QED
  BY <1>1, <1>2, <1>3, <1>4, <1>5, <1>6 DEF Next

LEMMA Invariant == Spec => []IInv
BY InitIInv, StepIInv, PTL DEF Spec

-----------------------------------------------------------------------------
(* The decoys take from the registry what it promises.                     *)

\* Each decoy's own instance of module Registry is the one above.
LEMMA OneRegistry ==
  ASSUME NEW ip \in IPs
  PROVE  /\ W!R!Keep(ip) \/ W!R!Renew(ip) => R!Next
         /\ D!R!Keep(ip) \/ D!R!Renew(ip) => R!Next
         /\ S!R!Keep(ip) \/ S!R!Renew(ip) => R!Next
<1>1. ASSUME R!Keep(ip) \/ R!Renew(ip) PROVE R!Next
  BY <1>1 DEF R!Next
<1>2. W!R!Keep(ip) \/ W!R!Renew(ip) => R!Keep(ip) \/ R!Renew(ip)
  BY DEF W!R!Keep, W!R!Renew, W!R!LiveAt, W!R!HandOut, R!Keep, R!Renew, R!LiveAt, R!HandOut
<1>3. D!R!Keep(ip) \/ D!R!Renew(ip) => R!Keep(ip) \/ R!Renew(ip)
  BY DEF D!R!Keep, D!R!Renew, D!R!LiveAt, D!R!HandOut, R!Keep, R!Renew, R!LiveAt, R!HandOut
<1>4. S!R!Keep(ip) \/ S!R!Renew(ip) => R!Keep(ip) \/ R!Renew(ip)
  BY DEF S!R!Keep, S!R!Renew, S!R!LiveAt, S!R!HandOut, R!Keep, R!Renew, R!LiveAt, R!HandOut
<1> QED
  BY <1>1, <1>2, <1>3, <1>4

LEMMA StepOfRegistry == IInv /\ [Next]_vars => [R!Next]_R!vars
<1> SUFFICES ASSUME IInv, [Next]_vars PROVE R!Next \/ UNCHANGED <<clock, current, handed>>
  BY DEF R!vars
<1>1. CASE TimePasses
  BY <1>1 DEF TimePasses, W!TimePasses, W!R!TimePasses, R!TimePasses, R!Next
<1>2. ASSUME NEW ip \in Suspects, Quarantine(ip) \/ Release(ip) PROVE UNCHANGED <<clock, current, handed>>
  BY <1>2 DEF Quarantine, Release, W!Quarantine, W!Release
<1>3. ASSUME NEW r \in Reqs, WebComes(r) PROVE UNCHANGED <<clock, current, handed>>
  BY <1>3 DEF WebComes, W!Arrive
<1>4. ASSUME NEW r \in Reqs, WebServes(r) PROVE R!Next \/ UNCHANGED <<clock, current, handed>>
  <2>1. CASE W!Plant(r)
    <3>1. req[r] \in W!Requests
      BY <2>1 DEF W!Plant, W!Goto, IInv, WebInv, W!TypeOK
    <3>2. PICK ip \in IPs : ip = W!ClientIP(req[r])
      BY <3>1, ClientIPIsSource
    <3> QED
      BY <2>1, <3>2, OneRegistry DEF W!Plant
  <2> QED
    BY <1>4, <2>1 DEF WebServes, W!ServeHTTP, W!Absorb, W!Capture, W!Publish, W!Serve
<1>5. ASSUME NEW c \in RedisConns, RedisComes(c) PROVE R!Next
  <2>1. PICK ip \in IPs : D!Seed(c, ip)
    BY <1>5 DEF RedisComes
  <2> QED
    BY <2>1, OneRegistry DEF D!Seed, D!SetFor
<1>6. ASSUME NEW c \in RedisConns, RedisServes(c) PROVE R!Next \/ UNCHANGED <<clock, current, handed>>
  <2>1. CASE D!AuthSetFor(c)
    <3>1. redisHost[c] \in IPs
      BY <2>1 DEF D!AuthSetFor, D!Goto, IInv, RedisInv, RedisConn
    <3> QED
      BY <2>1, <3>1, OneRegistry DEF D!AuthSetFor, D!SetFor
  <2> QED
    BY <1>6, <2>1 DEF RedisServes, D!HandleConn, D!Connect, D!ReadCommand, D!ReadFails, D!Serve, D!AuthPublish,
         D!CheckBlocked, D!PublishCommand, D!AuthReply, D!ReplyCommand
<1>7. ASSUME NEW c \in SshConns, SshComes(c) PROVE UNCHANGED <<clock, current, handed>>
  BY <1>7 DEF SshComes, S!Accept
<1>8. ASSUME NEW c \in SshConns, SshServes(c) PROVE R!Next \/ UNCHANGED <<clock, current, handed>>
  <2>1. CASE S!Login(c)
    <3>1. sshHost[c] \in IPs
      BY <2>1 DEF S!Login, S!Goto, IInv, SshInv, SshConn
    <3> QED
      BY <2>1, <3>1, OneRegistry DEF S!Login
  <2> QED
    BY <1>8, <2>1 DEF SshServes, S!HandleConn, S!PublishLogin, S!HandshakeFails, S!Banner, S!Session, S!OpenSession,
         S!ReadCommand, S!CloseSession, S!Exit, S!CheckBlocked, S!PublishCommand, S!WriteAnswer
<1>9. CASE UNCHANGED vars
  BY <1>9 DEF vars
<1> QED
  BY <1>1, <1>2, <1>3, <1>4, <1>5, <1>6, <1>7, <1>8, <1>9 DEF Next

\* The three decoys together use one registry as module Registry promises it,
\* and as module Canary implements it: all they do to it is to ask it for the
\* set of a source (the calls of SetFor in ServeHTTP, handleLogin, handleConn,
\* publishAuth and publishLogin), one at a time.
THEOREM DecoysUseTheRegistry == Spec => R!Spec
<1>1. Init => R!Init
  BY DEF Init, W!Init, W!R!Init, R!Init
<1> QED
  BY <1>1, Invariant, StepOfRegistry, PTL DEF Spec, R!Spec

-----------------------------------------------------------------------------
(* What follows.                                                           *)

\* Bait never leaves unrecorded (handleSession's exec and the web handlers
\* publish before they answer, serve of the Redis decoy after it): a page and
\* an SSH answer come after their event, which names the set they show, and a
\* Redis command without an event is one whose reply could not be written.
THEOREM EverythingShownIsRecorded == Spec => []BaitIsRecorded
<1>1. IInv => BaitIsRecorded
  BY DEF IInv, WebInv, WebRecord, RedisInv, SshInv, BaitIsRecorded
<1> QED
  BY <1>1, Invariant, PTL

\* What was shown leads back to one address: the set of a page, of a Redis
\* reply and of an SSH session was handed to the source the event names, and
\* to nobody else, however the three decoys' hand-outs interleave and expire
\* (Registry.For, publishLogin, the seeding of handleConn).
THEOREM EverythingShownLeadsBack == Spec => []BaitIsAttributable
<1>1. ASSUME IInv PROVE BaitIsAttributable
  <2>1. W!BaitIsAttributable
    BY <1>1 DEF IInv, WebInv, WebRecord, Owned, W!BaitIsAttributable
  <2>2. D!ReplyIsAttributable
    <3> SUFFICES ASSUME NEW r \in replies, r.set # NoSet
                 PROVE  /\ \E h \in handed : h.ip = redisHost[r.conn] /\ h.set = r.set
                        /\ \A h \in handed : h.set = r.set => h.ip = redisHost[r.conn]
                        /\ \A i \in DOMAIN redisPublished[r.conn] : LET e == redisPublished[r.conn][i] IN
                             e.action = "cmd" => e.canary = r.set
      BY DEF D!ReplyIsAttributable
    <3>1. r.conn \in RedisConns
      BY <1>1 DEF IInv, RedisInv, RedisTypes, Replies
    <3>2. r.set = ks[r.conn] /\ redisPc[r.conn] # "idle"
      BY <1>1 DEF IInv, RedisInv, RedisReply
    <3>3. Owned(ks[r.conn], redisHost[r.conn])
      BY <1>1, <3>1, <3>2 DEF IInv, RedisInv, RedisConn
    <3>4. \A i \in DOMAIN redisPublished[r.conn] : LET e == redisPublished[r.conn][i] IN
            e.action = "cmd" => e.canary = ks[r.conn]
      BY <1>1, <3>1 DEF IInv, RedisInv, RedisOrder
    <3> QED
      BY <3>2, <3>3, <3>4 DEF Owned
  <2>3. S!SessionSetWasAnnounced
    BY <1>1 DEF IInv, SshInv, SshSession, Owned, Announced, S!SessionSetWasAnnounced
  <2> QED
    BY <2>1, <2>2, <2>3 DEF BaitIsAttributable
<1> QED
  BY <1>1, Invariant, PTL

\* The quarantine is shared: a source that is quarantined from its request or
\* command to the answer gets the 403 or a late answer in every decoy (the
\* checks of IsBlocked in absorb, serve and exec), AUTH and exit excepted, and
\* no header of a request changes that.
THEOREM QuarantineHolds == Spec => []QuarantineIsShared
<1>1. ASSUME IInv PROVE QuarantineIsShared
  <2>1. D!SlowedUnlessAuth
    BY <1>1 DEF IInv, RedisInv, RedisReply, D!SlowedUnlessAuth
  <2> QED
    BY <1>1, <2>1 DEF IInv, WebInv, WebRecord, SshInv, QuarantineIsShared
<1> QED
  BY <1>1, Invariant, PTL

\* The events of a Redis connection are published once each and in the order
\* of the commands, the connection first, although AUTH publishes before its
\* reply and the others after theirs (serve).
THEOREM RedisOrderHolds == Spec => []PublishedInOrder
<1>1. ASSUME IInv PROVE PublishedInOrder
  BY <1>1 DEF IInv, RedisInv, RedisOrder, PublishedInOrder, D!PublishedInOrder
<1> QED
  BY <1>1, Invariant, PTL

-----------------------------------------------------------------------------
(* What is counted.                                                        *)

\* A connection that has not come has neither source nor set; a command in
\* hand has been counted, and the counters stop at their bounds.
RedisCounts(c) ==
  /\ redisPc[c] = "idle" => ks[c] = NoSet /\ redisHost[c] = NoIP
  /\ read[c] <= MaxCommands
  /\ redisPc[c] \in {"auth", "auth_publish", "auth_reply", "cmd", "reply", "publish"} => read[c] >= 1

SshCounts(c) ==
  /\ sshPc[c] = "idle" => sshHost[c] = NoIP
  /\ logins[c] <= MaxLogins
  /\ sshPc[c] = "login" => logins[c] >= 1
  /\ sshPc[c] # "idle" /\ logins[c] > 0 => metaSet[c] \in SetIds

SessionCounts(c, k) ==
  /\ chan[c][k].n <= MaxCommands
  /\ chan[c][k].at \in {"exec", "leaving", "publishing", "answering"} => chan[c][k].n >= 1
  /\ chan[c][k].at \notin {"none", "closed"} => chan[c][k].set \in SetIds

Answers == [conn : SshConns, chan : Chans, n : 1..MaxCommands, kind : {"run", "exit"},
            set : SetIds \cup {NoSet}, spared : BOOLEAN]

RedisPart == (\A c \in RedisConns : RedisCounts(c)) /\ (\A r \in replies : r.n >= 1)

SshPart ==
  /\ \A c \in SshConns : SshCounts(c)
  /\ \A c \in SshConns, k \in Chans : SessionCounts(c, k)
  /\ sshPublished \in [SshConns -> SUBSET S!Event]
  /\ answers \subseteq Answers

LEMMA InitCounts == Init => RedisPart /\ SshPart
<1> SUFFICES ASSUME Init PROVE RedisPart /\ SshPart
  OBVIOUS
<1>1. RedisPart
  BY MaxInputsAssumption DEF Init, D!Init, RedisPart, RedisCounts
<1>2. SshPart
  BY MaxInputsAssumption DEF Init, S!Init, S!NoChan, SshPart, SshCounts, SessionCounts
<1> QED
  BY <1>1, <1>2

\* A step of one Redis connection.
LEMMA RedisCounted ==
  ASSUME RedisInv, RedisPart, NEW c \in RedisConns, D!HandleConn(c) \/ \E ip \in IPs : D!Seed(c, ip)
  PROVE  RedisPart'
<1> USE DEF D!Goto
<1>0. /\ redisPc \in [RedisConns -> {"idle", "seeded", "reading", "auth", "auth_publish",
                                     "auth_reply", "cmd", "reply", "publish", "closed"}]
      /\ ks = [x \in RedisConns |-> ks[x]] /\ redisHost = [x \in RedisConns |-> redisHost[x]]
      /\ read \in [RedisConns -> Nat] /\ RedisCounts(c) /\ MaxCommands \in Nat
  BY MaxInputsAssumption DEF RedisInv, RedisTypes, RedisPart
<1>1. ASSUME NEW ip \in IPs, D!Seed(c, ip) PROVE RedisPart'
  <2>1. PICK s : ks' = [ks EXCEPT ![c] = s]
    BY <1>1 DEF D!Seed, D!SetFor
  <2> QED
    BY <1>0, <1>1, <2>1 DEF D!Seed, RedisPart, RedisCounts
<1>2. CASE D!Connect(c) \/ D!ReadFails(c) \/ D!AuthPublish(c) \/ D!CheckBlocked(c) \/ D!PublishCommand(c)
  BY <1>0, <1>2 DEF D!Connect, D!ReadFails, D!AuthPublish, D!CheckBlocked, D!PublishCommand, RedisPart, RedisCounts
<1>3. CASE D!AuthSetFor(c)
  BY <1>0, <1>3 DEF D!AuthSetFor, RedisPart, RedisCounts
<1>4. ASSUME NEW name \in {"AUTH", "CMD"}, D!ReadCommand(c, name) PROVE RedisPart'
  BY <1>0, <1>4 DEF D!ReadCommand, RedisPart, RedisCounts
<1>5. ASSUME D!AuthReply(c) \/ \E failed \in BOOLEAN : D!ReplyCommand(c, failed) PROVE RedisPart'
  <2>1. /\ UNCHANGED <<redisHost, ks, read>> /\ read[c] >= 1
        /\ \/ redisPc' = [redisPc EXCEPT ![c] = "reading"]
           \/ redisPc' = [redisPc EXCEPT ![c] = "publish"]
    BY <1>0, <1>5 DEF D!AuthReply, D!ReplyCommand, RedisCounts
  <2>2. \A r \in replies' : r \in replies \/ r.n = read[c]
    BY <1>5 DEF D!AuthReply, D!ReplyCommand, D!Reply
  <2>3. \A r \in replies' : r.n >= 1
    BY <2>1, <2>2 DEF RedisPart
  <2>4. \A x \in RedisConns : RedisCounts(x)'
    BY <1>0, <2>1 DEF RedisPart, RedisCounts
  <2> QED
    BY <2>3, <2>4 DEF RedisPart
<1> QED
  BY <1>1, <1>2, <1>3, <1>4, <1>5 DEF D!HandleConn, D!Serve


\* A step of the goroutine of one SSH connection.
LEMMA SshCounted ==
  ASSUME RegistryInv, SshInv, SshPart, NEW c \in SshConns,
         (\E ip \in IPs : S!Accept(c, ip)) \/ S!Login(c) \/ S!PublishLogin(c) \/ S!HandshakeFails(c) \/ S!Banner(c)
  PROVE  SshPart'
<1> USE DEF S!Goto
<1>0. /\ sshPc \in [SshConns -> {"idle", "handshake", "login", "open", "closed"}]
      /\ sshHost = [x \in SshConns |-> sshHost[x]] /\ logins \in [SshConns -> Nat]
      /\ metaSet \in [SshConns -> SetIds \cup {NoSet}]
      /\ SshCounts(c) /\ SshConn(c) /\ MaxLogins \in Nat
  BY MaxInputsAssumption DEF SshInv, SshTypes, SshPart
<1>1. UNCHANGED <<chan, answers>>
  BY DEF S!Accept, S!Login, S!PublishLogin, S!HandshakeFails, S!Banner
<1>2. \A x \in SshConns : SshCounts(x)'
  <2>1. CASE S!Login(c)
    <3>1. PICK a \in IPs : a = sshHost[c]
      BY <1>0, <2>1 DEF S!Login, SshConn
    <3>2. (R!Keep(a) \/ R!Renew(a)) /\ blocked' = blocked
      BY <2>1, <3>1 DEF S!Login, S!R!Keep, S!R!Renew, S!R!LiveAt, S!R!HandOut, R!Keep, R!Renew, R!LiveAt, R!HandOut
    <3>3. current'[a].set \in SetIds
      BY <3>2, HandOutIsOwned
    <3>4. metaSet' = [metaSet EXCEPT ![c] = current'[a].set]
      BY <2>1, <3>1 DEF S!Login
    <3> QED
      BY <1>0, <2>1, <3>3, <3>4 DEF S!Login, SshPart, SshCounts
  <2>2. CASE (\E ip \in IPs : S!Accept(c, ip)) \/ S!PublishLogin(c) \/ S!HandshakeFails(c) \/ S!Banner(c)
    BY <1>0, <2>2 DEF S!Accept, S!PublishLogin, S!HandshakeFails, S!Banner, SshPart, SshCounts, SshConn
  <2> QED
    BY <2>1, <2>2
<1>3. sshPublished' \in [SshConns -> SUBSET S!Event]
  <2>1. CASE S!PublishLogin(c)
    <3> DEFINE e == [action |-> "login", n |-> logins[c], canary |-> metaSet[c]]
    <3>1. logins[c] \in 1..MaxLogins /\ metaSet[c] \in SetIds \cup {NoSet}
      BY <1>0, <2>1 DEF S!PublishLogin, SshCounts
    <3>2. e \in S!Event
      BY <3>1 DEF S!Event
    <3>3. sshPublished' = [sshPublished EXCEPT ![c] = @ \cup {e}]
      BY <2>1 DEF S!PublishLogin, S!Publish
    <3> HIDE DEF e
    <3> QED
      BY <3>2, <3>3 DEF SshPart
  <2>2. CASE S!Banner(c)
    <3> DEFINE e == [action |-> "banner", n |-> 0, canary |-> NoSet]
    <3>1. e \in S!Event
      BY DEF S!Event
    <3>2. sshPublished' = [sshPublished EXCEPT ![c] = @ \cup {e}]
      BY <2>2 DEF S!Banner, S!Publish
    <3> HIDE DEF e
    <3> QED
      BY <3>1, <3>2 DEF SshPart
  <2>3. CASE (\E ip \in IPs : S!Accept(c, ip)) \/ S!Login(c) \/ S!HandshakeFails(c)
    BY <2>3 DEF S!Accept, S!Login, S!HandshakeFails, SshPart
  <2> QED
    BY <2>1, <2>2, <2>3
<1> QED
  BY <1>1, <1>2, <1>3 DEF SshPart, SessionCounts

\* A session goes from one place to another, may publish and may answer.
LEMMA SessionMoves ==
  ASSUME SshInv, SshPart, NEW c \in SshConns, NEW k \in Chans, NEW f \in Sessions,
         chan' = [chan EXCEPT ![c][k] = f], UNCHANGED <<sshPc, sshHost, logins, metaSet>>,
         f.n <= MaxCommands, f.at \in {"exec", "leaving", "publishing", "answering"} => f.n >= 1,
         f.at \notin {"none", "closed"} => f.set \in SetIds,
         sshPublished' \in [SshConns -> SUBSET S!Event], answers' \subseteq Answers
  PROVE  SshPart'
<1>1. chan' = [chan EXCEPT ![c] = [chan[c] EXCEPT ![k] = f]] /\ chan[c] \in [Chans -> Sessions]
      /\ chan \in [SshConns -> [Chans -> Sessions]]
  BY DEF SshInv, SshTypes
<1>2. \A x \in SshConns, j \in Chans : chan'[x][j] = IF x = c /\ j = k THEN f ELSE chan[x][j]
  BY <1>1
<1>3. \A x \in SshConns, j \in Chans : SessionCounts(x, j)'
  BY <1>2 DEF SshPart, SessionCounts
<1>4. \A x \in SshConns : SshCounts(x)'
  BY DEF SshPart, SshCounts
<1> QED
  BY <1>3, <1>4 DEF SshPart

LEMMA SessionCounted ==
  ASSUME SshInv, SshPart, NEW c \in SshConns, NEW k \in Chans, S!Session(c, k)
  PROVE  SshPart'
<1> DEFINE s == chan[c][k]
<1> USE DEF S!Run
<1>1. s \in Sessions
  BY DEF SshInv, SshTypes
<1>2. /\ s.at \in {"none", "reading", "exec", "leaving", "publishing", "answering", "closed"}
      /\ s.n \in Nat /\ s.set \in SetIds \cup {NoSet} /\ s.kind \in {"run", "exit"}
      /\ s.slow \in BOOLEAN /\ s.hot \in BOOLEAN
  BY <1>1 DEF Sessions
<1>3. /\ s.n <= MaxCommands /\ (s.at \in {"exec", "leaving", "publishing", "answering"} => s.n >= 1)
      /\ (s.at \notin {"none", "closed"} => s.set \in SetIds) /\ MaxCommands \in Nat
      /\ sshPublished \in [SshConns -> SUBSET S!Event] /\ answers \subseteq Answers
  BY MaxInputsAssumption DEF SshPart, SessionCounts
<1>4. UNCHANGED <<sshPc, sshHost, logins, metaSet>>
  BY DEF S!Session, S!OpenSession, S!ReadCommand, S!CloseSession, S!Exit, S!CheckBlocked, S!PublishCommand, S!WriteAnswer
<1>5. CASE S!OpenSession(c, k)
  <2>1. PICK f : f = [S!NoChan EXCEPT !.at = "reading", !.set = metaSet[c]]
    OBVIOUS
  <2>2. f \in Sessions /\ f.n = 0 /\ f.at = "reading" /\ f.set \in SetIds
    <3>1. sshPc[c] = "open" /\ logins[c] > 0
      BY <1>5 DEF S!OpenSession, SshInv, SshConn
    <3>2. metaSet[c] \in SetIds
      BY <3>1 DEF SshPart, SshCounts
    <3> QED
      BY <2>1, <3>2 DEF S!NoChan, Sessions
  <2>3. chan' = [chan EXCEPT ![c][k] = f] /\ sshPublished' = sshPublished /\ answers' = answers
    BY <1>5, <2>1 DEF S!OpenSession
  <2>4. sshPublished' \in [SshConns -> SUBSET S!Event] /\ answers' \subseteq Answers
    BY <1>3, <2>3
  <2>5. f.n <= MaxCommands
    BY <2>2, MaxInputsAssumption
  <2> HIDE DEF s
  <2> QED
    BY <1>4, <2>2, <2>3, <2>4, <2>5, SessionMoves
<1>6. ASSUME NEW kind \in {"run", "exit"}, S!ReadCommand(c, k, kind) PROVE SshPart'
  <2>1. PICK b : b = (sshHost[c] \in blocked) /\ b \in BOOLEAN
    <3>1. (sshHost[c] \in blocked) \in BOOLEAN
      OBVIOUS
    <3> QED
      BY <3>1
  <2>2. PICK f : f = [at |-> IF kind = "exit" THEN "leaving" ELSE "exec", set |-> s.set, kind |-> kind,
                      n |-> s.n + 1, slow |-> FALSE, hot |-> b]
    OBVIOUS
  <2>3. f \in Sessions /\ f.n = s.n + 1 /\ f.set = s.set /\ f.at \in {"leaving", "exec"}
    BY <1>2, <2>1, <2>2 DEF Sessions
  <2>4. s.n < MaxCommands /\ s.at = "reading" /\ chan' = [chan EXCEPT ![c][k] = f] /\ sshPublished' = sshPublished /\ answers' = answers
    BY <1>6, <2>1, <2>2 DEF S!ReadCommand
  <2>5. f.n <= MaxCommands /\ f.n >= 1 /\ f.set \in SetIds
    BY <1>2, <1>3, <2>3, <2>4
  <2>6. sshPublished' \in [SshConns -> SUBSET S!Event] /\ answers' \subseteq Answers
    BY <1>3, <2>4
  <2> HIDE DEF s
  <2> QED
    BY <1>4, <2>3, <2>4, <2>5, <2>6, SessionMoves
<1>7. ASSUME NEW f, f = S!Closed(c, k) PROVE f \in Sessions /\ f.n = s.n /\ f.at = "closed"
  BY <1>2, <1>7 DEF S!Closed, S!NoChan, Sessions
<1>8. CASE S!CloseSession(c, k)
  <2>1. PICK f : f = S!Closed(c, k)
    OBVIOUS
  <2>2. chan' = [chan EXCEPT ![c][k] = f] /\ sshPublished' = sshPublished /\ answers' = answers
    BY <1>8, <2>1 DEF S!CloseSession
  <2>3. f \in Sessions /\ f.n = s.n /\ f.at = "closed"
    BY <1>7, <2>1
  <2> HIDE DEF s
  <2> QED
    BY <1>3, <1>4, <2>2, <2>3, SessionMoves
<1>9. ASSUME S!Answer(c, k), s.n >= 1 PROVE answers' \subseteq Answers
  <2>1. PICK b \in BOOLEAN : b = (s.hot /\ ~s.slow)
    OBVIOUS
  <2>2. PICK a : a = [conn |-> c, chan |-> k, n |-> s.n, kind |-> s.kind, set |-> s.set, spared |-> b]
    OBVIOUS
  <2>3. a \in Answers
    BY <1>2, <1>3, <1>9, <2>2 DEF Answers
  <2>4. answers' = answers \cup {a}
    BY <1>9, <2>1, <2>2 DEF S!Answer
  <2> QED
    BY <1>3, <2>3, <2>4
<1>10. CASE S!Exit(c, k)
  <2>1. PICK f : f = S!Closed(c, k)
    OBVIOUS
  <2>2. chan' = [chan EXCEPT ![c][k] = f] /\ sshPublished' = sshPublished /\ s.at = "leaving" /\ S!Answer(c, k)
    BY <1>10, <2>1 DEF S!Exit
  <2>3. f \in Sessions /\ f.n = s.n /\ f.at = "closed"
    BY <1>7, <2>1
  <2>4. answers' \subseteq Answers
    BY <1>3, <1>9, <2>2
  <2> HIDE DEF s
  <2> QED
    BY <1>3, <1>4, <2>2, <2>3, <2>4, SessionMoves
<1>11. CASE S!CheckBlocked(c, k)
  <2>1. PICK b : b = (sshHost[c] \in blocked) /\ b \in BOOLEAN
    <3>1. (sshHost[c] \in blocked) \in BOOLEAN
      OBVIOUS
    <3> QED
      BY <3>1
  <2>2. PICK f : f = [s EXCEPT !.at = "publishing", !.slow = b]
    OBVIOUS
  <2>3. f \in Sessions /\ f.n = s.n /\ f.set = s.set
    BY <1>1, <2>1, <2>2 DEF Sessions
  <2>4. chan' = [chan EXCEPT ![c][k] = f] /\ sshPublished' = sshPublished /\ answers' = answers /\ s.at = "exec"
    BY <1>11, <2>1, <2>2 DEF S!CheckBlocked
  <2> HIDE DEF s
  <2> QED
    BY <1>3, <1>4, <2>3, <2>4, SessionMoves
<1>12. CASE S!PublishCommand(c, k)
  <2>1. PICK f : f = [s EXCEPT !.at = "answering"]
    OBVIOUS
  <2>2. PICK e : e = [action |-> "cmd", chan |-> k, n |-> s.n, canary |-> s.set]
    OBVIOUS
  <2>3. f \in Sessions /\ f.n = s.n /\ f.set = s.set
    BY <1>1, <2>1 DEF Sessions
  <2>4. /\ chan' = [chan EXCEPT ![c][k] = f] /\ sshPublished' = [sshPublished EXCEPT ![c] = @ \cup {e}]
        /\ answers' = answers /\ s.at = "publishing"
    BY <1>12, <2>1, <2>2 DEF S!PublishCommand, S!Publish, S!CommandEvent
  <2>5. s.set \in SetIds /\ s.n \in 1..MaxCommands
    BY <1>2, <1>3, <2>4
  <2>6. e \in S!Event
    BY <2>2, <2>5 DEF S!Event
  <2>7. sshPublished' \in [SshConns -> SUBSET S!Event]
    BY <1>3, <2>4, <2>6
  <2> HIDE DEF s
  <2> QED
    BY <1>3, <1>4, <2>3, <2>4, <2>5, <2>7, SessionMoves
<1>13. ASSUME NEW again \in BOOLEAN, S!WriteAnswer(c, k, again) PROVE SshPart'
  <2>1. PICK f : f = IF again THEN [s EXCEPT !.at = "reading", !.slow = FALSE, !.hot = FALSE] ELSE S!Closed(c, k)
    OBVIOUS
  <2>2. chan' = [chan EXCEPT ![c][k] = f] /\ sshPublished' = sshPublished /\ s.at = "answering" /\ S!Answer(c, k)
    BY <1>13, <2>1 DEF S!WriteAnswer
  <2>3. f \in Sessions /\ f.n = s.n /\ f.at \in {"reading", "closed"} /\ (f.at = "reading" => f.set = s.set)
    <3>1. CASE again
      BY <1>1, <2>1, <3>1 DEF Sessions
    <3>2. CASE ~again
      BY <1>7, <2>1, <3>2
    <3> QED
      BY <3>1, <3>2
  <2>4. answers' \subseteq Answers
    BY <1>3, <1>9, <2>2
  <2> HIDE DEF s
  <2> QED
    BY <1>3, <1>4, <2>2, <2>3, <2>4, SessionMoves
<1> QED
  BY <1>5, <1>6, <1>8, <1>10, <1>11, <1>12, <1>13 DEF S!Session

LEMMA RedisCountsFrame ==
  ASSUME RedisPart, UNCHANGED <<redisPc, redisHost, ks, read, replies>>
  PROVE  RedisPart'
  BY DEF RedisPart, RedisCounts

LEMMA SshCountsFrame ==
  ASSUME SshPart, UNCHANGED <<sshPc, sshHost, metaSet, logins, sshPublished, answers>>,
         \A c \in SshConns, k \in Chans :
           chan'[c][k].n = chan[c][k].n /\ chan'[c][k].at = chan[c][k].at /\ chan'[c][k].set = chan[c][k].set
  PROVE  SshPart'
<1>1. \A c \in SshConns : SshCounts(c)'
  BY DEF SshPart, SshCounts
<1>2. \A c \in SshConns, k \in Chans : SessionCounts(c, k)'
  BY DEF SshPart, SessionCounts
<1> QED
  BY <1>1, <1>2 DEF SshPart

LEMMA StepCounts == IInv /\ RedisPart /\ SshPart /\ [Next]_vars => RedisPart' /\ SshPart'
<1> SUFFICES ASSUME IInv, RedisPart, SshPart, [Next]_vars PROVE RedisPart' /\ SshPart'
  OBVIOUS
<1>1. CASE TimePasses \/ (\E ip \in Suspects : Quarantine(ip)) \/ UNCHANGED vars
  <2>1. UNCHANGED <<redisVars, sshVars>>
    BY <1>1 DEF TimePasses, Quarantine, D!TimePasses, S!TimePasses, D!Quarantine, S!Quarantine, redisVars, sshVars, vars
  <2> QED
    BY <2>1, RedisCountsFrame, SshCountsFrame DEF redisVars, sshVars
<1>2. ASSUME NEW ip \in Suspects, Release(ip) PROVE RedisPart' /\ SshPart'
  <2>1. UNCHANGED <<redisPc, redisHost, ks, read, replies>>
    BY <1>2 DEF Release, D!Release
  <2>2. UNCHANGED <<sshPc, sshHost, metaSet, logins, sshPublished, answers>>
    BY <1>2 DEF Release, S!Release
  <2>3. ASSUME NEW c \in SshConns, NEW k \in Chans
        PROVE  chan'[c][k].n = chan[c][k].n /\ chan'[c][k].at = chan[c][k].at /\ chan'[c][k].set = chan[c][k].set
    <3> DEFINE b == chan[c][k].hot /\ sshHost[c] # ip
    <3>1. chan[c][k] \in Sessions
      BY DEF IInv, SshInv, SshTypes
    <3>2. chan'[c][k] = [chan[c][k] EXCEPT !.hot = b]
      BY <1>2 DEF Release, S!Release
    <3> HIDE DEF b
    <3> QED
      BY <3>1, <3>2 DEF Sessions
  <2> QED
    BY <2>1, <2>2, <2>3, RedisCountsFrame, SshCountsFrame
<1>3. ASSUME NEW r \in Reqs, WebComes(r) \/ WebServes(r) PROVE RedisPart' /\ SshPart'
  <2>1. UNCHANGED <<redisVars, sshVars>>
    BY <1>3 DEF WebComes, WebServes
  <2> QED
    BY <2>1, RedisCountsFrame, SshCountsFrame DEF redisVars, sshVars
<1>4. ASSUME NEW c \in RedisConns, RedisComes(c) \/ RedisServes(c) PROVE RedisPart' /\ SshPart'
  <2>1. UNCHANGED sshVars /\ (D!HandleConn(c) \/ \E ip \in IPs : D!Seed(c, ip))
    BY <1>4 DEF RedisComes, RedisServes
  <2>2. RedisPart'
    BY <2>1, RedisCounted DEF IInv
  <2> QED
    BY <2>1, <2>2, SshCountsFrame DEF sshVars
<1>5. ASSUME NEW c \in SshConns, SshComes(c) \/ SshServes(c) PROVE RedisPart' /\ SshPart'
  <2>1. UNCHANGED redisVars /\ (S!HandleConn(c) \/ \E ip \in IPs : S!Accept(c, ip))
    BY <1>5 DEF SshComes, SshServes
  <2>2. SshPart'
    BY <2>1, SshCounted, SessionCounted DEF IInv, S!HandleConn
  <2> QED
    BY <2>1, <2>2, RedisCountsFrame DEF redisVars
<1> QED
  BY <1>1, <1>2, <1>3, <1>4, <1>5 DEF Next

\* All variables keep their types, and the counters their bounds: a request,
\* connection or session that has not come has neither source nor set, one
\* that has come has both, and the number of a command, in an event or a
\* reply, is that of a command that was read (ServeHTTP, handleConn and serve,
\* the callbacks and handleSession).
THEOREM TypesHold == Spec => []TypeOK
<1>1. ASSUME IInv, RedisPart, SshPart PROVE TypeOK
  <2> USE <1>1 DEF IInv
  <2>0. clock \in 0..MaxTime /\ blocked \subseteq IPs /\ W!TypeOK
    BY DEF WebInv, W!TypeOK
  <2>1. D!TypeOK
    <3>1. \A c \in RedisConns : /\ ks[c] = NoSet <=> redisPc[c] = "idle"
                                /\ redisHost[c] = NoIP <=> redisPc[c] = "idle"
      BY NoSetAssumption, IPsAssumption DEF RedisInv, RedisConn, RedisPart, RedisCounts
    <3>2. read \in [RedisConns -> 0..MaxCommands]
      BY MaxInputsAssumption DEF RedisInv, RedisTypes, RedisPart, RedisCounts
    <3>3. redisPublished \in [RedisConns -> Seq([action : {"connect", "auth", "cmd"}, n : 0..MaxCommands,
                                                 canary : SetIds \cup {NoSet}])]
      <4> DEFINE Es == [action : {"connect", "auth", "cmd"}, n : 0..MaxCommands, canary : SetIds \cup {NoSet}]
      <4>1. ASSUME NEW c \in RedisConns PROVE redisPublished[c] \in Seq(Es)
        <5>1. redisPublished[c] \in Seq(RedisEvents) /\ read[c] \in 0..MaxCommands
          BY <3>2 DEF RedisInv, RedisTypes
        <5>2. \A i \in DOMAIN redisPublished[c] : redisPublished[c][i] \in RedisEvents
          BY <5>1
        <5>3. ASSUME NEW i \in DOMAIN redisPublished[c] PROVE redisPublished[c][i] \in Es
          <6>1. redisPublished[c][i] \in RedisEvents /\ redisPublished[c][i].n <= read[c]
            BY <5>2 DEF RedisInv, RedisOrder
          <6>2. redisPublished[c][i].n \in 0..MaxCommands
            BY <5>1, <6>1, MaxInputsAssumption DEF RedisEvents
          <6> QED
            BY <6>1, <6>2 DEF RedisEvents
        <5> HIDE DEF Es
        <5> QED
          BY <5>1, <5>3
      <4> HIDE DEF Es
      <4>2. redisPublished \in [RedisConns -> Seq(Es)]
        BY <4>1 DEF RedisInv, RedisTypes
      <4> QED
        BY <4>2 DEF Es
    <3>4. replies \subseteq [conn : RedisConns, n : 1..MaxCommands, name : {"AUTH", "CMD"},
                             set : SetIds \cup {NoSet}, failed : BOOLEAN, spared : BOOLEAN]
      <4>1. ASSUME NEW r \in replies PROVE r \in Replies /\ r.n \in 1..MaxCommands
        <5>1. r \in Replies /\ r.n <= read[r.conn] /\ r.n >= 1
          BY DEF RedisInv, RedisTypes, RedisReply, RedisPart
        <5>2. read[r.conn] \in 0..MaxCommands /\ r.n \in Nat
          BY <3>2, <5>1 DEF Replies
        <5> QED
          BY <5>1, <5>2, MaxInputsAssumption
      <4> QED
        BY <4>1 DEF Replies
    <3> QED
      BY <2>0, <3>1, <3>2, <3>3, <3>4 DEF D!TypeOK, RedisInv, RedisTypes, Calls
  <2>2. S!TypeOK
    <3>1. \A c \in SshConns : sshHost[c] = NoIP <=> sshPc[c] = "idle"
      BY IPsAssumption DEF SshInv, SshConn, SshPart, SshCounts
    <3>2. logins \in [SshConns -> 0..MaxLogins]
      BY MaxInputsAssumption DEF SshInv, SshTypes, SshPart, SshCounts
    <3>3. chan \in [SshConns -> [Chans -> [
            at : {"none", "reading", "exec", "leaving", "publishing", "answering", "closed"},
            set : SetIds \cup {NoSet}, kind : {"run", "exit"}, n : 0..MaxCommands,
            slow : BOOLEAN, hot : BOOLEAN]]]
      <4>1. ASSUME NEW c \in SshConns, NEW k \in Chans
            PROVE  chan[c][k] \in Sessions /\ chan[c][k].n \in 0..MaxCommands
        <5>1. chan[c][k] \in Sessions /\ chan[c][k].n <= MaxCommands
          BY DEF SshInv, SshTypes, SshPart, SessionCounts
        <5> QED
          BY <5>1, MaxInputsAssumption DEF Sessions
      <4> QED
        BY <4>1 DEF SshInv, SshTypes, Sessions
    <3> QED
      BY <2>0, <3>1, <3>2, <3>3 DEF S!TypeOK, SshInv, SshTypes, SshPart, Answers
  <2> QED
    BY <2>0, <2>1, <2>2 DEF TypeOK
<1> QED
  BY <1>1, InitIInv, InitCounts, StepIInv, StepCounts, PTL DEF Spec

=============================================================================
