------------------------------ MODULE FrontEnds ------------------------------
(***************************************************************************)
(* What the clients of the decoys have to do with first: the RESP codec,   *)
(* the line loop of the fake shell, the TLS listener with its capture of   *)
(* the ClientHello, and the identity on disk that SSH and TLS show them.   *)
(* The four share nothing: a behaviour of this module is one of one of     *)
(* them.                                                                   *)
(***************************************************************************)
EXTENDS Integers, Sequences, FiniteSets

CONSTANTS
  Requests, Streams, Keyspace, MaxInline,  \* module Resp
  Chars, Known, Payloads, MaxTyped,        \* module Shell
  Conns, Plans, Random, None,              \* module Tls
  MaxKeys, MaxStarts                       \* module KeyFiles

VARIABLES
  front,                                                  \* which of the four
  sent, wire, buf, reader, got, replies, skipped,         \* module Resp
  shell, typed, line, ran,                                \* module Shell
  pc, plan, arrived, offset, replay, input, hello, http,  \* module Tls
  done, rawOpen, shown,
  disk, main, host, pair, lastKey, starts, known          \* module KeyFiles

Redis == INSTANCE Resp
Ssh == INSTANCE Shell
Https == INSTANCE Tls
Identity == INSTANCE KeyFiles WITH pc <- main

redisVars == <<sent, wire, buf, reader, got, replies, skipped>>
sshVars == <<shell, typed, line, ran>>
tlsVars == <<pc, plan, arrived, offset, replay, input, hello, http, done, rawOpen, shown>>
keyVars == <<disk, main, host, pair, lastKey, starts, known>>
vars == <<front, redisVars, sshVars, tlsVars, keyVars>>

Init ==
  /\ front \in {"redis", "ssh", "tls", "keys"}
  /\ Redis!Init /\ Ssh!Init /\ Https!Init /\ Identity!Init
  /\ front # "redis" => sent = <<>>

RedisStep == front = "redis" /\ Redis!Next /\ UNCHANGED <<front, sshVars, tlsVars, keyVars>>
SshStep == front = "ssh" /\ Ssh!Next /\ UNCHANGED <<front, redisVars, tlsVars, keyVars>>
TlsStep == front = "tls" /\ Https!Next /\ UNCHANGED <<front, redisVars, sshVars, keyVars>>
KeysStep == front = "keys" /\ Identity!Next /\ UNCHANGED <<front, redisVars, sshVars, tlsVars>>

Next == RedisStep \/ SshStep \/ TlsStep \/ KeysStep

Spec == Init /\ [][Next]_vars /\ Https!Fairness

-----------------------------------------------------------------------------
(* What is assumed of the constants.                                       *)

ASSUME BoundsAssumption == MaxKeys \in Nat /\ MaxStarts \in Nat

\* A plan says of its client's first message what the parser makes of it when
\* it comes whole.
ASSUME PlansAssumption ==
  \A p \in Plans :
    p.bytes \in Seq(Nat) /\ p.cuts \subseteq Nat /\ p.hello = Https!ParseClientHello(p.bytes)

\* An exec request announces a length before its text.
ASSUME PayloadsAssumption == \A p \in Payloads : p.announced \in Nat /\ p.text \in Seq(Chars)

\* A buffer that is incomplete whatever else comes: it is no array, its header
\* is too long, or an element is no bulk string.
Stuck(b) ==
  /\ Len(b) >= 4 /\ b[1] \in Redis!Marks
  /\ \/ b[1] # 42
     \/ Redis!Header(b) < 0
     \/ LET s == Redis!BulkStrings(b, Redis!Elements(b), Redis!Header(b) + 3)
        IN Redis!Elements(b) >= 1 /\ s.stop = "incomplete" /\ s.off < Len(b) /\ b[s.off] # 36

\* A request is what the parser makes of it when it comes whole and alone.
ASSUME RequestsAssumption ==
  /\ Streams \subseteq Seq(Requests)
  /\ \A q \in Requests :
       /\ q.bytes \in Seq(Nat) \ {<<>>} /\ q.args \in Seq(Seq(Nat)) /\ q.is \in Redis!Meanings
       /\ LET p == Redis!TryParse(q.bytes) IN
            CASE q.is = "command" -> p = Redis!Result("command", q.args, <<>>)
              [] q.is = "empty line" -> p = Redis!NotYet(<<>>)
              [] q.is = "blank line" -> p = Redis!Panic
              [] q.is = "malformed" -> p = Redis!Violation /\ q.bytes[1] \in Redis!Marks
              [] q.is = "never complete" -> Stuck(q.bytes)

\* The fake dataset is finite; keys and values are bytes.
ASSUME KeyspaceAssumption ==
  /\ IsFiniteSet(DOMAIN Keyspace) /\ DOMAIN Keyspace \subseteq Seq(Nat)
  /\ \A k \in DOMAIN Keyspace : Keyspace[k] \in Seq(Nat)

-----------------------------------------------------------------------------
\* resp.go: what is served is what was sent, however it was fragmented, and
\* the reader waits for missing bytes only.
ServedAsSent == Redis!ServedAsSent

\* resp.go:30-31: readCommand returns, whatever it reads.
ReadCommandReturns == Redis!ReadCommandReturns

\* resp.go and server.go: one complete reply for each command.
RepliesStayInStep == Redis!RepliesStayInStep

\* shell.go: the lines executed and their simple commands are those typed.
RunsWhatWasTyped == Ssh!RunsWhatWasTyped

\* tls.go: the handshake and the requests see the connection as it came, and it
\* is open as long as it is served.
ServedAsItCame == Https!ServedAsItCame

\* tls.go: a connection ends, unless requests go on or a body is missing.
ConnectionEnds == Https!ConnectionEnds

\* hostkey.go and cert.go: a start is refused for what the files hold only over
\* torn files or the halves of two pairs.
FatalMeansTorn == Identity!FatalMeansTorn

\* hostkey.go and cert.go: an identity is shown only when it is wholly on disk,
\* and stays until it is removed or cannot be read.
IdentityIsStable == Identity!IdentityIsStable
=============================================================================
