-------------------------------- MODULE Redis --------------------------------
(***************************************************************************)
(* The Redis decoy of internal/decoy/redis/server.go: one goroutine per    *)
(* connection, which takes the source's canary set once, publishes the     *)
(* connection, and then answers and publishes one command after another.   *)
(*                                                                         *)
(* The canary registry is module Registry, shared by all connections; the  *)
(* quarantine is the set of sources for which the tracker's IsBlocked      *)
(* answers yes: it changes at any moment, since the tracker works in the   *)
(* dispatcher's goroutine. A reply is reduced to the canary set it may     *)
(* show, a command to AUTH or not AUTH. Module Decoys runs it beside the   *)
(* other decoys.                                                           *)
(***************************************************************************)
EXTENDS Integers, Sequences, FiniteSetsExt

CONSTANTS
  Conns,       \* connections
  IPs,         \* source addresses
  NoIP,        \* no connection yet
  SetIds,      \* identifiers of canary sets
  NoSet,       \* no canary set
  TTL,         \* lifetime of a canary set
  MaxTime,     \* bound of the clock
  MaxCommands  \* bound of the commands of a connection

VARIABLES
  clock, current, handed,  \* the canary registry (module Registry)
  blocked,     \* the quarantined sources
  pc,          \* where the goroutine of each connection is
  host,        \* source address of each connection
  ks,          \* the set the connection's keyspace was built from
  read,        \* number of commands read
  call,        \* locals of serve and publishAuth: the command, what IsBlocked
               \* answered and the canary the auth event is linked with; and
               \* whether the source was quarantined ever since it was read
  published,   \* what each connection gave to Bus.Publish
  replies      \* history: the replies, and whether writing them failed

vars == <<clock, current, handed, blocked, pc, host, ks, read, call, published, replies>>

\* No command is being served.
NoCall == [name |-> "CMD", slow |-> FALSE, linked |-> NoSet, hot |-> FALSE]

R == INSTANCE Registry

Init ==
  /\ R!Init
  /\ blocked = {}
  /\ pc = [c \in Conns |-> "idle"]
  /\ host = [c \in Conns |-> NoIP]
  /\ ks = [c \in Conns |-> NoSet]
  /\ read = [c \in Conns |-> 0]
  /\ call = [c \in Conns |-> NoCall]
  /\ published = [c \in Conns |-> <<>>]
  /\ replies = {}

Goto(c, from, to) == pc[c] = from /\ pc' = [pc EXCEPT ![c] = to]

Event(c, action, canary) == [action |-> action, n |-> read[c], canary |-> canary]

Publish(c, e) == published' = [published EXCEPT ![c] = Append(@, e)]

\* The registry hands ip a set, which `to' remembers.
SetFor(ip, to(_)) ==
  /\ R!Keep(ip) \/ R!Renew(ip)
  /\ to(current'[ip].set)

-----------------------------------------------------------------------------
TimePasses ==
  /\ clock < MaxTime
  /\ R!TimePasses
  /\ UNCHANGED <<blocked, pc, host, ks, read, call, published, replies>>

\* The tracker, in the dispatcher's goroutine, starts a quarantine.
Quarantine(ip) ==
  /\ ip \notin blocked
  /\ blocked' = blocked \cup {ip}
  /\ UNCHANGED <<clock, current, handed, pc, host, ks, read, call, published, replies>>

\* A quarantine ends.
Release(ip) ==
  /\ ip \in blocked
  /\ blocked' = blocked \ {ip}
  /\ call' = [c \in Conns |-> [call[c] EXCEPT !.hot = @ /\ host[c] # ip]]
  /\ UNCHANGED <<clock, current, handed, pc, host, ks, read, published, replies>>

\* set := in the inner block shadows the variable of handleConn.
SeedShadowed(c, ip) ==
  /\ Goto(c, "idle", "seeded")
  /\ host' = [host EXCEPT ![c] = ip]
  /\ SetFor(ip, LAMBDA s : ks' = ks)
  /\ UNCHANGED <<blocked, read, call, published, replies>>

\* A connection from ip is accepted; handleConn takes the set of the source
\* and builds the keyspace.
Seed(c, ip) ==
  /\ Goto(c, "idle", "seeded")
  /\ host' = [host EXCEPT ![c] = ip]
  /\ SetFor(ip, LAMBDA s : ks' = [ks EXCEPT ![c] = s])
  /\ UNCHANGED <<blocked, read, call, published, replies>>

Connect(c) ==
  /\ Goto(c, "seeded", "reading")
  /\ Publish(c, Event(c, "connect", NoSet))
  /\ UNCHANGED <<clock, current, handed, blocked, host, ks, read, call, replies>>

ReadCommand(c, name) ==
  /\ Goto(c, "reading", IF name = "AUTH" THEN "auth" ELSE "cmd")
  /\ read[c] < MaxCommands
  /\ read' = [read EXCEPT ![c] = @ + 1]
  /\ call' = [call EXCEPT ![c] = [NoCall EXCEPT !.name = name, !.hot = host[c] \in blocked]]
  /\ UNCHANGED <<clock, current, handed, blocked, host, ks, published, replies>>

\* End of the stream, a protocol error, or a read that fails.
ReadFails(c) ==
  /\ Goto(c, "reading", "closed")
  /\ UNCHANGED <<clock, current, handed, blocked, host, ks, read, call, published, replies>>

\* publishAuth asks the registry again.
AuthSetFor(c) ==
  /\ Goto(c, "auth", "auth_publish")
  /\ SetFor(host[c], LAMBDA s : call' = [call EXCEPT ![c].linked = s])
  /\ UNCHANGED <<blocked, host, ks, read, published, replies>>

AuthPublish(c) ==
  /\ Goto(c, "auth_publish", "auth_reply")
  /\ Publish(c, Event(c, "auth", call[c].linked))
  /\ UNCHANGED <<clock, current, handed, blocked, host, ks, read, call, replies>>

\* `spared': the reply came at once although the source was quarantined from
\* the command on.
Reply(c, set, delayed, failed) ==
  replies' = replies \cup {[conn |-> c, n |-> read[c], name |-> call[c].name, set |-> set,
                            failed |-> failed, spared |-> call[c].hot /\ ~delayed]}

\* The locals are gone.
Return(c) == call' = [call EXCEPT ![c] = NoCall]

\* Without the return, AUTH is served like any other command, too.
AuthReplyFallsThrough(c) ==
  /\ Goto(c, "auth_reply", "cmd")
  /\ Reply(c, NoSet, FALSE, FALSE)
  /\ UNCHANGED <<clock, current, handed, blocked, host, ks, read, call, published>>

\* serve writes +OK; whether that worked makes no difference.
AuthReply(c) ==
  /\ Goto(c, "auth_reply", "reading")
  /\ Reply(c, NoSet, FALSE, FALSE)
  /\ Return(c)
  /\ UNCHANGED <<clock, current, handed, blocked, host, ks, read, published>>

\* serve asks the tracker, and sleeps for the tarpit if it says yes.
CheckBlocked(c) ==
  /\ Goto(c, "cmd", "reply")
  /\ call' = [call EXCEPT ![c].slow = host[c] \in blocked]
  /\ UNCHANGED <<clock, current, handed, blocked, host, ks, read, published, replies>>

\* A reply that cannot be written ends serve: the command is not published,
\* and handleConn reads on.
ReplyCommand(c, failed) ==
  /\ Goto(c, "reply", IF failed THEN "reading" ELSE "publish")
  /\ Reply(c, ks[c], call[c].slow, failed)
  /\ (IF failed THEN Return(c) ELSE UNCHANGED call)
  /\ UNCHANGED <<clock, current, handed, blocked, host, ks, read, published>>

PublishCommand(c) ==
  /\ Goto(c, "publish", "reading")
  /\ Publish(c, Event(c, "cmd", ks[c]))
  /\ Return(c)
  /\ UNCHANGED <<clock, current, handed, blocked, host, ks, read, replies>>

Serve(c) ==
  \/ AuthSetFor(c)
  \/ AuthPublish(c)
  \/ CheckBlocked(c)
  \/ PublishCommand(c)
  \/ AuthReply(c)
  \/ \E failed \in BOOLEAN : ReplyCommand(c, failed)

HandleConn(c) ==
  \/ Connect(c)
  \/ \E name \in {"AUTH", "CMD"} : ReadCommand(c, name)
  \/ ReadFails(c)
  \/ Serve(c)

-----------------------------------------------------------------------------
TypeOK ==
  /\ clock \in 0..MaxTime
  /\ blocked \subseteq IPs
  /\ pc \in [Conns -> {"idle", "seeded", "reading", "auth", "auth_publish",
                       "auth_reply", "cmd", "reply", "publish", "closed"}]
  /\ host \in [Conns -> IPs \cup {NoIP}]
  /\ ks \in [Conns -> SetIds \cup {NoSet}]
  /\ \A c \in Conns : ks[c] = NoSet <=> pc[c] = "idle"
  /\ \A c \in Conns : host[c] = NoIP <=> pc[c] = "idle"
  /\ read \in [Conns -> 0..MaxCommands]
  /\ call \in [Conns -> [name : {"AUTH", "CMD"}, slow : BOOLEAN, linked : SetIds \cup {NoSet}, hot : BOOLEAN]]
  /\ published \in [Conns -> Seq([action : {"connect", "auth", "cmd"}, n : 0..MaxCommands,
                                  canary : SetIds \cup {NoSet}])]
  /\ replies \subseteq [conn : Conns, n : 1..MaxCommands, name : {"AUTH", "CMD"},
                        set : SetIds \cup {NoSet}, failed : BOOLEAN, spared : BOOLEAN]

Published(c, n) == \E i \in DOMAIN published[c] : published[c][i].n = n

\* The commands the goroutine of c is done with.
Served(c) == {n \in 1..read[c] : n < read[c] \/ pc[c] \in {"reading", "closed"}}

\* The events of a connection are published once each and in the order in
\* which the client sent the commands, the connection first, whatever failed
\* in between.
PublishedInOrder ==
  \A c \in Conns : LET es == published[c] IN
    \A i \in DOMAIN es : es[i].n >= i - 1 /\ (i > 1 => es[i - 1].n < es[i].n)

\* A command whose reply was written is published, and the only commands never
\* published are those other than AUTH whose reply could not be written.
OnlyFailedRepliesUnpublished ==
  \A c \in Conns : \A n \in Served(c) :
    Published(c, n) <=> ~\E r \in replies : r.conn = c /\ r.n = n /\ r.failed /\ r.name = "CMD"

\* The event of a command names the canary set its reply showed, although the
\* registry may have given the source another one in the meantime, and that
\* set was made for the source of the connection: a value that turns up later
\* leads to the event and to the address (docs/security.md, canary hits).
ReplyIsAttributable ==
  \A r \in replies : r.set # NoSet =>
    /\ \E h \in handed : h.ip = host[r.conn] /\ h.set = r.set
    /\ \A h \in handed : h.set = r.set => h.ip = host[r.conn]
    /\ \A i \in DOMAIN published[r.conn] : LET e == published[r.conn][i] IN
         e.action = "cmd" => e.canary = r.set

\* A source that is quarantined when its command arrives and stays so gets the
\* reply late, AUTH excepted.
SlowedUnlessAuth ==
  \A r \in replies : r.spared => r.name = "AUTH"
=============================================================================
