--------------------------------- MODULE Ssh ---------------------------------
(***************************************************************************)
(* The SSH decoy of internal/decoy/ssh: server.go and the session loop of  *)
(* shell.go. The goroutine of a connection runs the handshake, in which    *)
(* every accepted credential is published with the source's canary set,    *)
(* and then the banner; each session channel has a goroutine of its own,   *)
(* which publishes a command before it answers it.                         *)
(*                                                                         *)
(* The canary registry is module Registry; the quarantine is the set of    *)
(* sources for which IsBlocked answers yes, and changes at any moment. The *)
(* handshake is that of golang.org/x/crypto/ssh, as far as the callbacks   *)
(* see it: any number of them, then success or failure. A command is       *)
(* reduced to "exit" (or logout) or another one, its answer to the set the *)
(* fabricated files carry. Module Decoys runs it beside the other decoys.  *)
(***************************************************************************)
EXTENDS Integers, Sequences, FiniteSetsExt

CONSTANTS
  Conns,       \* connections
  Chans,       \* session channels of a connection
  IPs,         \* source addresses
  NoIP,        \* no connection yet
  SetIds,      \* identifiers of canary sets
  NoSet,       \* no canary set
  TTL,         \* lifetime of a canary set
  MaxTime,     \* bound of the clock
  MaxLogins,   \* bound of the credentials of a connection
  MaxCommands  \* bound of the commands of a session

VARIABLES
  clock, current, handed,  \* the canary registry (module Registry)
  blocked,    \* the quarantined sources
  pc,         \* where the goroutine of each connection is
  host,       \* metaConn.ip
  metaSet,    \* metaConn.set: the set of the last login
  logins,     \* number of credentials offered
  chan,       \* each session channel: where its goroutine is, session.set,
              \* the kind and number of its command, whether IsBlocked said
              \* yes, whether the source was quarantined ever since
  published,  \* what each connection and its sessions gave to Bus.Publish
  answers     \* history: the answers of the fake shell

vars == <<clock, current, handed, blocked, pc, host, metaSet, logins, chan, published, answers>>

R == INSTANCE Registry

NoChan == [at |-> "none", set |-> NoSet, kind |-> "run", n |-> 0, slow |-> FALSE, hot |-> FALSE]

Init ==
  /\ R!Init
  /\ blocked = {}
  /\ pc = [c \in Conns |-> "idle"]
  /\ host = [c \in Conns |-> NoIP]
  /\ metaSet = [c \in Conns |-> NoSet]
  /\ logins = [c \in Conns |-> 0]
  /\ chan = [c \in Conns |-> [k \in Chans |-> NoChan]]
  /\ published = [c \in Conns |-> {}]
  /\ answers = {}

Goto(c, from, to) == pc[c] = from /\ pc' = [pc EXCEPT ![c] = to]

\* The goroutine of channel k goes from one place to another; f are its locals.
Run(c, k, from, f) == chan[c][k].at = from /\ chan' = [chan EXCEPT ![c][k] = f]

Publish(c, e) == published' = [published EXCEPT ![c] = @ \cup {e}]

-----------------------------------------------------------------------------
TimePasses ==
  /\ clock < MaxTime
  /\ R!TimePasses
  /\ UNCHANGED <<blocked, pc, host, metaSet, logins, chan, published, answers>>

\* The tracker, in the dispatcher's goroutine, starts a quarantine.
Quarantine(ip) ==
  /\ ip \notin blocked
  /\ blocked' = blocked \cup {ip}
  /\ UNCHANGED <<clock, current, handed, pc, host, metaSet, logins, chan, published, answers>>

\* A quarantine ends.
Release(ip) ==
  /\ ip \in blocked
  /\ blocked' = blocked \ {ip}
  /\ chan' = [c \in Conns |-> [k \in Chans |-> [chan[c][k] EXCEPT !.hot = @ /\ host[c] # ip]]]
  /\ UNCHANGED <<clock, current, handed, pc, host, metaSet, logins, published, answers>>

\* A connection from ip is accepted; handleConn starts the handshake.
Accept(c, ip) ==
  /\ Goto(c, "idle", "handshake")
  /\ host' = [host EXCEPT ![c] = ip]
  /\ UNCHANGED <<clock, current, handed, blocked, metaSet, logins, chan, published, answers>>

\* A callback (password, public key, keyboard-interactive) is called with a
\* credential: publishLogin fetches the set and keeps it for the sessions.
Login(c) ==
  /\ Goto(c, "handshake", "login")
  /\ logins[c] < MaxLogins
  /\ logins' = [logins EXCEPT ![c] = @ + 1]
  /\ R!Keep(host[c]) \/ R!Renew(host[c])
  /\ metaSet' = [metaSet EXCEPT ![c] = current'[host[c]].set]
  /\ UNCHANGED <<blocked, host, chan, published, answers>>

\* The callback publishes the event and accepts.
PublishLogin(c) ==
  /\ Goto(c, "login", "handshake")
  /\ Publish(c, [action |-> "login", n |-> logins[c], canary |-> metaSet[c]])
  /\ UNCHANGED <<clock, current, handed, blocked, host, metaSet, logins, chan, answers>>

\* NewServerConn returns an error: the client went away or never was one.
HandshakeFails(c) ==
  /\ Goto(c, "handshake", "closed")
  /\ UNCHANGED <<clock, current, handed, blocked, host, metaSet, logins, chan, published, answers>>

\* NewServerConn returns a connection once a credential was accepted; the
\* banner is published.
Banner(c) ==
  /\ logins[c] > 0
  /\ Goto(c, "handshake", "open")
  /\ Publish(c, [action |-> "banner", n |-> 0, canary |-> NoSet])
  /\ UNCHANGED <<clock, current, handed, blocked, host, metaSet, logins, chan, answers>>

\* The client opens a session channel: handleSession starts.
OpenSession(c, k) ==
  /\ pc[c] = "open"
  /\ Run(c, k, "none", [NoChan EXCEPT !.at = "reading", !.set = metaSet[c]])
  /\ UNCHANGED <<clock, current, handed, blocked, pc, host, metaSet, logins, published, answers>>

\* The number of commands the sessions of all connections have read.
Commands == MapThenSumSet(LAMBDA p : chan[p[1]][p[2]].n, Conns \X Chans)

\* A line of the interactive shell, or the command of an exec request.
ReadCommand(c, k, kind) ==
  /\ chan[c][k].n < MaxCommands
  /\ LET s == chan[c][k] IN
       Run(c, k, "reading", [at |-> IF kind = "exit" THEN "leaving" ELSE "exec", set |-> s.set, kind |-> kind,
                             n |-> s.n + 1, slow |-> FALSE, hot |-> host[c] \in blocked])
  /\ UNCHANGED <<clock, current, handed, blocked, pc, host, metaSet, logins, published, answers>>

\* A goroutine that has ended: its locals are gone.
Closed(c, k) == [NoChan EXCEPT !.at = "closed", !.n = chan[c][k].n]

\* The stream of the session ends.
CloseSession(c, k) ==
  /\ Run(c, k, "reading", Closed(c, k))
  /\ UNCHANGED <<clock, current, handed, blocked, pc, host, metaSet, logins, published, answers>>

\* `spared': the answer came at once although the source was quarantined from
\* the command on.
Answer(c, k) ==
  LET s == chan[c][k] IN
  answers' = answers \cup {[conn |-> c, chan |-> k, n |-> s.n, kind |-> s.kind, set |-> s.set,
                            spared |-> s.hot /\ ~s.slow]}

\* runInteractive answers exit and logout itself: no exec, no event.
Exit(c, k) ==
  /\ Run(c, k, "leaving", Closed(c, k))
  /\ Answer(c, k)
  /\ UNCHANGED <<clock, current, handed, blocked, pc, host, metaSet, logins, published>>

\* exec asks the tracker, and sleeps for the tarpit if it says yes.
CheckBlocked(c, k) ==
  /\ Run(c, k, "exec", [chan[c][k] EXCEPT !.at = "publishing", !.slow = host[c] \in blocked])
  /\ UNCHANGED <<clock, current, handed, blocked, pc, host, metaSet, logins, published, answers>>

CommandEvent(c, k, set) == [action |-> "cmd", chan |-> k, n |-> chan[c][k].n, canary |-> set]

\* The command event carries the source's set of the moment.
PublishCurrentSet(c, k) ==
  /\ Run(c, k, "publishing", [chan[c][k] EXCEPT !.at = "answering"])
  /\ Publish(c, CommandEvent(c, k, current[host[c]].set))
  /\ UNCHANGED <<clock, current, handed, blocked, pc, host, metaSet, logins, answers>>

\* exec publishes the command.
PublishCommand(c, k) ==
  /\ Run(c, k, "publishing", [chan[c][k] EXCEPT !.at = "answering"])
  /\ Publish(c, CommandEvent(c, k, chan[c][k].set))
  /\ UNCHANGED <<clock, current, handed, blocked, pc, host, metaSet, logins, answers>>

\* The output is written; runInteractive reads on, runOnce closes the channel.
WriteAnswer(c, k, again) ==
  /\ Run(c, k, "answering",
         IF again THEN [chan[c][k] EXCEPT !.at = "reading", !.slow = FALSE, !.hot = FALSE] ELSE Closed(c, k))
  /\ Answer(c, k)
  /\ UNCHANGED <<clock, current, handed, blocked, pc, host, metaSet, logins, published>>

Session(c, k) ==
  \/ OpenSession(c, k)
  \/ \E kind \in {"run", "exit"} : ReadCommand(c, k, kind)
  \/ CloseSession(c, k)
  \/ Exit(c, k)
  \/ CheckBlocked(c, k)
  \/ PublishCommand(c, k)
  \/ \E again \in BOOLEAN : WriteAnswer(c, k, again)

HandleConn(c) ==
  \/ Login(c)
  \/ PublishLogin(c)
  \/ HandshakeFails(c)
  \/ Banner(c)
  \/ \E k \in Chans : Session(c, k)

-----------------------------------------------------------------------------
Event == [action : {"login"}, n : 1..MaxLogins, canary : SetIds \cup {NoSet}]
         \cup [action : {"banner"}, n : {0}, canary : {NoSet}]
         \cup [action : {"cmd"}, chan : Chans, n : 1..MaxCommands, canary : SetIds]

TypeOK ==
  /\ clock \in 0..MaxTime
  /\ blocked \subseteq IPs
  /\ pc \in [Conns -> {"idle", "handshake", "login", "open", "closed"}]
  /\ host \in [Conns -> IPs \cup {NoIP}]
  /\ \A c \in Conns : host[c] = NoIP <=> pc[c] = "idle"
  /\ metaSet \in [Conns -> SetIds \cup {NoSet}]
  /\ logins \in [Conns -> 0..MaxLogins]
  /\ chan \in [Conns -> [Chans ->
       [at : {"none", "reading", "exec", "leaving", "publishing", "answering", "closed"},
        set : SetIds \cup {NoSet}, kind : {"run", "exit"}, n : 0..MaxCommands,
        slow : BOOLEAN, hot : BOOLEAN]]]
  /\ published \in [Conns -> SUBSET Event]
  /\ answers \subseteq [conn : Conns, chan : Chans, n : 1..MaxCommands, kind : {"run", "exit"},
                        set : SetIds \cup {NoSet}, spared : BOOLEAN]

\* The answer to a command comes after its event, and the event names the set
\* the answer may show, although the registry may have given the source
\* another one since the login.
AnswerIsPublished ==
  \A a \in answers : a.kind # "exit" =>
    \E e \in published[a.conn] : e.action = "cmd" /\ e.chan = a.chan /\ e.n = a.n /\ e.canary = a.set

\* The set a session carries was announced by a login event of the same
\* connection before the session began, and was made for its source alone:
\* "the login event already carries the canary id" (publishLogin), also when a
\* client offers several credentials and the sets change in between.
SessionSetWasAnnounced ==
  \A c \in Conns : \A k \in Chans : LET s == chan[c][k] IN
    s.at \notin {"none", "closed"} =>
      /\ \E e \in published[c] : e.action = "login" /\ e.canary = s.set
      /\ \A h \in handed : h.set = s.set => h.ip = host[c]

\* A source that is quarantined when its command arrives and stays so gets the
\* answer late.
SlowedUnlessExit ==
  \A a \in answers : a.spared => a.kind = "exit"
=============================================================================
