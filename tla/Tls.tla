--------------------------------- MODULE Tls ---------------------------------
(***************************************************************************)
(* The TLS listener of internal/fingerprint/tls.go: the ClientHello is     *)
(* captured off the raw connection, replayed to the handshake, and the     *)
(* connection is served by an http.Server of its own through a one-shot    *)
(* listener.                                                               *)
(*                                                                         *)
(* A client's bytes up to the end of the handshake are numbered; those of  *)
(* its first message are also parsed (module Hello). A timeout may strike  *)
(* as long as what it guards goes on. The http.Server is that of net/http, *)
(* as far as the connection sees it.                                       *)
(***************************************************************************)
EXTENDS Hello

CONSTANTS
  Conns,  \* connections
  Plans   \* what clients do: [bytes, hello, cuts, total]

\* bytes: the first message, in TLS records; hello: what the client says in it,
\* or None if this parser makes nothing of it; total: the number of bytes up to
\* the end of the handshake; cuts: how many of them have come at some moment.

VARIABLES
  pc,        \* handleConn of each connection
  plan,      \* what its client sends
  arrived,   \* how many bytes have arrived
  offset,    \* how many were read off the raw connection
  replay,    \* replayConn.buf
  input,     \* history: the bytes the handshake was given
  hello,     \* the Hello of the connection's handler
  http,      \* the goroutine of the http.Server that serves the connection
  done,      \* closeNotifyConn.done is closed
  rawOpen,   \* the raw connection is open
  shown      \* history: what HelloFrom answered to the requests

vars == <<pc, plan, arrived, offset, replay, input, hello, http, done, rawOpen, shown>>

Init ==
  /\ pc = [c \in Conns |-> "none"]
  /\ plan = [c \in Conns |-> None]
  /\ arrived = [c \in Conns |-> 0]
  /\ offset = [c \in Conns |-> 0]
  /\ replay = [c \in Conns |-> <<>>]
  /\ input = [c \in Conns |-> <<>>]
  /\ hello = [c \in Conns |-> None]
  /\ http = [c \in Conns |-> "none"]
  /\ done = [c \in Conns |-> FALSE]
  /\ rawOpen = [c \in Conns |-> FALSE]
  /\ shown = {}

Goto(c, from, to) == pc[c] = from /\ pc' = [pc EXCEPT ![c] = to]

\* The bytes that have arrived and were not read.
Waiting(c) == [i \in 1..arrived[c] - offset[c] |-> offset[c] + i]

Received(c, n) == SubSeq(plan[c].bytes, 1, Min({n, Len(plan[c].bytes)}))

-----------------------------------------------------------------------------
(* Serve and Capture.                                                      *)

Accept(c, p) ==
  /\ Goto(c, "none", "capture")
  /\ plan' = [plan EXCEPT ![c] = p]
  /\ rawOpen' = [rawOpen EXCEPT ![c] = TRUE]
  /\ UNCHANGED <<arrived, offset, replay, input, hello, http, done, shown>>

\* Bytes of the client arrive, up to one of the cuts.
Arrive(c, n) ==
  /\ pc[c] \in {"capture", "handshake"} /\ n \in plan[c].cuts /\ n > arrived[c]
  /\ arrived' = [arrived EXCEPT ![c] = n]
  /\ UNCHANGED <<pc, plan, offset, replay, input, hello, http, done, rawOpen, shown>>

\* One Read of Capture; the loop ends when there is a Hello in the buffer.
CaptureRead(c) ==
  /\ pc[c] = "capture" /\ offset[c] < arrived[c]
  /\ offset' = [offset EXCEPT ![c] = arrived[c]]
  /\ replay' = [replay EXCEPT ![c] = @ \o Waiting(c)]
  /\ hello' = [hello EXCEPT ![c] = ParseClientHello(Received(c, arrived[c]))]
  /\ pc' = (IF hello'[c] = None THEN pc ELSE [pc EXCEPT ![c] = "handshake"])
  /\ UNCHANGED <<plan, arrived, input, http, done, rawOpen, shown>>

\* The deadline of 300 ms, or the client has gone: no Hello, the connection is
\* dropped.
CaptureEnds(c) ==
  /\ Goto(c, "capture", "closed")
  /\ rawOpen' = [rawOpen EXCEPT ![c] = FALSE]
  /\ UNCHANGED <<plan, arrived, offset, replay, input, hello, http, done, shown>>

-----------------------------------------------------------------------------
(* The handshake over replayConn.                                          *)

\* The handshake reads the connection and not what was captured.
HandshakeReadConn(c) ==
  /\ pc[c] = "handshake" /\ offset[c] < arrived[c]
  /\ input' = [input EXCEPT ![c] = @ \o Waiting(c)]
  /\ offset' = [offset EXCEPT ![c] = arrived[c]]
  /\ UNCHANGED <<pc, plan, arrived, replay, hello, http, done, rawOpen, shown>>

\* The captured bytes first, then the connection.
HandshakeRead(c) ==
  /\ pc[c] = "handshake"
  /\ \/ /\ replay[c] # <<>>
        /\ input' = [input EXCEPT ![c] = @ \o replay[c]]
        /\ replay' = [replay EXCEPT ![c] = <<>>]
        /\ UNCHANGED offset
     \/ /\ replay[c] = <<>> /\ offset[c] < arrived[c]
        /\ input' = [input EXCEPT ![c] = @ \o Waiting(c)]
        /\ offset' = [offset EXCEPT ![c] = arrived[c]]
        /\ UNCHANGED replay
  /\ UNCHANGED <<pc, plan, arrived, hello, http, done, rawOpen, shown>>

\* Ten seconds are over, or the client's messages are no handshake.
HandshakeFails(c) ==
  /\ Goto(c, "handshake", "closed")
  /\ rawOpen' = [rawOpen EXCEPT ![c] = FALSE]
  /\ UNCHANGED <<plan, arrived, offset, replay, input, hello, http, done, shown>>

\* srv.Serve: the first Accept of oneShotListener hands the connection over,
\* the second one waits.
HandshakeDone(c) ==
  /\ Goto(c, "handshake", "serving")
  /\ Len(input[c]) = plan[c].total
  /\ http' = [http EXCEPT ![c] = "header"]
  /\ UNCHANGED <<plan, arrived, offset, replay, input, hello, done, rawOpen, shown>>

-----------------------------------------------------------------------------
(* The http.Server.                                                        *)

HttpGoto(c, from, to) ==
  /\ http[c] = from
  /\ http' = [http EXCEPT ![c] = to]
  /\ UNCHANGED <<pc, plan, arrived, offset, replay, input, hello, done, rawOpen, shown>>

\* A request's header is complete; it may announce a body.
Header(c) == \E to \in {"body", "handler"} : HttpGoto(c, "header", to)

\* The body is complete, or its read fails with the client.
Body(c) == HttpGoto(c, "body", "handler")

NextRequest(c) == HttpGoto(c, "idle", "header")

\* The handler of the connection, decorated with its Hello, answers.
Handle(c) ==
  /\ http[c] = "handler"
  /\ http' = [http EXCEPT ![c] = "idle"]
  /\ shown' = shown \cup {<<c, hello[c]>>}
  /\ UNCHANGED <<pc, plan, arrived, offset, replay, input, hello, done, rawOpen>>

\* The server closes the inner connection, past closeNotifyConn.
HttpCloseUnnoticed(c) ==
  /\ http[c] \in {"header", "idle"}
  /\ http' = [http EXCEPT ![c] = "closed"]
  /\ rawOpen' = [rawOpen EXCEPT ![c] = FALSE]
  /\ UNCHANGED <<pc, plan, arrived, offset, replay, input, hello, done, shown>>

\* ReadHeaderTimeout, IdleTimeout, the client, or the end of the requests: the
\* server closes the connection, which closes done.
HttpClose(c) ==
  /\ http[c] \in {"header", "idle"}
  /\ http' = [http EXCEPT ![c] = "closed"]
  /\ done' = [done EXCEPT ![c] = TRUE]
  /\ rawOpen' = [rawOpen EXCEPT ![c] = FALSE]
  /\ UNCHANGED <<pc, plan, arrived, offset, replay, input, hello, shown>>

\* The second Accept fails once done is closed: Serve returns, the deferred
\* raw.Close runs.
ServeReturns(c) ==
  /\ done[c]
  /\ Goto(c, "serving", "closed")
  /\ rawOpen' = [rawOpen EXCEPT ![c] = FALSE]
  /\ UNCHANGED <<plan, arrived, offset, replay, input, hello, http, done, shown>>

Goroutines(c) ==
  \/ CaptureRead(c) \/ CaptureEnds(c)
  \/ HandshakeRead(c) \/ HandshakeFails(c) \/ HandshakeDone(c)
  \/ Handle(c) \/ HttpClose(c) \/ ServeReturns(c)

Client(c) ==
  \/ \E p \in Plans : Accept(c, p)
  \/ (pc[c] # "none" /\ \E n \in plan[c].cuts : Arrive(c, n))
  \/ Header(c) \/ Body(c) \/ NextRequest(c)

Next == \E c \in Conns : Goroutines(c) \/ Client(c)

\* Deadlines strike, handlers return and goroutines are scheduled; nothing is
\* assumed of the clients.
Fairness ==
  \A c \in Conns :
    /\ WF_vars(CaptureEnds(c))
    /\ WF_vars(HandshakeFails(c) \/ HandshakeDone(c))
    /\ WF_vars(Handle(c))
    /\ WF_vars(HttpClose(c))
    /\ WF_vars(ServeReturns(c))

Spec == Init /\ [][Next]_vars /\ Fairness

-----------------------------------------------------------------------------
\* tls.go:14-16 and 101-102: the handshake sees the client's bytes from the
\* first one on, none missing and none twice, however they were captured; a
\* request is shown the Hello its own client sent, however that was cut into
\* records and segments; and the raw connection stays open as long as the
\* http.Server uses it.
ServedAsItCame ==
  \A c \in Conns :
    /\ input[c] = [i \in 1..Len(input[c]) |-> i]
    /\ http[c] \notin {"none", "closed"} => rawOpen[c] /\ pc[c] = "serving"
    /\ \A s \in shown : s[1] = c => s[2] = plan[c].hello

\* A connection that was accepted is closed and its goroutine ends wherever the
\* client falls silent: in the capture, in the handshake, in a header or
\* between requests. It goes on only as long as requests go on, and the one
\* place where a silent client is waited for is the body of a request, which no
\* timeout guards.
ConnectionEnds ==
  \A c \in Conns :
    pc[c] = "capture" ~> \/ pc[c] = "closed" /\ ~rawOpen[c]
                         \/ []<>(http[c] = "handler")
                         \/ [](http[c] = "body")
=============================================================================
