-------------------------------- MODULE Resp --------------------------------
(***************************************************************************)
(* The RESP codec of internal/decoy/redis/resp.go and the replies of       *)
(* server.go, over bytes: one connection, whose requests arrive in         *)
(* fragments cut anywhere. What is served to whom, the events and the      *)
(* tarpit are module Redis; here serving a command is writing its reply.   *)
(*                                                                         *)
(* A command name is one letter or, if unknown, any bytes; white space is  *)
(* the space, numbers have no sign, those written have one digit, and the  *)
(* requests are far below the limits of an array (1024 elements, 1 MiB     *)
(* each).                                                                  *)
(***************************************************************************)
EXTENDS Text

CONSTANTS
  Requests,   \* what clients send: [bytes, is, args], see Meanings
  Streams,    \* sequences of requests a client may send
  Keyspace,   \* the fake dataset: a value for each key
  MaxInline   \* the longest line that is waited for (512)

\* What a client means by a request, and what only this parser makes of it:
\* an array of ten elements or more, or one with an element that is not a
\* bulk string, is never complete; of a blank line it takes the first field,
\* and there is none.
Meanings == {"command", "empty line", "blank line", "malformed", "never complete"}

VARIABLES
  sent,     \* the requests the client sends
  wire,     \* their bytes that have not been read
  buf,      \* reader.buf
  reader,   \* where handleConn stands: "parse", "read", "serve", "closed", "crashed"
  got,      \* history: the commands parsed
  replies,  \* history: what was written for each of them
  skipped   \* the last parse took an empty line

vars == <<sent, wire, buf, reader, got, replies, skipped>>

CR == 13
LF == 10
CRLF == <<CR, LF>>
Space == 32
IsDigit(b) == b \in 48..57
Upper(s) == [i \in DOMAIN s |-> IF s[i] \in 97..122 THEN s[i] - 32 ELSE s[i]]

\* The bytes before the first CRLF from position i on; -1: there is none.
BytesIndexCR(b, i) ==
  LET ends == {j \in i..Len(b) - 1 : b[j] = CR /\ b[j + 1] = LF} IN
  IF ends = {} THEN -1 ELSE Min(ends) - i

\* strconv.Atoi of the bytes without the space around, -1 standing for an error.
Atoi(bytes) ==
  LET s == Trim(bytes, {Space}) IN
  IF s = <<>> \/ \E k \in DOMAIN s : ~IsDigit(s[k]) THEN -1
  ELSE FoldLeft(LAMBDA n, d : 10 * n + d - 48, 0, s)

-----------------------------------------------------------------------------
(* tryParse: what comes of a buffer, and what is left of it.               *)

Result(is, args, rest) == [is |-> is, args |-> args, rest |-> rest]
Command(args, rest) == Result("command", [args EXCEPT ![1] = Upper(@)], rest)
NotYet(b) == Result("not yet", <<>>, b)
Violation == Result("violation", <<>>, <<>>)
Panic == Result("panic", <<>>, <<>>)

ParseInline(b) ==
  LET i == BytesIndexCR(b, 1)
      line == Trim(SubSeq(b, 1, i), {CR, LF})
      fields == Fields(line, {Space})
      rest == SubSeq(b, i + 3, Len(b))
  IN IF i < 0 THEN (IF Len(b) > MaxInline THEN Violation ELSE NotYet(b))
     ELSE IF line = <<>> THEN NotYet(rest)
     ELSE IF fields = <<>> THEN Panic
     ELSE Command(fields, rest)

\* A turn of the loop over the elements; off is the position of the next one,
\* stop how the loop ended early.
Element(s, b) ==
  LET off == s.off
      end == BytesIndexCR(b, off)
      l == Atoi(SubSeq(b, off + 1, off + end - 1))
      start == off + end + 2
  IN IF s.stop # "no" THEN s
     ELSE IF off + 1 > Len(b) \/ b[off] # 36 \/ end < 0 THEN [s EXCEPT !.stop = "incomplete"]
     ELSE IF l < 0 THEN [s EXCEPT !.stop = "error"]
     ELSE IF start + l + 1 > Len(b) THEN [s EXCEPT !.stop = "incomplete"]
     ELSE IF SubSeq(b, start + l, start + l + 1) # CRLF THEN [s EXCEPT !.stop = "error"]
     ELSE [args |-> Append(s.args, SubSeq(b, start, start + l - 1)), off |-> start + l + 2, stop |-> "no"]

BulkStrings(b, n, first) ==
  FoldLeft(LAMBDA s, k : Element(s, b), [args |-> <<>>, off |-> first, stop |-> "no"], [k \in 1..n |-> k])

\* The end of the header is looked for in the first four bytes.
Header(b) == BytesIndexCR(SubSeq(b, 1, 4), 1)
Elements(b) == Atoi(SubSeq(b, 2, Header(b)))

ParseArray(b) ==
  LET s == BulkStrings(b, Elements(b), Header(b) + 3)
  IN IF Len(b) < 4 \/ b[1] # 42 \/ Header(b) < 0 THEN NotYet(b)
     ELSE IF Elements(b) < 1 THEN Violation
     ELSE IF s.stop = "incomplete" THEN NotYet(b)
     ELSE IF s.stop = "error" THEN Violation
     ELSE Command(s.args, SubSeq(b, s.off, Len(b)))

\* '*', '$', '+', '-' and ':' start an array or something never complete.
Marks == {42, 36, 43, 45, 58}

TryParse(b) ==
  IF b = <<>> THEN NotYet(b)
  ELSE IF b[1] \in Marks THEN ParseArray(b)
  ELSE ParseInline(b)

-----------------------------------------------------------------------------
(* The replies.                                                            *)

WriteSimpleString(s) == <<43>> \o s \o CRLF
WriteError(s) == <<45>> \o s \o CRLF
WriteInteger(n) == <<58, 48 + n>> \o CRLF
NilBulk == <<36, 45, 49>> \o CRLF
WriteBulkString(s) == IF s = <<>> THEN NilBulk ELSE <<36, 48 + Len(s)>> \o CRLF \o s \o CRLF

ArrayHeader(items) == <<42, 48 + Len(items)>> \o CRLF

\* An empty item is left out, but counted.
WriteArraySkipping(items) ==
  FoldLeft(LAMBDA w, item : IF item = <<>> THEN w ELSE w \o WriteBulkString(item), ArrayHeader(items), items)

WriteArray(items) == FoldLeft(LAMBDA w, item : w \o WriteBulkString(item), ArrayHeader(items), items)

Ok == <<79, 75>>

\* The values of the keys that there are.
Values(keys) == FoldLeft(LAMBDA vs, k : IF k \in DOMAIN Keyspace THEN Append(vs, Keyspace[k]) ELSE vs, <<>>, keys)

\* ks.keys: each key once, in one order that every reply has.
Keys == CHOOSE b \in Bijection(1..Cardinality(DOMAIN Keyspace), DOMAIN Keyspace) : TRUE

\* One command for each way to answer: Ping for all that get a fixed line,
\* Echo, Get, eXists for the tests that count, Mget, Keys, Scan, suBscribe.
Reply(args) ==
  LET first == IF Len(args) = 1 THEN <<>> ELSE args[2]
  IN CASE args[1] = <<80>> -> WriteSimpleString(Ok)
       [] args[1] = <<69>> -> IF Len(args) = 1 THEN WriteError(Ok) ELSE WriteBulkString(first)
       [] args[1] = <<71>> ->
            IF Len(args) = 1 THEN WriteError(Ok)
            ELSE IF first \in DOMAIN Keyspace THEN WriteBulkString(Keyspace[first]) ELSE NilBulk
       [] args[1] = <<88>> -> WriteInteger(IF first \in DOMAIN Keyspace THEN 1 ELSE 0)
       [] args[1] = <<77>> -> WriteArray(Values(Tail(args)))
       [] args[1] = <<75>> -> WriteArray(Keys)
       [] args[1] = <<83>> -> WriteArray(<< <<48>> >> \o Keys)
       [] args[1] = <<66>> -> WriteArray(<< <<98>>, first, <<48>> >>)
       [] OTHER -> WriteError(args[1])

-----------------------------------------------------------------------------
(* The connection.                                                         *)

Bytes(requests) == FoldLeft(LAMBDA w, q : w \o q.bytes, <<>>, requests)

Init ==
  /\ sent \in Streams
  /\ wire = Bytes(sent)
  /\ buf = <<>>
  /\ reader = "parse"
  /\ got = <<>>
  /\ replies = <<>>
  /\ skipped = FALSE

\* readCommand tries the buffer; a violation closes the connection, and nothing
\* recovers from a panic.
Parse ==
  /\ reader = "parse"
  /\ LET p == TryParse(buf) IN
       /\ buf' = p.rest
       /\ reader' = (CASE p.is = "command" -> "serve" [] p.is = "not yet" -> "read"
                       [] p.is = "violation" -> "closed" [] p.is = "panic" -> "crashed")
       /\ got' = (IF p.is = "command" THEN Append(got, p.args) ELSE got)
       /\ skipped' = (p.is = "not yet" /\ p.rest # buf)
  /\ UNCHANGED <<sent, wire, replies>>

\* The loop reads before it looks at what is left in the buffer.
ServeThenRead ==
  /\ reader = "serve"
  /\ replies' = Append(replies, Reply(got[Len(got)]))
  /\ reader' = "read"
  /\ UNCHANGED <<sent, wire, buf, got, skipped>>

Serve ==
  /\ reader = "serve"
  /\ replies' = Append(replies, Reply(got[Len(got)]))
  /\ reader' = "parse"
  /\ UNCHANGED <<sent, wire, buf, got, skipped>>

\* fill: any number of the bytes that are under way have arrived.
Fill(n) ==
  /\ reader = "read"
  /\ n \in 1..Len(wire)
  /\ buf' = buf \o SubSeq(wire, 1, n)
  /\ wire' = SubSeq(wire, n + 1, Len(wire))
  /\ reader' = "parse"
  /\ UNCHANGED <<sent, got, replies, skipped>>

\* The end of the stream, or a read error.
ReadFails ==
  /\ reader = "read"
  /\ reader' = "closed"
  /\ UNCHANGED <<sent, wire, buf, got, replies, skipped>>

Closed == reader \in {"closed", "crashed"} /\ UNCHANGED vars

Next == Parse \/ Serve \/ (\E n \in 1..Len(wire) : Fill(n)) \/ ReadFails \/ Closed

Spec == Init /\ [][Next]_vars

-----------------------------------------------------------------------------
Size(k) == Len(Bytes(SubSeq(sent, 1, k)))
Received == Len(Bytes(sent)) - Len(wire)

\* The requests up to the first one that is no request to this parser.
Readable ==
  LET bad == {i \in DOMAIN sent : sent[i].is \notin {"command", "empty line"}} IN
  IF bad = {} THEN sent ELSE SubSeq(sent, 1, Min(bad) - 1)

Commands(requests) == FoldLeft(LAMBDA cs, q : IF q.is = "command" THEN Append(cs, q.args) ELSE cs, <<>>, requests)

\* However the stream is cut into fragments, the commands served are those
\* the client sent, in their order, with their arguments, up to a protocol
\* violation, which closes the connection: "we never start parsing a payload
\* tail as a new command" (resp.go:126-127). And the reader waits for missing
\* bytes only: when it does, every command that has arrived whole has been
\* served, except behind an empty line, after which it reads on first. Nothing
\* but a blank line makes it panic.
ServedAsSent ==
  /\ \E n \in 0..Len(Commands(Readable)) : got = SubSeq(Commands(Readable), 1, n)
  /\ reader = "read" /\ ~skipped =>
       \A k \in 1..Len(Readable) : Size(k) <= Received => Len(got) >= Len(Commands(SubSeq(sent, 1, k)))
  /\ reader = "crashed" => Len(Readable) < Len(sent) /\ sent[Len(Readable) + 1].is = "blank line"

\* resp.go:30-31: readCommand "returns (cmd, nil), (nil, nil) on clean EOF or
\* (nil, err) on a protocol violation".
ReadCommandReturns == reader # "crashed"

\* Where a client is in a reply behind the line, the bulk string, the reply.
AfterLine(r, j) == j + BytesIndexCR(r, j) + 2
AfterBulk(r, j) ==
  IF j \notin 1..Len(r) - 1 \/ r[j] # 36 THEN 0
  ELSE IF r[j + 1] = 45 THEN AfterLine(r, j)
  ELSE AfterLine(r, j) + (r[j + 1] - 48) + 2
AfterReply(r) ==
  CASE r[1] = 36 -> AfterBulk(r, 1)
    [] r[1] = 42 -> FoldLeft(LAMBDA j, k : AfterBulk(r, j), AfterLine(r, 1), [k \in 1..(r[2] - 48) |-> k])
    [] OTHER -> AfterLine(r, 1)

\* A client that reads the replies finds one for each command, complete and
\* no more, so that replies and commands stay in step; the name of an unknown
\* command is repeated as it came and must not contain a line end.
RepliesStayInStep ==
  \A i \in DOMAIN replies :
    BytesIndexCR(got[i][1], 1) < 0 => AfterReply(replies[i]) = Len(replies[i]) + 1
=============================================================================
