---------------------------- MODULE MCFrontEnds ----------------------------
(* A small instance of the four front ends for TLC. *)
EXTENDS FrontEnds, SequencesExt, TLC

\* Requests, as clients send them: inline and in arrays, whole and broken.
CRLF == <<13, 10>>
P == 80
G == 71
x == 120
Array(args) ==
  <<42, 48 + Len(args)>> \o CRLF
  \o FlattenSeq([i \in DOMAIN args |-> <<36, 48 + Len(args[i])>> \o CRLF \o args[i] \o CRLF])
Cmd(bytes, args) == [bytes |-> bytes, is |-> "command", args |-> args]
Junk(bytes, is) == [bytes |-> bytes, is |-> is, args |-> <<>>]
Ping == Cmd(<<112>> \o CRLF, << <<P>> >>)
InlineGet == Cmd(<<G, 32, x>> \o CRLF, << <<G>>, <<x>> >>)
ArrayGet == Cmd(Array(<< <<103>>, <<x>> >>), << <<G>>, <<x>> >>)
Mget == Cmd(Array(<< <<77>>, <<x>>, <<P>> >>), << <<77>>, <<x>>, <<P>> >>)
Lines == Cmd(Array(<< <<71>>, CRLF >>), << <<71>>, CRLF >>)
Name == Cmd(Array(<< <<P>> \o CRLF \o <<P>> >>), << <<P>> \o CRLF \o <<P>> >>)
Keys == Cmd(Array(<< <<75>> >>), << <<75>> >>)
Long == Cmd(<<x, x, x, x, x>> \o CRLF, << <<88, 88, 88, 88, 88>> >>)
Echo == Cmd(Array(<< <<69>>, <<>> >>), << <<69>>, <<>> >>)
Exists == Cmd(<<88, 32, x>> \o CRLF, << <<88>>, <<x>> >>)
Scan == Cmd(<<83>> \o CRLF, << <<83>> >>)
Subscribe == Cmd(<<66>> \o CRLF, << <<66>> >>)
EmptyLine == Junk(CRLF, "empty line")
Blank == Junk(<<32>> \o CRLF, "blank line")
Zero == Junk(<<42, 48>> \o CRLF, "malformed")
BadTerminator == Junk(<<42, 49>> \o CRLF \o <<36, 49>> \o CRLF \o <<P, P>> \o CRLF, "malformed")
NotBulk == Junk(<<42, 49>> \o CRLF \o <<58, 49>> \o CRLF, "never complete")
Ten == Junk(<<42, 49, 48>> \o CRLF \o FlattenSeq([i \in 1..10 |-> <<36, 49>> \o CRLF \o <<P>> \o CRLF]), "never complete")
All == {Ping, InlineGet, ArrayGet, Mget, Lines, Name, Keys, Long, Echo, Exists, Scan, Subscribe, EmptyLine, Blank, Zero, BadTerminator, NotBulk, Ten}
Pairs == {<<a, b>> : a, b \in All}
Short == {Ping, InlineGet, EmptyLine, ArrayGet}
Triples == {<<a, b, c>> : a, b, c \in Short}
AllStreams == {<<>>} \cup Pairs \cup Triples
Data == (<<x>> :> <<P, P>>) @@ (<<P, P>> :> <<x>>)

\* Exec requests: one with a newline in it, one cut short, a blank one and one
\* that announces too much.
ExecPayloads ==
  {[announced |-> n, text |-> t] :
     n \in {1, 3, 4}, t \in {<<"w", "newline", "e">>, <<"w", ";", "e">>, <<" ", "w", " ", "&">>}}

\* ClientHellos whose random is one byte long: of a client whose extensions say
\* nothing of its curves twice; of one that says everything; of one that is
\* older than extensions.
U16Bytes(n) == <<n \div 256, n % 256>>
Vector(bytes) == U16Bytes(Len(bytes)) \o bytes
Ext(type, data) == U16Bytes(type) \o Vector(data)
Body(ciphers, exts) == <<3, 3, 0>> \o <<1, 7>> \o Vector(ciphers) \o <<1, 0>> \o exts
Message(body) == <<1, 0>> \o Vector(body)
Record(part) == <<22, 3, 1>> \o Vector(part)
Says(ciphers, curves, points, types) ==
  [version |-> 771, ciphers |-> ciphers, curves |-> curves, point_formats |-> points, extensions |-> types]
Split(b, i) == Record(SubSeq(b, 1, i)) \o Record(SubSeq(b, i + 1, Len(b)))

Plain == Message(Body(<<19, 1>>, Vector(Ext(10, <<0, 2, 0>>) \o Ext(21, <<>>))))
Rich == Message(Body(<<19, 1, 192, 43>>,
          Vector(Ext(0, <<0>>) \o Ext(10, Vector(<<0, 29, 0, 23>>)) \o Ext(11, <<1, 0>>) \o Ext(10, Vector(<<0, 24>>)))))
Old == Message(Body(<<0, 47>>, <<>>))
Sent(bytes, says, cuts) ==
  [bytes |-> bytes, hello |-> says, total |-> Len(bytes) + 2,
   cuts |-> cuts \cup {Len(bytes) - 1, Len(bytes), Len(bytes) + 2}]
TlsPlans ==
  {Sent(Record(Plain), Says(<<4865>>, <<>>, <<>>, <<10, 21>>), {4}),
   Sent(Split(Rich, 9), Says(<<4865, 49195>>, <<29, 23, 24>>, <<0>>, <<0, 10, 11, 10>>), {14, 19}),
   Sent(Record(Old), None, {}),
   Sent(<<71, 69, 84, 32, 47>>, None, {})}
=============================================================================
