-------------------------------- MODULE Hello --------------------------------
(***************************************************************************)
(* internal/fingerprint/fingerprint.go, as operators over bytes: the       *)
(* ClientHello is taken out of the TLS records at the start of a           *)
(* connection, and its JA3 fingerprint out of the ClientHello. A hash is   *)
(* told apart by what is hashed. None stands for nil.                      *)
(***************************************************************************)
EXTENDS Text

CONSTANTS
  Random,  \* the length of a ClientHello's random (32)
  None     \* no ClientHello

U16(b, i) == 256 * b[i] + b[i + 1]

\* The 16-bit numbers in b from i to j; half a number is left out.
U16s(b, i, j) == [k \in 1..(j - i + 1) \div 2 |-> U16(b, i + 2 * k - 2)]

\* The record at off of data: the length of its contents, the contents, and
\* whether it is a handshake record that has come whole.
RecLen(data, off) == U16(data, off + 3)
Rec(data, off) == SubSeq(data, off + 5, off + 4 + RecLen(data, off))
Whole(data, off) ==
  /\ off + 4 <= Len(data) /\ data[off] = 22
  /\ RecLen(data, off) >= 1 /\ off + 4 + RecLen(data, off) <= Len(data)

\* One turn of the loop over the records: g.hs is what was gathered, g.off
\* where the next record begins. It stops with hsLen bytes.
Gather(g, data, hsLen) ==
  IF Len(g.hs) >= hsLen \/ ~Whole(data, g.off) THEN g
  ELSE [off |-> g.off + 5 + RecLen(data, g.off), hs |-> g.hs \o Rec(data, g.off)]

\* The handshake message of a ClientHello, gathered from the records at the
\* start of data. A record has at least six bytes, which bounds the turns.
Walk(data) ==
  LET first == Rec(data, 1)
      hsLen == 65536 * first[2] + U16(first, 3)
      begin == [off |-> 6 + RecLen(data, 1), hs |-> SubSeq(first, 5, RecLen(data, 1))]
      all == FoldLeft(LAMBDA g, k : Gather(g, data, hsLen), begin, [k \in 1..Len(data) \div 6 |-> k])
  IN IF ~Whole(data, 1) \/ RecLen(data, 1) < 4 \/ first[1] # 1 \/ Len(all.hs) < hsLen THEN None
     ELSE SubSeq(all.hs, 1, hsLen)

\* The whole extensions in b from pos to end.
Extensions(b, pos, end) ==
  LET From[i \in Nat] ==
        IF i + 3 > end \/ i + 3 + U16(b, i + 2) > end THEN <<>>
        ELSE LET next == i + 4 + U16(b, i + 2)
             IN <<[type |-> U16(b, i), data |-> SubSeq(b, i + 4, next - 1)]>> \o From[next]
  IN From[pos]

SupportedGroups(ed) == IF Len(ed) < 2 THEN <<>> ELSE U16s(ed, 3, Min({2 + U16(ed, 1), Len(ed)}))

EcPointFormats(ed) == IF Len(ed) < 1 THEN <<>> ELSE SubSeq(ed, 2, Min({1 + ed[1], Len(ed)}))

\* What the extensions of a type say, one after another.
Saying(exts, type, Read(_)) ==
  FoldLeft(LAMBDA w, e : IF e.type = type THEN w \o Read(e.data) ELSE w, <<>>, exts)

\* sid, cs, comp and ext are the positions of the lengths that precede the
\* session identifier, the ciphers, the compression methods, the extensions;
\* a message that ends before one of them, or in the first three, is none.
\* Compression methods, host name and protocols, which nobody reads, are left
\* out.
ParseBody(b) ==
  LET sid == 3 + Random
      cs == sid + 1 + b[sid]
      comp == cs + 2 + U16(b, cs)
      ext == comp + 1 + b[comp]
      exts == Extensions(b, ext + 2, Min({ext + 1 + U16(b, ext), Len(b)}))
  IN IF sid > Len(b) \/ cs + 1 > Len(b) \/ comp > Len(b) \/ ext + 1 > Len(b) THEN None
     ELSE [version |-> U16(b, 1),
           ciphers |-> U16s(b, cs + 2, comp - 1),
           curves |-> Saying(exts, 10, SupportedGroups),
           point_formats |-> Saying(exts, 11, EcPointFormats),
           extensions |-> [i \in DOMAIN exts |-> exts[i].type]]

ParseClientHello(data) ==
  LET body == Walk(data) IN IF body = None THEN None ELSE ParseBody(body)
=============================================================================
