-------------------------------- MODULE Text --------------------------------
(***************************************************************************)
(* What the parsers use of Go: the range loop, and operators of package    *)
(* strings over sequences of characters. The loop is defined here as the   *)
(* parsers are instances in one module, whose proofs carry all that an     *)
(* instance extends.                                                       *)
(***************************************************************************)
EXTENDS Integers, Sequences, FiniteSetsExt

\* for _, x := range xs: what v has become after a turn for each x, in order.
FoldLeft(Turn(_, _), v, xs) ==
  MapThenFoldSet(LAMBDA x, w : Turn(w, x), v, LAMBDA i : xs[i], Max, DOMAIN xs)

\* strings.Fields, and strings.FieldsFunc: the words between white space. A
\* character is white, begins a word or belongs to the last one.
Word(ws, s, i, white) ==
  IF s[i] \in white THEN ws
  ELSE IF i = 1 \/ s[i - 1] \in white THEN Append(ws, <<s[i]>>)
  ELSE [ws EXCEPT ![Len(ws)] = Append(@, s[i])]

Fields(s, white) == FoldLeft(LAMBDA ws, i : Word(ws, s, i, white), <<>>, [i \in 1..Len(s) |-> i])

\* strings.Trim and strings.TrimSpace: s without the characters of cut at its ends.
Trim(s, cut) ==
  LET kept == {i \in DOMAIN s : s[i] \notin cut}
  IN IF kept = {} THEN <<>> ELSE SubSeq(s, Min(kept), Max(kept))
=============================================================================
