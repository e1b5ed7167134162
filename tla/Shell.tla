-------------------------------- MODULE Shell --------------------------------
(***************************************************************************)
(* The fake shell of internal/decoy/ssh/shell.go: the byte loop of an      *)
(* interactive session or the one command of an exec request (whose        *)
(* requests are taken in server.go), and the interpreter that cuts a line  *)
(* into simple commands. Events, canaries and the tarpit are module Ssh;   *)
(* here executing a line is running its simple commands, each of which     *)
(* ends in an output or in "command not found".                            *)
(*                                                                         *)
(* Characters are one-letter strings; letters stand for words, "e" for     *)
(* exit and logout; "return" stands for the three bytes the loop drops.    *)
(***************************************************************************)
EXTENDS Text

CONSTANTS
  Chars,     \* the characters clients send
  Known,     \* the commands that are answered
  Payloads,  \* what exec requests carry: [announced, text]
  MaxTyped   \* bound of the number of characters typed

VARIABLES
  shell,  \* where the session is: "requests", "loop", "closed"
  typed,  \* history: the characters typed
  line,   \* the line so far
  ran     \* history: the lines executed, [line, commands, output]

vars == <<shell, typed, line, ran>>

White == {" ", "newline", "return"}
Has(s, c) == \E i \in DOMAIN s : s[i] = c

-----------------------------------------------------------------------------
(* The interpreter.                                                        *)

\* A turn of the loop that splits on ; && ||; next is its position.
Turn(s, cmd, i) ==
  IF i < s.next THEN s
  ELSE IF i < Len(cmd) /\ cmd[i] \in {"&", "|"} /\ cmd[i + 1] = cmd[i]
  THEN [parts |-> Append(s.parts, s.cur), cur |-> <<>>, next |-> i + 2]
  ELSE IF cmd[i] = ";"
  THEN [parts |-> Append(s.parts, s.cur), cur |-> <<>>, next |-> i + 1]
  ELSE [s EXCEPT !.cur = Append(@, cmd[i])]

SplitShell(cmd) ==
  LET last == FoldLeft(LAMBDA s, i : Turn(s, cmd, i),
                       [parts |-> <<>>, cur |-> <<>>, next |-> 1], [i \in 1..Len(cmd) |-> i])
  IN Append(last.parts, last.cur)

NotEmpty(texts) == FoldLeft(LAMBDA ts, t : IF t = <<>> THEN ts ELSE Append(ts, t), <<>>, texts)

\* The words of each part that has any.
InWords(parts) == NotEmpty([i \in DOMAIN parts |-> Fields(parts[i], White)])

\* A pipeline to the shell; of "a||b" too, without another separator.
IsPipeline(cmd) == Has(cmd, "|") /\ ~Has(cmd, ";") /\ ~Has(cmd, "&")

LastPipe(cmd) == Max({i \in DOMAIN cmd : cmd[i] = "|"})

\* The simple commands of a line, each a sequence of words. The last stage of
\* a pipeline is cut out with its "|".
SimpleCommands(cmd) ==
  IF IsPipeline(cmd) THEN <<Fields(SubSeq(cmd, LastPipe(cmd), Len(cmd)), White)>>
  ELSE InWords(SplitShell(cmd))

RunSimple(fields) == IF fields[1] \in {<<c>> : c \in Known} THEN fields[1] ELSE <<"not found">>

Exec(cmd) ==
  LET commands == SimpleCommands(cmd)
  IN ran' = Append(ran, [line |-> cmd, commands |-> commands,
                         output |-> [i \in DOMAIN commands |-> RunSimple(commands[i])]])

-----------------------------------------------------------------------------
Init ==
  /\ shell = "requests"
  /\ typed = <<>>
  /\ line = <<>>
  /\ ran = <<>>

\* The line is not reset.
NewlineKeeping ==
  LET cmd == Trim(line, White) IN
  /\ line' = line
  /\ IF cmd \in {<<>>, <<"e">>} THEN UNCHANGED ran ELSE Exec(cmd)
  /\ shell' = IF cmd = <<"e">> THEN "closed" ELSE "loop"

\* The case '\n' of runInteractive: the line is executed, unless it is blank
\* or ends the session.
Newline ==
  LET cmd == Trim(line, White) IN
  /\ line' = <<>>
  /\ IF cmd \in {<<>>, <<"e">>} THEN UNCHANGED ran ELSE Exec(cmd)
  /\ shell' = IF cmd = <<"e">> THEN "closed" ELSE "loop"

ReadByte(b) ==
  /\ shell = "loop" /\ Len(typed) < MaxTyped
  /\ typed' = Append(typed, b)
  /\ \/ b = "newline" /\ Newline
     \/ b = "return" /\ UNCHANGED <<shell, line, ran>>
     \/ b \notin {"newline", "return"} /\ line' = Append(line, b) /\ UNCHANGED <<shell, ran>>

\* The client goes away.
Eof ==
  /\ shell = "loop"
  /\ shell' = "closed"
  /\ UNCHANGED <<typed, line, ran>>

-----------------------------------------------------------------------------
(* The requests of a session channel; the other types change nothing.      *)

ShellRequest ==
  /\ shell = "requests"
  /\ shell' = "loop"
  /\ UNCHANGED <<typed, line, ran>>

\* The payload gives the length of its text; one that is too long is no command.
ExecCommand(p) == IF p.announced > Len(p.text) THEN <<>> ELSE SubSeq(p.text, 1, p.announced)

\* runOnce: the command is executed and the channel closed.
ExecRequest(p) ==
  /\ shell = "requests"
  /\ shell' = "closed"
  /\ LET cmd == Trim(ExecCommand(p), White) IN IF cmd = <<>> THEN UNCHANGED ran ELSE Exec(cmd)
  /\ UNCHANGED <<typed, line>>

\* The client closes the channel without either.
NoRequest ==
  /\ shell = "requests"
  /\ shell' = "closed"
  /\ UNCHANGED <<typed, line, ran>>

Next ==
  \/ ShellRequest \/ (\E p \in Payloads : ExecRequest(p)) \/ NoRequest
  \/ (\E b \in Chars : ReadByte(b)) \/ Eof

Spec == Init /\ [][Next]_vars

-----------------------------------------------------------------------------
\* The lines a client typed, without the characters that are dropped and the
\* last, open line; those up to the first exit that are not blank.
Kept == FoldLeft(LAMBDA cs, c : IF c = "return" THEN cs ELSE Append(cs, c), <<>>, typed)

WholeLines(kept) ==
  LET ends == {i \in DOMAIN kept : kept[i] = "newline"}
  IN IF ends = {} THEN <<>> ELSE Fields(SubSeq(kept, 1, Max(ends)), {"newline"})

UpToExit(lines) ==
  LET exits == {i \in DOMAIN lines : lines[i] = <<"e">>}
  IN IF exits = {} THEN lines ELSE SubSeq(lines, 1, Min(exits) - 1)

LinesTyped ==
  LET whole == WholeLines(Kept)
  IN NotEmpty(UpToExit([i \in DOMAIN whole |-> Trim(whole[i], White)]))

\* Position i begins a && or ||: an even number of the same character in front.
BeginsPair(cmd, i) ==
  /\ i < Len(cmd) /\ cmd[i] \in {"&", "|"} /\ cmd[i + 1] = cmd[i]
  /\ LET others == {j \in 0..i - 1 : j = 0 \/ cmd[j] # cmd[i]} IN (i - Max(others)) % 2 = 1

\* A line with every character of a separator turned into ";".
Marked(cmd) ==
  [i \in 1..Len(cmd) |->
     IF cmd[i] = ";" \/ BeginsPair(cmd, i) \/ (i > 1 /\ BeginsPair(cmd, i - 1)) THEN ";" ELSE cmd[i]]

\* The simple commands of a line, by its separators: the stretches between
\* them that are not blank, in words.
Stretches(cmd) == InWords(Fields(Marked(cmd), {";"}))

\* The lines executed are those typed, whole, in order and once each, up to the
\* exit; and the simple commands run are the stretches between the separators
\* of a line, none lost, none joined to its neighbour, none run twice.
RunsWhatWasTyped ==
  /\ typed # <<>> => [i \in DOMAIN ran |-> ran[i].line] = LinesTyped
  /\ \A i \in DOMAIN ran :
       ~IsPipeline(ran[i].line) => ran[i].commands = Stretches(ran[i].line)

\* shell.go:137: "simple pipeline: only the last stage's output reaches the
\* terminal".
LastStageReachesTerminal ==
  \A i \in DOMAIN ran :
    LET cmd == ran[i].line
        stage == Fields(SubSeq(cmd, LastPipe(cmd) + 1, Len(cmd)), White)
    IN IsPipeline(cmd) /\ Head(cmd) # "|" /\ stage # <<>> => ran[i].output = <<RunSimple(stage)>>
=============================================================================
