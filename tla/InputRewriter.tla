------------------------------ MODULE InputRewriter ------------------------------
(***************************************************************************)
(* The converters that send the program to another process (Rewriter and   *)
(* DLV in MergingPlugin.cpp). Rewriter::convert writes the whole program   *)
(* to the process before it reads the first line of its output; both ways  *)
(* lead through a pipe that holds PipeSize lines. DLV::convert prints the  *)
(* answer sets in the output of dlv itself and hands dlvhex a constraint.  *)
(*                                                                         *)
(* The process is external. A command reads its input line by line, and    *)
(* writes what it makes of a line before it reads the next one, or reads   *)
(* all of its input first; it reads all of it before it exits.             *)
(***************************************************************************)
EXTENDS Naturals, SequencesExt

CONSTANTS
  Commands,  \* command -> [buffers, output: line -> its lines, exit]
  Tokens,    \* line -> its tokens
  PipeSize   \* bound: the lines a pipe holds

ASSUME PipeSizeAssumption == PipeSize \in Nat \ {0}

\* What a command makes of the lines it reads are lines again.
ASSUME CommandsAssumption ==
  \A c \in DOMAIN Commands : \A l \in DOMAIN Commands[c].output :
    Commands[c].output[l] \in Seq(DOMAIN Tokens)

ASSUME TokensAssumption == \A l \in DOMAIN Tokens : Tokens[l] \in Seq(STRING \ {"newline"})

VARIABLES
  command,    \* the command line of the process
  unsent,     \* lines of the program that are still to be written
  toChild,    \* the pipe to the process
  fromChild,  \* the pipe from the process
  owed,       \* lines that the process is about to write
  routput,    \* lines read from it
  dlv,        \* what is left of dlv's output
  printed,    \* answer sets printed
  rewriting   \* what convert is doing

rewriterVars == <<command, unsent, toChild, fromChild, owed, routput, dlv, printed, rewriting>>

RewriterInit ==
  /\ command = "none"
  /\ unsent = <<>> /\ toChild = <<>> /\ fromChild = <<>> /\ owed = <<>> /\ routput = <<>>
  /\ dlv = <<>> /\ printed = <<>>
  /\ rewriting = "idle"

Child == Commands[command]

Rewritten(lines) == FlattenSeq([i \in DOMAIN lines |-> Child.output[lines[i]]])
-----------------------------------------------------------------------------
\* ArbProcess::spawn.
Spawn(cmd, lines) ==
  /\ rewriting = "idle"
  /\ command' = cmd
  /\ unsent' = lines
  /\ rewriting' = "sending"
  /\ UNCHANGED <<toChild, fromChild, owed, routput, dlv, printed>>

\* Mutant: a full pipe does not block.
SendUnbounded ==
  /\ rewriting = "sending" /\ unsent # <<>>
  /\ toChild' = Append(toChild, Head(unsent))
  /\ unsent' = Tail(unsent)
  /\ UNCHANGED <<command, fromChild, owed, routput, dlv, printed, rewriting>>

\* po << line << std::endl;
SendLine ==
  /\ rewriting = "sending" /\ unsent # <<>> /\ Len(toChild) < PipeSize
  /\ toChild' = Append(toChild, Head(unsent))
  /\ unsent' = Tail(unsent)
  /\ UNCHANGED <<command, fromChild, owed, routput, dlv, printed, rewriting>>

\* rewriter.endoffile();
EndOfFile ==
  /\ rewriting = "sending" /\ unsent = <<>>
  /\ rewriting' = "receiving"
  /\ UNCHANGED <<command, unsent, toChild, fromChild, owed, routput, dlv, printed>>

InputEnded == rewriting = "receiving" /\ toChild = <<>>

ChildReads ==
  /\ toChild # <<>> /\ (Child.buffers \/ owed = <<>>)
  /\ owed' = owed \o Child.output[Head(toChild)]
  /\ toChild' = Tail(toChild)
  /\ UNCHANGED <<command, unsent, fromChild, routput, dlv, printed, rewriting>>

ChildWrites ==
  /\ owed # <<>> /\ Len(fromChild) < PipeSize
  /\ Child.buffers => InputEnded
  /\ fromChild' = Append(fromChild, Head(owed))
  /\ owed' = Tail(owed)
  /\ UNCHANGED <<command, unsent, toChild, routput, dlv, printed, rewriting>>

\* getline(pi, line)
ReceiveLine ==
  /\ rewriting = "receiving" /\ fromChild # <<>>
  /\ routput' = Append(routput, Head(fromChild))
  /\ fromChild' = Tail(fromChild)
  /\ UNCHANGED <<command, unsent, toChild, owed, dlv, printed, rewriting>>

\* Mutant: an empty pipe is taken for the end of the output.
CloseOnEmptyPipe ==
  /\ rewriting = "receiving" /\ fromChild = <<>>
  /\ rewriting' = IF Child.exit = 0 THEN "rewritten" ELSE "rewriter failed"
  /\ UNCHANGED <<command, unsent, toChild, fromChild, owed, routput, dlv, printed>>

\* The process has exited and all its output is read. The output is handed on
\* before the exit code is looked at.
CloseProcess ==
  /\ InputEnded /\ owed = <<>> /\ fromChild = <<>>
  /\ rewriting' = IF Child.exit = 0 THEN "rewritten" ELSE "rewriter failed"
  /\ UNCHANGED <<command, unsent, toChild, fromChild, owed, routput, dlv, printed>>

RewriterNext ==
  SendLine \/ EndOfFile \/ ChildReads \/ ChildWrites \/ ReceiveLine \/ CloseProcess
-----------------------------------------------------------------------------
\* The text of the output: every line is followed by a newline.
Text(lines) == FlattenSeq([i \in DOMAIN lines |-> Append(Tokens[lines[i]], "newline")])

\* find_first_of(token) counted from 1, or 0: npos + 1.
Find(token, text) == SelectInSeq(text, LAMBDA t : t = token)

From(text, i) == SubSeq(text, i, Len(text))

\* DLV::convert, after Rewriter::convert.
DlvDone ==
  /\ rewriting = "rewritten"
  /\ dlv' = Text(routput)
  /\ rewriting' = "printing"
  /\ UNCHANGED <<command, unsent, toChild, fromChild, owed, routput, printed>>

\* Everything until "}" is printed, an empty line when there is none.
PrintAnswerSet ==
  /\ rewriting = "printing" /\ dlv # <<>> /\ dlv[1] = "{"
  /\ LET end == Find("}", dlv) IN
     /\ printed' = IF end = 0 THEN printed ELSE Append(printed, SubSeq(dlv, 1, end))
     /\ dlv' = From(dlv, end + 1)
  /\ UNCHANGED <<command, unsent, toChild, fromChild, owed, routput, rewriting>>

\* Mutant: the newline behind the diagnosis is left.
ConvertWithoutNewline ==
  /\ rewriting = "printing" /\ dlv # <<>> /\ dlv[1] = "Diagnosis: "
  /\ LET end == Find("newline", dlv) IN
     dlv' = <<"{">> \o SubSeq(dlv, 2, end - 1) \o <<"}">> \o From(dlv, end)
  /\ UNCHANGED <<command, unsent, toChild, fromChild, owed, routput, printed, rewriting>>

\* A diagnosis is turned into an answer set. Its line ends with a newline.
ConvertDiagnosis ==
  /\ rewriting = "printing" /\ dlv # <<>> /\ dlv[1] = "Diagnosis: "
  /\ LET end == Find("newline", dlv) IN
     dlv' = <<"{">> \o SubSeq(dlv, 2, end - 1) \o <<"}">> \o From(dlv, end + 1)
  /\ UNCHANGED <<command, unsent, toChild, fromChild, owed, routput, printed, rewriting>>

\* Mutant: the text is not dropped when no answer set follows.
SkipForEver ==
  /\ rewriting = "printing" /\ dlv # <<>> /\ dlv[1] \notin {"{", "Diagnosis: "}
  /\ dlv' = IF "{" \in ToSet(dlv) THEN From(dlv, Find("{", dlv)) ELSE dlv
  /\ UNCHANGED <<command, unsent, toChild, fromChild, owed, routput, printed, rewriting>>

\* Anything else is skipped up to the next answer set.
SkipToAnswerSet ==
  /\ rewriting = "printing" /\ dlv # <<>> /\ dlv[1] \notin {"{", "Diagnosis: "}
  /\ dlv' = IF "{" \in ToSet(dlv) THEN From(dlv, Find("{", dlv)) ELSE <<>>
  /\ UNCHANGED <<command, unsent, toChild, fromChild, owed, routput, printed, rewriting>>

AllPrinted ==
  /\ rewriting = "printing" /\ dlv = <<>>
  /\ rewriting' = "printed"
  /\ UNCHANGED <<command, unsent, toChild, fromChild, owed, routput, dlv, printed>>

DlvNext == PrintAnswerSet \/ ConvertDiagnosis \/ SkipToAnswerSet \/ AllPrinted
-----------------------------------------------------------------------------
RewritingStages == {"idle", "sending", "receiving", "rewritten", "rewriter failed",
                    "printing", "printed"}

\* No line is lost, doubled or overtaken on its way through the process.
NothingLost(program) ==
  rewriting # "idle" =>
    routput \o fromChild \o owed \o Rewritten(toChild) \o Rewritten(unsent) = Rewritten(program)

\* The process and the plugin cannot come to wait for each other: at no point
\* has the process more to write than its pipe holds while the plugin has.
NeverStuck(cmd, lines) ==
  \/ Commands[cmd].buffers
  \/ \A k \in 0 .. Len(lines) :
       \/ Len(FlattenSeq([i \in 1 .. k |-> Commands[cmd].output[lines[i]]])) <= PipeSize
       \/ Len(lines) - k <= PipeSize

\* The answer sets that single lines of dlv's output report.
Report(line) ==
  LET text == Tokens[line] IN
  IF text # <<>> /\ text[1] = "Diagnosis: " THEN <<<<"{">> \o Tail(text) \o <<"}">>>>
  ELSE IF "{" \in ToSet(text) THEN <<SubSeq(text, Find("{", text), Find("}", text))>>
  ELSE <<>>

IsDiagnosis(line) == Tokens[line] # <<>> /\ Tokens[line][1] = "Diagnosis: "

\* The answer sets that a line opens are closed on it.
Closed(line) ==
  LET text == Tokens[line] IN
  \A i \in DOMAIN text : text[i] = "{" => \E j \in i + 1 .. Len(text) : text[j] = "}"

\* A diagnosis, or a line with one answer set or none.
ReportsOnce(line) ==
  LET text == Tokens[line] IN
  IF IsDiagnosis(line) THEN "}" \notin ToSet(Tail(text))
  ELSE /\ Closed(line) /\ "Diagnosis: " \notin ToSet(text)
       /\ \A i, j \in DOMAIN text :
            text[i] = "{" /\ text[j] \in {"{", "}"} => i <= j

\* Every line is as dlv writes it, and diagnoses come first.
WellFormed(lines) ==
  /\ \A l \in ToSet(lines) : ReportsOnce(l)
  /\ \A i \in DOMAIN lines : IsDiagnosis(lines[i]) => \A j \in 1 .. i : IsDiagnosis(lines[j])
=============================================================================
