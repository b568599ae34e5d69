--------------------------- MODULE ReferenceShell ---------------------------
(***************************************************************************)
(* The reference shell of the first assignment: main reads lines from the  *)
(* batch file on its standard input and then from the terminal; run reads  *)
(* a script line by line and calls the parser, which may call run again.   *)
(* A line is the sequence of its commands (SolutionParser says which).     *)
(* my_cd, my_mkdir and my_touch decide which scripts a later run finds, so *)
(* the directories and files they change are part of the state.            *)
(***************************************************************************)
EXTENDS Naturals, SequencesExt

CONSTANTS Names,         \* of files and directories: letters and digits only
          LinesOf,       \* the lines of each script there is at first; a
                         \* path is the sequence of names below Home
          Terminated,    \* the scripts whose last line ends with a newline
          Plain,         \* commands that touch neither control nor files
          MaxOpen,       \* how many files can be open: fopen fails beyond
          InputLines,    \* what lines may come from standard input
          MaxInput       \* bound on how many do

Home == << >>

Scripts == DOMAIN LinesOf

Quit  == [op |-> "quit"]
Blank == [op |-> "blank"]     \* no word: "Unknown Command"

Commands ==
  [op : {"run", "my_cd", "my_mkdir", "my_touch"}, arg : Names]
    \cup [op : {"do"}, arg : Plain]
    \cup {Quit, Blank}

\* What a run that cannot open its script and a my_cd that finds no directory
\* print.
NotFound == [op |-> "not found"]
BadCd    == [op |-> "bad cd"]

\* What the parser finds in a line buffer that was never written.
Garbage == [op |-> "garbage"]

Parents(path) == { SubSeq(path, 1, n) : n \in 0 .. Len(path) - 1 }

ASSUME ReferenceShellAssumption ==
  /\ Scripts \subseteq Seq(Names) \ {Home}
  /\ \A f, g \in Scripts : g \notin Parents(f)    \* no script is a directory
  /\ LinesOf \in [Scripts -> Seq(Seq(Commands))]
  /\ Terminated \subseteq Scripts
  /\ MaxOpen \in Nat
  /\ MaxInput \in Nat
  /\ InputLines \subseteq Seq(Commands)

VARIABLES frames,      \* the calls of run, main's loop first: each with the
                       \* file it reads, how many lines it has read, and the
                       \* commands of the line that are still to come
          executed,    \* what the interpreter has done, in order
          source,      \* stdin is the "batch" file, "ended", or the "tty"
          terminal,    \* whether there is a terminal to open
          status,      \* "running", "exited", or "undefined"
          input,       \* the lines read from standard input
          dir,         \* the working directory
          dirs, files  \* the directories and the files there are

disk == <<dir, dirs, files>>

vars == <<frames, executed, source, terminal, status, input, disk>>

Stdin == Home          \* no script's path

Init ==
  /\ frames = <<[file |-> Stdin, read |-> 0, todo |-> << >>]>>
  /\ executed = << >>
  /\ source \in {"batch", "tty"}
  /\ terminal \in BOOLEAN
  /\ source = "tty" => terminal
  /\ status = "running"
  /\ input = << >>
  /\ dir = Home
  /\ dirs = {Home} \cup UNION { Parents(f) : f \in Scripts }
  /\ files = Scripts

-----------------------------------------------------------------------------
Depth == Len(frames)

Top == frames[Depth]

Running == status = "running"

AtPrompt == Depth = 1 /\ Top.todo = << >>

WithTop(frame) == [frames EXCEPT ![Depth] = frame]

\* The frame once its next command is taken.
Advanced == [Top EXCEPT !.todo = Tail(@)]

\* main: a line from standard input.  The batch file may end with it.
ReadInput(line) ==
  /\ Running /\ AtPrompt
  /\ Len(input) < MaxInput
  /\ source \in {"batch", "tty"}
  /\ source' \in IF source = "batch" THEN {"batch", "ended"} ELSE {"tty"}
  /\ frames' = WithTop([Top EXCEPT !.todo = line])
  /\ input' = Append(input, line)
  /\ UNCHANGED <<executed, terminal, status, disk>>

\* The batch file ends with a newline: fgets leaves the buffer as memset
\* left it, and parseInput is given an empty line.
ReadEnd ==
  /\ Running /\ AtPrompt
  /\ source = "batch"
  /\ source' = "ended"
  /\ frames' = WithTop([Top EXCEPT !.todo = <<Blank>>])
  /\ input' = Append(input, <<Blank>>)
  /\ UNCHANGED <<executed, terminal, status, disk>>

\* stdin = fopen("/dev/tty", "r"); without a terminal the next fgets reads
\* from NULL.
OpenTerminal ==
  /\ Running /\ AtPrompt
  /\ source = "ended"
  /\ IF terminal
       THEN source' = "tty" /\ UNCHANGED status
       ELSE status' = "undefined" /\ UNCHANGED source
  /\ UNCHANGED <<frames, executed, terminal, input, disk>>

-----------------------------------------------------------------------------
NextIs(op) ==
  /\ Running
  /\ Top.todo # << >>
  /\ Head(Top.todo).op = op

NextHas(op, n) == NextIs(op) /\ Head(Top.todo).arg = n

\* The command is done: the next one of its line follows.
Done(result) ==
  /\ executed' = Append(executed, result)
  /\ frames' = WithTop(Advanced)
  /\ UNCHANGED <<source, terminal, status, input>>

\* The shell exits, or what it does next is undefined.
Stops(result, how) ==
  /\ executed' = Append(executed, result)
  /\ status' = how
  /\ UNCHANGED <<frames, source, terminal, input>>

Interpret ==
  /\ NextIs("do") \/ NextIs("blank")
  /\ Done(Head(Top.todo))
  /\ UNCHANGED disk

quit ==
  /\ NextIs("quit")
  /\ Stops(Quit, "exited")
  /\ UNCHANGED disk

Here(n) == Append(dir, n)

cd(n) ==
  /\ NextHas("my_cd", n)
  /\ IF Here(n) \in dirs
       THEN Done(Head(Top.todo)) /\ dir' = Here(n)
       ELSE Done(BadCd) /\ UNCHANGED dir
  /\ UNCHANGED <<dirs, files>>

\* mkdir fails, with a message, if there is such a file or directory.
my_mkdir(n) ==
  /\ NextHas("my_mkdir", n)
  /\ Done(Head(Top.todo))
  /\ dirs' = IF Here(n) \in files THEN dirs ELSE dirs \cup {Here(n)}
  /\ UNCHANGED <<dir, files>>

\* Mutant: off by one.
CanOpen_OneMore == Depth - 1 <= MaxOpen

\* The scripts being run are open.
CanOpen == Depth - 1 < MaxOpen

\* "if things go wrong, just ignore it": fclose(NULL) does not.
touch(n) ==
  /\ NextHas("my_touch", n)
  /\ IF CanOpen /\ Here(n) \notin dirs
       THEN Done(Head(Top.todo)) /\ files' = files \cup {Here(n)}
       ELSE Stops(Head(Top.todo), "undefined") /\ UNCHANGED files
  /\ UNCHANGED <<dir, dirs>>

-----------------------------------------------------------------------------
\* Files that touch has created are empty.
HasLines(path) == path \in Scripts /\ LinesOf[path] # << >>

\* Mutant: the rest of the line is dropped.
Caller_RestDropped == [Top EXCEPT !.todo = << >>]

\* The caller of run goes on with its line once run returns.
Caller == Advanced

\* run: fopen and the first fgets.
run(n) ==
  /\ NextHas("run", n)
  /\ CanOpen
  /\ HasLines(Here(n))
  /\ frames' = Append(WithTop(Caller),
                      [file |-> Here(n), read |-> 1,
                       todo |-> LinesOf[Here(n)][1]])
  /\ UNCHANGED <<executed, source, terminal, status, input, disk>>

\* run of an empty file, or of a directory, which fopen opens as well: the
\* line buffer is parsed as it was allocated.
RunEmpty(n) ==
  /\ NextHas("run", n)
  /\ CanOpen
  /\ Here(n) \in files \cup dirs
  /\ ~HasLines(Here(n))
  /\ Stops(Garbage, "undefined")
  /\ UNCHANGED disk

\* badcommandFileDoesNotExist.
RunNotFound(n) ==
  /\ NextHas("run", n)
  /\ ~CanOpen \/ Here(n) \notin files \cup dirs
  /\ Done(NotFound)
  /\ UNCHANGED disk

\* How often fgets is called before feof is true: once more than there are
\* lines when the last one ends with a newline.
Reads(f) == Len(LinesOf[f]) + IF f \in Terminated THEN 1 ELSE 0

LineDone == Running /\ Depth > 1 /\ Top.todo = << >>

NextLine ==
  /\ LineDone
  /\ Top.read < Reads(Top.file)
  /\ frames' = WithTop([Top EXCEPT
                 !.read = @ + 1,
                 !.todo = IF Top.read < Len(LinesOf[Top.file])
                            THEN LinesOf[Top.file][Top.read + 1]
                            ELSE <<Blank>>])
  /\ UNCHANGED <<executed, source, terminal, status, input, disk>>

\* Mutant: off by one, the end is expected behind one more line.
EndScript_TooLate ==
  /\ LineDone
  /\ Top.read > Reads(Top.file)
  /\ frames' = SubSeq(frames, 1, Depth - 1)
  /\ UNCHANGED <<executed, source, terminal, status, input, disk>>

\* Mutant: feof is asked before the last line is parsed, and without it.
EndScript_TooEarly ==
  /\ LineDone
  /\ Top.read + 1 >= Reads(Top.file)
  /\ frames' = SubSeq(frames, 1, Depth - 1)
  /\ UNCHANGED <<executed, source, terminal, status, input, disk>>

\* feof, fclose and the return of run.
EndScript ==
  /\ LineDone
  /\ Top.read >= Reads(Top.file)
  /\ frames' = SubSeq(frames, 1, Depth - 1)
  /\ UNCHANGED <<executed, source, terminal, status, input, disk>>

Work ==
  \/ Interpret
  \/ quit
  \/ \E n \in Names :
       cd(n) \/ my_mkdir(n) \/ touch(n) \/ run(n) \/ RunEmpty(n) \/ RunNotFound(n)
  \/ NextLine
  \/ EndScript

Next ==
  \/ \E line \in InputLines : ReadInput(line)
  \/ ReadEnd
  \/ OpenTerminal
  \/ Work

Spec == Init /\ [][Next]_vars /\ WF_vars(Work)

-----------------------------------------------------------------------------
\* A call of run reads a script with lines, and no more of it than there is.
FrameOK(frame) ==
  /\ frame.file \in Scripts
  /\ LinesOf[frame.file] # << >>
  /\ frame.read \in 1 .. Reads(frame.file)

TypeOK ==
  /\ frames \in Seq([file : Seq(Names), read : Nat, todo : Seq(Commands)])
  /\ Depth \in 1 .. MaxOpen + 1
  /\ \A d \in 2 .. Depth : FrameOK(frames[d])
  /\ executed \in Seq(Commands \cup {NotFound, BadCd, Garbage})
  /\ source \in {"batch", "ended", "tty"}
  /\ terminal \in BOOLEAN
  /\ status \in {"running", "exited", "undefined"}
  /\ input \in Seq(Seq(Commands))
  /\ dir \in dirs
  /\ dirs \subseteq Seq(Names)
  /\ files \subseteq Seq(Names)
  /\ dirs \cap files = {}

\* What fgets finds in a script: an empty line behind a final newline.
LinesRead(f) ==
  IF f \in Terminated THEN Append(LinesOf[f], <<Blank>>) ELSE LinesOf[f]

\* What a call of run has not read yet; main reads when it is asked to.
Unread(frame) ==
  IF frame.file = Stdin THEN << >>
  ELSE FlattenSeq(SubSeq(LinesRead(frame.file), frame.read + 1, Reads(frame.file)))

Pending(frame) == frame.todo \o Unread(frame)

WithLines == { f \in Scripts : LinesOf[f] # << >> }

Texts == [f \in WithLines |-> FlattenSeq(LinesRead(f))]

Tag(text, room) == [i \in DOMAIN text |-> [cmd |-> text[i], room |-> room]]

\* The innermost call first.  A call at depth d has d - 1 files open.
Levels ==
  [i \in 1 .. Depth |-> LET d == Depth + 1 - i
                        IN  Tag(Pending(frames[d]), MaxOpen + 1 - d)]

\* From the text order of the commands to the calls that will do them.
Expansion == INSTANCE TextExpansion WITH
  Scripts <- WithLines, TextOf <- Texts, Lines <- InputLines \cup {<<Blank>>},
  rest <- FlattenSeq(Levels), out <- executed, running <- Running

\* However scripts are nested, the shell does what one text would, in which
\* the run of a script is replaced by the script: its commands are executed
\* there and then, what follows the run in its line after them, and in the
\* directory and with the files that they leave (A1 solution, interpreter.c,
\* lines 364-387; shell.c, lines 98-113).
RefinesTextExpansion == Expansion!Spec

\* A line comes to an end, and the shell to its next prompt or to its end,
\* although scripts may run themselves: run (interpreter.c, lines 364-387)
\* goes no deeper than files can be opened.
PromptReturns == Depth > 1 ~> (AtPrompt \/ ~Running)

=============================================================================
