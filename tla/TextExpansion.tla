--------------------------- MODULE TextExpansion ----------------------------
(***************************************************************************)
(* What nested scripts promise, without the calls that the reference shell *)
(* makes for them: there is one text still to be done, from left to right, *)
(* and the run of a script is replaced by the text of that script.         *)
(* ReferenceShell implements this module.                                  *)
(***************************************************************************)
EXTENDS Naturals, Sequences

CONSTANTS Scripts,     \* the files that have lines; a path is the sequence
                       \* of names below Home
          TextOf,      \* the commands of each, all its lines together
          Lines,       \* what may be read from standard input
          MaxOpen,     \* how many files can be open
          Home

VARIABLES rest,        \* the text still to be done: each command with the
                       \* number of files that can still be opened there
          out,         \* what has been done, in order
          running,
          dir,         \* the working directory
          dirs, files  \* the directories and the files there are

tree == <<dir, dirs, files>>

vars == <<rest, out, running, tree>>

Init ==
  /\ rest = << >>
  /\ out = << >>
  /\ running = TRUE
  /\ dir = Home
  /\ Home \in dirs
  /\ Scripts \subseteq files

-----------------------------------------------------------------------------
\* A text where room more files can be opened.
Tagged(text, room) == [i \in DOMAIN text |-> [cmd |-> text[i], room |-> room]]

Read(line) ==
  /\ running
  /\ rest = << >>
  /\ rest' = Tagged(line, MaxOpen)
  /\ UNCHANGED <<out, running, tree>>

\* There is no more text to read.
Starve ==
  /\ running
  /\ rest = << >>
  /\ running' = FALSE
  /\ UNCHANGED <<rest, out, tree>>

-----------------------------------------------------------------------------
NextIs(op) == running /\ rest # << >> /\ Head(rest).cmd.op = op

Cmd  == Head(rest).cmd
Room == Head(rest).room
Path == Append(dir, Cmd.arg)

Did(result) ==
  /\ out' = Append(out, result)
  /\ rest' = Tail(rest)
  /\ UNCHANGED running

\* Nothing of what is left will be done.
Stop(result) ==
  /\ out' = Append(out, result)
  /\ running' = FALSE
  /\ UNCHANGED rest

Do ==
  /\ NextIs("do") \/ NextIs("blank")
  /\ Did(Cmd)
  /\ UNCHANGED tree

Quit ==
  /\ NextIs("quit")
  /\ Stop(Cmd)
  /\ UNCHANGED tree

ChangeDir ==
  /\ NextIs("my_cd")
  /\ IF Path \in dirs
       THEN Did(Cmd) /\ dir' = Path
       ELSE Did([op |-> "bad cd"]) /\ UNCHANGED dir
  /\ UNCHANGED <<dirs, files>>

MakeDir ==
  /\ NextIs("my_mkdir")
  /\ Did(Cmd)
  /\ dirs' = dirs \cup ({Path} \ files)
  /\ UNCHANGED <<dir, files>>

Touch ==
  /\ NextIs("my_touch")
  /\ IF Room > 0 /\ Path \notin dirs
       THEN Did(Cmd) /\ files' = files \cup {Path}
       ELSE Stop(Cmd) /\ UNCHANGED files
  /\ UNCHANGED <<dir, dirs>>

\* The script's text takes the place of the run, before what follows it.
Expand ==
  /\ NextIs("run")
  /\ Room > 0 /\ Path \in Scripts
  /\ rest' = Tagged(TextOf[Path], Room - 1) \o Tail(rest)
  /\ UNCHANGED <<out, running, tree>>

\* There is nothing to read in an empty file or in a directory.
ExpandNothing ==
  /\ NextIs("run")
  /\ Room > 0 /\ Path \in (files \cup dirs) \ Scripts
  /\ Stop([op |-> "garbage"])
  /\ UNCHANGED tree

ExpandMissing ==
  /\ NextIs("run")
  /\ Room = 0 \/ Path \notin files \cup dirs
  /\ Did([op |-> "not found"])
  /\ UNCHANGED tree

Next ==
  \/ \E line \in Lines : Read(line)
  \/ Starve
  \/ Do \/ Quit \/ ChangeDir \/ MakeDir \/ Touch
  \/ Expand \/ ExpandNothing \/ ExpandMissing

Spec == Init /\ [][Next]_vars

=============================================================================
