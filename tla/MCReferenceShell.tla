-------------------------- MODULE MCReferenceShell --------------------------
(***************************************************************************)
(* ReferenceShell for TLC, with what nested scripts are to do, defined by  *)
(* recursion on the scripts as data.                                       *)
(***************************************************************************)
EXTENDS ReferenceShell, SequencesExt

Cmd(op, n) == [op |-> op, arg |-> n]
Do(c)  == Cmd("do", c)
Run(n) == Cmd("run", n)

MCNames == {"twice", "self", "leaf", "stop", "empty", "go", "deep",
            "sub", "new"}

\* twice: two commands in a line, of which the first runs another script;
\* self: runs itself, twice; deep: itself, and touches a file; empty: nothing,
\* not even a newline; go: to a directory with another leaf.
MCPaths == { <<n>> : n \in MCNames \ {"sub", "new"} } \cup {<<"sub", "leaf">>}

MCLinesOf ==
  [f \in MCPaths |->
     CASE f = <<"leaf">>  -> << <<Do("a")>>, <<Blank>>, <<Do("b")>> >>
       [] f = <<"twice">> -> << <<Run("leaf"), Do("c")>>, <<Run("new"), Run("leaf")>> >>
       [] f = <<"self">>  -> << <<Do("a"), Run("self"), Do("b")>>, <<Run("self")>> >>
       [] f = <<"stop">>  -> << <<Do("c")>>, <<Quit, Do("d")>>, <<Do("d")>> >>
       [] f = <<"go">>    -> << <<Cmd("my_cd", "sub"), Run("leaf")>>, <<Run("go")>> >>
       [] f = <<"deep">>  -> << <<Run("deep"), Cmd("my_touch", "new")>> >>
       [] f = <<"empty">> -> << >>
       [] f = <<"sub", "leaf">> -> << <<Do("b"), Cmd("my_touch", "new")>> >>]

MCTerminated == {<<"leaf">>, <<"self">>}

MCInputLines ==
  { <<Do("d"), Run("twice"), Do("e")>>, <<Run("self")>>,
    <<Run("leaf"), Run("stop"), Do("e")>>, <<Run("empty")>>, <<Run("deep"), Do("e")>>,
    <<Run("go"), Run("new"), Run("leaf")>>,
    <<Cmd("my_mkdir", "new"), Cmd("my_cd", "new"), Cmd("my_mkdir", "sub")>>,
    <<Cmd("my_touch", "new"), Cmd("my_touch", "sub")>> }

-----------------------------------------------------------------------------
\* What commands act on: what was done, the disk, whether the shell goes on.
Fresh == [out |-> << >>, dir |-> Home,
          dirs |-> {Home} \cup UNION { Parents(f) : f \in Scripts },
          files |-> Scripts, running |-> TRUE]

Out(world, result) == [world EXCEPT !.out = Append(@, result)]

Over(world, result) == [Out(world, result) EXCEPT !.running = FALSE]

\* fgets finds one more line, an empty one, behind a final newline.
Text(f) ==
  FlattenSeq(LinesOf[f]) \o (IF f \in Terminated THEN <<Blank>> ELSE << >>)

RECURSIVE After(_, _, _)

\* The world after commands, when n more files can be opened.
After(commands, n, world) ==
  IF commands = << >> \/ ~world.running THEN world
  ELSE LET c    == Head(commands)
           path == Append(world.dir, c.arg)
           next ==
             CASE c.op \in {"do", "blank"} -> Out(world, c)
               [] c.op = "quit" -> Over(world, c)
               [] c.op = "my_cd" ->
                    IF path \in world.dirs
                      THEN [Out(world, c) EXCEPT !.dir = path]
                      ELSE Out(world, BadCd)
               [] c.op = "my_mkdir" ->
                    [Out(world, c) EXCEPT !.dirs = @ \cup ({path} \ world.files)]
               [] c.op = "my_touch" ->
                    IF n = 0 \/ path \in world.dirs THEN Over(world, c)
                    ELSE [Out(world, c) EXCEPT !.files = @ \cup {path}]
               [] c.op = "run" ->
                    IF n = 0 \/ path \notin world.files \cup world.dirs
                      THEN Out(world, NotFound)
                    ELSE IF HasLines(path) THEN After(Text(path), n - 1, world)
                    ELSE Over(world, Garbage)
       IN  After(Tail(commands), n, next)

Expected == After(FlattenSeq(input), MaxOpen, Fresh)

\* However scripts are nested, commands are executed in the order of the text:
\* a script's in the place of the run that names it, and what follows the run
\* in its line after the script; each in the directory, and with the files,
\* that the commands before it have left (A1 solution, run and parseInput).
ExecutesInTextOrder ==
  /\ IsPrefix(executed, Expected.out)
  /\ AtPrompt \/ ~Running =>
       /\ executed = Expected.out
       /\ disk = <<Expected.dir, Expected.dirs, Expected.files>>

=============================================================================
