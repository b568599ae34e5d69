---------------------------- MODULE StarterInput ----------------------------
(***************************************************************************)
(* From a line at the prompt of the third assignment's shell to the calls  *)
(* of exec: the test of main for background mode, the parser, and the      *)
(* right-to-left reading of exec's arguments in interpreter.  What exec    *)
(* does with them is the matter of DemandPaging and WorkerPool.            *)
(***************************************************************************)
EXTENDS StarterParser

CONSTANTS exec, Hash, MT,   \* the words "exec", "#" and "MT"
          Policies          \* the words "RR", "RR30", ...

VARIABLES background_mode, mt_mode,
          execs              \* the calls of exec, in order

inputVars == <<background_mode, mt_mode, execs>>

MAX_ARGS_SIZE == 7

Word(text) == <<text>>

\* main: strstr(userInput, "exec") && strstr(userInput, "#").
InitInput ==
  /\ InitParser
  /\ background_mode = (Contains(line, exec) /\ Contains(line, Hash))
  /\ mt_mode = FALSE
  /\ execs = << >>

\* An argument is taken from the right end as long as there are enough left;
\* one that is not there, NULL, is << >>.
ArgumentAt(args, k) == IF k >= 3 THEN <<args[k]>> ELSE << >>

Left(k) == IF k >= 3 THEN k - 1 ELSE k

\* Mutant: the mode words are looked for in one order only, # last.
ExecArguments_HashLast(args) ==
  LET hash    == IF args[Len(args)] = Word(Hash) THEN Len(args) - 1 ELSE Len(args)
      k       == IF args[hash] = Word(MT) THEN hash - 1 ELSE hash
      prog3   == ArgumentAt(args, Left(k))
      prog2   == ArgumentAt(args, Left(Left(k)))
  IN  [programs |-> <<args[2]>> \o prog2 \o prog3,
       policy   |-> ArgumentAt(args, k),
       mt       |-> args[hash] = Word(MT)]

ExecArguments(args) ==
  LET mt      == args[Len(args)] = Word(MT)
      noMT    == IF mt THEN Len(args) - 1 ELSE Len(args)
      k       == IF noMT >= 4 /\ args[noMT] = Word(Hash) THEN noMT - 1 ELSE noMT
      prog3   == ArgumentAt(args, Left(k))
      prog2   == ArgumentAt(args, Left(Left(k)))
  IN  [programs |-> <<args[2]>> \o prog2 \o prog3,
       policy   |-> ArgumentAt(args, k),
       mt       |-> mt]

\* interpreter, as far as exec goes.  mt_mode stays on for good; an exec in
\* background mode ends it (create_shell_program), if it gets that far.
interpreter(args) ==
  IF /\ Len(args) \in 3 .. MAX_ARGS_SIZE
     /\ args[1] = Word(exec)
  THEN LET e == ExecArguments(args)
       IN  /\ mt_mode' = (mt_mode \/ e.mt)
           /\ execs' = Append(execs,
                [args       |-> args,
                 programs   |-> e.programs,
                 policy     |-> e.policy,
                 background |-> background_mode,
                 mt         |-> mt_mode'])
           /\ background_mode' =
                (background_mode /\ ~\E p \in Policies : e.policy = <<Word(p)>>)
  ELSE UNCHANGED inputVars

NextInput ==
  /\ parseInput
  /\ IF calls' # calls THEN interpreter(Last(calls')) ELSE UNCHANGED inputVars

-----------------------------------------------------------------------------
\* exec PROG1 [PROG2 [PROG3]] POLICY [#] [MT]
WrittenAs(args, programs, policy, background, mt) ==
  /\ Len(programs) \in 1 .. 3
  /\ \A n \in DOMAIN programs : programs[n] \notin {Word(Hash), Word(MT)}
  /\ args = <<Word(exec)>> \o programs \o <<Word(policy)>>
              \o (IF background THEN <<Word(Hash)>> ELSE << >>)
              \o (IF mt THEN <<Word(MT)>> ELSE << >>)

ProgramsOf(args) ==
  { SubSeq(args, 2, n) : n \in 2 .. IF Len(args) < 4 THEN Len(args) ELSE 4 }

\* An exec that is written as the comment in interpreter.c, lines 337-338,
\* says gets the programs it names in their order, its policy, and MT mode
\* if it, or an exec before it, asks for it; it runs in background mode if
\* it has a # and is the only command of the line.
ExecReadsItsArguments ==
  \A n \in DOMAIN execs :
    \A programs \in ProgramsOf(execs[n].args), policy \in Policies,
       background, mt \in BOOLEAN :
      WrittenAs(execs[n].args, programs, policy, background, mt) =>
        /\ execs[n].programs = programs
        /\ execs[n].policy = <<Word(policy)>>
        /\ execs[n].mt =
             \E m \in 1 .. n : Last(execs[m].args) = Word(MT)
        /\ Len(Chain(line)) = 1 => execs[n].background = background

=============================================================================
