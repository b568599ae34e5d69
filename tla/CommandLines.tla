---------------------------- MODULE CommandLines ----------------------------
(***************************************************************************)
(* One line, given to the parser of the third assignment's shell (and on   *)
(* to its exec), or to that of the reference shells.                       *)
(***************************************************************************)
EXTENDS LineSyntax

CONSTANTS Lines,                          \* the lines the user may type
          exec, Hash, MT, Policies

\* fgets, which the lines come from, stops after a newline.
ASSUME CommandLinesAssumption ==
  /\ {exec, Hash, MT} \cup Policies \subseteq Letters
  /\ exec # Hash /\ Hash # MT /\ MT # exec
  /\ {exec, Hash, MT} \cap Policies = {}
  /\ Lines \subseteq Seq(Letters \cup {Blank, Semicolon, Newline})
  /\ \A l \in Lines : \A k \in 1 .. Len(l) - 1 : l[k] # Newline

VARIABLES shell,                          \* whose parser is at work
          line, ix, w, calls, returned,   \* of both parsers
          commandStart,                   \* of the starter's
          leftLoop,                       \* of the solution's
          background_mode, mt_mode, execs,
          chain                           \* what the line stands for

vars == <<chain, shell, line, ix, w, calls, returned, commandStart, leftLoop,
          background_mode, mt_mode, execs>>

Starter  == INSTANCE StarterInput
Solution == INSTANCE SolutionParser

Init ==
  /\ shell \in {"starter", "solution"}
  /\ line \in Lines
  /\ chain = Chain(line)
  /\ Starter!InitInput
  /\ Solution!InitParser

Next ==
  \/ /\ shell = "starter"
     /\ Starter!NextInput
     /\ UNCHANGED <<chain, shell, leftLoop>>
  \/ /\ shell = "solution"
     /\ Solution!parseInput
     /\ UNCHANGED <<chain, shell, commandStart, background_mode, mt_mode,
                    execs>>

Spec == Init /\ [][Next]_vars /\ WF_vars(Next)

-----------------------------------------------------------------------------
TypeOK ==
  /\ shell = "starter" => Starter!ParserTypeOK
  /\ shell = "solution" => Solution!ParserTypeOK

\* The part of a chain that comes after the commands called so far.
Rest(commands, called) ==
  SubSeq(commands, Len(called) + 1, Len(commands))

Of(name, commands) == IF shell = name THEN commands ELSE << >>

\* The starter's parser hands over the commands of the line that have words,
\* each with its own words, in their order.
StarterChain == INSTANCE CommandChain WITH
  done <- Of("starter", NotBlank(calls)),
  todo <- Of("starter", Rest(NotBlank(chain), NotBlank(calls)))

StarterExecutesChain == StarterChain!Spec

\* The reference shells hand over blank commands as well, so that each is
\* answered with an error ("the spec insists", shell.c, lines 86-87).
SolutionChain == INSTANCE CommandChain WITH
  done <- Of("solution", calls),
  todo <- Of("solution", Rest(chain, calls))

SolutionExecutesChain == SolutionChain!Spec

\* Neither parser stops, or goes round in circles, before all the commands of
\* the line were handed over.
LineIsExecuted == StarterChain!AllExecuted /\ SolutionChain!AllExecuted

\* No # is part of a longer word: main's strstr does not look for a word.
HashStandsAlone ==
  \A l \in Lines : \A k \in 1 .. Len(l) :
    l[k] = Hash => ~IsLetter(l, k + 1) /\ (k > 1 => ~IsLetter(l, k - 1))

ExecReadsItsArguments == Starter!ExecReadsItsArguments

=============================================================================
