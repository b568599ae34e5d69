--------------------------- MODULE MCCommandLines ---------------------------
(***************************************************************************)
(* Lines for CommandLines: every short line of two letters, blanks and     *)
(* semicolons, with and without a newline, and lines with an exec, or two. *)
(***************************************************************************)
EXTENDS CommandLines

CONSTANTS x, y,        \* letters, and names of programs
          RR,
          MaxLength, MaxArguments

SeqsUpTo(S, n) == UNION { [1 .. k -> S] : k \in 0 .. n }

Unended == SeqsUpTo({x, y, Blank, Semicolon}, MaxLength)

ShortLines == Unended \cup { Append(l, Newline) : l \in Unended }

\* The words of args, with a blank in front of each.
Spaced(args) ==
  [k \in 1 .. 2 * Len(args) |-> IF k % 2 = 1 THEN Blank ELSE args[k \div 2]]

ExecLine(args) == <<exec>> \o Spaced(args)

\* The modes an exec may end with.
Modes == { << >>, <<Hash>>, <<MT>>, <<Hash, MT>>, <<MT, Hash>> }

AnyArgs == SeqsUpTo({x, y, Hash, MT, RR}, MaxArguments)

\* Up to four programs, one more than exec takes.
UsualArgs ==
  { p \o <<RR>> \o m : p \in SeqsUpTo({x, y}, 4) \ { << >> }, m \in Modes }

ExecLines ==
  { Append(ExecLine(a), Newline) : a \in AnyArgs \cup UsualArgs }
    \cup { ExecLine(a) \o <<Semicolon>> \o ExecLine(<<y, RR>>) : a \in UsualArgs }

MCLines == ShortLines \cup ExecLines

MCLetters == {x, y, RR, exec, Hash, MT}

ASSUME MCHashStandsAlone == HashStandsAlone

=============================================================================
