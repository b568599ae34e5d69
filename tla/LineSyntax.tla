----------------------------- MODULE LineSyntax -----------------------------
(***************************************************************************)
(* What a line of the shell stands for: the commands between semicolons,   *)
(* up to the end of the line, each a sequence of words.  A line is a       *)
(* sequence of characters; a word that the shell knows (exec, RR, #, ...)  *)
(* counts as one character, since nothing here looks inside it.            *)
(***************************************************************************)
EXTENDS Naturals, Sequences, FiniteSets, SequencesExt

CONSTANTS Letters,                        \* what words are made of
          Blank, Semicolon, Newline,
          NUL                             \* the end of the string

ASSUME LineSyntaxAssumption ==
  /\ Letters \cap {Blank, Semicolon, Newline, NUL} = {}
  /\ \A c \in {Blank, Semicolon, Newline} : c # NUL
  /\ Blank # Semicolon /\ Semicolon # Newline /\ Newline # Blank

\* inp[k] of a buffer that is filled with zeros behind the line.
CharAt(line, k) == IF k <= Len(line) THEN line[k] ELSE NUL

IsLetter(line, k) == CharAt(line, k) \in Letters

\* The words of a command are the longest runs of letters.
WordStarts(line) ==
  { k \in 1 .. Len(line) :
      IsLetter(line, k) /\ (k > 1 => ~IsLetter(line, k - 1)) }

WordEnd(line, k) ==
  CHOOSE e \in k .. Len(line) :
    /\ \A m \in k .. e : IsLetter(line, m)
    /\ ~IsLetter(line, e + 1)

WordAt(line, k) == SubSeq(line, k, WordEnd(line, k))

\* Where the blanks from k on end.
SkipBlanks(line, k) ==
  CHOOSE m \in k .. Len(line) + 1 :
    /\ CharAt(line, m) # Blank
    /\ \A j \in k .. m - 1 : CharAt(line, j) = Blank

\* The positions at which a command ends; the line ends at its newline.
LineEnd(line) ==
  CHOOSE k \in 1 .. Len(line) + 1 :
    /\ CharAt(line, k) \in {Newline, NUL}
    /\ \A m \in 1 .. k - 1 : CharAt(line, m) \notin {Newline, NUL}

CommandEnds(line) ==
  { k \in 1 .. LineEnd(line) :
      k = LineEnd(line) \/ CharAt(line, k) = Semicolon }

InOrder(positions) ==
  [n \in 1 .. Cardinality(positions) |->
     CHOOSE p \in positions :
       Cardinality({ q \in positions : q <= p }) = n]

Words(line, first, last) ==
  LET starts == InOrder(WordStarts(line) \cap first .. last)
  IN  [n \in 1 .. Len(starts) |-> WordAt(line, starts[n])]

Chain(line) ==
  LET ends == InOrder(CommandEnds(line))
  IN  [n \in 1 .. Len(ends) |->
         Words(line, IF n = 1 THEN 1 ELSE ends[n - 1] + 1, ends[n] - 1)]

IsBlankCommand(words) == words = << >>

NotBlank(commands) ==
  LET kept == InOrder({ n \in DOMAIN commands : ~IsBlankCommand(commands[n]) })
  IN  [m \in DOMAIN kept |-> commands[kept[m]]]

=============================================================================
