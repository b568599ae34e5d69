--------------------------- MODULE StarterParser ----------------------------
(***************************************************************************)
(* parseInput of the third assignment's shell (shell.c): one iteration of  *)
(* its loop takes a word or ends a command.  The line is the buffer of     *)
(* main, which is filled with zeros behind the line.                       *)
(***************************************************************************)
EXTENDS LineSyntax

VARIABLES line,
          ix, w, commandStart,   \* the locals of parseInput; w is the words
          calls,                 \* the commands given to the interpreter, in
                                 \* order; a blank one is badcommand()
          returned

starterVars == <<line, ix, w, commandStart, calls, returned>>

InitParser ==
  /\ ix = 1
  /\ w = << >>
  /\ commandStart = 1
  /\ calls = << >>
  /\ returned = FALSE

InLoop == ~returned /\ CharAt(line, ix) # NUL

\* Mutant: the words of the command before are kept.
EndCommand_WordsKept ==
  LET end == SkipBlanks(line, ix)
  IN  /\ InLoop
      /\ CharAt(line, end) \in {Semicolon, Newline, NUL}
      /\ calls' = IF end = commandStart THEN Append(calls, << >>)
                  ELSE IF w # << >> THEN Append(calls, w) ELSE calls
      /\ ix' = end + 1
      /\ commandStart' = end + 1
      /\ UNCHANGED <<line, w, returned>>

\* Mutant: the character after the separator is skipped too.
EndCommand_SkipsOne ==
  LET end == SkipBlanks(line, ix)
  IN  /\ InLoop
      /\ CharAt(line, end) \in {Semicolon, Newline, NUL}
      /\ calls' = IF end = commandStart THEN Append(calls, << >>)
                  ELSE IF w # << >> THEN Append(calls, w) ELSE calls
      /\ w' = << >>
      /\ ix' = end + 2
      /\ commandStart' = end + 2
      /\ UNCHANGED <<line, returned>>

\* "Check for blank command": of the commands without words, only the empty
\* ones are reported; one of blanks is passed over.
EndCommand ==
  LET end == SkipBlanks(line, ix)
  IN  /\ InLoop
      /\ CharAt(line, end) \in {Semicolon, Newline, NUL}
      /\ calls' = IF end = commandStart THEN Append(calls, << >>)
                  ELSE IF w # << >> THEN Append(calls, w) ELSE calls
      /\ w' = << >>
      /\ ix' = end + 1
      /\ commandStart' = end + 1
      /\ UNCHANGED <<line, returned>>

TakeWord ==
  LET start == SkipBlanks(line, ix)
  IN  /\ InLoop
      /\ IsLetter(line, start)
      /\ w' = Append(w, WordAt(line, start))
      /\ ix' = WordEnd(line, start) + 1
      /\ UNCHANGED <<line, commandStart, calls, returned>>

\* "Handle the last command if it doesn't end with a semicolon".  The test
\* for a blank last command is never true: whenever the loop ends with no
\* words, commandStart is ix.
Return ==
  /\ ~returned /\ ~InLoop
  /\ calls' = IF w # << >> THEN Append(calls, w)
              ELSE IF commandStart < ix THEN Append(calls, << >>) ELSE calls
  /\ returned' = TRUE
  /\ UNCHANGED <<line, ix, w, commandStart>>

parseInput == EndCommand \/ TakeWord \/ Return

-----------------------------------------------------------------------------
ParserTypeOK ==
  /\ ix \in 1 .. Len(line) + 2
  /\ w \in Seq(Seq(Letters))
  /\ commandStart \in 1 .. ix
  /\ calls \in Seq(Seq(Seq(Letters)))
  /\ returned \in BOOLEAN

=============================================================================
