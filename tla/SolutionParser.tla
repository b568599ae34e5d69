--------------------------- MODULE SolutionParser ---------------------------
(***************************************************************************)
(* parseInput of the reference shells (shell.c of the first and second     *)
(* assignments): the loop over the words of one command, the call of the   *)
(* interpreter, and the recursion on what follows the semicolon.           *)
(***************************************************************************)
EXTENDS LineSyntax

VARIABLES line,
          ix, w,       \* the locals of the innermost parseInput; ix counts
                       \* from the start of the line
          leftLoop,    \* the loop over the words has ended
          calls,       \* the commands given to the interpreter, in order
          returned

solutionVars == <<line, ix, w, leftLoop, calls, returned>>

InitParser ==
  /\ ix = 1
  /\ w = << >>
  /\ leftLoop = FALSE
  /\ calls = << >>
  /\ returned = FALSE

InLoop ==
  ~returned /\ ~leftLoop /\ CharAt(line, ix) \notin {Newline, NUL}

TakeWord ==
  LET start == SkipBlanks(line, ix)
  IN  /\ InLoop
      /\ IsLetter(line, start)
      /\ w' = Append(w, WordAt(line, start))
      /\ ix' = WordEnd(line, start) + 1
      /\ UNCHANGED <<line, leftLoop, calls, returned>>

\* A semicolon, or no word before the end of the line.
LeaveLoop ==
  LET end == SkipBlanks(line, ix)
  IN  /\ InLoop
      /\ ~IsLetter(line, end)
      /\ ix' = end
      /\ leftLoop' = TRUE
      /\ UNCHANGED <<line, w, calls, returned>>

\* Mutant: lines "that don't contain any instructions" are ignored.
CallInterpreter_BlanksIgnored ==
  /\ ~returned /\ ~InLoop
  /\ calls' = IF w = << >> THEN calls ELSE Append(calls, w)
  /\ IF CharAt(line, ix) = Semicolon
       THEN /\ ix' = ix + 1
            /\ w' = << >>
            /\ leftLoop' = FALSE
            /\ UNCHANGED returned
       ELSE /\ returned' = TRUE
            /\ UNCHANGED <<ix, w, leftLoop>>
  /\ UNCHANGED line

\* The call of interpreter, for blank commands too, and the recursive call.
CallInterpreter ==
  /\ ~returned /\ ~InLoop
  /\ calls' = Append(calls, w)
  /\ IF CharAt(line, ix) = Semicolon
       THEN /\ ix' = ix + 1
            /\ w' = << >>
            /\ leftLoop' = FALSE
            /\ UNCHANGED returned
       ELSE /\ returned' = TRUE
            /\ UNCHANGED <<ix, w, leftLoop>>
  /\ UNCHANGED line

parseInput == TakeWord \/ LeaveLoop \/ CallInterpreter

-----------------------------------------------------------------------------
ParserTypeOK ==
  /\ ix \in 1 .. Len(line) + 1
  /\ w \in Seq(Seq(Letters))
  /\ leftLoop \in BOOLEAN
  /\ calls \in Seq(Seq(Seq(Letters)))
  /\ returned \in BOOLEAN

=============================================================================
