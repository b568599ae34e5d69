CONSTANTS
  Names <- MCNames
  LinesOf <- MCLinesOf
  Terminated <- MCTerminated
  Plain = {"a", "b", "c", "d", "e"}
  MaxOpen = 3
  InputLines <- MCInputLines
  MaxInput = 3
SPECIFICATION Spec
INVARIANTS TypeOK ExecutesInTextOrder
PROPERTIES PromptReturns RefinesTextExpansion
\* quit ends the shell, and MaxInput the input of the model.
CHECK_DEADLOCK FALSE
