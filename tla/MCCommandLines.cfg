CONSTANTS
  x = x
  y = y
  RR = RR
  exec = exec
  Hash = Hash
  MT = MT
  Blank = Blank
  Semicolon = Semicolon
  Newline = Newline
  NUL = NUL
  Policies = {RR}
  Letters <- MCLetters
  Lines <- MCLines
  MaxLength = 5
  MaxArguments = 4
SPECIFICATION Spec
INVARIANTS TypeOK ExecReadsItsArguments
PROPERTIES StarterExecutesChain SolutionExecutesChain LineIsExecuted
\* A line has been parsed when parseInput returns.
CHECK_DEADLOCK FALSE
