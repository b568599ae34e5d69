CONSTANTS
  NumFrames = 2
  Scripts = {"prog"}
  Dirs = {"home"}
  Home = "home"
  Text <- MCText
  Missing = {}
  Commands <- MCCommands
  MaxCommands = 2
  MAX_PAGE_TABLE_SIZE = 3
SPECIFICATION Spec
INVARIANT ExecutesOwnCode
\* The shell exits at the end of its input.
CHECK_DEADLOCK FALSE
