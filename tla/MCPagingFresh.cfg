CONSTANTS
  NumFrames = 6
  Scripts <- MCScripts
  Dirs <- MCDirs
  Home = "home"
  Text <- MCText
  Missing = {}
  Commands <- MCCommands
  MaxCommands = 1
  MAX_PAGE_TABLE_SIZE = 4
SPECIFICATION FairSpec
INVARIANTS ExecutesOwnCode NeverCrashes

\* The shell exits at the end of its input.
CHECK_DEADLOCK FALSE
