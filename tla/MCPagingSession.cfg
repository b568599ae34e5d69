CONSTANTS
  NumFrames = 4
  Scripts <- MCScripts
  Dirs <- MCDirs
  Home = "home"
  Text <- MCText
  Missing <- MCMissing
  Commands <- MCCommands
  MaxCommands = 3
  MAX_PAGE_TABLE_SIZE = 3
SPECIFICATION FairSpec
INVARIANTS TypeOK ResidentPageIsMapped FaultsAtPageStart LiveProcessesDistinct
PROPERTIES ProcessesRunOn SchedulerFinishes
\* The shell exits at the end of its input.
CHECK_DEADLOCK FALSE
