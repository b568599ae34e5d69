CONSTANTS
  Workers = {w1, w2}
  Lengths <- MCPrograms
  MaxExecs = 1
SPECIFICATION FairSpec
PROPERTY QuitTerminates
\* The process exits, or crashes; workers may also sleep for ever.
CHECK_DEADLOCK FALSE
