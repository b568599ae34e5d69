CONSTANTS
  Workers = {w1, w2}
  Lengths <- MCPrograms
  MaxExecs = 2
SPECIFICATION PoolSpec
INVARIANTS TypeOK OneExecutor QueueIntact UnfinishedKept CountExactWithoutRequeue
PROPERTY FirstExecCompletes
\* The process exits, or crashes; workers may also sleep for ever.
CHECK_DEADLOCK FALSE
