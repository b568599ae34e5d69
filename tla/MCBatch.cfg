CONSTANTS
  Programs = {"long", "short", "tie", "quits", "absent"}
  Missing = {"absent"}
  Text <- MCText
  Inputs <- MCInputs
  MEM_SIZE = 10
  FirstPolicies = {"FCFS", "SJF", "RR", "RR30", "AGING", "FOO"}
  LaterPolicies = {"FCFS", "RR", "FOO"}
SPECIFICATION Spec
INVARIANTS
  TypeOK
  LineMemoryEmptyAtPrompt
  OwnsItsLines
  QueueByPriority
  ScriptsScheduledOnce
  LaterNeverAhead
PROPERTIES
  RunsToItsEnd
  PreemptedOnlyByShorter
  BatchNeverPrompts
  SchedulesEnd
\* The shell exits, crashes, or is at the end of its input.
CHECK_DEADLOCK FALSE
