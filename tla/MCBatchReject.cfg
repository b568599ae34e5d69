CONSTANTS
  Programs = {"long", "short", "tie", "quits", "absent"}
  Missing = {"absent"}
  Text <- MCText
  Inputs <- MCInputs
  MEM_SIZE = 10
  FirstPolicies = {"RR", "FOO"}
  LaterPolicies = {}
SPECIFICATION Spec
INVARIANT BackgroundHasQueue
\* The shell exits, crashes, or is at the end of its input.
CHECK_DEADLOCK FALSE
