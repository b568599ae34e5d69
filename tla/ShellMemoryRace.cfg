CONSTANTS
  Names = {x, y, z}
  Values = {one, two}
  Threads = {worker1, worker2}
  MEM_SIZE = 2
  Sentinel = none
  NoneValue = noneValue
  Unset = unset
  Idle = idle
SPECIFICATION Spec
PROPERTY ClaimsOnlyFreeSpots
