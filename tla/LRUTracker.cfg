CONSTANT NumFrames = 4
SPECIFICATION Spec
INVARIANTS TypeOK ListWellFormed FreesEachNodeOnce
PROPERTY RefinesRecencyOrder
\* The process exits when the tracker has been freed.
CHECK_DEADLOCK FALSE
