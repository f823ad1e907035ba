\* Two slots and three tasks, so that a slot is reused while the other one runs.
CONSTANTS
    NumSlots = 2
    MaxSpawns = 3
    MaxOut = 2
    PtyCap = 2
    ReadMax = 1
SPECIFICATION FairSpec
INVARIANTS
    TableConsistent
    VerdictIsTrue
PROPERTIES
    NeverEvictsALiveTask
    EveryCallReturns
\* The harness is gone after belya_harness_free.
CHECK_DEADLOCK FALSE
