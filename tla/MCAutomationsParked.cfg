\* A run whose input waits for a usage-limit reset.
SPECIFICATION Spec
CHECK_DEADLOCK FALSE
CONSTANTS
    None = None
    MaxTime = 2
    NextSlot <- MCNextSlot
    Interval = 1
    Kinds = {"once"}
    EndTimes <- MCNoEnd
    Shapes <- MCUnbound
    MaxRows = 3
    MaxTries = 1
    Allowed = {}
    MaxOps = 0
    MaxFaults = 0
INVARIANTS ParkedRunStaysQueued
