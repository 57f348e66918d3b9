\* A fire while a reset waits for the runner to stop.
SPECIFICATION Spec
CHECK_DEADLOCK FALSE
CONSTANTS
    None = None
    MaxTime = 2
    NextSlot <- MCNextSlot
    Interval = 1
    Kinds = {"cron"}
    EndTimes <- MCNoEnd
    Shapes <- MCBound
    MaxRows = 3
    MaxTries = 0
    Allowed = {"reset"}
    MaxOps = 1
    MaxFaults = 0
PROPERTIES ResetEndsItsRuns
