\* A recurring fire that came due while the service was down.
SPECIFICATION Spec
CHECK_DEADLOCK FALSE
CONSTANTS
    None = None
    MaxTime = 2
    NextSlot <- MCNextSlot
    Interval = 1
    Kinds = {"cron"}
    EndTimes <- MCNoEnd
    Shapes <- MCUnbound
    MaxRows = 3
    MaxTries = 0
    Allowed = {"crash"}
    MaxOps = 0
    MaxFaults = 1
PROPERTIES DowntimeMissIsRecorded
