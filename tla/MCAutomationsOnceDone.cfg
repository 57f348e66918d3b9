\* A once whose time is moved while it runs.
SPECIFICATION Spec
CHECK_DEADLOCK FALSE
CONSTANTS
    None = None
    MaxTime = 3
    NextSlot <- MCNextSlot
    Interval = 1
    Kinds = {"once"}
    EndTimes <- MCNoEnd
    Shapes <- MCUnbound
    MaxRows = 3
    MaxTries = 0
    Allowed = {"update"}
    MaxOps = 1
    MaxFaults = 0
PROPERTIES OnceDoneHasRun
