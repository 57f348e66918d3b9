\* A rebuild while a once runs.
SPECIFICATION Spec
CHECK_DEADLOCK FALSE
CONSTANTS
    None = None
    MaxTime = 2
    NextSlot <- MCNextSlot
    Interval = 1
    Kinds = {"once"}
    EndTimes <- MCNoEnd
    Shapes <- MCUnbound
    MaxRows = 3
    MaxTries = 0
    Allowed = {"rebuild"}
    MaxOps = 1
    MaxFaults = 0
PROPERTIES RebuildResumes
