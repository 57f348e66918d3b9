\* Every run ends and a once is served, whatever the schedule, through one crash or
\* shutdown and one manual run, lost session, rebuild or withdrawal.
SPECIFICATION FairSpec
CHECK_DEADLOCK FALSE
CONSTANTS
    None = None
    MaxTime = 2
    NextSlot <- MCNextSlot
    Interval = 1
    Kinds = {"cron", "interval", "once"}
    EndTimes <- MCNoEnd
    Shapes <- MCShapes
    MaxRows = 2
    MaxTries = 1
    Allowed = {"run", "session", "withdraw", "rebuild", "crash", "stop"}
    MaxOps = 1
    MaxFaults = 1
INVARIANTS LiveRunsAreServed
PROPERTIES RunsEnd OnceIsServed
