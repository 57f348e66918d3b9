\* A cron and a once, for a checked agent bound to a session and for a script: two of
\* manual run, edit, stop, reset, rebuild and deletion around a crash or a shutdown.
SPECIFICATION Spec
CHECK_DEADLOCK FALSE
CONSTANTS
    None = None
    MaxTime = 2
    NextSlot <- MCNextSlot
    Interval = 1
    Kinds = {"cron", "once"}
    EndTimes <- MCEnds
    Shapes <- MCShapes
    MaxRows = 2
    MaxTries = 0
    Allowed = {"run", "cancel", "pause", "resume", "complete", "update", "delete", "rebuild", "session", "withdraw", "reset", "crash", "stop"}
    MaxOps = 2
    MaxFaults = 1
INVARIANTS TypeOK OneLiveRun SlotsAreClaimedOnce ScheduleNeverStalls
PROPERTIES EndedRunsStayEnded
