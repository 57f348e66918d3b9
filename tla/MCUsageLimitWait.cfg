CONSTANTS
  MaxInputs = 3
  Automation = {2}
  Resets = {1, 3}
  MaxWait = 2
  Grace = 1
  MaxWaits = 2
  MaxDelay = 1
  Allowed = {"die", "crash", "stop", "fail"}
  MaxFaults = 2
SPECIFICATION Spec
INVARIANTS TypeOK TimerFitsWait WaitingLaneRests BudgetHolds
PROPERTIES OnlyNewInputEndsWait InputsSettle
CHECK_DEADLOCK FALSE
