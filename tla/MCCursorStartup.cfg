CONSTANTS
  MaxMessages = 3
  Commands = {}
  Allowed = {"crash", "early"}
  MaxFaults = 1
SPECIFICATION Spec
INVARIANTS CommittedIsSettled
CHECK_DEADLOCK FALSE
