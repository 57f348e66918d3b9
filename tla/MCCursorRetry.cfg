CONSTANTS
  MaxMessages = 3
  Commands = {2}
  Allowed = {"fail", "cross"}
  MaxFaults = 1
SPECIFICATION Spec
INVARIANTS NothingForgotten
CHECK_DEADLOCK FALSE
