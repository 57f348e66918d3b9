CONSTANTS
  MaxMessages = 4
  Commands = {2, 3}
  Allowed = {"fail", "stop", "crash"}
  MaxFaults = 3
SPECIFICATION Spec
INVARIANTS TypeOK CommittedIsSettled NothingForgotten
PROPERTIES MessagesSettle
CHECK_DEADLOCK FALSE
