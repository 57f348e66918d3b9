CONSTANTS
  s1 = s1
  s2 = s2
  Finals = {s1}
  Asides = {}
  Modes = {"static"}
  Replays = TRUE
  FaultKinds = {"crash", "die"}
  MaxFaults = 2
SPECIFICATION Spec
INVARIANT NoInputForgotten
CHECK_DEADLOCK FALSE
