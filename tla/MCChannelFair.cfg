CONSTANTS
  s1 = s1
  s2 = s2
  Finals = {s1}
  Asides = {}
  Modes = {"static", "card", "proactive"}
  Replays = TRUE
  FaultKinds = {"crash", "lapse", "die", "stop", "card", "wait"}
  MaxFaults = 2
SPECIFICATION FairSpec
INVARIANT AnsweredOrTold
PROPERTY InputSettles
CHECK_DEADLOCK FALSE
