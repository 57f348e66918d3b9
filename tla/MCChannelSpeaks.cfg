CONSTANTS
  s1 = s1
  s2 = s2
  Finals = {s1}
  Asides = {s2}
  Modes = {"static"}
  Replays = FALSE
  FaultKinds = {"outlive"}
  MaxFaults = 1
SPECIFICATION Spec
INVARIANT OneAttemptSpeaks
CHECK_DEADLOCK FALSE
