CONSTANTS
  s1 = s1
  s2 = s2
  Finals = {s1}
  Asides = {s2}
  Modes = {"static", "proactive"}
  Replays = TRUE
  FaultKinds = {"crash", "lapse", "die", "outlive"}
  MaxFaults = 1
SPECIFICATION Spec
INVARIANTS TypeOK CompletedTurnIsSettled
PROPERTIES KeepsPromise ClosedTurnsStay
CHECK_DEADLOCK FALSE
