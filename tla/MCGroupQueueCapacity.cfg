SPECIFICATION Spec
CONSTANTS
  l1 = l1
  l2 = l2
  l3 = l3
  w1 = w1
  w2 = w2
  u1 = u1
  u2 = u2
  Lane = {l1, l2, l3}
  Workspace = {w1, w2}
  User = {u1, u2}
  WorkspaceOf <- OwnWorkspaces
  KeyOf <- OwnKeys
  OwnerOf <- OwnUsers
  HostLane = {}
  UserLimit <- LimitOne
  MaxContainers = 2
  MaxRetries = 1
  Task = {t1, warm, recovery, restart}
  NoTask = none
  RecoveryTask = recovery
  RestartTask = restart
  NoInputTask = {warm}
  Token = {}
  Source = {}
  MaxHolds = 0
  OwesOutside = {l3}
  PipedLane = {l1}
  StoppedLane = {}
  HeldLane = {}
  RestartedLane = {l1}
  RetiredLane = {}
  DeferredLane = {}
  FailingTask = {}
  MayDelete = FALSE
  MayTimeOut = FALSE
  MayShutDown = FALSE
INVARIANTS
  CapacityRespected
  NoWorkStranded
PROPERTIES
  ClosingRunnerTakesNoQuery
CHECK_DEADLOCK FALSE
