SPECIFICATION Spec
CONSTANTS
  l1 = l1
  l2 = l2
  l3 = l3
  w1 = w1
  w2 = w2
  u1 = u1
  u2 = u2
  Lane = {l1, l2}
  Workspace = {w1, w2}
  User = {u1, u2}
  WorkspaceOf <- OneWorkspace
  KeyOf <- OneKey
  OwnerOf <- TwoUsers
  HostLane = {l1, l2}
  UserLimit <- LimitOne
  MaxContainers = 1
  MaxRetries = 1
  Task = {t1, recovery, restart}
  NoTask = none
  RecoveryTask = recovery
  RestartTask = restart
  NoInputTask = {}
  Token = {}
  Source = {}
  MaxHolds = 0
  OwesOutside = {}
  PipedLane = {l1}
  StoppedLane = {l1, l2}
  HeldLane = {}
  RestartedLane = {l1}
  RetiredLane = {l1}
  DeferredLane = {}
  FailingTask = {t1}
  MayDelete = FALSE
  MayTimeOut = TRUE
  MayShutDown = TRUE
INVARIANTS
  OneRunnerPerKey
  RetryIsExclusive
  QueuedLanesWait
PROPERTIES
  ShutdownStartsNothing
CHECK_DEADLOCK FALSE
