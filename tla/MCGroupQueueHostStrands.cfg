SPECIFICATION Spec
CONSTANTS
  l1 = l1
  l2 = l2
  l3 = l3
  w1 = w1
  w2 = w2
  u1 = u1
  u2 = u2
  Lane = {l1, l2, l3}
  Workspace = {w1, w2}
  User = {u1, u2}
  WorkspaceOf <- OwnWorkspaces
  KeyOf <- OwnKeys
  OwnerOf <- OwnUsers
  HostLane = {l2}
  UserLimit <- LimitOne
  MaxContainers = 1
  MaxRetries = 1
  Task = {t1, recovery, restart}
  NoTask = none
  RecoveryTask = recovery
  RestartTask = restart
  NoInputTask = {}
  Token = {}
  Source = {}
  MaxHolds = 0
  OwesOutside = {}
  PipedLane = {}
  StoppedLane = {}
  HeldLane = {}
  RestartedLane = {}
  RetiredLane = {}
  DeferredLane = {}
  FailingTask = {}
  MayDelete = FALSE
  MayTimeOut = FALSE
  MayShutDown = FALSE
INVARIANTS
  NoWorkStranded
CHECK_DEADLOCK FALSE
