SPECIFICATION Spec
CONSTANTS
  l1 = l1
  l2 = l2
  l3 = l3
  w1 = w1
  w2 = w2
  u1 = u1
  u2 = u2
  Lane = {l1, l2}
  Workspace = {w1, w2}
  User = {u1, u2}
  WorkspaceOf <- TwoWorkspaces
  KeyOf <- TwoKeys
  OwnerOf <- TwoUsers
  HostLane = {}
  UserLimit <- LimitOne
  MaxContainers = 1
  MaxRetries = 1
  Task = {t1, recovery, restart}
  NoTask = none
  RecoveryTask = recovery
  RestartTask = restart
  NoInputTask = {}
  Token = {k1, k2}
  Source = {}
  MaxHolds = 1
  OwesOutside = {}
  PipedLane = {l1}
  StoppedLane = {}
  HeldLane = {l1}
  RestartedLane = {}
  RetiredLane = {}
  DeferredLane = {}
  FailingTask = {t1}
  MayDelete = TRUE
  MayTimeOut = TRUE
  MayShutDown = FALSE
INVARIANTS
  TypeOK
  NoDeliveryStranded
  DeletedWorkspaceIsDead
PROPERTIES
  GatedLaneStartsNothing
  ServesAsPool
CHECK_DEADLOCK FALSE
