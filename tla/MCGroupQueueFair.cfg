SPECIFICATION FairSpec
CONSTANTS
  l1 = l1
  l2 = l2
  l3 = l3
  w1 = w1
  w2 = w2
  u1 = u1
  u2 = u2
  Lane = {l1, l2}
  Workspace = {w1, w2}
  User = {u1, u2}
  WorkspaceOf <- TwoWorkspaces
  KeyOf <- TwoKeys
  OwnerOf <- TwoUsers
  HostLane = {}
  UserLimit <- LimitOne
  MaxContainers = 1
  MaxRetries = 1
  Task = {t1, recovery, restart}
  NoTask = none
  RecoveryTask = recovery
  RestartTask = restart
  NoInputTask = {}
  Token = {k1}
  Source = {s1}
  MaxHolds = 1
  OwesOutside = {}
  PipedLane = {l1}
  StoppedLane = {}
  HeldLane = {l1}
  RestartedLane = {l1}
  RetiredLane = {}
  DeferredLane = {l1}
  FailingTask = {t1}
  MayDelete = FALSE
  MayTimeOut = FALSE
  MayShutDown = FALSE
  MaxRequests = 4
INVARIANTS
  NoWorkStranded
PROPERTIES
  QueuedWorkEventuallyRuns
  DeliveriesSettle
  QueuedTaskLeavesByStarting
CHECK_DEADLOCK FALSE
