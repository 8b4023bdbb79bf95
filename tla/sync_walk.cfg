SPECIFICATION Spec
CONSTANTS
  Worker = {w1}
  PR = {p1}
  AccountCreated = 1
  AutoSyncInterval = 1
  FailureCooldown = 2
  RunningCooldown = 3
  RetryDelay = 1
  Reread = 1
  IndexLag = 1
  ClockSkew = 0
  MaxTime = 4
  NoWorker = NoWorker
CONSTRAINT Quiet
INVARIANTS TypeOK NothingLost WalkInvariant
PROPERTY CheckpointMonotone
