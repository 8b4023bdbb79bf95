SPECIFICATION FairSpec
CONSTANTS
  Worker = {w1, w2}
  PR = {}
  AccountCreated = 1
  AutoSyncInterval = 0
  FailureCooldown = 0
  RunningCooldown = 0
  RetryDelay = 0
  Reread = 0
  IndexLag = 0
  ClockSkew = 0
  MaxTime = 2
  NoWorker = NoWorker
PROPERTY FullSyncCompletes
