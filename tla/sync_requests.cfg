SPECIFICATION FairSpec
CONSTANTS
  Worker = {w1, w2}
  PR = {}
  AccountCreated = 1
  AutoSyncInterval = 1
  FailureCooldown = 2
  RunningCooldown = 3
  RetryDelay = 1
  Reread = 0
  IndexLag = 0
  ClockSkew = 0
  MaxTime = 3
  NoWorker = NoWorker
INVARIANTS NoRequestWiped LiveRunReported
PROPERTY RequestServed
