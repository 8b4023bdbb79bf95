SPECIFICATION FairSpec
CONSTANTS
  Worker = {w1, w2}
  NoWorker = NoWorker
  Window = 1
  RunTimeout = 3
  Lifetime = 2
  LoginRetires = TRUE
  MaxGrant = 3
  MaxTime = 2
INVARIANTS TypeOK NoDoubleRenewal StoredGrantUnspent RotationInvariant
PROPERTY WaitersServed
