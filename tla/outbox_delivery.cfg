\* Two replicas and two messages; a tick is a minute.
SPECIFICATION FairSpec
CONSTANTS
  Worker = {w1, w2}
  Destination = {d1}
  Keys = 2
  None = None
  Lease = 2
  JobLimit = 1
  AttemptLimit = 2
  DelayCap = 1
  MaxAge = 1
  MaxLost = 1
INVARIANTS TypeOK ClaimsExclusive AtLeastOnce AttemptsBounded PatienceKept
PROPERTIES ImplementsDelivery Settles
