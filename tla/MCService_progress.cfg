\* A put and a read, with the fairness of the scheduler.
SPECIFICATION Spec
CONSTANTS
  Nil = Nil
  put = put
  del = del
  get = get
  other = other
  k1 = k1
  k2 = k2
  Request <- PutGet
  Foreign <- Others
  Key <- TwoKeys
  Op <- Ops
  KeyOf <- Keys
  Capacity = 1
  MaxLag = 1
  DiskMayFail = TRUE
  MaxTerm = 2
  MaxLog = 1
  MaxWritten = 1
  MaxRestarts = 1
\* The system stops after a shutdown.
CHECK_DEADLOCK FALSE
PROPERTIES CommittedReachesStore RequestsAnswered ShutdownEnds
