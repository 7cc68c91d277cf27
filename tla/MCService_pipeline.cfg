\* A put and a delete, a Leader elsewhere and a crash; a channel for one entry.
SPECIFICATION Safety
CONSTANTS
  Nil = Nil
  put = put
  del = del
  get = get
  other = other
  k1 = k1
  k2 = k2
  Request <- Writes
  Foreign <- Others
  Key <- TwoKeys
  Op <- Ops
  KeyOf <- Keys
  Capacity = 1
  MaxLag = 0
  DiskMayFail = FALSE
  MaxTerm = 3
  MaxLog = 1
  MaxWritten = 2
  MaxRestarts = 1
\* The system stops after a shutdown.
CHECK_DEADLOCK FALSE
INVARIANTS PipelineInOrder StoreFollowsAgreed AckedIsAgreed ReadyIsNearlyCurrent
