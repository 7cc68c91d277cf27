\* One put, a node that stays Leader.
SPECIFICATION Safety
CONSTANTS
  Nil = Nil
  put = put
  del = del
  get = get
  other = other
  k1 = k1
  k2 = k2
  Request <- JustPut
  Foreign <- NoOthers
  Key <- TwoKeys
  Op <- Ops
  KeyOf <- Keys
  Capacity = 1
  MaxLag = 1
  DiskMayFail = FALSE
  MaxTerm = 1
  MaxLog = 0
  MaxWritten = 2
  MaxRestarts = 0
\* The system stops after a shutdown.
CHECK_DEADLOCK FALSE
PROPERTY AckedIsApplied
