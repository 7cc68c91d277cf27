\* Nothing is torn; Replay may get an error when it reads a file.
\* AckedKept is violated.
SPECIFICATION Spec
CONSTANTS
  Nil = Nil
  Candidate = {c1, c2}
  MaxSize = 4
  Faults = {"read"}
  MaxRecords = 4
  MaxTerm = 2
  MaxCrashes = 2
CHECK_DEADLOCK FALSE
INVARIANT AckedKept
