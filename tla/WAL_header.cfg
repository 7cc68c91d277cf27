\* A crash may leave less than a header; nothing else goes wrong.
\* AckedKept is violated.
SPECIFICATION Spec
CONSTANTS
  Nil = Nil
  Candidate = {c1, c2}
  MaxSize = 4
  Faults = {"header"}
  MaxRecords = 4
  MaxTerm = 2
  MaxCrashes = 2
CHECK_DEADLOCK FALSE
INVARIANT AckedKept
