\* Two records to a file; everything may go wrong.
SPECIFICATION Spec
CONSTANTS
  Nil = Nil
  Candidate = {c1, c2}
  MaxSize = 4
  Faults = {"header", "body", "short", "sync", "rotate", "truncate", "read"}
  MaxRecords = 4
  MaxTerm = 2
  MaxCrashes = 2
\* All calls and crashes are used up.
CHECK_DEADLOCK FALSE
INVARIANT AckedReadable
PROPERTIES
  ImplementsDurableState
  ReplayIsComplete
  ReadableStays
