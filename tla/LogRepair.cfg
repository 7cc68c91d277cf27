\* A cluster of four; all pairs of old logs of up to three entries of two
\* terms, one request under way and one answer late.
SPECIFICATION Spec
CONSTANTS
  Self = s
  Peer = p
  Others = {q, r}
  MaxTerm = 2
  MaxLen = 3
  MaxNew = 3
  MaxDelayed = 1
  MaxStale = 1
INVARIANTS
  NextInLog
  RepairIsExact
  CommitIsHighest
PROPERTIES
  RefusalBacksUp
  SharedStays
  EventuallyRepaired
