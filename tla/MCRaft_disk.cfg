\* A disk that fails before a vote is granted.
SPECIFICATION Spec
CONSTANTS
  n1 = n1
  n2 = n2
  n3 = n3
  x = x
  Nil = Nil
  Server <- Two
  Command <- OneCommand
  Faulty <- JustN2
  MayElect <- AnyElect
  MaxTerm = 1
  MaxLogLen <- NoEntry
  TickTerms = {}
  MaxRestarts = 0
\* Behaviours end where the bounds are used up.
CHECK_DEADLOCK FALSE
INVARIANTS
  AnnouncedVotesPersisted
