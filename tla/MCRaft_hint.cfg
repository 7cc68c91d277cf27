\* A leader that learns of a higher term.
SPECIFICATION StableSpec
CONSTANTS
  n1 = n1
  n2 = n2
  n3 = n3
  x = x
  Nil = Nil
  Server <- Three
  Command <- OneCommand
  Faulty <- NoServer
  MayElect <- InTurn
  MaxTerm = 2
  MaxLogLen <- NoEntry
  TickTerms = {}
  MaxRestarts = 0
\* Behaviours end where the bounds are used up.
CHECK_DEADLOCK FALSE
INVARIANTS
  FollowerNamesAnotherLeader
