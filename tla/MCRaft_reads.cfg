\* A Leader commits an entry; another is elected.
SPECIFICATION StableSpec
CONSTANTS
  n1 = n1
  n2 = n2
  n3 = n3
  x = x
  Nil = Nil
  Server <- Three
  Command <- OneCommand
  Faulty <- NoServer
  MayElect <- InTurn
  MaxTerm = 2
  MaxLogLen <- OneEntry
  TickTerms = {}
  MaxRestarts = 0
\* Behaviours end where the bounds are used up.
CHECK_DEADLOCK FALSE
INVARIANTS
  LeaderServesLatest
