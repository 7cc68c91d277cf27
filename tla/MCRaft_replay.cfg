\* A crash after a conflicting suffix was overwritten.
SPECIFICATION Spec
CONSTANTS
  n1 = n1
  n2 = n2
  n3 = n3
  x = x
  Nil = Nil
  Server <- Three
  Command <- OneCommand
  Faulty <- NoServer
  MayElect <- InTurn
  MaxTerm = 2
  MaxLogLen <- OneEntry
  TickTerms = {}
  MaxRestarts = 1
\* Behaviours end where the bounds are used up.
CHECK_DEADLOCK FALSE
PROPERTIES
  CommittedEntriesKept
