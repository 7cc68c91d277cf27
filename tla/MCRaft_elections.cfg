\* Elections in which any node may stand in any term and nodes crash.
SPECIFICATION Spec
CONSTANTS
  n1 = n1
  n2 = n2
  n3 = n3
  x = x
  Nil = Nil
  Server <- Three
  Command <- OneCommand
  Faulty <- NoServer
  MayElect <- AnyElect
  MaxTerm = 3
  MaxLogLen <- OneEntry
  TickTerms = {}
  MaxRestarts = 1
SYMMETRY Symmetry
\* Behaviours end where the bounds are used up.
CHECK_DEADLOCK FALSE
INVARIANTS
  ElectionSafety
  AnnouncedVotesPersisted
PROPERTIES
  TermsAndVotesStand
