\* Three leaderships in turn, logs of two entries, and the heartbeats of the
\* first, sent at any later time too.
SPECIFICATION StableSpec
CONSTANTS
  n1 = n1
  n2 = n2
  n3 = n3
  x = x
  Nil = Nil
  Server <- Three
  Command <- OneCommand
  Faulty <- NoServer
  MayElect <- InTurn
  MaxTerm = 3
  MaxLogLen <- OneMore
  TickTerms = {1}
  MaxRestarts = 0
\* Nobody restarts.
VIEW Memory
\* Behaviours end where the bounds are used up.
CHECK_DEADLOCK FALSE
INVARIANTS
  TypeOK
  LogMatching
  MatchIndexSound
  CommittedOnMajority
  TermsStartAlike
PROPERTIES
  ImplementsAgreedLog
