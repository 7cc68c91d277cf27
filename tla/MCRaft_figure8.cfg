\* Four leaderships in turn, with the heartbeats of the third; a disk may fail.
SPECIFICATION Spec
CONSTANTS
  n1 = n1
  n2 = n2
  n3 = n3
  x = x
  Nil = Nil
  Server <- Three
  Command <- OneCommand
  Faulty <- JustN2
  MayElect <- InTurn
  MaxTerm = 4
  MaxLogLen <- OneEntry
  TickTerms = {3}
  MaxRestarts = 0
\* Nobody restarts.
VIEW Memory
\* Behaviours end where the bounds are used up.
CHECK_DEADLOCK FALSE
INVARIANTS
  LeaderCompleteness
