\* Three goroutines, three peers of which one has no address; connecting may fail.
SPECIFICATION Spec
CONSTANTS
  Nil = Nil
  Caller = {g1, g2, g3}
  Peer = {p1, p2, p3}
  Addrs = {p1, p2}
  Retries = 2
  MaxConns = 3
INVARIANTS OpenIsCached CallsOnOpen
PROPERTY SendsReturn
