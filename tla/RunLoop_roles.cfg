\* A node changes its role while run() waits for the timer of the other one.
SPECIFICATION Spec
CONSTANT Peers = {p1, p2}
PROPERTY LoopServesRole
