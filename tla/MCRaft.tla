------------------------------- MODULE MCRaft -------------------------------
(* Instances of Raft for TLC. *)
EXTENDS Raft, TLC

CONSTANTS n1, n2, n3, x

Two      == {n1, n2}
Three    == {n1, n2, n3}
NoServer == {}
JustN2   == {n2}

\* Entries of different leaders differ in their term, so one command is
\* enough to tell any two entries apart that the code can tell apart.
OneCommand == {x}

\* Any node may start any term.
AnyElect == [t \in 1..MaxTerm |-> Server]

\* Only n1 and n3 start terms, in turn: the schedule of the Raft paper's
\* Figure 8, on three nodes.
InTurn == [t \in 1..MaxTerm |-> IF t % 2 = 1 THEN {n1} ELSE {n3}]

\* How long the log may grow: not at all, to one entry, or to a second one
\* from term 3 on.
NoEntry  == [t \in 1..MaxTerm |-> 0]
OneEntry == [t \in 1..MaxTerm |-> 1]
OneMore == [t \in 1..MaxTerm |-> IF t < 3 THEN 1 ELSE 2]

\* Heartbeats that would still be received.
LiveTicks(n) == {h \in ticks[n] : \E m \in Server : currentTerm[m] <= h.term}

\* What a later step of a run without restarts may read: not the WALs, which
\* only Restart reads, nor what a node sets anew before it reads it, the votes
\* unless it is Candidate and the indexes unless it leads or still beats.
Memory ==
  LET unless(dead, f, none) == [n \in Server |-> IF dead[n] THEN none ELSE f[n]]
      follows == [n \in Server |-> state[n] # "Leader"]
      silent  == [n \in Server |-> follows[n] /\ LiveTicks(n) = {}]
      zero    == [p \in Server |-> 0]
  IN  <<state, currentTerm, votedFor, logVars, msgs, diskVars,
        [n \in Server |-> LiveTicks(n)],
        unless([n \in Server |-> state[n] # "Candidate"], votesReceived, {}),
        unless(silent, nextIndex, zero),
        unless(follows, matchIndex, zero)>>

\* The nodes are interchangeable under AnyElect.
Symmetry == Permutations(Server)

=============================================================================
