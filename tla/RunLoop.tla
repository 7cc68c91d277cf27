------------------------------ MODULE RunLoop ------------------------------
(***************************************************************************)
(* The event loop of one node, run() in internal/raft/node.go, and the two *)
(* timers it is driven by.  The loop picks a timer's channel under the     *)
(* lock, releases the lock and blocks on that channel; meanwhile the vote  *)
(* goroutines and the RPC handlers change the state of the node, and stop, *)
(* reset or replace the timers.                                            *)
(*                                                                         *)
(* A timer is running or stopped.  A running one may expire at any time,   *)
(* and is then received by the loop in the same step: since Go 1.23        *)
(* (go.mod says 1.25) no tick is received once Stop or Reset has returned, *)
(* so a tick that nobody has received has no effect of its own.            *)
(*                                                                         *)
(* Terms are left out.  A vote reply counts only in the candidacy it was   *)
(* asked for, so votes restarts empty with each; that RPCs come from a     *)
(* higher term, or from the one Leader of this term, is in the guards.     *)
(***************************************************************************)
EXTENDS Integers, FiniteSets

CONSTANT Peers    \* the other nodes

ASSUME PeersAssumption == IsFiniteSet(Peers)

VARIABLES
  state,            \* "Follower", "Candidate" or "Leader"
  votesReceived,    \* the peers whose vote has been counted
  electionTimer,    \* "running" or "stopped"
  heartbeatTimer,   \* the current one, or "nil" before the first leadership
  pc,               \* where run() is
  timerCh,          \* the timer whose channel run() has chosen
  stopCh            \* "open", "closed", and "stopped" once Stop has returned

node == <<state, votesReceived>>
timers == <<electionTimer, heartbeatTimer>>
loop == <<pc, timerCh>>
vars == <<node, timers, loop, stopCh>>

\* NewNode and Start: the election timer runs before run() does.
Init ==
  /\ state = "Follower"
  /\ votesReceived = {}
  /\ electionTimer = "running"
  /\ heartbeatTimer = "nil"
  /\ pc = "top"
  /\ timerCh = "election"
  /\ stopCh = "open"

\* Stop, drain and Reset: whatever the timer was, it runs.
resetElectionTimerLocked == electionTimer' = "running"

-----------------------------------------------------------------------------
(* run() *)

\* Mutant: the heartbeat timer is watched whenever there is one.
ChooseTimerByExistence ==
  /\ pc = "top"
  /\ stopCh = "open"
  /\ timerCh' = IF heartbeatTimer = "nil" THEN "election" ELSE "heartbeat"
  /\ pc' = "wait"
  /\ UNCHANGED <<node, timers, stopCh>>

\* The top of the loop: the state decides which channel to wait for.  It is
\* never nil: Start makes the election timer, becomeLeaderLocked the other.
ChooseTimer ==
  /\ pc = "top"
  /\ stopCh = "open"
  /\ timerCh' = IF state = "Leader" THEN "heartbeat" ELSE "election"
  /\ pc' = "wait"
  /\ UNCHANGED <<node, timers, stopCh>>

\* The chosen timer expires and the blocked loop receives the tick.
Tick ==
  /\ pc = "wait"
  /\ \/ /\ timerCh = "election"
        /\ electionTimer = "running"
        /\ electionTimer' = "stopped"
        /\ UNCHANGED heartbeatTimer
     \/ /\ timerCh = "heartbeat"
        /\ heartbeatTimer = "running"
        /\ heartbeatTimer' = "stopped"
        /\ UNCHANGED electionTimer
  /\ pc' = "woken"
  /\ UNCHANGED <<node, timerCh, stopCh>>

\* The loop looks at the state again, under the lock, and releases it.
LookAtState ==
  /\ pc = "woken"
  /\ pc' = IF state = "Leader" THEN "beat" ELSE "elect"
  /\ UNCHANGED <<node, timers, timerCh, stopCh>>

\* Mutant: the election timer is not reset.
StartElectionOnce ==
  /\ pc = "elect"
  /\ state' = "Candidate"
  /\ votesReceived' = {}
  /\ pc' = "top"
  /\ UNCHANGED <<timers, timerCh, stopCh>>

\* startElection, whatever the state has become since.
StartElection ==
  /\ pc = "elect"
  /\ state' = "Candidate"
  /\ votesReceived' = {}
  /\ resetElectionTimerLocked
  /\ pc' = "top"
  /\ UNCHANGED <<heartbeatTimer, timerCh, stopCh>>

\* sendHeartbeats: one goroutine per peer if the node still leads, nothing
\* otherwise (module Raft has the messages).
SendHeartbeats ==
  /\ pc = "beat"
  /\ pc' = "rearm"
  /\ UNCHANGED <<node, timers, timerCh, stopCh>>

\* Mutant: the heartbeat timer is good for one tick.
RearmNot ==
  /\ pc = "rearm"
  /\ pc' = "top"
  /\ UNCHANGED <<node, timers, timerCh, stopCh>>

\* heartbeatTimer.Reset, whatever the state has become since.
Rearm ==
  /\ pc = "rearm"
  /\ heartbeatTimer' = "running"
  /\ pc' = "top"
  /\ UNCHANGED <<node, electionTimer, timerCh, stopCh>>

\* Mutant: stopCh is looked at between two ticks only.
EndLoopAtTop ==
  /\ stopCh # "open"
  /\ pc = "top"
  /\ pc' = "done"
  /\ UNCHANGED <<node, timers, timerCh, stopCh>>

\* Either select of the loop sees that stopCh is closed.
EndLoop ==
  /\ stopCh # "open"
  /\ pc \in {"top", "wait"}
  /\ pc' = "done"
  /\ UNCHANGED <<node, timers, timerCh, stopCh>>

Run ==
  \/ ChooseTimer \/ LookAtState \/ StartElection
  \/ SendHeartbeats \/ Rearm \/ EndLoop

-----------------------------------------------------------------------------
(* The vote goroutines and the RPC handlers *)

\* len(n.peers) + 1 nodes; the candidate's own vote is not in votesReceived.
HasMajority(voters) ==
  Cardinality(voters) + 1 >= (Cardinality(Peers) + 1) \div 2 + 1

\* A vote goroutine gets a vote: votes are compared with the majority only
\* here, and becomeLeaderLocked stops the election timer and makes a new
\* heartbeat timer.
CountVote(p) ==
  /\ state = "Candidate"
  /\ p \notin votesReceived
  /\ votesReceived' = votesReceived \cup {p}
  /\ IF HasMajority(votesReceived')
     THEN /\ state' = "Leader"
          /\ electionTimer' = "stopped"
          /\ heartbeatTimer' = "running"
     ELSE UNCHANGED <<state, timers>>
  /\ UNCHANGED <<loop, stopCh>>

\* Mutant: the election timer is left as it is.
BecomeFollowerSilently ==
  /\ state' = "Follower"
  /\ votesReceived' = {}
  /\ heartbeatTimer' = IF state = "Leader" THEN "stopped" ELSE heartbeatTimer
  /\ UNCHANGED <<electionTimer, loop, stopCh>>

\* becomeFollowerLocked: a request or a reply carries a higher term.
BecomeFollower ==
  /\ state' = "Follower"
  /\ votesReceived' = {}
  /\ heartbeatTimer' = IF state = "Leader" THEN "stopped" ELSE heartbeatTimer
  /\ resetElectionTimerLocked
  /\ UNCHANGED <<loop, stopCh>>

\* HandleAppendEntries in this term.  A Leader gets none: it is the only one.
HearFromLeader ==
  /\ state # "Leader"
  /\ state' = "Follower"
  /\ heartbeatTimer' = IF state = "Candidate" /\ heartbeatTimer # "nil"
                       THEN "stopped" ELSE heartbeatTimer
  /\ resetElectionTimerLocked
  /\ UNCHANGED <<votesReceived, loop, stopCh>>

\* HandleRequestVote grants a vote in this term.
GrantVote ==
  /\ state = "Follower"
  /\ resetElectionTimerLocked
  /\ UNCHANGED <<node, heartbeatTimer, loop, stopCh>>

\* Stop closes stopCh, and then stops the timers under the lock.
Stop ==
  \/ /\ stopCh = "open"
     /\ stopCh' = "closed"
     /\ UNCHANGED <<node, timers, loop>>
  \/ /\ stopCh = "closed"
     /\ stopCh' = "stopped"
     /\ electionTimer' = "stopped"
     /\ heartbeatTimer' = IF heartbeatTimer = "nil" THEN "nil" ELSE "stopped"
     /\ UNCHANGED <<node, loop>>

Handlers ==
  \/ \E p \in Peers : CountVote(p)
  \/ BecomeFollower \/ HearFromLeader \/ GrantVote

Next == Run \/ Tick \/ Handlers \/ Stop

\* The loop's goroutine is scheduled, and a running timer that the loop waits
\* for expires.  Nothing is assumed of the other nodes or of Stop.
Fairness == WF_vars(Run) /\ WF_vars(Tick)

Spec == Init /\ [][Next]_vars /\ Fairness

\* The best a cluster can do: every vote that is asked for arrives, and no
\* other node interferes.
Undisturbed ==
  /\ Init
  /\ [][Run \/ Tick \/ \E p \in Peers : CountVote(p)]_vars
  /\ Fairness
  /\ \A p \in Peers : WF_vars(CountVote(p))

-----------------------------------------------------------------------------
(* Properties *)

TypeOK ==
  /\ state \in {"Follower", "Candidate", "Leader"}
  /\ votesReceived \subseteq Peers
  /\ electionTimer \in {"running", "stopped"}
  /\ heartbeatTimer \in {"nil", "running", "stopped"}
  /\ pc \in {"top", "wait", "woken", "elect", "beat", "rearm", "done"}
  /\ timerCh \in {"election", "heartbeat"}
  /\ stopCh \in {"open", "closed", "stopped"}

\* Until the node is stopped, its election timer runs whenever it is not a
\* Leader, except while run() is on its way from a tick to startElection.
\* Every path of becomeFollowerLocked, HandleAppendEntries and startElection
\* has to reset it, after becomeLeaderLocked has stopped it.
ElectionTimerRuns ==
  stopCh # "stopped" /\ state # "Leader" =>
    electionTimer = "running" \/ pc \in {"woken", "elect"}

\* run() never waits for the heartbeat timer of a leadership while the node
\* is a Candidate: becomeLeaderLocked, which replaces that timer, cannot
\* leave run() waiting on a channel that nobody holds any more.
CandidateWatchesElection ==
  state = "Candidate" /\ pc = "wait" => timerCh = "election"

\* A Candidate that is not answered stands again: startElection rearms the
\* timer and run() goes back to waiting for it.
CandidateRetries ==
  state = "Candidate" ~> (pc = "elect" \/ state # "Candidate" \/ pc = "done")

\* A Leader whose run() has found it leading sends heartbeats again and
\* again for as long as it leads: run() rearms the timer after each round.
LeaderBeats ==
  (state = "Leader" /\ timerCh = "heartbeat")
    ~> (pc = "beat" \/ state # "Leader" \/ pc = "done")

\* Stop ends the loop wherever it is, also when the timer it waits for has
\* been stopped for good.
StopEndsRun == stopCh # "open" ~> pc = "done"

\* run() serves the role the node has: a Leader sends heartbeats, the
\* keepalive of ARCHITECTURE.md:33-39 that replicateLog counts on, and a
\* Follower that hears from nobody stands for election, since "the election
\* timer is the heartbeat of the follower's trust" (README.md:42).
LoopServesRole ==
  /\ state = "Leader" ~> (pc = "beat" \/ state # "Leader" \/ pc = "done")
  /\ state = "Follower" ~> (pc = "elect" \/ state # "Follower" \/ pc = "done")

\* README.md:169: a single node can be run for testing; it has to lead.
NodeLeads == <>(state = "Leader")
=============================================================================
