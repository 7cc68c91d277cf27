----------------------------- MODULE NodeProofs -----------------------------
(***************************************************************************)
(* Two parts of a node around its Raft state: the connections it sends on  *)
(* (module Transport) and the goroutine that waits for its timers (module  *)
(* RunLoop).                                                               *)
(*                                                                         *)
(* For any number of goroutines, peers and attempts: the open connections  *)
(* are the cached ones, and RPCs are made on open ones.  Neither is        *)
(* inductive.  It has to be known that the goroutine that is connecting    *)
(* holds the lock and that its peer has no connection, which is what the   *)
(* double check under the lock establishes, and that a goroutine never     *)
(* holds another connection than the cached one before Close.              *)
(*                                                                         *)
(* For a cluster of any size: the two safety properties of RunLoop, which  *)
(* together with its TypeOK are inductive as they stand.                   *)
(***************************************************************************)
EXTENDS Transport, TLAPS

\* Most leaves are first-order; the ones that need arithmetic cite SMT.
USE ZenonT(30)

-----------------------------------------------------------------------------
(* The connections *)

Inv ==
  /\ TypeOK
  /\ OpenIsCached
  /\ \A g \in Caller :
       /\ pc[g] # "idle" => target[g] \in Peer
       /\ pc[g] = "dial" => mu = g /\ conns[target[g]] = 0
       /\ pc[g] = "call" /\ ~closed => conn[g] # 0 /\ conns[target[g]] = conn[g]

\* The cache is empty at first.
LEMMA InitInv == Init => Inv
  <1> SUFFICES ASSUME Init PROVE Inv
    OBVIOUS
  <1>1. TypeOK
    BY DEF Init, TypeOK
  <1>2. {q \in Peer : conns[q] # 0} = {} /\ open = {}
    BY DEF Init
  <1>3. OpenIsCached
    BY <1>2 DEF OpenIsCached
  <1>4. \A g \in Caller : pc[g] = "idle"
    BY DEF Init
  <1> QED
    BY <1>1, <1>3, <1>4 DEF Inv

\* Every step keeps the invariant.
LEMMA NextInv == Inv /\ [Next]_vars => Inv'
  <1> SUFFICES ASSUME Inv, [Next]_vars PROVE Inv'
    OBVIOUS
  <1> USE TransportAssumption DEF Inv, TypeOK
  <1>1. ASSUME NEW g \in Caller, NEW p \in Peer, Send(g, p)
        PROVE  Inv'
    BY <1>1, SMT DEF Send, Goto, OpenIsCached
  <1>2. ASSUME NEW g \in Caller, LookUp(g)
        PROVE  Inv'
    BY <1>2, SMT DEF LookUp, Got, Goto, OpenIsCached
  <1>3. ASSUME NEW g \in Caller, Lock(g)
        PROVE  Inv'
    BY <1>3, SMT DEF Lock, Got, Goto, OpenIsCached
  <1>4. ASSUME NEW g \in Caller, Connect(g)
        PROVE  Inv'
    <2> DEFINE p == target[g]  c == dialled + 1
    <2>1. /\ pc[g] = "dial" /\ mu = g /\ p \in Peer /\ conns[p] = 0
          /\ c \in Nat \ {0} /\ dialled' = c
          /\ conns' = [conns EXCEPT ![p] = c]
          /\ open' = open \cup {[peer |-> p, id |-> c]}
          /\ mu' = Nil /\ closed' = closed /\ target' = target
          /\ conn' = [conn EXCEPT ![g] = c]
          /\ attempt' = [attempt EXCEPT ![g] = 0]
          /\ pc' = [pc EXCEPT ![g] = "call"]
      BY <1>4, SMT DEF Connect, Got, Goto
    <2>2. \A h \in Caller : pc[h] = "dial" => h = g
      BY <2>1
    <2>3. \A h \in Caller : pc[h] = "call" /\ ~closed => target[h] # p
      BY <2>1
    <2> HIDE DEF c
    <2>4. TypeOK'
      BY <2>1, SMT
    <2>5. OpenIsCached'
      <3>1. \A q \in Peer : conns'[q] = IF q = p THEN c ELSE conns[q]
        BY <2>1
      <3>2. open = {[peer |-> q, id |-> conns[q]] : q \in {q \in Peer : conns[q] # 0}}
        BY DEF OpenIsCached
      <3> QED
        BY <2>1, <3>1, <3>2, SMT DEF OpenIsCached
    <2>6. ASSUME NEW h \in Caller
          PROVE  /\ pc'[h] # "idle" => target'[h] \in Peer
                 /\ pc'[h] = "dial" => mu' = h /\ conns'[target'[h]] = 0
                 /\ pc'[h] = "call" /\ ~closed'
                      => conn'[h] # 0 /\ conns'[target'[h]] = conn'[h]
      BY <2>1, <2>2, <2>3
    <2> QED
      BY <2>4, <2>5, <2>6
  <1>5. ASSUME NEW g \in Caller, ConnectFails(g)
        PROVE  Inv'
    BY <1>5, SMT DEF ConnectFails, Got, Goto, OpenIsCached
  <1>6. ASSUME NEW g \in Caller, Return(g)
        PROVE  Inv'
    BY <1>6, SMT DEF Return, Goto, OpenIsCached
  <1>7. CASE Close
    <2>1. open' = {}
      BY <1>7, SMT DEF Close, OpenIsCached
    <2>2. \A g \in Caller : pc[g] # "dial"
      BY <1>7 DEF Close
    <2> QED
      BY <1>7, <2>1, <2>2 DEF Close, OpenIsCached
  <1>8. CASE UNCHANGED vars
    BY <1>8, SMT DEF vars, OpenIsCached
  <1> QED
    BY <1>1, <1>2, <1>3, <1>4, <1>5, <1>6, <1>7, <1>8 DEF Next, getConn

\* getConn makes one connection per peer, however many goroutines race for
\* it, and Close finds every open one.
THEOREM CacheIsExact == Spec => []OpenIsCached
  <1>1. Inv => OpenIsCached
    BY DEF Inv
  <1> QED
    BY <1>1, InitInv, NextInv, PTL DEF Spec

\* Until Close no RPC is made on a closed connection.
THEOREM CallsAreOnOpen == Spec => []CallsOnOpen
  <1>1. Inv => CallsOnOpen
    BY DEF Inv, TypeOK, OpenIsCached, CallsOnOpen
  <1> QED
    BY <1>1, InitInv, NextInv, PTL DEF Spec

-----------------------------------------------------------------------------
(* The run loop *)

CONSTANT Peers
VARIABLES state, votesReceived, electionTimer, heartbeatTimer, runAt, timerCh, stopCh

Loop == INSTANCE RunLoop WITH pc <- runAt

LoopInv == Loop!TypeOK /\ Loop!ElectionTimerRuns /\ Loop!CandidateWatchesElection

\* Start has the election timer running before run() first looks at it.
LEMMA InitLoop == Loop!Init => LoopInv
  BY DEF Loop!Init, LoopInv, Loop!TypeOK, Loop!ElectionTimerRuns, Loop!CandidateWatchesElection

\* Every step of run(), of a timer, of a handler and of Stop keeps it.
LEMMA NextLoop == LoopInv /\ [Loop!Next]_Loop!vars => LoopInv'
  <1> SUFFICES ASSUME LoopInv, [Loop!Next]_Loop!vars PROVE LoopInv'
    OBVIOUS
  <1> USE DEF LoopInv, Loop!TypeOK, Loop!ElectionTimerRuns, Loop!CandidateWatchesElection,
              Loop!node, Loop!timers, Loop!loop
  <1>1. CASE Loop!ChooseTimer
    BY <1>1 DEF Loop!ChooseTimer
  <1>2. CASE Loop!Tick
    BY <1>2 DEF Loop!Tick
  <1>3. CASE Loop!LookAtState
    BY <1>3 DEF Loop!LookAtState
  <1>4. CASE Loop!StartElection
    BY <1>4 DEF Loop!StartElection, Loop!resetElectionTimerLocked
  <1>5. CASE Loop!SendHeartbeats
    BY <1>5 DEF Loop!SendHeartbeats
  <1>6. CASE Loop!Rearm
    BY <1>6 DEF Loop!Rearm
  <1>7. CASE Loop!EndLoop
    BY <1>7 DEF Loop!EndLoop
  <1>8. ASSUME NEW p \in Peers, Loop!CountVote(p) PROVE LoopInv'
    BY <1>8 DEF Loop!CountVote
  <1>9. CASE Loop!BecomeFollower
    BY <1>9 DEF Loop!BecomeFollower, Loop!resetElectionTimerLocked
  <1>10. CASE Loop!HearFromLeader
    BY <1>10 DEF Loop!HearFromLeader, Loop!resetElectionTimerLocked
  <1>11. CASE Loop!GrantVote
    BY <1>11 DEF Loop!GrantVote, Loop!resetElectionTimerLocked
  <1>12. CASE Loop!Stop
    BY <1>12 DEF Loop!Stop
  <1>13. CASE UNCHANGED Loop!vars
    BY <1>13 DEF Loop!vars
  <1> QED
    BY <1>1, <1>2, <1>3, <1>4, <1>5, <1>6, <1>7, <1>8, <1>9, <1>10, <1>11,
       <1>12, <1>13 DEF Loop!Next, Loop!Run, Loop!Handlers

\* Whatever the interleaving of run(), the handlers and Stop, a node that is
\* not a Leader has its election timer running unless run() is about to call
\* startElection, until Stop has stopped it.
THEOREM TimerRuns == Loop!Spec => []Loop!ElectionTimerRuns
  <1>1. LoopInv => Loop!ElectionTimerRuns
    BY DEF LoopInv
  <1> QED
    BY InitLoop, NextLoop, <1>1, PTL DEF Loop!Spec

\* run() does not wait on a heartbeat timer that becomeLeaderLocked replaces.
THEOREM WatchedTimerIsCurrent == Loop!Spec => []Loop!CandidateWatchesElection
  <1>1. LoopInv => Loop!CandidateWatchesElection
    BY DEF LoopInv
  <1> QED
    BY InitLoop, NextLoop, <1>1, PTL DEF Loop!Spec

=============================================================================
