-------------------------- MODULE RaftQuorumProofs --------------------------
(***************************************************************************)
(* What a majority holds, for any cluster and any bounds, while no node    *)
(* crashes: an entry of the Leader's own term that a majority has is in    *)
(* the log of every later Leader, so it stays where it is.                 *)
(*                                                                         *)
(* Clear(Q, k, t) says so of the nodes of Q, whether they are a majority   *)
(* or not, and of what is on its way to them.  It is kept as long as no    *)
(* one is elected without a vote from Q.                                   *)
(***************************************************************************)
EXTENDS RaftProofs

\* Most leaves are first-order; the ones that need arithmetic cite SMT.
USE ZenonT(30)

-----------------------------------------------------------------------------
(* What a step does *)

\* SubmitCommand appends x on the Leader v.
Submits(v, x) ==
  /\ state[v] = "Leader" /\ state'[v] = "Leader"
  /\ x \in Entry(Command) /\ x.term = currentTerm[v]
  /\ log'[v] = Append(log[v], x)

\* Nothing else changes a log.
LogsMove ==
  \A v \in Server :
    log'[v] = log[v] \/ (\E x : Submits(v, x)) \/ (\E m \in msgs : Accepts(v, m))

\* Only SubmitCommand makes links.
LinksMade ==
  \A i \in Nat, e \in Entry(Command), p \in Nat :
    Linked(i, e, p)' =>
      \/ Linked(i, e, p)
      \/ \E n \in Server : /\ Submits(n, e)
                           /\ i = Len(log[n]) + 1 /\ p = LastTerm(log[n])

\* The request m is what n sends to p for the term t, with the commit index c.
Sends(m, t, c) ==
  \E next \in Nat \ {0} :
    /\ m.prevLogIndex = next - 1 /\ m.prevLogTerm = TermAt(log[m.src], next - 1)
    /\ m.entries = EntriesFrom(log[m.src], next)
    /\ m.term = t /\ m.leaderCommit = c

\* Requests are those of Leaders and of heartbeats that are under way.
RequestsSent ==
  \A m \in msgs' : m.type = "AppendEntries" =>
    \/ m \in msgs
    \/ /\ log'[m.src] = log[m.src]
       /\ \/ /\ state[m.src] = "Leader"
             /\ Sends(m, currentTerm[m.src], commitIndex[m.src])
          \/ \E h \in ticks[m.src] : Sends(m, h.term, h.commitIndex)

\* Heartbeats are started by Leaders.
TicksStarted ==
  \A n \in Server : \A h \in ticks'[n] :
    \/ h \in ticks[n]
    \/ /\ state[n] = "Leader" /\ h.term = currentTerm[n]
       /\ h.commitIndex = commitIndex[n]

\* A node acknowledges in the Leader's term, and not what the Leader is
\* appending.
AcksGiven ==
  \A n, v \in Server, j \in Nat \ {0} :
    state[n] = "Leader" /\ state'[n] = "Leader" /\ v # n /\ AckedUpTo(n, v, j)'
      => AckedUpTo(n, v, j) \/ (currentTerm'[v] = currentTerm[n] /\ log'[n] = log[n])

\* A majority has acknowledged slot k, or more, to n.
MajorityAcked(n, k) ==
  \E A \in SUBSET Server :
    /\ Cardinality(A) >= Majority
    /\ \A v \in A \ {n} : \E j \in Nat \ {0} : j >= k /\ AckedUpTo(n, v, j)

\* A Leader commits an entry of its own term that a majority has, a follower
\* what a request says as far as its log goes.
CommitsMove ==
  \A n \in Server :
    \/ commitIndex'[n] = commitIndex[n]
    \/ /\ state[n] = "Leader" /\ log'[n] = log[n]
       /\ commitIndex'[n] > commitIndex[n]
       /\ commitIndex'[n] \in 1..Len(log[n])
       /\ log[n][commitIndex'[n]].term = currentTerm[n]
       /\ MajorityAcked(n, commitIndex'[n])
    \/ \E m \in msgs :
         /\ Accepts(n, m) /\ m.leaderCommit > commitIndex[n]
         /\ commitIndex'[n] = Min({m.leaderCommit, Len(log'[n])})

Moves ==
  /\ VotesAsked /\ RequestsFresh /\ LogsMove /\ LinksMade
  /\ RequestsSent /\ TicksStarted /\ AcksGiven /\ CommitsMove

-----------------------------------------------------------------------------
(* Every step moves like this *)

\* What the steps do besides asking for votes.
Replicates ==
  /\ LogsMove /\ LinksMade /\ RequestsSent /\ TicksStarted /\ AcksGiven /\ CommitsMove

\* Every step of running nodes moves like this.
LEMMA StepMoves ==
  ASSUME TypeInv, TypeInv', VoteInv, MatchInv, AckInv, [Step]_vars
  PROVE  Moves
  \* advanceCommitIndexLocked commits what a majority has acknowledged.
  <1>HandleAppendSuccessCommits.
      ASSUME TypeInv, AckInv, NEW m \in msgs, HandleAppendSuccess(m)
      PROVE  CommitsMove
    <2> USE <1>HandleAppendSuccessCommits
    <2> DEFINE n == m.dst
               match == [matchIndex[n] EXCEPT ![m.src] = Max({@, m.reqLast})]
               acked == [match EXCEPT ![n] = LastIndex(log[n])]
               cand == SortedDescAt(acked, Cardinality(DOMAIN acked) \div 2)
    <2>1. /\ m.type = "AppendReply" /\ m.success /\ m.reqLast \in Nat /\ m.reqLast > 0
          /\ m.reqTerm = currentTerm[n] /\ m.src \in Server /\ n \in Server
          /\ state[n] = "Leader"
      BY Zenon DEF HandleAppendSuccess, LeaderOfRequest, TypeInv, TypeOK, Message
    <2>2. /\ log' = log
          /\ commitIndex' = [commitIndex EXCEPT ![n] =
               LeaderCommitIndex(log[n], currentTerm[n], commitIndex[n], acked)]
      BY DEF HandleAppendSuccess
    <2>3. /\ matchIndex[n] \in [Server -> Nat] /\ commitIndex \in [Server -> Nat]
          /\ log[n] \in Seq(Entry(Command)) /\ commitIndex[n] \in Nat
      BY <2>1, Zenon DEF TypeInv, TypeOK
    <2>4. Len(log[n]) \in Nat
      BY <2>3, SMT
    <2>5. Max({matchIndex[n][m.src], m.reqLast}) \in {matchIndex[n][m.src], m.reqLast}
      BY <2>1, <2>3, MaxOfTwo, Zenon
    <2>6. /\ match \in [Server -> Nat]
          /\ \A s \in Server : match[s] \in {matchIndex[n][s], m.reqLast}
          /\ \A s \in Server \ {m.src} : match[s] = matchIndex[n][s]
      BY <2>1, <2>3, <2>5, Zenon
    <2> HIDE DEF match
    <2>7. /\ acked \in [Server -> Nat] /\ acked[n] = Len(log[n])
          /\ \A s \in Server \ {n} : acked[s] = match[s]
      BY <2>1, <2>4, <2>6 DEF LastIndex
    <2> HIDE DEF acked
    <2>8. ASSUME NEW s \in Server \ {n} PROVE AckedUpTo(n, s, acked[s])
      <3>1. acked[s] = matchIndex[n][s] \/ (s = m.src /\ acked[s] = m.reqLast)
        BY <2>6, <2>7
      <3> QED BY <2>1, <3>1 DEF AckedUpTo
    <2>9. ASSUME NEW s \in Server PROVE acked[s] <= Len(log[n])
      <3>1. CASE s = n
        BY <2>4, <2>7, <3>1, SMTT(30)
      <3>2. CASE s # n /\ acked[s] # 0
        <4>1. acked[s] \in Nat \ {0} /\ AckedUpTo(n, s, acked[s])
          BY <2>7, <2>8, <3>2
        <4>2. AckTrue(n, s, acked[s])
          BY <2>1, <3>2, <4>1 DEF AckInv, AcksTrue
        <4> QED BY <4>2 DEF AckTrue
      <3> QED BY <2>4, <3>1, <3>2, SMTT(30)
    <2>10. cand \in Nat /\ Cardinality({s \in Server : acked[s] >= cand}) >= Majority
      BY <2>1, <2>4, <2>7, <2>9, MiddleOfSorted, Zenon
    <2> HIDE DEF cand
    <2>11. \A k \in Server \ {n} : commitIndex'[k] = commitIndex[k]
      BY <2>2, <2>3
    <2>12. commitIndex'[n] = LeaderCommitIndex(log[n], currentTerm[n], commitIndex[n], acked)
      BY <2>1, <2>2, <2>3
    <2>13. \/ commitIndex'[n] = commitIndex[n]
           \/ /\ commitIndex'[n] = cand /\ cand > commitIndex[n]
              /\ Contains(log[n], cand) /\ TermAt(log[n], cand) = currentTerm[n]
      BY <2>12 DEF LeaderCommitIndex, cand
    <2>14. ASSUME commitIndex'[n] # commitIndex[n]
           PROVE  /\ commitIndex'[n] > commitIndex[n]
                  /\ commitIndex'[n] \in 1..Len(log[n])
                  /\ log[n][commitIndex'[n]].term = currentTerm[n]
                  /\ MajorityAcked(n, commitIndex'[n])
      <3>1. /\ commitIndex'[n] = cand /\ cand > commitIndex[n]
            /\ Contains(log[n], cand) /\ TermAt(log[n], cand) = currentTerm[n]
        BY <2>13, <2>14
      <3>2. cand \in 1..Len(log[n]) /\ cand > 0
        BY <2>3, <2>4, <2>10, <3>1, SMTT(30) DEF Contains
      <3>3. log[n][cand].term = currentTerm[n]
        BY <3>1, <3>2 DEF TermAt
      <3> DEFINE A == {s \in Server : acked[s] >= cand}
      <3>4. ASSUME NEW v \in A \ {n}
            PROVE  \E j \in Nat \ {0} : j >= cand /\ AckedUpTo(n, v, j)
        <4>1. acked[v] \in Nat \ {0} /\ acked[v] >= cand
          BY <2>7, <2>10, <3>2, SMTT(30)
        <4> QED BY <2>8, <4>1
      <3>5. MajorityAcked(n, cand)
        <4>1. A \in SUBSET Server /\ Cardinality(A) >= Majority
          BY <2>10
        <4> QED BY <3>4, <4>1 DEF MajorityAcked
      <3> QED BY <3>1, <3>2, <3>3, <3>5
    <2> QED BY <2>1, <2>2, <2>11, <2>14 DEF CommitsMove
  \* A step that changes no log and acknowledges nothing.
  <1>LogsStill.
      ASSUME TypeInv, RolesStand, log' = log, NoNewLinks, NoAckSent, MatchKept
      PROVE  LogsMove /\ LinksMade /\ AcksGiven
    <2> USE <1>LogsStill
    <2>1. LogsMove /\ LinksMade
      BY DEF LogsMove, LinksMade, NoNewLinks
    <2>2. AcksGiven
      BY NoAcks DEF AcksGiven
    <2> QED BY <2>1, <2>2
  \* A step that sends no request and starts no heartbeat.
  <1>NothingSent.
      ASSUME NoAppendSent, ticks' = ticks
      PROVE  RequestsSent /\ TicksStarted
    BY <1>NothingSent DEF NoAppendSent, RequestsSent, TicksStarted
  \* Elections do nothing.
  <1>ElectionMoves.
      ASSUME TypeInv, SentinelSent, RolesStand, ElectionStep
      PROVE  Replicates
    <2> USE <1>ElectionMoves
    <2>1. log' = log /\ ticks' = ticks /\ NoneSent /\ MatchKept
      BY ElectionQuiet
    <2>2. NoAppendSent /\ NoAckSent
      BY <2>1 DEF NoneSent, NoAppendSent, NoAckSent
    <2>3. NoNewLinks
      BY ElectionCopies
    <2>4. CommitsMove
      <3>1. commitIndex' = commitIndex
        BY Zenon DEF ElectionStep, StartElection, HandleRequestVote, CountVote,
               StepDownOnVoteReply, StepDownOnAppendReply, logVars
      <3> QED BY <3>1 DEF CommitsMove
    <2> QED BY <2>1, <2>2, <2>3, <2>4, <1>LogsStill, <1>NothingSent DEF Replicates
  \* Replies, and the start of heartbeats.
  <1>ReplyMoves.
      ASSUME TypeInv, SentinelSent, VoteInv, RolesStand, AckInv, ReplyStep
      PROVE  Replicates
    <2> USE <1>ReplyMoves
    <2>1. log' = log /\ NoAppendSent /\ NoAckSent /\ MatchKept
      BY ReplyQuiet
    <2>2. NoNewLinks
      BY ReplyCopies
    <2>3. LogsMove /\ LinksMade /\ AcksGiven
      BY <2>1, <2>2, <1>LogsStill
    <2>4. RequestsSent
      BY <2>1 DEF NoAppendSent, RequestsSent
    <2>5. TicksStarted
      <3>1. ASSUME NEW n \in Server, SendHeartbeats(n) PROVE TicksStarted
        <4>1. /\ state[n] = "Leader"
              /\ ticks' = [ticks EXCEPT ![n] =
                   @ \cup {[term |-> currentTerm[n], commitIndex |-> commitIndex[n]]}]
          BY <3>1 DEF SendHeartbeats
        <4>2. ASSUME NEW k \in Server, NEW h \in ticks'[k]
              PROVE  \/ h \in ticks[k]
                     \/ /\ k = n /\ h.term = currentTerm[n]
                        /\ h.commitIndex = commitIndex[n]
          BY <4>1, SMTT(30) DEF TypeInv, TypeOK
        <4> QED BY <4>1, <4>2 DEF TicksStarted
      <3>2. ASSUME ticks' = ticks PROVE TicksStarted
        BY <3>2 DEF TicksStarted
      <3> QED BY <3>1, <3>2, Zenon DEF ReplyStep, RejectStaleAppend, HandleAppendSuccess,
                                HandleAppendConflict, vars, leaderVars
    <2>6. CommitsMove
      <3>1. ASSUME NEW m \in msgs, HandleAppendSuccess(m) PROVE CommitsMove
        BY <3>1, <1>HandleAppendSuccessCommits
      <3>2. ASSUME commitIndex' = commitIndex PROVE CommitsMove
        BY <3>2 DEF CommitsMove
      <3> QED BY <3>1, <3>2, Zenon DEF ReplyStep, SendHeartbeats, RejectStaleAppend,
                                HandleAppendConflict, vars, logVars
    <2> QED BY <2>3, <2>4, <2>5, <2>6 DEF Replicates
  \* replicateLog and the goroutines of sendHeartbeats send what is in a log.
  <1>SendersMove.
      ASSUME TypeInv, SentinelSent, RolesStand, NEW n \in Server, NEW p \in Server,
             SendStep(n, p)
      PROVE  Replicates
    <2> USE <1>SendersMove
    <2> DEFINE next == nextIndex[n][p]
    <2>1. /\ UNCHANGED logVars /\ UNCHANGED leaderVars
          /\ p \in Peers(n) /\ (state[n] = "Leader" \/ ticks[n] # {})
      BY Zenon DEF SendStep, ReplicateLog, SendHeartbeatTo
    <2>2. PICK t, c : /\ Send({AppendEntries(n, p, t, c)})
                      /\ \/ state[n] = "Leader" /\ t = currentTerm[n] /\ c = commitIndex[n]
                         \/ \E h \in ticks[n] : t = h.term /\ c = h.commitIndex
      BY Zenon DEF SendStep, ReplicateLog, SendHeartbeatTo
    <2>3. next \in Nat \ {0}
      <3>1. next \in Nat /\ next >= 1
        BY <2>1, Zenon DEF TypeInv, TypeOK, Peers
      <3> HIDE DEF next
      <3> QED BY <3>1, SMTT(30)
    <2> DEFINE r == AppendEntries(n, p, t, c)
    <2>4. /\ r.prevLogIndex = next - 1 /\ r.prevLogTerm = TermAt(log[n], next - 1)
          /\ r.entries = EntriesFrom(log[n], next) /\ r.type = "AppendEntries"
          /\ r.src = n /\ r.dst = p /\ r.term = t /\ r.leaderCommit = c
      BY DEF AppendEntries
    <2>5. msgs' \subseteq msgs \cup {r}
      BY <2>2 DEF Send
    <2> HIDE DEF next, r
    <2>6. Sends(r, t, c)
      BY <2>3, <2>4 DEF Sends
    <2>7. RequestsSent
      <3>1. \/ state[n] = "Leader" /\ Sends(r, currentTerm[n], commitIndex[n])
            \/ \E h \in ticks[n] : Sends(r, h.term, h.commitIndex)
        BY <2>2, <2>6
      <3> QED BY <2>1, <2>4, <2>5, <3>1 DEF RequestsSent, logVars
    <2>8. NoAckSent /\ MatchKept
      BY <2>1, <2>4, <2>5, SameMatch DEF NoAckSent, leaderVars
    <2>9. NoNewLinks
      BY SendersCopy
    <2>10. TicksStarted /\ CommitsMove
      BY <2>1 DEF TicksStarted, CommitsMove, leaderVars, logVars
    <2> QED BY <2>1, <2>7, <2>8, <2>9, <2>10, <1>LogsStill DEF Replicates, logVars
  \* SubmitCommand appends to the Leader's log.
  <1>SubmitCommandMoves.
      ASSUME TypeInv, NEW n \in Server, NEW c \in Command, SubmitCommand(n, c)
      PROVE  Replicates
    <2> USE <1>SubmitCommandMoves
    <2> DEFINE x == [term |-> currentTerm[n], index |-> LastIndex(log[n]) + 1,
                     command |-> c]
    <2>1. /\ state[n] = "Leader" /\ log' = [log EXCEPT ![n] = Append(@, x)]
          /\ UNCHANGED <<state, currentTerm, msgs, ticks, matchIndex, commitIndex>>
      BY DEF SubmitCommand, electionVars, leaderVars
    <2>2. /\ log[n] \in Seq(Entry(Command)) /\ x \in Entry(Command)
          /\ x.term = currentTerm[n]
      <3>1. log[n] \in Seq(Entry(Command)) /\ currentTerm[n] \in Nat
        BY DEF TypeInv, TypeOK
      <3>2. Len(log[n]) \in Nat
        BY <3>1, SMTT(30)
      <3> QED BY <3>1, <3>2, SMTT(30) DEF LastIndex, Entry
    <2> HIDE DEF x
    <2>3. log'[n] = Append(log[n], x) /\ \A k \in Server \ {n} : log'[k] = log[k]
      BY <2>1 DEF TypeInv, TypeOK
    <2>4. Submits(n, x)
      BY <2>1, <2>2, <2>3 DEF Submits
    <2>5. LogsMove
      BY <2>3, <2>4 DEF LogsMove
    <2>6. LinksMade
      <3> SUFFICES ASSUME NEW i \in Nat, NEW e \in Entry(Command), NEW p \in Nat,
                          Linked(i, e, p)'
                   PROVE  \/ Linked(i, e, p)
                          \/ Submits(n, e) /\ i = Len(log[n]) + 1 /\ p = LastTerm(log[n])
        BY DEF LinksMade
      <3>1. CASE InRequest(i, e, p)'
        BY <2>1, <3>1 DEF InRequest, Linked
      <3>2. CASE InLog(i, e, p)'
        <4>1. PICK a \in Server : Link(log'[a], 0, 0, i, e, p)
          BY <3>2 DEF InLog
        <4>2. CASE a # n
          BY <2>3, <4>1, <4>2 DEF Linked, InLog
        <4>3. CASE a = n
          <5>1. \/ Link(log[n], 0, 0, i, e, p)
                \/ i = Len(log[n]) + 1 /\ e = x /\ p = LastTerm(log[n])
            <6>1. Link(Append(log[n], x), 0, 0, i, e, p)
              BY <2>3, <4>1, <4>3, Zenon
            <6> QED BY <2>2, <6>1, AppendLinks
          <5> QED BY <2>4, <5>1 DEF Linked, InLog
        <4> QED BY <4>2, <4>3
      <3> QED BY <3>1, <3>2 DEF Linked
    <2>7. RequestsSent /\ TicksStarted /\ CommitsMove
      BY <2>1 DEF RequestsSent, TicksStarted, CommitsMove
    <2>8. AcksGiven
      BY <2>1 DEF AcksGiven, AckedUpTo
    <2> QED BY <2>5, <2>6, <2>7, <2>8 DEF Replicates
  \* HandleAppendEntries acknowledges in the term of the request.
  <1>HandleAppendEntriesMoves.
      ASSUME TypeInv, SentinelSent, NEW m \in msgs, HandleAppendEntries(m)
      PROVE  Replicates
    <2> USE <1>HandleAppendEntriesMoves
    <2> DEFINE n == m.dst
    <2>1. /\ n \in Server /\ m.type = "AppendEntries" /\ UNCHANGED <<ticks, matchIndex>>
          /\ currentTerm' = [currentTerm EXCEPT ![n] = m.term]
          /\ state' = [state EXCEPT ![n] = "Follower"]
          /\ \A k \in Server \ {n} :
               /\ currentTerm'[k] = currentTerm[k] /\ log'[k] = log[k]
               /\ commitIndex'[k] = commitIndex[k]
      BY HandleAppendEntriesParts, Zenon
    <2>2. \/ Accepts(n, m) /\ \/ commitIndex'[n] = commitIndex[n]
                              \/ /\ m.leaderCommit > commitIndex[n]
                                 /\ commitIndex'[n] = Min({m.leaderCommit, Len(log'[n])})
          \/ log'[n] = log[n] /\ commitIndex'[n] = commitIndex[n]
      BY HandleAppendEntriesParts, Zenon
    <2>3. PICK r : /\ msgs' \subseteq msgs \cup {r} /\ r.type = "AppendReply"
                   /\ r.src = n /\ r.dst = m.src /\ r.reqTerm = m.term
      BY HandleAppendEntriesParts, Zenon
    <2> HIDE DEF n
    <2>4. LogsMove
      BY <2>1, <2>2 DEF LogsMove
    <2>5. LinksMade
      BY HandleAppendEntriesCopies DEF NoNewLinks, LinksMade
    <2>6. RequestsSent /\ TicksStarted
      BY <2>1, <2>3 DEF RequestsSent, TicksStarted
    <2>7. AcksGiven
      <3> SUFFICES ASSUME NEW a \in Server, NEW v \in Server, NEW j \in Nat \ {0},
                          state[a] = "Leader", state'[a] = "Leader", v # a,
                          AckedUpTo(a, v, j)', ~AckedUpTo(a, v, j)
                   PROVE  currentTerm'[v] = currentTerm[a] /\ log'[a] = log[a]
        BY DEF AcksGiven
      <3>1. /\ a # n /\ currentTerm'[a] = currentTerm[a] /\ currentTerm'[n] = m.term
            /\ log'[a] = log[a]
        BY <2>1 DEF TypeInv, TypeOK
      <3>2. r.src = v /\ r.reqTerm = currentTerm'[a]
        BY <2>1, <2>3, <3>1, SMTT(30) DEF AckedUpTo
      <3> QED BY <2>3, <3>1, <3>2
    <2>8. CommitsMove
      BY <2>1, <2>2, Zenon DEF CommitsMove
    <2> QED BY <2>4, <2>5, <2>6, <2>7, <2>8 DEF Replicates
  <1>1. VotesAsked /\ RequestsFresh
    BY StepAsks
  <1>2. SentinelSent /\ RolesStand
    BY StepRoles DEF MatchInv
  <1>3. ASSUME NEW n \in Server, NEW c \in Command, SubmitCommand(n, c)
        PROVE  Replicates
    BY <1>3, <1>SubmitCommandMoves
  <1>4. ASSUME NEW n \in Server, NEW p \in Server, SendStep(n, p)
        PROVE  Replicates
    BY <1>2, <1>4, <1>SendersMove
  <1>5. ASSUME NEW m \in msgs, HandleAppendEntries(m)
        PROVE  Replicates
    BY <1>2, <1>5, <1>HandleAppendEntriesMoves
  <1>6. Replicates
    BY <1>2, <1>3, <1>4, <1>5, <1>ElectionMoves, <1>ReplyMoves
       DEF Step, Receive, ElectionStep, ReplyStep, SendStep
  <1> QED BY <1>1, <1>6 DEF Moves, Replicates

-----------------------------------------------------------------------------
(* What every step starts from, and what it does *)

BaseInv == TypeInv /\ VoteInv /\ MatchInv /\ AckInv

Stepped ==
  /\ TypeInv /\ VoteInv /\ MatchInv /\ AckInv
  /\ TypeInv' /\ VoteInv' /\ MatchInv' /\ AckInv'
  /\ VotesStandStep /\ OnlyCastVotes /\ RolesStand
  /\ VotesAsked /\ RequestsFresh /\ LogsMove /\ LinksMade
  /\ RequestsSent /\ TicksStarted /\ AcksGiven /\ CommitsMove

\* Every step of running nodes is one of these.
LEMMA StepStepped ==
  ASSUME BaseInv, [Step]_vars
  PROVE  Stepped /\ BaseInv'
<1>1. TypeInv /\ VoteInv /\ MatchInv /\ AckInv
  BY DEF BaseInv
<1>2. TypeInv' /\ VoteInv' /\ MatchInv' /\ AckInv'
  BY <1>1, StepMatch, StepAcks
<1>3. VotesStandStep /\ OnlyCastVotes /\ RolesStand
  BY <1>1, <1>2, StepVotes, StepRoles
<1>4. Moves
  BY <1>1, <1>2, StepMoves
<1> QED BY <1>1, <1>2, <1>3, <1>4 DEF Stepped, BaseInv, Moves

\* The types of what the proofs below are about.
LEMMA Types ==
  ASSUME TypeInv, NEW n \in Server
  PROVE  /\ currentTerm[n] \in Nat /\ commitIndex[n] \in Nat
         /\ log[n] \in Seq(Entry(Command)) /\ Len(log[n]) \in Nat
         /\ LastTerm(log[n]) \in Nat
         /\ \A i \in 1..Len(log[n]) : /\ log[n][i] \in Entry(Command)
                                      /\ log[n][i].term \in Nat
<1>1. /\ currentTerm[n] \in Nat /\ commitIndex[n] \in Nat
      /\ log[n] \in Seq(Entry(Command))
  BY DEF TypeInv, TypeOK
<1>2. Len(log[n]) \in Nat /\ LastTerm(log[n]) \in Nat
  BY <1>1, TermAtType, SMTT(30) DEF LastTerm
<1>3. ASSUME NEW i \in 1..Len(log[n])
      PROVE  log[n][i] \in Entry(Command) /\ log[n][i].term \in Nat
  <2>1. log[n][i] \in Entry(Command)
    BY <1>1, LinkInLog
  <2> QED BY <2>1 DEF Entry
<1> QED BY <1>1, <1>2, <1>3

-----------------------------------------------------------------------------
(* Terms ascend *)

\* Entries have a term, and no lower one than the entry before them.
LinksAscend ==
  \A i \in Nat, e \in Entry(Command), p \in Nat :
    Linked(i, e, p) => e.term > 0 /\ p <= e.term

\* Votes are for candidates that have reached the term.
VotesReached == \A v, c \in Server, t \in Nat : VoteFor(v, c, t) => currentTerm[c] >= t

\* Nobody campaigns in term 0.
RolesBegin == \A n \in Server : state[n] # "Follower" => currentTerm[n] > 0

\* A majority is past the term of c and has not voted for c in it.
Lost(c) ==
  \E Q \in SUBSET Server :
    /\ Cardinality(Q) >= Majority
    /\ \A v \in Q : currentTerm[v] > currentTerm[c] /\ ~VoteFor(v, c, currentTerm[c])

\* A candidate may have an entry of a later term than it campaigns in, which
\* reached it in a late request, but does not win then.
LateLogsLose ==
  \A c \in Server : state[c] # "Follower" /\ LastTerm(log[c]) > currentTerm[c] => Lost(c)

\* A candidate's requests tell the end of its log.
RequestsCurrent ==
  \A m \in msgs :
    /\ m.type = "RequestVote" /\ state[m.src] = "Candidate" /\ currentTerm[m.src] = m.term
    => m.lastLogIndex = Len(log[m.src]) /\ m.lastLogTerm = LastTerm(log[m.src])

OrderInv ==
  LinksAscend /\ VotesReached /\ RolesBegin /\ LateLogsLose /\ RequestsCurrent

\* A log that a step changes is that of a Leader, or of a Follower that
\* accepts a request.
LEMMA CandidateLog ==
  ASSUME LogsMove, NEW c \in Server, state'[c] # "Follower", state[c] # "Leader"
  PROVE  log'[c] = log[c]
BY DEF LogsMove, Submits, Accepts

\* Terms only rise.
LEMMA TermsRise ==
  ASSUME Stepped, NEW n \in Server
  PROVE  currentTerm[n] \in Nat /\ currentTerm'[n] \in Nat /\ currentTerm'[n] >= currentTerm[n]
BY DEF Stepped, TypeInv, TypeOK, VotesStandStep

\* The order of terms is kept by every step.
LEMMA OrderStays ==
  ASSUME Stepped, OrderInv
  PROVE  OrderInv'
  \* The log of a Leader has no entry of a later term.
  <1>LeaderLast.
      ASSUME TypeInv, VoteInv, LateLogsLose, NEW n \in Server, state[n] = "Leader"
      PROVE  LastTerm(log[n]) <= currentTerm[n]
    <2> USE <1>LeaderLast
    <2> SUFFICES ASSUME LastTerm(log[n]) > currentTerm[n] PROVE FALSE
      BY Types, SMT
    <2>1. PICK Q \in SUBSET Server :
            /\ Cardinality(Q) >= Majority
            /\ \A v \in Q : ~VoteFor(v, n, currentTerm[n])
      BY DEF LateLogsLose, Lost
    <2>2. /\ votesReceived[n] \in SUBSET Server
          /\ Cardinality(votesReceived[n]) >= Majority
      BY DEF VoteInv, VotesCounted, TypeInv, TypeOK
    <2>3. PICK v \in Server : v \in Q /\ v \in votesReceived[n]
      BY <2>1, <2>2, MajoritiesMeet
    <2> QED BY <2>1, <2>3 DEF VoteFor, Counted
  \* New votes are for candidates that ask for them.
  <1>VotesReachedStays.
      ASSUME Stepped, VotesReached
      PROVE  VotesReached'
    <2> USE <1>VotesReachedStays
    <2> SUFFICES ASSUME NEW v \in Server, NEW c \in Server, NEW t \in Nat, VoteFor(v, c, t)'
                 PROVE  currentTerm'[c] >= t
      BY DEF VotesReached
    <2>1. VoteFor(v, c, t) \/ Granted(v, c, t) \/ Enters(c, t)
      BY DEF Stepped, VotesAsked
    <2>2. CASE VoteFor(v, c, t) \/ Granted(v, c, t)
      <3>1. VoteFor(v, c, t) \/ VoteFor(c, c, t)
        BY <2>2 DEF Granted, VoteFor, Asked
      <3>2. currentTerm[c] >= t
        BY <3>1 DEF VotesReached
      <3> QED BY <3>2, TermsRise, SMT
    <2>3. CASE Enters(c, t)
      BY <2>3, SMT DEF Enters
    <2> QED BY <2>1, <2>2, <2>3
  \* Candidates and Leaders are in a term.
  <1>RolesBeginStays.
      ASSUME Stepped, RolesBegin
      PROVE  RolesBegin'
    <2> USE <1>RolesBeginStays
    <2> SUFFICES ASSUME NEW n \in Server, state'[n] # "Follower"
                 PROVE  currentTerm'[n] > 0
      BY DEF RolesBegin
    <2>1. state'[n] \in {"Candidate", "Leader"}
      BY DEF Stepped, TypeInv, TypeOK
    <2>2. state[n] # "Follower" \/ currentTerm'[n] > currentTerm[n]
      BY <2>1 DEF Stepped, RolesStand
    <2>3. state[n] # "Follower" => currentTerm[n] > 0
      BY DEF RolesBegin
    <2> QED BY <2>2, <2>3, TermsRise, SMTT(30)
  \* A Leader appends an entry of its term.
  <1>LinksAscendStays.
      ASSUME Stepped, OrderInv
      PROVE  LinksAscend'
    <2> USE <1>LinksAscendStays
    <2> SUFFICES ASSUME NEW i \in Nat, NEW e \in Entry(Command), NEW p \in Nat,
                        Linked(i, e, p)'
                 PROVE  e.term > 0 /\ p <= e.term
      BY DEF LinksAscend
    <2>1. CASE Linked(i, e, p)
      BY <2>1 DEF OrderInv, LinksAscend
    <2>2. ASSUME NEW n \in Server, Submits(n, e), p = LastTerm(log[n])
          PROVE  e.term > 0 /\ p <= e.term
      <3>1. state[n] = "Leader" /\ e.term = currentTerm[n]
        BY <2>2 DEF Submits
      <3>2. LastTerm(log[n]) <= currentTerm[n]
        BY <3>1, <1>LeaderLast DEF Stepped, OrderInv
      <3> QED BY <2>2, <3>1, <3>2 DEF OrderInv, RolesBegin
    <2> QED BY <2>1, <2>2 DEF Stepped, LinksMade
  \* A candidate's log does not change.
  <1>RequestsCurrentStays.
      ASSUME Stepped, OrderInv
      PROVE  RequestsCurrent'
    <2> USE <1>RequestsCurrentStays
    <2> SUFFICES ASSUME NEW m \in msgs', m.type = "RequestVote",
                        state'[m.src] = "Candidate", currentTerm'[m.src] = m.term
                 PROVE  m.lastLogIndex = Len(log'[m.src]) /\ m.lastLogTerm = LastTerm(log'[m.src])
      BY DEF RequestsCurrent
    <2> DEFINE c == m.src
    <2>1. c \in Server /\ m.term \in Nat
      BY DEF Stepped, TypeInv, TypeOK, Message
    <2>2. CASE m \in msgs
      <3>1. currentTerm[c] >= m.term
        BY <2>1, <2>2 DEF OrderInv, VotesReached, VoteFor, Asked
      <3>2. currentTerm[c] = currentTerm'[c]
        BY <2>1, <3>1, TermsRise, SMTT(30)
      <3>3. state[c] = "Candidate"
        BY <2>1, <3>2, TermsRise, SMTT(30) DEF Stepped, RolesStand
      <3>4. log'[c] = log[c]
        BY <2>1, <3>3, CandidateLog DEF Stepped
      <3> QED BY <2>2, <3>2, <3>3, <3>4 DEF OrderInv, RequestsCurrent
    <2>3. CASE m \notin msgs
      BY <2>3 DEF Stepped, RequestsFresh
    <2> QED BY <2>2, <2>3
  \* Who is elected in the term of an entry has a majority past every lower one.
  <1>LateLogsLoseStays.
      ASSUME Stepped, OrderInv
      PROVE  LateLogsLose'
    <2> USE <1>LateLogsLoseStays
    <2> SUFFICES ASSUME NEW c \in Server, state'[c] # "Follower",
                        LastTerm(log'[c]) > currentTerm'[c]
                 PROVE  Lost(c)'
      BY DEF LateLogsLose
    <2>0. PICK u \in Nat : u = currentTerm'[c]
      BY TermsRise
    <2>1. /\ currentTerm[c] \in Nat /\ u \in Nat /\ u >= currentTerm[c]
          /\ log[c] \in Seq(Entry(Command)) /\ LastTerm(log[c]) \in Nat
      BY <2>0, TermsRise, Types DEF Stepped
    <2>2. log'[c] = log[c]
      <3>1. ASSUME NEW x, Submits(c, x) PROVE FALSE
        <4>1. x \in Entry(Command) /\ x.term = currentTerm[c] /\ log'[c] = Append(log[c], x)
          BY <3>1 DEF Submits
        <4>2. LastTerm(log'[c]) = currentTerm[c]
          BY <2>1, <4>1, AppendLinks, SMTT(30)
        <4> QED BY <2>1, <2>0, <4>2, SMTT(30)
      <3> QED BY <3>1 DEF Stepped, LogsMove, Accepts
    <2>3. SUFFICES ASSUME NEW Q \in SUBSET Server, Cardinality(Q) >= Majority,
                          \A v \in Q : currentTerm[v] > u /\ ~VoteFor(v, c, u)
                   PROVE  Lost(c)'
      <3>1. CASE u = currentTerm[c]
        <4>1. state[c] # "Follower"
          <5>1. state'[c] \in {"Candidate", "Leader"}
            BY DEF Stepped, TypeInv, TypeOK
          <5>2. ~(currentTerm'[c] > currentTerm[c])
            BY <2>0, <2>1, <3>1, SMTT(30)
          <5> QED BY <5>1, <5>2 DEF Stepped, RolesStand
        <4>2. Lost(c)
          BY <2>2, <2>0, <3>1, <4>1 DEF OrderInv, LateLogsLose
        <4> QED BY <2>3, <3>1, <4>2 DEF Lost
      <3>2. CASE u > currentTerm[c]
        <4> DEFINE k == Len(log[c])
                   e == log[c][k]
        <4>1. LastTerm(log[c]) > u
          BY <2>2, <2>0
        <4>2. k \in 1..k /\ k \in Nat /\ e.term = LastTerm(log[c])
          BY <2>1, <4>1, SMTT(30) DEF LastTerm, TermAt
        <4>3. PICK p \in Nat : Linked(k, e, p) /\ e \in Entry(Command)
          BY <2>1, <4>2, LinkInLog DEF Linked, InLog
        <4>4. PICK d \in Server : Elected(d, e.term)
          BY <4>2, <4>3 DEF Stepped, MatchInv, LinksElected
        <4>5. PICK Q \in SUBSET Server :
                Cardinality(Q) >= Majority /\ \A v \in Q : Chose(v, d, e.term)
          BY <4>4 DEF Elected
        <4>6. ASSUME NEW v \in Q PROVE currentTerm[v] > u
          <5>1. currentTerm[v] > e.term \/ currentTerm[v] = e.term
            BY <4>5, <4>6 DEF Chose, Voted
          <5>2. currentTerm[v] \in Nat
            BY TermsRise
          <5> QED BY <2>1, <4>1, <4>2, <5>1, <5>2, SMTT(30)
        <4>7. ASSUME NEW v \in Q PROVE ~VoteFor(v, c, u)
          BY <2>1, <3>2, <4>7, SMTT(30) DEF OrderInv, VotesReached
        <4> QED BY <2>3, <4>5, <4>6, <4>7
      <3> QED BY <2>1, <3>1, <3>2, SMTT(30)
    <2>4. ASSUME NEW v \in Q PROVE currentTerm'[v] > u /\ ~VoteFor(v, c, u)'
      <3>1. currentTerm'[v] > u
        BY <2>1, <2>3, TermsRise, SMTT(30)
      <3>2. ~CastNow(v, c, u)
        BY <2>1, <3>1, TermsRise, SMTT(30) DEF CastNow
      <3> QED BY <2>1, <2>3, <3>1, <3>2 DEF Stepped, OnlyCastVotes
    <2> QED BY <2>3, <2>4, <2>0 DEF Lost
  <1>1. VotesReached' /\ RolesBegin'
    BY <1>VotesReachedStays, <1>RolesBeginStays DEF OrderInv
  <1> QED BY <1>1, <1>LinksAscendStays, <1>RequestsCurrentStays, <1>LateLogsLoseStays DEF OrderInv

-----------------------------------------------------------------------------
(* Logs that hold an entry *)

\* Two logs agree up to a slot at which their terms do.
SlotsMatch ==
  \A a, b \in Server, i \in Nat :
    /\ i \in 1..Len(log[a]) /\ i \in 1..Len(log[b]) /\ log[a][i].term = log[b][i].term
    => \A j \in 1..i : log[a][j] = log[b][j]

\* Log matching, slot by slot.
LEMMA MatchedSlots == TypeInv /\ MatchInv => SlotsMatch
BY SlotsAgree DEF SlotsMatch

\* The same of the state after a step.
LEMMA MatchedSlotsNext == TypeInv' /\ MatchInv' => SlotsMatch'
BY MatchedSlots, PTL

\* The terms of a log are positive and ascend.
LogsAscend ==
  \A v \in Server : \A i, j \in 1..Len(log[v]) :
    log[v][i].term > 0 /\ (i <= j => log[v][i].term <= log[v][j].term)

\* The first slot with a term below that of an earlier slot would be a link
\* that descends.
LEMMA AscendingLogs == TypeInv /\ LinksAscend => LogsAscend
<1> SUFFICES ASSUME TypeInv, LinksAscend, NEW v \in Server,
                    NEW i \in 1..Len(log[v]), NEW j \in 1..Len(log[v])
             PROVE  log[v][i].term > 0 /\ (i <= j => log[v][i].term <= log[v][j].term)
  BY DEF LogsAscend
<1> DEFINE l == log[v]
<1>1. /\ l \in Seq(Entry(Command)) /\ Len(l) \in Nat
      /\ \A s \in 1..Len(l) : l[s].term \in Nat
  BY Types
<1>2. ASSUME NEW s \in 1..Len(l) PROVE l[s].term > 0 /\ TermAt(l, s - 1) <= l[s].term
  <2>1. Linked(s, l[s], TermAt(l, s - 1)) /\ l[s] \in Entry(Command) /\ TermAt(l, s - 1) \in Nat
    BY <1>1, LinkInLog DEF Linked, InLog
  <2>2. s \in Nat
    BY <1>1, SMTT(30)
  <2> QED BY <2>1, <2>2 DEF LinksAscend
<1>3. ASSUME i <= j, ~(l[i].term <= l[j].term) PROVE FALSE
  <2> DEFINE S == {s \in 1..Len(l) : s >= i /\ l[s].term < l[i].term}
  <2>1. S \subseteq Nat /\ S # {}
    <3>1. j \in S
      BY <1>1, <1>3, SMTT(30)
    <3> QED BY <1>1, <3>1, SMT
  <2>2. PICK s \in S : \A y \in S : s <= y
    BY <2>1, MinOfNats, Zenon
  <2>3. /\ s \in Nat /\ i \in Nat /\ s - 1 \in 1..Len(l) /\ s - 1 >= i
        /\ s \in 1..Len(l) /\ l[s].term < l[i].term
    <3>1. s # i
      BY <1>1, SMTT(30)
    <3> QED BY <1>1, <3>1, SMTT(30)
  <2>4. s - 1 \notin S
    <3> HIDE DEF S
    <3> QED BY <2>2, <2>3, SMTT(30)
  <2>5. ~(l[s - 1].term < l[i].term)
    BY <2>3, <2>4
  <2>6. TermAt(l, s - 1) = l[s - 1].term
    BY <2>3 DEF TermAt
  <2>7. l[s - 1].term <= l[s].term
    BY <1>2, <2>3, <2>6
  <2>8. l[s - 1].term \in Nat /\ l[s].term \in Nat /\ l[i].term \in Nat
    BY <1>1, <2>3
  <2> QED BY <2>3, <2>5, <2>7, <2>8, SMTT(30)
<1> QED BY <1>2, <1>3

\* v has the entry of term t at slot k.
Holds(v, k, t) == k \in 1..Len(log[v]) /\ log[v][k].term = t

\* An entry of a later term than t comes after slot k, and after an entry of
\* term t or later.
NoCross(k, t) ==
  \A i \in Nat, e \in Entry(Command), p \in Nat :
    Linked(i, e, p) /\ e.term > t => i > k /\ p >= t

\* A log that ends like this has the entry of term t at slot k.
Past(l, z, k, t) ==
  z \in 1..Len(l) /\ (l[z].term > t \/ (l[z].term = t /\ z >= k))

PastHolds ==
  \A k, t \in Nat, v, q \in Server : \A z :
    NoCross(k, t) /\ Holds(q, k, t) /\ Past(log[v], z, k, t) => Holds(v, k, t)

\* Before the first entry of a later term there is one of term t at slot k or
\* later.
LEMMA HoldsFromPast == TypeInv /\ MatchInv /\ LinksAscend => PastHolds
  \* A log with an entry of term t has a first one.
  <1>FirstSlot.
      ASSUME NEW l \in Seq(Entry(Command)), NEW z \in 1..Len(l), NEW t \in Nat \ {0},
             l[z].term = t
      PROVE  \E f \in 1..z : l[f].term = t /\ TermAt(l, f - 1) # t
    <2> USE <1>FirstSlot
    <2> DEFINE S == {s \in 1..Len(l) : l[s].term = t}
    <2>1. Len(l) \in Nat
      BY SMT
    <2>2. z \in S /\ S \subseteq Nat
      BY <2>1, SMTT(30)
    <2>3. PICK f \in S : \A y \in S : f <= y
      <3> HIDE DEF S
      <3>1. S # {}
        BY <2>2
      <3> QED BY <2>2, <3>1, MinOfNats, Zenon
    <2>4. f \in 1..z /\ f \in 1..Len(l) /\ l[f].term = t
      BY <2>1, <2>2, <2>3, SMTT(30)
    <2>5. f - 1 \notin S
      <3> HIDE DEF S
      <3> QED BY <2>1, <2>3, <2>4, SMTT(30)
    <2>6. TermAt(l, f - 1) # t
      BY <2>5 DEF TermAt
    <2> QED BY <2>4, <2>6
  \* A log with an entry of term t at slot k or later has the one at slot k, if
  \* any log has.
  <1>SameTermHolds.
      ASSUME TypeInv, MatchInv, LogsAscend, NEW k \in Nat, NEW t \in Nat,
             NEW v \in Server, NEW q \in Server, Holds(q, k, t),
             NEW z \in 1..Len(log[v]), log[v][z].term = t, z >= k
      PROVE  Holds(v, k, t)
    <2> USE <1>SameTermHolds
    <2>1. /\ log[v] \in Seq(Entry(Command)) /\ log[q] \in Seq(Entry(Command))
          /\ Len(log[v]) \in Nat /\ Len(log[q]) \in Nat
          /\ \A s \in 1..Len(log[v]) : log[v][s].term \in Nat
      BY Types
    <2>2. k \in 1..Len(log[q]) /\ log[q][k].term = t /\ t \in Nat \ {0}
      <3>1. k \in 1..Len(log[q]) /\ log[q][k].term = t
        BY DEF Holds
      <3>2. log[q][k].term > 0
        BY <3>1 DEF LogsAscend
      <3> QED BY <3>1, <3>2, SMTT(30)
    <2>3. PICK f \in 1..z : log[v][f].term = t /\ TermAt(log[v], f - 1) # t
      BY <2>1, <2>2, <1>FirstSlot
    <2>4. PICK g \in 1..k : log[q][g].term = t /\ TermAt(log[q], g - 1) # t
      BY <2>1, <2>2, <1>FirstSlot, Zenon
    <2>5. f = g
      <3>1. f \in 1..Len(log[v]) /\ f \in Nat /\ g \in 1..Len(log[q]) /\ g \in Nat
        BY <2>1, <2>2, <2>3, <2>4, SMTT(30)
      <3>2. /\ Linked(f, log[v][f], TermAt(log[v], f - 1))
            /\ log[v][f] \in Entry(Command) /\ TermAt(log[v], f - 1) \in Nat
        BY <2>1, <3>1, LinkInLog DEF Linked, InLog
      <3>3. /\ Linked(g, log[q][g], TermAt(log[q], g - 1))
            /\ log[q][g] \in Entry(Command) /\ TermAt(log[q], g - 1) \in Nat
        BY <2>1, <3>1, LinkInLog DEF Linked, InLog
      <3> QED BY <2>3, <2>4, <3>1, <3>2, <3>3, Zenon DEF MatchInv, StartsUnique
    <2>6. k \in 1..Len(log[v]) /\ f \in 1..Len(log[v]) /\ f <= k /\ k <= z
      BY <2>1, <2>2, <2>3, <2>4, <2>5, SMTT(30)
    <2>7. log[v][f].term <= log[v][k].term /\ log[v][k].term <= log[v][z].term
      BY <2>6 DEF LogsAscend
    <2>8. log[v][k].term \in Nat
      BY <2>1, <2>6
    <2>9. log[v][k].term = t
      BY <2>3, <2>7, <2>8, SMTT(30)
    <2> QED BY <2>6, <2>9 DEF Holds
  <1> SUFFICES ASSUME TypeInv, MatchInv, LinksAscend, NEW k \in Nat, NEW t \in Nat,
                      NEW v \in Server, NEW q \in Server, NEW z,
                      NoCross(k, t), Holds(q, k, t), Past(log[v], z, k, t)
               PROVE  Holds(v, k, t)
    BY DEF PastHolds
  <1> DEFINE l == log[v]
  <1>1. LogsAscend
    BY AscendingLogs
  <1>2. /\ l \in Seq(Entry(Command)) /\ Len(l) \in Nat
        /\ \A s \in 1..Len(l) : l[s].term \in Nat
    BY Types
  <1>3. t > 0
    BY <1>1 DEF Holds, LogsAscend
  <1>4. CASE z \in 1..Len(l) /\ l[z].term = t /\ z >= k
    BY <1>1, <1>4, <1>SameTermHolds, Zenon
  <1>5. CASE z \in 1..Len(l) /\ l[z].term > t
    <2> DEFINE S == {s \in 1..Len(l) : l[s].term > t}
    <2>1. z \in S /\ S \subseteq Nat
      BY <1>2, <1>5, SMTT(30)
    <2>2. PICK s \in S : \A y \in S : s <= y
      BY <2>1, MinOfNats, Zenon
    <2>3. s \in 1..Len(l) /\ s \in Nat /\ l[s].term > t
      BY <1>2, SMTT(30)
    <2>4. /\ Linked(s, l[s], TermAt(l, s - 1))
          /\ l[s] \in Entry(Command) /\ TermAt(l, s - 1) \in Nat
      BY <1>2, <2>3, LinkInLog DEF Linked, InLog
    <2>5. s > k /\ TermAt(l, s - 1) >= t
      BY <2>3, <2>4 DEF NoCross
    <2>6. s - 1 \in 1..Len(l) /\ TermAt(l, s - 1) = l[s - 1].term
      <3>1. TermAt(l, s - 1) > 0
        BY <1>3, <2>4, <2>5, SMTT(30)
      <3> QED BY <3>1, SMTT(30) DEF TermAt
    <2>7. s - 1 \notin S
      <3> HIDE DEF S
      <3> QED BY <2>2, <2>3, SMTT(30)
    <2>8. l[s - 1].term = t /\ s - 1 >= k
      <3>1. ~(l[s - 1].term > t) /\ l[s - 1].term \in Nat
        BY <1>2, <2>6, <2>7
      <3>2. l[s - 1].term >= t
        BY <2>5, <2>6
      <3> QED BY <2>3, <2>5, <3>1, <3>2, SMTT(30)
    <2> QED BY <1>1, <2>6, <2>8, <1>SameTermHolds
  <1> QED BY <1>4, <1>5 DEF Past

\* The same of the state after a step.
LEMMA HoldsFromPastNext == TypeInv' /\ MatchInv' /\ LinksAscend' => PastHolds'
BY HoldsFromPast, PTL

-----------------------------------------------------------------------------
(* Entries that stay *)

\* Requests of term t or later have what the logs that hold the entry have.
RequestsAgree(k, t) ==
  \A m \in msgs, v \in Server :
    m.type = "AppendEntries" /\ m.term >= t /\ Holds(v, k, t) =>
      \A i \in 1..k : \A e, p :
        Link(m.entries, m.prevLogIndex, m.prevLogTerm, i, e, p) => e = log[v][i]

\* The candidates of later terms that v votes for hold the entry.
VotesHold(v, k, t) ==
  \A c \in Server :
    state[c] = "Candidate" /\ currentTerm[c] > t /\ VoteFor(v, c, currentTerm[c])
      => Holds(c, k, t)

\* So do the nodes that send requests of term t or later.
SendsSince(c, t) ==
  \/ state[c] = "Leader" /\ currentTerm[c] >= t
  \/ \E h \in ticks[c] : h.term >= t
LeadersHold(k, t) == \A c \in Server : SendsSince(c, t) => Holds(c, k, t)

\* The nodes in Q hold the entry of term t at slot k, and nothing is on its
\* way that would take it from them.
Clear(Q, k, t) ==
  /\ NoCross(k, t) /\ RequestsAgree(k, t) /\ LeadersHold(k, t)
  /\ \A v \in Q : currentTerm[v] >= t /\ Holds(v, k, t) /\ VotesHold(v, k, t)

\* The candidates that become Leader in this step hold the entry.
NewLeadersHold(k, t) ==
  \A c \in Server :
    state[c] = "Candidate" /\ state'[c] = "Leader" /\ currentTerm[c] >= t
      => Holds(c, k, t)

\* No request that v may accept conflicts with its log up to slot k.
Unopposed(v, k) ==
  \A m \in msgs :
    m.type = "AppendEntries" /\ m.term >= currentTerm[v]
      => NoConflict(log[v], k, m.entries, m.prevLogIndex, m.prevLogTerm)

\* Then v keeps these slots.
LEMMA UnopposedKeeps ==
  ASSUME Stepped, NEW v \in Server, NEW k \in Nat, k <= Len(log[v]), Unopposed(v, k)
  PROVE  k <= Len(log'[v]) /\ \A j \in 1..k : log'[v][j] = log[v][j]
<1>1. log[v] \in Seq(Entry(Command)) /\ Len(log[v]) \in Nat
  BY Types DEF Stepped
<1>2. CASE log'[v] = log[v]
  BY <1>2
<1>3. ASSUME NEW x, Submits(v, x)
      PROVE  k <= Len(log'[v]) /\ \A j \in 1..k : log'[v][j] = log[v][j]
  <2>1. log'[v] = Append(log[v], x) /\ x \in Entry(Command)
    BY <1>3 DEF Submits
  <2>2. Len(log'[v]) = Len(log[v]) + 1
    BY <1>1, <2>1, AppendLinks
  <2>3. \A j \in 1..Len(log[v]) : log'[v][j] = log[v][j]
    BY <1>1, <2>1, SMTT(30)
  <2> QED BY <1>1, <2>2, <2>3, SMTT(30)
<1>4. ASSUME NEW m \in msgs, Accepts(v, m)
      PROVE  k <= Len(log'[v]) /\ \A j \in 1..k : log'[v][j] = log[v][j]
  <2>1. /\ m.type = "AppendEntries" /\ m.term >= currentTerm[v]
        /\ PrevMatches(log[v], m.prevLogIndex, m.prevLogTerm)
        /\ log'[v] = AppendNew(log[v], m.prevLogIndex, m.entries)
    BY <1>4 DEF Accepts
  <2>2. /\ m.prevLogIndex \in Nat /\ m.prevLogTerm \in Nat
        /\ m.entries \in Seq(Entry(Command))
    BY <2>1, Zenon DEF Stepped, TypeInv, TypeOK, Message
  <2>3. NoConflict(log[v], k, m.entries, m.prevLogIndex, m.prevLogTerm)
    BY <2>1 DEF Unopposed
  <2> QED BY <1>1, <2>1, <2>2, <2>3, AcceptedKeeps, SMTT(30)
<1> QED BY <1>2, <1>3, <1>4 DEF Stepped, LogsMove

\* A node in term t or later keeps the entry and what is before it.
LEMMA HoldKept ==
  ASSUME Stepped, NEW k \in Nat, NEW t \in Nat, RequestsAgree(k, t),
         NEW v \in Server, currentTerm[v] >= t, Holds(v, k, t)
  PROVE  /\ k <= Len(log'[v]) /\ \A j \in 1..k : log'[v][j] = log[v][j]
         /\ Holds(v, k, t)'
<1>1. k \in 1..Len(log[v]) /\ log[v][k].term = t /\ Len(log[v]) \in Nat
  BY Types DEF Holds, Stepped
<1>2. Unopposed(v, k)
  <2>1. ASSUME NEW m \in msgs, m.type = "AppendEntries", m.term >= currentTerm[v]
        PROVE  NoConflict(log[v], k, m.entries, m.prevLogIndex, m.prevLogTerm)
    <3>1. m.term >= t
      <4>1. m.term \in Nat /\ currentTerm[v] \in Nat
        BY <2>1 DEF Stepped, TypeInv, TypeOK, Message
      <4> QED BY <2>1, <4>1, SMTT(30)
    <3> QED BY <2>1, <3>1, Zenon DEF RequestsAgree, NoConflict
  <2> QED BY <2>1 DEF Unopposed
<1>3. k <= Len(log'[v]) /\ \A j \in 1..k : log'[v][j] = log[v][j]
  BY <1>1, <1>2, UnopposedKeeps, SMTT(30)
<1>4. Holds(v, k, t)'
  <2>1. k \in 1..k /\ Len(log'[v]) \in Nat
    <3>1. TypeInv'
      BY DEF Stepped
    <3>2. log'[v] \in Seq(Entry(Command))
      BY <3>1 DEF TypeInv, TypeOK
    <3> QED BY <1>1, <3>2, SMTT(30)
  <2>2. log'[v][k].term = t /\ k \in 1..Len(log'[v])
    BY <1>1, <1>3, <2>1, SMTT(30)
  <2> QED BY <2>2 DEF Holds
<1> QED BY <1>3, <1>4

\* The end of a log that holds the entry.
LEMMA EndOfHolder ==
  ASSUME TypeInv, LogsAscend, NEW k \in Nat, NEW t \in Nat, NEW v \in Server,
         Holds(v, k, t)
  PROVE  /\ LastTerm(log[v]) >= t /\ Len(log[v]) >= k /\ t > 0
         /\ Len(log[v]) \in 1..Len(log[v])
         /\ log[v][Len(log[v])].term = LastTerm(log[v])
<1>1. k \in 1..Len(log[v]) /\ log[v][k].term = t /\ Len(log[v]) \in Nat
  BY Types DEF Holds
<1>2. Len(log[v]) \in 1..Len(log[v]) /\ k <= Len(log[v])
  BY <1>1, SMTT(30)
<1>3. log[v][k].term <= log[v][Len(log[v])].term /\ log[v][k].term > 0
  BY <1>1, <1>2 DEF LogsAscend
<1>4. log[v][Len(log[v])].term = LastTerm(log[v])
  BY <1>2 DEF LastTerm, TermAt
<1>5. LastTerm(log[v]) \in Nat
  BY Types
<1> QED BY <1>1, <1>2, <1>3, <1>4, <1>5

\* A node that holds the entry grants its vote only to those that do.
LEMMA NewVotesHold ==
  ASSUME Stepped, OrderInv, NEW k \in Nat, NEW t \in Nat, NoCross(k, t),
         NEW v \in Server, Holds(v, k, t), VotesHold(v, k, t),
         NEW c \in Server, state[c] = "Candidate", currentTerm[c] > t,
         NEW u \in Nat, u = currentTerm[c], VoteFor(v, c, u)'
  PROVE  Holds(c, k, t)
<1>1. VoteFor(v, c, u) \/ Granted(v, c, u) \/ Enters(c, u)
  BY DEF Stepped, VotesAsked
<1>2. CASE VoteFor(v, c, u)
  BY <1>2 DEF VotesHold
<1>3. ~Enters(c, u)
  BY SMTT(30) DEF Enters
<1>4. CASE Granted(v, c, u)
  <2>1. PICK m \in msgs :
          /\ m.type = "RequestVote" /\ m.src = c /\ m.term = u
          /\ isLogUpToDate(log[v], m.lastLogTerm, m.lastLogIndex)
    BY <1>4 DEF Granted
  <2>2. m.lastLogIndex = Len(log[c]) /\ m.lastLogTerm = LastTerm(log[c])
    BY <2>1 DEF OrderInv, RequestsCurrent
  <2>3. /\ LastTerm(log[v]) \in Nat /\ LastTerm(log[c]) \in Nat
        /\ Len(log[v]) \in Nat /\ Len(log[c]) \in Nat
    BY Types DEF Stepped
  <2>4. LastTerm(log[v]) >= t /\ Len(log[v]) >= k /\ t > 0
    BY EndOfHolder, AscendingLogs DEF Stepped, OrderInv
  <2>5. IF LastTerm(log[c]) # LastTerm(log[v]) THEN LastTerm(log[c]) > LastTerm(log[v])
                                               ELSE Len(log[c]) >= Len(log[v])
    BY <2>1, <2>2 DEF isLogUpToDate, LastIndex
  <2>6. LastTerm(log[c]) > t \/ (LastTerm(log[c]) = t /\ Len(log[c]) >= k)
    BY <2>3, <2>4, <2>5, SMTT(30)
  <2>7. /\ Len(log[c]) \in 1..Len(log[c])
        /\ log[c][Len(log[c])].term = LastTerm(log[c])
    <3>1. LastTerm(log[c]) > 0
      BY <2>3, <2>4, <2>6, SMTT(30)
    <3> QED BY <3>1, SMTT(30) DEF LastTerm, TermAt
  <2>8. Past(log[c], Len(log[c]), k, t)
    BY <2>6, <2>7 DEF Past
  <2> QED BY <2>8, HoldsFromPast DEF Stepped, OrderInv, PastHolds
<1> QED BY <1>1, <1>2, <1>3, <1>4

\* After the step, too.
LEMMA VotesHoldStays ==
  ASSUME Stepped, OrderInv, NEW k \in Nat, NEW t \in Nat, NoCross(k, t),
         RequestsAgree(k, t), NEW v \in Server, currentTerm[v] >= t,
         Holds(v, k, t), VotesHold(v, k, t)
  PROVE  VotesHold(v, k, t)'
<1> SUFFICES ASSUME NEW c \in Server, NEW u \in Nat, u = currentTerm'[c],
                    state'[c] = "Candidate", u > t, VoteFor(v, c, u)'
             PROVE  Holds(c, k, t)'
  BY TermsRise DEF VotesHold
<1>1. CASE currentTerm[c] = u
  <2>1. state[c] = "Candidate"
    BY <1>1, SMTT(30) DEF Stepped, RolesStand
  <2>2. Holds(c, k, t)
    BY <1>1, <2>1, NewVotesHold
  <2>3. log'[c] = log[c]
    BY <2>1, CandidateLog DEF Stepped
  <2> QED BY <2>2, <2>3 DEF Holds
<1>2. CASE currentTerm[c] # u
  <2>1. currentTerm[c] < u
    BY <1>2, TermsRise, SMTT(30)
  <2>2. ~VoteFor(v, c, u) /\ ~VoteFor(c, c, u)
    BY <2>1, TermsRise, SMTT(30) DEF OrderInv, VotesReached
  <2>3. ~Granted(v, c, u)
    BY <2>2 DEF Granted, VoteFor, Asked
  <2>4. v = c
    BY <2>2, <2>3 DEF Stepped, VotesAsked
  <2> QED BY <2>4, HoldKept
<1> QED BY <1>1, <1>2

\* A Leader of a later term appends after the entry.
LEMMA NoCrossStays ==
  ASSUME Stepped, OrderInv, NEW k \in Nat, NEW t \in Nat,
         NoCross(k, t), LeadersHold(k, t)
  PROVE  NoCross(k, t)'
<1> SUFFICES ASSUME NEW i \in Nat, NEW e \in Entry(Command), NEW p \in Nat,
                    Linked(i, e, p)', e.term > t
             PROVE  i > k /\ p >= t
  BY DEF NoCross
<1>1. CASE Linked(i, e, p)
  BY <1>1 DEF NoCross
<1>2. ASSUME NEW n \in Server, Submits(n, e), i = Len(log[n]) + 1, p = LastTerm(log[n])
      PROVE  i > k /\ p >= t
  <2>1. state[n] = "Leader" /\ e.term = currentTerm[n]
    BY <1>2 DEF Submits
  <2>2. currentTerm[n] >= t
    BY <2>1, TermsRise, SMTT(30)
  <2>3. Holds(n, k, t)
    BY <2>1, <2>2 DEF LeadersHold, SendsSince
  <2>4. LastTerm(log[n]) >= t /\ Len(log[n]) >= k
    BY <2>3, EndOfHolder, AscendingLogs DEF Stepped, OrderInv
  <2>5. Len(log[n]) \in Nat
    BY Types DEF Stepped
  <2> QED BY <1>2, <2>4, <2>5, SMTT(30)
<1> QED BY <1>1, <1>2 DEF Stepped, LinksMade

\* Who sends requests has reached their term.
LEMMA TicksReached ==
  ASSUME TypeInv, AckInv, NEW c \in Server, NEW h \in ticks[c]
  PROVE  h.term \in Nat /\ currentTerm[c] >= h.term
<1>1. h.term \in Nat /\ currentTerm[c] \in Nat
  BY SMT DEF TypeInv, TypeOK
<1>2. currentTerm[c] > h.term \/ currentTerm[c] = h.term
  BY DEF AckInv, SendersIssued, Issued, Begun
<1> QED BY <1>1, <1>2, SMTT(30)

\* Who sends, or starts to, holds the entry.
LEMMA LeadersHoldStays ==
  ASSUME Stepped, NEW k \in Nat, NEW t \in Nat,
         RequestsAgree(k, t), LeadersHold(k, t), NewLeadersHold(k, t)
  PROVE  LeadersHold(k, t)'
<1> SUFFICES ASSUME NEW c \in Server, SendsSince(c, t)'
             PROVE  Holds(c, k, t)'
  BY DEF LeadersHold
<1>1. SUFFICES Holds(c, k, t) /\ currentTerm[c] >= t
  BY HoldKept
<1>2. CASE state[c] = "Leader" /\ currentTerm[c] >= t
  BY <1>2 DEF LeadersHold, SendsSince
<1>3. ASSUME NEW h \in ticks[c], h.term >= t
      PROVE  Holds(c, k, t) /\ currentTerm[c] >= t
  <2>1. Holds(c, k, t)
    BY <1>3 DEF LeadersHold, SendsSince
  <2>2. h.term \in Nat /\ currentTerm[c] >= h.term /\ currentTerm[c] \in Nat
    BY TicksReached, TermsRise DEF Stepped
  <2> QED BY <1>3, <2>1, <2>2, SMTT(30)
<1>4. CASE state'[c] = "Leader" /\ currentTerm'[c] >= t
  <2>1. state[c] \in {"Candidate", "Leader"} /\ currentTerm[c] >= t
    BY <1>4 DEF Stepped, RolesStand
  <2> QED BY <1>2, <1>4, <2>1 DEF NewLeadersHold
<1>5. ASSUME NEW h \in ticks'[c], h.term >= t
      PROVE  Holds(c, k, t) /\ currentTerm[c] >= t
  <2>1. h \in ticks[c] \/ (state[c] = "Leader" /\ h.term = currentTerm[c])
    BY <1>5 DEF Stepped, TicksStarted
  <2> QED BY <1>2, <1>3, <1>5, <2>1
<1> QED BY <1>4, <1>5 DEF SendsSince

\* New requests are parts of logs that hold the entry.
LEMMA RequestsAgreeStays ==
  ASSUME Stepped, NEW k \in Nat, NEW t \in Nat,
         RequestsAgree(k, t), LeadersHold(k, t),
         NEW q \in Server, Holds(q, k, t), currentTerm[q] >= t
  PROVE  RequestsAgree(k, t)'
<1> SUFFICES ASSUME NEW m \in msgs', NEW v \in Server, m.type = "AppendEntries",
                    m.term >= t, Holds(v, k, t)', NEW i \in 1..k, NEW e, NEW p,
                    Link(m.entries, m.prevLogIndex, m.prevLogTerm, i, e, p)
             PROVE  e = log'[v][i]
  BY Zenon DEF RequestsAgree
<1>1. Holds(q, k, t)' /\ \A j \in 1..k : log'[q][j] = log[q][j]
  BY HoldKept, Zenon
<1>2. \A j \in 1..k : log'[v][j] = log'[q][j]
  <2>1. SlotsMatch'
    BY MatchedSlotsNext DEF Stepped
  <2> QED BY <1>1, <2>1 DEF SlotsMatch, Holds
<1>3. SUFFICES e = log[q][i]
  BY <1>1, <1>2
<1>4. CASE m \in msgs
  BY <1>4, Zenon DEF RequestsAgree
<1>5. CASE m \notin msgs
  <2> DEFINE c == m.src
  <2>1. \/ state[c] = "Leader" /\ Sends(m, currentTerm[c], commitIndex[c])
        \/ \E h \in ticks[c] : Sends(m, h.term, h.commitIndex)
    BY <1>5 DEF Stepped, RequestsSent
  <2>2. SendsSince(c, t) /\ \E a, b : Sends(m, a, b)
    BY <2>1 DEF SendsSince, Sends
  <2>3. PICK next \in Nat \ {0} :
          /\ m.prevLogIndex = next - 1 /\ m.prevLogTerm = TermAt(log[c], next - 1)
          /\ m.entries = EntriesFrom(log[c], next)
    BY <2>2 DEF Sends
  <2>4. c \in Server
    BY Zenon DEF Stepped, TypeInv, TypeOK, Message
  <2>5. Holds(c, k, t)
    BY <2>2, <2>4 DEF LeadersHold
  <2>6. log[c] \in Seq(Entry(Command)) /\ i \in Nat
    BY <2>4, Types, SMTT(30) DEF Stepped
  <2>7. Link(log[c], 0, 0, i, e, p)
    BY <2>3, <2>6, SentLinks
  <2>8. e = log[c][i]
    BY <2>6, <2>7, SMTT(30) DEF Link
  <2>9. SlotsMatch
    BY MatchedSlots DEF Stepped
  <2>10. log[c][i] = log[q][i]
    <3>1. \A j \in 1..k : log[c][j] = log[q][j]
      <4> HIDE DEF c
      <4> QED BY <2>4, <2>5, <2>9, SMTT(30) DEF SlotsMatch, Holds
    <3> QED BY <3>1
  <2> QED BY <2>8, <2>10
<1> QED BY <1>4, <1>5

\* An entry is safe with those that hold it as long as new Leaders have it.
LEMMA ClearStays ==
  ASSUME Stepped, OrderInv, NEW k \in Nat, NEW t \in Nat, NEW Q \in SUBSET Server,
         Q # {}, Clear(Q, k, t), NewLeadersHold(k, t)
  PROVE  Clear(Q, k, t)'
<1>1. NoCross(k, t) /\ RequestsAgree(k, t) /\ LeadersHold(k, t)
  BY DEF Clear
<1>2. ASSUME NEW v \in Q PROVE currentTerm[v] >= t /\ Holds(v, k, t) /\ VotesHold(v, k, t)
  BY DEF Clear
<1>3. PICK q \in Server : q \in Q
  OBVIOUS
<1>4. RequestsAgree(k, t)'
  BY <1>1, <1>2, <1>3, RequestsAgreeStays
<1>5. NoCross(k, t)' /\ LeadersHold(k, t)'
  BY <1>1, NoCrossStays, LeadersHoldStays
<1>6. ASSUME NEW v \in Q
      PROVE  (currentTerm[v] >= t /\ Holds(v, k, t) /\ VotesHold(v, k, t))'
  <2>1. currentTerm[v] >= t /\ Holds(v, k, t) /\ VotesHold(v, k, t) /\ v \in Server
    BY <1>2
  <2>2. currentTerm'[v] >= t
    BY <2>1, TermsRise, SMTT(30)
  <2>3. Holds(v, k, t)' /\ VotesHold(v, k, t)'
    BY <1>1, <2>1, HoldKept, VotesHoldStays
  <2> QED BY <2>2, <2>3
<1> QED BY <1>4, <1>5, <1>6 DEF Clear

\* A Leader of term t was there before the first entry of term t, so nobody
\* becomes it when some log holds one.
LEMMA NoSecondLeader ==
  ASSUME Stepped, NEW k \in Nat, NEW t \in Nat, NEW q \in Server, Holds(q, k, t),
         NEW w \in Server, state[w] = "Candidate", state'[w] = "Leader"
  PROVE  currentTerm[w] # t
<1> SUFFICES ASSUME currentTerm[w] = t PROVE FALSE
  OBVIOUS
<1>1. /\ log[q] \in Seq(Entry(Command)) /\ k \in 1..Len(log[q]) /\ log[q][k].term = t
  BY Types DEF Stepped, Holds
<1>2. PICK p \in Nat : Linked(k, log[q][k], p) /\ log[q][k] \in Entry(Command)
  BY <1>1, LinkInLog DEF Linked, InLog
<1>3. PICK d \in Server : Elected(d, t) /\ Begun(d, t)
  BY <1>1, <1>2 DEF Stepped, MatchInv, LinksElected
<1>4. Elected(d, t)'
  BY <1>3, ElectedStays DEF Stepped
<1>5. currentTerm'[w] = t
  BY DEF Stepped, RolesStand
<1>6. OnlyLeaderElected'
  BY LeaderOnlyElectedNext DEF Stepped
<1>7. d = w
  BY <1>4, <1>5, <1>6 DEF OnlyLeaderElected
<1> QED BY <1>3, <1>7, TermsRise, SMTT(30) DEF Begun

\* None of those that vote for a Leader without the entry have it and vote
\* for those only that have it.
LEMMA NewLeaderVoters ==
  ASSUME Stepped, OrderInv, NEW k \in Nat, NEW t \in Nat, NoCross(k, t),
         NEW q \in Server, Holds(q, k, t), ~NewLeadersHold(k, t)
  PROVE  \E A \in SUBSET Server :
           /\ Cardinality(A) >= Majority
           /\ \A v \in A : currentTerm'[v] > t /\ ~(Holds(v, k, t) /\ VotesHold(v, k, t))
<1>1. PICK w \in Server : /\ state[w] = "Candidate" /\ state'[w] = "Leader"
                          /\ currentTerm[w] >= t /\ ~Holds(w, k, t)
  BY DEF NewLeadersHold
<1>2. PICK u \in Nat : u = currentTerm[w]
  BY TermsRise
<1>3. u > t
  BY <1>1, <1>2, NoSecondLeader, SMTT(30)
<1>4. currentTerm'[w] = u
  BY <1>1, <1>2 DEF Stepped, RolesStand
<1> DEFINE A == votesReceived'[w]
<1>5. A \in SUBSET Server /\ Cardinality(A) >= Majority
  <2>1. TypeInv' /\ VotesCounted'
    BY DEF Stepped, VoteInv
  <2>2. votesReceived'[w] \in SUBSET Server
    BY <2>1 DEF TypeInv, TypeOK
  <2>3. Cardinality(votesReceived'[w]) >= Majority
    BY <1>1, <2>1 DEF VotesCounted
  <2> QED BY <2>2, <2>3
<1>6. ASSUME NEW v \in A
      PROVE  currentTerm'[v] > t /\ ~(Holds(v, k, t) /\ VotesHold(v, k, t))
  <2>1. v \in Server /\ VoteFor(v, w, u)'
    BY <1>1, <1>4, <1>5 DEF VoteFor, Counted
  <2>2. Voted(v, w, u)'
    BY <2>1 DEF Stepped, VoteInv, VotesRemembered
  <2>3. currentTerm'[v] > t
    BY <1>3, <2>1, <2>2, TermsRise, SMTT(30) DEF Voted
  <2>4. ~(Holds(v, k, t) /\ VotesHold(v, k, t))
    BY <1>1, <1>2, <1>3, <2>1, NewVotesHold
  <2> QED BY <2>3, <2>4
<1> QED BY <1>5, <1>6

\* A majority holds the entry, and no one can win an election without it.
Anchored(k, t) ==
  \E Q \in SUBSET Server : Cardinality(Q) >= Majority /\ Clear(Q, k, t)

\* Such an entry is there for good.
LEMMA AnchoredStays ==
  ASSUME Stepped, OrderInv, NEW k \in Nat, NEW t \in Nat, Anchored(k, t)
  PROVE  Anchored(k, t)'
<1>1. PICK Q \in SUBSET Server : Cardinality(Q) >= Majority /\ Clear(Q, k, t)
  BY DEF Anchored
<1>2. PICK q \in Server : q \in Q
  BY <1>1, MajoritiesMeet
<1>3. NewLeadersHold(k, t)
  <2> SUFFICES ASSUME ~NewLeadersHold(k, t) PROVE FALSE
    OBVIOUS
  <2>1. Holds(q, k, t) /\ NoCross(k, t)
    BY <1>1, <1>2 DEF Clear
  <2>2. PICK A \in SUBSET Server :
           /\ Cardinality(A) >= Majority
           /\ \A v \in A : ~(Holds(v, k, t) /\ VotesHold(v, k, t))
    BY <2>1, NewLeaderVoters
  <2>3. PICK v \in Server : v \in A /\ v \in Q
    BY <1>1, <2>2, MajoritiesMeet
  <2> QED BY <1>1, <2>2, <2>3 DEF Clear
<1>4. Clear(Q, k, t)'
  BY <1>1, <1>2, <1>3, ClearStays
<1> QED BY <1>1, <1>4 DEF Anchored

=============================================================================
