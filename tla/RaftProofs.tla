----------------------------- MODULE RaftProofs -----------------------------
(***************************************************************************)
(* The type invariant of Raft, and that the elections of a cluster are     *)
(* safe: for any cluster and any bounds and with nodes crashing and        *)
(* restarting from their WAL, the elections as long as no disk fails.      *)
(*                                                                         *)
(* The logs of a cluster agree, for any cluster and any bounds, while no   *)
(* node crashes.  Logs are taken apart into links: an entry, the slot it   *)
(* is at and the term of the entry before it.  A link is made once, by the *)
(* Leader of its term, and only copied after that.  It follows that what a *)
(* follower acknowledged in a term it still has, so a Leader's matchIndex  *)
(* is right.                                                               *)
(***************************************************************************)
EXTENDS Raft, RaftLogProofs

\* Most leaves are first-order; the ones that need arithmetic cite SMT.
USE ZenonT(30)

-----------------------------------------------------------------------------
(* The middle of what is acknowledged *)

\* The value in the middle of the sorted list is reached by a majority.
LEMMA MiddleOfSorted ==
  ASSUME NEW f \in [Server -> Nat], NEW B \in Nat, \A s \in Server : f[s] <= B,
         Server # {}
  PROVE  LET x == SortedDescAt(f, Cardinality(DOMAIN f) \div 2)
         IN  x \in Nat /\ Cardinality({s \in Server : f[s] >= x}) >= Majority
<1>1. PICK x : x = SortedDescAt(f, Cardinality(DOMAIN f) \div 2)
  OBVIOUS
<1>2. IsMiddle(Server, f, x)
  BY <1>1, ServerAssumption, SortedMiddle
<1>3. /\ x \in Nat
      /\ Cardinality({s \in Server : f[s] >= x}) > Cardinality(Server) \div 2
  BY <1>2 DEF IsMiddle
<1>4. /\ Cardinality(Server) \in Nat
      /\ Cardinality({s \in Server : f[s] >= x}) \in Nat
  BY ServerAssumption, FS_CardinalityType, FS_Subset
<1>5. Cardinality({s \in Server : f[s] >= x}) >= Majority
  BY <1>3, <1>4, SMT DEF Majority
<1> QED BY <1>1, <1>3, <1>5

-----------------------------------------------------------------------------
(* Types *)

\* A refusal that names a conflicting term also names a slot.  Without it a
\* hint could move nextIndex to 0, and TypeOK would not be inductive.
HintsNameSlots ==
  \A m \in msgs : m.type = "AppendReply" /\ m.conflictTerm > 0 => m.conflictIndex > 0

TypeInv == TypeOK /\ HintsNameSlots

\* The WAL's summary keeps its type when a record is added.
LEMMA PersistType ==
  ASSUME NEW w \in WALState
  PROVE  /\ \A t \in Nat : PersistTerm(w, t) \in WALState
         /\ \A c \in Server, t \in Nat : PersistVote(w, c, t) \in WALState
         /\ \A es \in Seq(Entry(Command)) : PersistEntries(w, es) \in WALState
<1>1. w.term \in Nat /\ w.entries \in Seq(Entry(Command))
  BY DEF WALState
<1>2. \A t \in Nat : PersistTerm(w, t) \in WALState
  BY DEF PersistTerm, WALState
<1>3. \A c \in Server, t \in Nat : PersistVote(w, c, t) \in WALState
  <2> TAKE c \in Server, t \in Nat
  <2>1. Max({w.term, t}) \in Nat
    BY <1>1, MaxOfTwo
  <2> QED BY <2>1, Zenon DEF PersistVote, WALState
<1>4. \A es \in Seq(Entry(Command)) : PersistEntries(w, es) \in WALState
  <2> TAKE es \in Seq(Entry(Command))
  <2>1. w.entries \o es \in Seq(Entry(Command))
    BY <1>1, JoinType
  <2> QED BY <2>1, Zenon DEF PersistEntries, WALState
<1> QED BY <1>2, <1>3, <1>4

\* The initial state is well-typed.
LEMMA InitType == Init => TypeInv
<1> SUFFICES ASSUME Init PROVE TypeInv
  OBVIOUS
<1>1. <<>> \in Seq(Entry(Command))
  BY SMT
<1>2. EmptyWAL \in WALState
  BY <1>1 DEF EmptyWAL, WALState
<1> QED BY <1>1, <1>2 DEF Init, TypeInv, TypeOK, HintsNameSlots

\* Whatever a crash leaves in the WAL is well-formed and of a term that is
\* not lower, and keeps the vote.
LEMMA CrashPointsType ==
  ASSUME TypeInv, NEW n \in Server, NEW w \in CrashPoints(n)
  PROVE  /\ w \in WALState
         /\ w.votedFor = wal[n].votedFor
         /\ w = wal[n] \/ w.term > currentTerm[n] \/ w.term = wal[n].term
<1>1. wal[n] \in WALState /\ currentTerm[n] \in Nat /\ log[n] \in Seq(Entry(Command))
  BY DEF TypeInv, TypeOK
<1>2. ASSUME NEW t \in Nat, t > currentTerm[n], w = PersistTerm(wal[n], t)
      PROVE  /\ w \in WALState /\ w.votedFor = wal[n].votedFor
             /\ w.term > currentTerm[n]
  <2>1. w \in WALState
    BY <1>1, <1>2, PersistType
  <2> QED BY <1>1, <1>2, <2>1 DEF PersistTerm, WALState
<1>3. ASSUME NEW m \in msgs, m.type = "AppendEntries", m.term >= currentTerm[n],
             NEW k \in 0..Len(NewEntries(log[n], m.prevLogIndex, m.entries)),
             w = PersistEntries(IF m.term > currentTerm[n]
                                THEN PersistTerm(wal[n], m.term) ELSE wal[n],
                                SubSeq(NewEntries(log[n], m.prevLogIndex, m.entries), 1, k))
      PROVE  /\ w \in WALState /\ w.votedFor = wal[n].votedFor
             /\ w.term > currentTerm[n] \/ w.term = wal[n].term
  <2> DEFINE v == IF m.term > currentTerm[n] THEN PersistTerm(wal[n], m.term) ELSE wal[n]
             new == NewEntries(log[n], m.prevLogIndex, m.entries)
  <2>1. /\ m.term \in Nat /\ m.prevLogIndex \in Nat
        /\ m.entries \in Seq(Entry(Command))
    BY <1>3 DEF TypeInv, TypeOK, Message
  <2>2. v \in WALState
    BY <1>1, <2>1, PersistType
  <2>3. v.votedFor = wal[n].votedFor /\ (v.term > currentTerm[n] \/ v.term = wal[n].term)
    BY <1>1, <2>1 DEF PersistTerm, WALState
  <2>4. new \in Seq(Entry(Command))
    BY <1>1, <2>1, NewEntriesType
  <2>5. SubSeq(new, 1, k) \in Seq(Entry(Command))
    <3> HIDE DEF new
    <3>1. k \in Nat /\ k <= Len(new)
      BY <1>3, <2>4, SMT DEF new
    <3> QED BY <2>4, <3>1, SubSeqType, SMT
  <2>6. w = PersistEntries(v, SubSeq(new, 1, k))
    BY <1>3
  <2> HIDE DEF v, new
  <2>7. w \in WALState
    BY <2>2, <2>5, <2>6, PersistType, Zenon
  <2>8. w.votedFor = v.votedFor /\ w.term = v.term
    BY <2>2, <2>6 DEF PersistEntries, WALState
  <2> QED BY <2>3, <2>7, <2>8
<1>4. CASE w = wal[n]
  BY <1>1, <1>4
<1>5. CASE \E t \in {currentTerm[n] + 1} \cap {t \in 1..MaxTerm : n \in MayElect[t]} :
             w = PersistTerm(wal[n], t)
  BY <1>1, <1>2, <1>5, SMT
<1>6. CASE \E m \in msgs : /\ m.type = "RequestVote" /\ m.term > currentTerm[n]
                           /\ w = PersistTerm(wal[n], m.term)
  <2>1. PICK m \in msgs : /\ m.type = "RequestVote" /\ m.term > currentTerm[n]
                          /\ w = PersistTerm(wal[n], m.term)
    BY <1>6
  <2>2. m.term \in Nat
    BY <2>1 DEF TypeInv, TypeOK, Message
  <2> QED BY <1>2, <2>1, <2>2
<1>7. CASE \E m \in msgs :
             /\ m.type = "AppendEntries" /\ m.term >= currentTerm[n]
             /\ \E k \in 0..Len(NewEntries(log[n], m.prevLogIndex, m.entries)) :
                  w = PersistEntries(IF m.term > currentTerm[n]
                                     THEN PersistTerm(wal[n], m.term) ELSE wal[n],
                        SubSeq(NewEntries(log[n], m.prevLogIndex, m.entries), 1, k))
  BY <1>3, <1>7
<1> QED BY <1>4, <1>5, <1>6, <1>7 DEF CrashPoints

\* Every step preserves the types.
LEMMA NextType == TypeInv /\ [Next]_vars => TypeInv'
  \* The first slot of a term, if the log has one.
  <1>FindFirstType.
      ASSUME NEW C, NEW l \in Seq(Entry(C)), NEW t
      PROVE  /\ FindFirstIndexOfTerm(l, t) \in 0..Len(l)
             /\ (\E i \in 1..Len(l) : l[i].term = t) => FindFirstIndexOfTerm(l, t) > 0
    <2> USE <1>FindFirstType
    <2> DEFINE at == {i \in 1..Len(l) : l[i].term = t}
    <2>1. CASE at = {}
      BY <2>1, SMT DEF FindFirstIndexOfTerm
    <2>2. CASE at # {}
      <3>1. at \subseteq Nat
        BY SMT
      <3>2. Min(at) \in at
        BY <3>1, <2>2, MinOfNats, Zenon
      <3> QED BY <2>2, <3>2, SMT DEF FindFirstIndexOfTerm
    <2> QED BY <2>1, <2>2
  \* A hint names a slot whenever it names a term.
  <1>ConflictHintType.
      ASSUME NEW C, NEW l \in Seq(Entry(C)), NEW prev \in Nat
      PROVE  /\ ConflictHint(l, prev) \in [term : Nat, index : Nat]
             /\ ConflictHint(l, prev).term > 0 => ConflictHint(l, prev).index > 0
    <2> USE <1>ConflictHintType
    <2>1. CASE Contains(l, prev)
      <3> DEFINE t == TermAt(l, prev)
      <3>1. t \in Nat /\ FindFirstIndexOfTerm(l, t) \in Nat
        BY TermAtType, <1>FindFirstType, SMT
      <3>2. t > 0 => FindFirstIndexOfTerm(l, t) > 0
        <4> HAVE t > 0
        <4>1. prev \in 1..Len(l)
          BY TermAtType
        <4>2. l[prev].term = t
          BY <4>1 DEF TermAt
        <4> QED BY <4>1, <4>2, <1>FindFirstType
      <3> QED BY <2>1, <3>1, <3>2 DEF ConflictHint
    <2>2. CASE ~Contains(l, prev)
      BY <2>2, SMT DEF ConflictHint, LastIndex
    <2> QED BY <2>1, <2>2
  \* handleConflictLocked never moves nextIndex to 0.
  <1>NextIndexType.
      ASSUME NEW C, NEW l \in Seq(Entry(C)), NEW next \in Nat,
             NEW t \in Nat, NEW i \in Nat, t > 0 => i > 0
      PROVE  /\ NextIndexAfterConflict(l, next, t, i) \in Nat
             /\ next >= 1 => NextIndexAfterConflict(l, next, t, i) >= 1
    <2> USE <1>NextIndexType
    <2> DEFINE ofTerm == {k \in 1..Len(l) : l[k].term = t}
    <2>1. ofTerm # {} => Max(ofTerm) \in 1..Len(l)
      <3>1. ofTerm \subseteq 1..Len(l) /\ Len(l) \in Nat
        BY SMT
      <3> HIDE DEF ofTerm
      <3>2. ofTerm # {} => Max(ofTerm) \in ofTerm
        BY <3>1, MaxOfSlots, Zenon
      <3> QED BY <3>1, <3>2, Zenon
    <2>2. NextIndexAfterConflict(l, next, t, i) =
            IF t > 0
            THEN IF ofTerm # {} THEN Max(ofTerm) + 1 ELSE i
            ELSE IF i > 0 THEN i ELSE IF next > 1 THEN next - 1 ELSE next
      BY DEF NextIndexAfterConflict
    <2> HIDE DEF ofTerm
    <2> QED BY <2>1, <2>2, SMT
  \* A follower's commit index is a natural.
  <1>FollowerCommitType.
      ASSUME NEW C, NEW l \in Seq(Entry(C)), NEW c \in Nat, NEW lc \in Nat
      PROVE  FollowerCommit(l, c, lc) \in Nat
    <2> USE <1>FollowerCommitType
    <2>1. Len(l) \in Nat
      BY SMT
    <2> QED BY <2>1, MinOfTwo DEF FollowerCommit, LastIndex
  \* So is the Leader's.
  <1>LeaderCommitType.
      ASSUME NEW C, NEW l \in Seq(Entry(C)), NEW t, NEW c \in Nat, NEW match
      PROVE  LeaderCommitIndex(l, t, c, match) \in Nat
    <2> USE <1>LeaderCommitType
    <2>1. Len(l) \in Nat
      BY SMT
    <2> QED BY <2>1, SMT DEF LeaderCommitIndex, Contains
  \* Saving a well-formed summary leaves the WALs well-formed.
  <1>SaveType.
      ASSUME wal \in [Server -> WALState], NEW n \in Server, NEW w \in WALState,
             Save(n, w)
      PROVE  wal' \in [Server -> WALState]
    BY <1>SaveType DEF Save
  \* StartElection preserves the types.
  <1>StartElectionType.
      ASSUME TypeInv, NEW n \in Server, StartElection(n)
      PROVE  TypeInv'
    <2> USE <1>StartElectionType
    <2> DEFINE term == currentTerm[n] + 1
               request(p) == [type |-> "RequestVote", src |-> n, dst |-> p, term |-> term,
                              lastLogIndex |-> LastIndex(log[n]),
                              lastLogTerm |-> LastTerm(log[n])]
    <2>1. term \in Nat /\ log[n] \in Seq(Entry(Command)) /\ wal[n] \in WALState
      BY SMT DEF TypeInv, TypeOK
    <2>2. LastIndex(log[n]) \in Nat /\ LastTerm(log[n]) \in Nat
      BY <2>1, TermAtType, SMT DEF LastIndex, LastTerm
    <2>3. \A p \in Server : request(p) \in Message /\ request(p).type = "RequestVote"
      BY <2>1, <2>2 DEF Message
    <2>4. msgs' \subseteq msgs \cup {request(p) : p \in Peers(n)}
      BY DEF StartElection, Send
    <2>5. msgs' \subseteq Message /\ HintsNameSlots'
      <3> HIDE DEF request
      <3>1. \A m \in msgs' : m \in msgs \/ \E p \in Server : m = request(p)
        BY <2>4 DEF Peers
      <3>2. msgs \subseteq Message /\ HintsNameSlots
        BY DEF TypeInv, TypeOK
      <3>3. msgs' \subseteq Message
        BY <2>3, <3>1, <3>2
      <3>4. HintsNameSlots'
        BY <2>3, <3>1, <3>2 DEF HintsNameSlots
      <3> QED BY <3>3, <3>4
    <2>6. wal' \in [Server -> WALState]
      <3>1. PersistVote(PersistTerm(wal[n], term), n, term) \in WALState
        BY <2>1, PersistType
      <3> QED BY <3>1, <1>SaveType DEF StartElection, TypeInv, TypeOK
    <2> QED BY <2>1, <2>5, <2>6, Zenon
            DEF StartElection, TypeInv, TypeOK, logVars, leaderVars, diskVars
  \* A single well-formed reply keeps msgs well-formed, sent or ignored.
  <1>RespondType.
      ASSUME TypeInv, NEW r \in Message, Respond(r),
             r.type = "AppendReply" /\ r.conflictTerm > 0 => r.conflictIndex > 0
      PROVE  msgs' \subseteq Message /\ HintsNameSlots'
    <2> USE <1>RespondType
    <2>1. msgs' \subseteq msgs \cup {r}
      BY DEF Respond, Send
    <2> QED BY <2>1 DEF TypeInv, TypeOK, HintsNameSlots
  \* Dropping messages does no harm.
  <1>NoSendType.
      ASSUME TypeInv, Send({})
      PROVE  msgs' \subseteq Message /\ HintsNameSlots'
    <2> USE <1>NoSendType
    <2>1. msgs' \subseteq msgs
      BY DEF Send
    <2> QED BY <2>1 DEF TypeInv, TypeOK, HintsNameSlots
  \* HandleRequestVote preserves the types.
  <1>HandleRequestVoteType.
      ASSUME TypeInv, NEW m \in msgs, HandleRequestVote(m)
      PROVE  TypeInv'
    <2> USE <1>HandleRequestVoteType
    <2> DEFINE n == m.dst
               newer == m.term > currentTerm[n]
               term == Max({m.term, currentTerm[n]})
               voted == IF newer THEN Nil ELSE votedFor[n]
               granted == /\ m.term >= currentTerm[n]
                          /\ CanVote(voted, m.src)
                          /\ isLogUpToDate(log[n], m.lastLogTerm, m.lastLogIndex)
               stepped == IF newer THEN PersistTerm(wal[n], term) ELSE wal[n]
               saved == IF granted THEN PersistVote(stepped, m.src, term) ELSE stepped
               reply == [type |-> "VoteReply", src |-> n, dst |-> m.src,
                         reqTerm |-> m.term, term |-> term, granted |-> granted]
    <2>1. m.type = "RequestVote" /\ m.src \in Server /\ n \in Server /\ m.term \in Nat
      BY Zenon DEF HandleRequestVote, TypeInv, TypeOK, Message
    <2>2. currentTerm[n] \in Nat /\ wal[n] \in WALState /\ voted \in Server \cup {Nil}
      BY <2>1 DEF TypeInv, TypeOK
    <2>3. term \in Nat
      BY <2>1, <2>2, MaxOfTwo
    <2>4. granted \in BOOLEAN
      OBVIOUS
    <2>5. saved \in WALState
      BY <2>1, <2>2, <2>3, PersistType, Zenon
    <2>6. reply \in Message /\ reply.type = "VoteReply"
      <3> HIDE DEF granted, term, n
      <3> QED BY <2>1, <2>3, <2>4 DEF Message
    <2>7. /\ currentTerm' = [currentTerm EXCEPT ![n] = term]
          /\ votedFor' = [votedFor EXCEPT ![n] = IF granted THEN m.src ELSE voted]
          /\ IF newer THEN StepDown(n) ELSE UNCHANGED <<state, votes, votesReceived>>
          /\ Save(n, saved)
          /\ Respond(reply)
          /\ UNCHANGED <<leaderID, logVars, leaderVars, diskVars>>
      BY DEF HandleRequestVote
    <2> HIDE DEF n, newer, term, voted, granted, stepped, saved, reply
    <2>8. msgs' \subseteq Message /\ HintsNameSlots'
      BY <2>6, <2>7, <1>RespondType
    <2>9. wal' \in [Server -> WALState]
      BY <2>1, <2>5, <2>7, <1>SaveType, Zenon DEF TypeInv, TypeOK
    <2>10. /\ state' \in [Server -> {"Follower", "Candidate", "Leader"}]
           /\ votes' \in [Server -> Nat]
           /\ votesReceived' \in [Server -> SUBSET Server]
           /\ \A k \in Server : state'[k] = "Leader" => state[k] = "Leader"
      <3>1. CASE newer
        <4>1. StepDown(n)
          BY <2>7, <3>1
        <4> QED BY <2>1, <4>1, Zenon DEF TypeInv, TypeOK, StepDown
      <3>2. CASE ~newer
        BY <2>7, <3>2 DEF TypeInv, TypeOK
      <3> QED BY <3>1, <3>2
    <2> QED BY <2>1, <2>2, <2>3, <2>7, <2>8, <2>9, <2>10, Zenon
            DEF TypeInv, TypeOK, logVars, leaderVars, diskVars
  \* becomeFollowerLocked preserves the types, in whichever reply handler it is
  \* called.
  <1>BecomeFollowerType.
      ASSUME TypeInv, NEW n \in Server, NEW term \in Nat,
             BecomeFollower(n, term), Send({}),
             UNCHANGED <<logVars, leaderVars, diskVars>>
      PROVE  TypeInv'
    <2> USE <1>BecomeFollowerType
    <2>1. msgs' \subseteq Message /\ HintsNameSlots'
      BY <1>NoSendType
    <2>2. wal' \in [Server -> WALState]
      <3>1. wal[n] \in WALState
        BY DEF TypeInv, TypeOK
      <3>2. PersistTerm(wal[n], term) \in WALState
        BY <3>1, PersistType
      <3> QED BY <3>2, <1>SaveType DEF BecomeFollower, TypeInv, TypeOK
    <2>3. /\ state' \in [Server -> {"Follower", "Candidate", "Leader"}]
          /\ votes' \in [Server -> Nat]
          /\ votesReceived' \in [Server -> SUBSET Server]
          /\ \A k \in Server : state'[k] = "Leader" => state[k] = "Leader"
      BY DEF TypeInv, TypeOK, BecomeFollower, StepDown
    <2> QED BY <2>1, <2>2, <2>3, Zenon
            DEF TypeInv, TypeOK, BecomeFollower, logVars, leaderVars, diskVars
  \* A vote reply preserves the types.
  <1>VoteReplyType.
      ASSUME TypeInv, NEW m \in msgs, StepDownOnVoteReply(m) \/ CountVote(m)
      PROVE  TypeInv'
    <2> USE <1>VoteReplyType
    <2> DEFINE n == m.dst
    <2>1. m.type = "VoteReply" /\ m.src \in Server /\ n \in Server /\ m.term \in Nat
      BY Zenon DEF StepDownOnVoteReply, CountVote, TypeInv, TypeOK, Message
    <2>2. CASE StepDownOnVoteReply(m)
      BY <2>1, <2>2, <1>BecomeFollowerType DEF StepDownOnVoteReply
    <2>3. CASE CountVote(m)
      <3> DEFINE next == [p \in Server |-> IF p = n THEN nextIndex[n][p]
                                          ELSE LastIndex(log[n]) + 1]
      <3>1. msgs' \subseteq Message /\ HintsNameSlots'
        BY <2>3, <1>NoSendType DEF CountVote
      <3>2. LastIndex(log[n]) \in Nat
        BY <2>1, SMT DEF TypeInv, TypeOK, LastIndex
      <3>3. /\ votes' \in [Server -> Nat]
            /\ votesReceived' \in [Server -> SUBSET Server]
        <4>1. /\ votesReceived' = [votesReceived EXCEPT ![n] = votesReceived[n] \cup {m.src}]
              /\ votes' = [votes EXCEPT ![n] = votes[n] + 1]
          BY <2>3 DEF CountVote
        <4>2. votes \in [Server -> Nat] /\ votesReceived \in [Server -> SUBSET Server]
          BY DEF TypeInv, TypeOK
        <4>3. votesReceived[n] \cup {m.src} \in SUBSET Server
          BY <2>1, <4>2
        <4>4. votes[n] + 1 \in Nat
          BY <2>1, <4>2, SMT
        <4> HIDE DEF n
        <4> QED BY <2>1, <4>1, <4>2, <4>3, <4>4
      <3>4. CASE votes[n] + 1 >= Majority
        <4>1. BecomeLeader(n)
          BY <2>3, <3>4 DEF CountVote
        <4>2. nextIndex' \in [Server -> [Server -> Nat]]
          <5>1. nextIndex' = [nextIndex EXCEPT ![n] = next]
            BY <4>1 DEF BecomeLeader
          <5>2. nextIndex \in [Server -> [Server -> Nat]]
            BY DEF TypeInv, TypeOK
          <5>3. next \in [Server -> Nat]
            BY <2>1, <3>2, <5>2, SMT
          <5> HIDE DEF next
          <5> QED BY <5>1, <5>2, <5>3, Zenon
        <4>3. \A p \in Peers(n) : nextIndex'[n][p] >= 1
          <5>1. nextIndex' = [nextIndex EXCEPT ![n] = next]
            BY <4>1 DEF BecomeLeader
          <5>2. nextIndex \in [Server -> [Server -> Nat]]
            BY DEF TypeInv, TypeOK
          <5>3. nextIndex'[n] = next
            BY <2>1, <5>1, <5>2
          <5>4. \A p \in Peers(n) : next[p] >= 1
            BY <3>2, SMT DEF Peers
          <5> HIDE DEF next
          <5> QED BY <5>3, <5>4
        <4>4. \A k \in Server \ {n} : nextIndex'[k] = nextIndex[k] /\ state'[k] = state[k]
          BY <4>1, <2>1 DEF BecomeLeader, TypeInv, TypeOK
        <4>5. /\ state' \in [Server -> {"Follower", "Candidate", "Leader"}]
              /\ leaderID' \in [Server -> Server \cup {Nil}]
              /\ matchIndex' \in [Server -> [Server -> Nat]]
          BY <4>1, <2>1, Zenon DEF BecomeLeader, TypeInv, TypeOK
        <4>6. \A k \in Server : state'[k] = "Leader" \/ ticks'[k] # {} =>
                \A p \in Peers(k) : nextIndex'[k][p] >= 1
          BY <2>3, <4>3, <4>4, Zenon DEF CountVote, TypeInv, TypeOK
        <4> QED BY <2>3, <3>1, <3>3, <4>2, <4>5, <4>6, Zenon
                DEF CountVote, TypeInv, TypeOK, logVars, diskVars
      <3>5. CASE ~(votes[n] + 1 >= Majority)
        <4>1. UNCHANGED <<state, leaderID, nextIndex, matchIndex>>
          BY <2>3, <3>5 DEF CountVote
        <4> QED BY <2>3, <3>1, <3>3, <4>1, Zenon
                DEF CountVote, TypeInv, TypeOK, logVars, diskVars
      <3> QED BY <3>4, <3>5
    <2> QED BY <2>2, <2>3
  \* SubmitCommand preserves the types.
  <1>SubmitCommandType.
      ASSUME TypeInv, NEW n \in Server, NEW c \in Command, SubmitCommand(n, c)
      PROVE  TypeInv'
    <2> USE <1>SubmitCommandType
    <2> DEFINE entry == [term |-> currentTerm[n], index |-> LastIndex(log[n]) + 1,
                         command |-> c]
    <2>1. log[n] \in Seq(Entry(Command)) /\ wal[n] \in WALState
      BY DEF TypeInv, TypeOK
    <2>2. entry \in Entry(Command)
      BY <2>1, SMT DEF TypeInv, TypeOK, Entry, LastIndex
    <2>3. /\ log' = [log EXCEPT ![n] = Append(log[n], entry)]
          /\ Save(n, PersistEntries(wal[n], <<entry>>))
          /\ UNCHANGED <<electionVars, commitIndex, leaderVars, msgs, diskVars>>
      BY DEF SubmitCommand
    <2> HIDE DEF entry
    <2>4. log' \in [Server -> Seq(Entry(Command))]
      <3>1. Append(log[n], entry) \in Seq(Entry(Command))
        BY <2>1, <2>2, SMT
      <3> QED BY <2>3, <3>1 DEF TypeInv, TypeOK
    <2>5. wal' \in [Server -> WALState]
      <3>1. <<entry>> \in Seq(Entry(Command))
        BY <2>2, SMT
      <3>2. PersistEntries(wal[n], <<entry>>) \in WALState
        BY <2>1, <3>1, PersistType, Zenon
      <3> QED BY <2>3, <3>2, <1>SaveType DEF TypeInv, TypeOK
    <2> QED BY <2>3, <2>4, <2>5, ZenonT(30)
            DEF TypeInv, TypeOK, HintsNameSlots, electionVars, leaderVars, diskVars
  \* A request is well-formed as soon as nextIndex is not 0.
  <1>AppendEntriesType.
      ASSUME TypeInv, NEW n \in Server, NEW p \in Server, NEW t \in Nat, NEW c \in Nat,
             nextIndex[n][p] >= 1
      PROVE  AppendEntries(n, p, t, c) \in Message
    <2> USE <1>AppendEntriesType
    <2> DEFINE prev == nextIndex[n][p] - 1
    <2>1. log[n] \in Seq(Entry(Command)) /\ nextIndex[n][p] \in Nat
      BY DEF TypeInv, TypeOK
    <2>2. prev \in Nat
      <3> DEFINE next == nextIndex[n][p]
      <3>1. next \in Nat /\ next >= 1
        BY <2>1
      <3> HIDE DEF next
      <3>2. next - 1 \in Nat
        BY <3>1, SMT
      <3> QED BY <3>2 DEF next
    <2>3. TermAt(log[n], prev) \in Nat
      BY <2>1, TermAtType
    <2>4. EntriesFrom(log[n], nextIndex[n][p]) \in Seq(Entry(Command))
      BY <2>1, SubSeqType, SMT DEF EntriesFrom
    <2> QED BY <2>2, <2>3, <2>4 DEF AppendEntries, Message
  \* Sending a request, from replicateLog or from sendHeartbeats, preserves the
  \* types.
  <1>SendAppendType.
      ASSUME TypeInv, NEW n \in Server, NEW p \in Peers(n), NEW t \in Nat, NEW c \in Nat,
             state[n] = "Leader" \/ ticks[n] # {},
             Send({AppendEntries(n, p, t, c)}),
             UNCHANGED <<electionVars, logVars, leaderVars, wal, diskVars>>
      PROVE  TypeInv'
    <2> USE <1>SendAppendType
    <2>1. AppendEntries(n, p, t, c) \in Message
      BY <1>AppendEntriesType, Zenon DEF TypeInv, TypeOK, Peers
    <2>2. AppendEntries(n, p, t, c).type = "AppendEntries"
      BY DEF AppendEntries
    <2>3. msgs' \subseteq msgs \cup {AppendEntries(n, p, t, c)}
      BY DEF Send
    <2>4. msgs' \subseteq Message /\ HintsNameSlots'
      BY <2>1, <2>2, <2>3 DEF TypeInv, TypeOK, HintsNameSlots
    <2> QED BY <2>4, Zenon DEF TypeInv, TypeOK, electionVars, logVars, leaderVars, diskVars
  \* The senders of AppendEntries preserve the types.
  <1>SendersType.
      ASSUME TypeInv, NEW n \in Server, NEW p \in Server,
             \/ ReplicateLog(n, p)
             \/ \E h \in ticks[n] : SendHeartbeatTo(n, p, h)
      PROVE  TypeInv'
    <2> USE <1>SendersType
    <2>1. CASE ReplicateLog(n, p)
      <3>1. currentTerm[n] \in Nat /\ commitIndex[n] \in Nat
        BY DEF TypeInv, TypeOK
      <3> QED BY <2>1, <3>1, <1>SendAppendType DEF ReplicateLog
    <2>2. ASSUME NEW h \in ticks[n], SendHeartbeatTo(n, p, h)
          PROVE  TypeInv'
      <3>1. h.term \in Nat /\ h.commitIndex \in Nat
        <4>1. ticks \in [Server -> SUBSET [term : Nat, commitIndex : Nat]]
          BY DEF TypeInv, TypeOK
        <4>2. h \in [term : Nat, commitIndex : Nat]
          BY <4>1
        <4> QED BY <4>2
      <3>2. /\ p \in Peers(n) /\ ticks[n] # {}
            /\ Send({AppendEntries(n, p, h.term, h.commitIndex)})
            /\ UNCHANGED <<electionVars, logVars, leaderVars, wal, diskVars>>
        BY <2>2 DEF SendHeartbeatTo
      <3> QED BY <3>1, <3>2, <1>SendAppendType
    <2> QED BY <2>1, <2>2
  \* A heartbeat tick preserves the types.
  <1>SendHeartbeatsType.
      ASSUME TypeInv, NEW n \in Server, SendHeartbeats(n)
      PROVE  TypeInv'
    <2> USE <1>SendHeartbeatsType
    <2> DEFINE h == [term |-> currentTerm[n], commitIndex |-> commitIndex[n]]
    <2>1. h \in [term : Nat, commitIndex : Nat]
      BY DEF TypeInv, TypeOK
    <2>2. ticks' = [ticks EXCEPT ![n] = ticks[n] \cup {h}]
      BY DEF SendHeartbeats
    <2> HIDE DEF h
    <2>3. ticks' \in [Server -> SUBSET [term : Nat, commitIndex : Nat]]
      BY <2>1, <2>2 DEF TypeInv, TypeOK
    <2>4. \A k \in Server : ticks'[k] # {} => state[k] = "Leader" \/ ticks[k] # {}
      BY <2>2 DEF SendHeartbeats, TypeInv, TypeOK
    <2> QED BY <2>3, <2>4
            DEF SendHeartbeats, TypeInv, TypeOK, HintsNameSlots, electionVars, logVars, diskVars
  \* The answer to a well-formed request is well-formed.
  <1>AppendReplyType.
      ASSUME NEW m \in Message, m.type = "AppendEntries", NEW t \in Nat,
             NEW ok \in BOOLEAN, NEW hint \in [term : Nat, index : Nat]
      PROVE  /\ AppendReply(m, t, ok, hint) \in Message
             /\ AppendReply(m, t, ok, hint).conflictTerm = hint.term
             /\ AppendReply(m, t, ok, hint).conflictIndex = hint.index
    <2> USE <1>AppendReplyType
    <2> DEFINE last == IF m.entries = <<>> THEN 0 ELSE m.entries[Len(m.entries)].index
    <2>1. m.src \in Server /\ m.dst \in Server /\ m.term \in Nat
      BY DEF Message
    <2>2. m.entries \in Seq(Entry(Command))
      BY DEF Message
    <2>3. last \in Nat
      <3>1. CASE m.entries = <<>>
        BY <3>1
      <3>2. CASE m.entries # <<>>
        <4>1. m.entries[Len(m.entries)] \in Entry(Command)
          BY <2>2, <3>2, SMT
        <4> QED BY <3>2, <4>1 DEF Entry
      <3> QED BY <3>1, <3>2
    <2> HIDE DEF last
    <2>4. AppendReply(m, t, ok, hint) =
            [type |-> "AppendReply", src |-> m.dst, dst |-> m.src, reqTerm |-> m.term,
             reqLast |-> last, term |-> t, success |-> ok,
             conflictTerm |-> hint.term, conflictIndex |-> hint.index]
      BY DEF AppendReply, last
    <2> QED BY <2>1, <2>3, <2>4, SMT DEF Message
  \* HandleAppendEntries preserves the types, on its early return.
  <1>RejectStaleAppendType.
      ASSUME TypeInv, NEW m \in msgs, RejectStaleAppend(m)
      PROVE  TypeInv'
    <2> USE <1>RejectStaleAppendType
    <2> DEFINE r == AppendReply(m, currentTerm[m.dst], FALSE, NoHint)
    <2>1. m \in Message /\ m.type = "AppendEntries" /\ m.dst \in Server
      BY DEF RejectStaleAppend, TypeInv, TypeOK, Message
    <2>2. NoHint \in [term : Nat, index : Nat] /\ currentTerm[m.dst] \in Nat
      BY <2>1 DEF NoHint, TypeInv, TypeOK
    <2>3. r \in Message /\ r.conflictTerm = 0
      BY <2>1, <2>2, <1>AppendReplyType, Zenon DEF NoHint
    <2>4. Respond(r) /\ UNCHANGED <<electionVars, logVars, leaderVars, wal, diskVars>>
      BY Zenon DEF RejectStaleAppend
    <2> HIDE DEF r
    <2>5. msgs' \subseteq Message /\ HintsNameSlots'
      BY <2>3, <2>4, <1>RespondType, SMT
    <2> QED BY <2>4, <2>5, Zenon DEF TypeInv, TypeOK, electionVars, logVars, leaderVars, diskVars
  \* HandleAppendEntries preserves the types, on a current term.
  <1>HandleAppendEntriesType.
      ASSUME TypeInv, NEW m \in msgs, HandleAppendEntries(m)
      PROVE  TypeInv'
    <2> USE <1>HandleAppendEntriesType
    <2> DEFINE n == m.dst
               newer == m.term > currentTerm[n]
               ok == PrevMatches(log[n], m.prevLogIndex, m.prevLogTerm)
               newLog == IF ok THEN AppendNew(log[n], m.prevLogIndex, m.entries)
                               ELSE log[n]
               new == IF ok THEN NewEntries(log[n], m.prevLogIndex, m.entries) ELSE <<>>
               stepped == IF newer THEN PersistTerm(wal[n], m.term) ELSE wal[n]
               hint == IF ok THEN NoHint ELSE ConflictHint(log[n], m.prevLogIndex)
               commit == IF ok THEN FollowerCommit(newLog, commitIndex[n], m.leaderCommit)
                               ELSE commitIndex[n]
    <2>1. /\ m \in Message /\ m.type = "AppendEntries" /\ n \in Server
          /\ m.src \in Server
          /\ m.term \in Nat /\ m.prevLogIndex \in Nat /\ m.leaderCommit \in Nat
          /\ m.entries \in Seq(Entry(Command))
      BY Zenon DEF HandleAppendEntries, TypeInv, TypeOK, Message
    <2>2. /\ log[n] \in Seq(Entry(Command)) /\ wal[n] \in WALState
          /\ commitIndex[n] \in Nat
      BY <2>1 DEF TypeInv, TypeOK
    <2>3. newLog \in Seq(Entry(Command)) /\ new \in Seq(Entry(Command))
      <3>1. AppendNew(log[n], m.prevLogIndex, m.entries) \in Seq(Entry(Command))
        BY <2>1, <2>2, AppendNewType, Zenon
      <3>2. NewEntries(log[n], m.prevLogIndex, m.entries) \in Seq(Entry(Command))
        BY <2>1, <2>2, NewEntriesType
      <3>3. <<>> \in Seq(Entry(Command))
        BY SMT
      <3> HIDE DEF n, ok
      <3> QED BY <2>2, <3>1, <3>2, <3>3
    <2>4. commit \in Nat
      <3> HIDE DEF newLog
      <3> QED BY <2>1, <2>2, <2>3, <1>FollowerCommitType, Zenon
    <2>5. PersistEntries(stepped, new) \in WALState
      <3> HIDE DEF new
      <3> QED BY <2>1, <2>2, <2>3, PersistType, Zenon
    <2>6. /\ hint \in [term : Nat, index : Nat]
          /\ hint.term > 0 => hint.index > 0
      BY <2>1, <2>2, <1>ConflictHintType, Zenon DEF NoHint
    <2>7. ok \in BOOLEAN
      BY DEF PrevMatches
    <2>8. /\ currentTerm' = [currentTerm EXCEPT ![n] = m.term]
          /\ state' = [state EXCEPT ![n] = "Follower"]
          /\ leaderID' = [leaderID EXCEPT ![n] = m.src]
          /\ IF newer
             THEN /\ votedFor' = [votedFor EXCEPT ![n] = Nil]
                  /\ votes' = [votes EXCEPT ![n] = 0]
                  /\ votesReceived' = [votesReceived EXCEPT ![n] = {}]
             ELSE UNCHANGED <<votedFor, votes, votesReceived>>
          /\ log' = [log EXCEPT ![n] = newLog]
          /\ commitIndex' = [commitIndex EXCEPT ![n] = commit]
          /\ Save(n, PersistEntries(stepped, new))
          /\ Respond(AppendReply(m, m.term, ok, hint))
          /\ UNCHANGED <<leaderVars, diskVars>>
      BY Zenon DEF HandleAppendEntries
    <2> HIDE DEF n, newer, ok, newLog, new, stepped, hint, commit
    <2>9. msgs' \subseteq Message /\ HintsNameSlots'
      BY <2>1, <2>6, <2>7, <2>8, <1>AppendReplyType, <1>RespondType
    <2>10. wal' \in [Server -> WALState]
      BY <2>1, <2>5, <2>8, <1>SaveType, Zenon DEF TypeInv, TypeOK
    <2>11. /\ votedFor' \in [Server -> Server \cup {Nil}]
           /\ votes' \in [Server -> Nat]
           /\ votesReceived' \in [Server -> SUBSET Server]
      <3>1. CASE newer
        <4>1. /\ votedFor' = [votedFor EXCEPT ![n] = Nil]
              /\ votes' = [votes EXCEPT ![n] = 0]
              /\ votesReceived' = [votesReceived EXCEPT ![n] = {}]
          BY <2>8, <3>1
        <4> QED BY <2>1, <4>1, Zenon DEF TypeInv, TypeOK
      <3>2. CASE ~newer
        BY <2>8, <3>2 DEF TypeInv, TypeOK
      <3> QED BY <3>1, <3>2
    <2>12. /\ log' \in [Server -> Seq(Entry(Command))]
           /\ commitIndex' \in [Server -> Nat]
      BY <2>1, <2>3, <2>4, <2>8, Zenon DEF TypeInv, TypeOK
    <2>13. /\ currentTerm' \in [Server -> Nat]
           /\ leaderID' \in [Server -> Server \cup {Nil}]
           /\ state' \in [Server -> {"Follower", "Candidate", "Leader"}]
           /\ \A k \in Server : state'[k] = "Leader" => state[k] = "Leader"
      BY <2>1, <2>8, Zenon DEF TypeInv, TypeOK
    <2> QED BY <2>8, <2>9, <2>10, <2>11, <2>12, <2>13, Zenon
            DEF TypeInv, TypeOK, leaderVars, diskVars
  \* The replies to AppendEntries preserve the types.
  <1>AppendReplyHandlersType.
      ASSUME TypeInv, NEW m \in msgs,
             \/ StepDownOnAppendReply(m)
             \/ HandleAppendSuccess(m)
             \/ HandleAppendConflict(m)
      PROVE  TypeInv'
    <2> USE <1>AppendReplyHandlersType
    <2> DEFINE n == m.dst
               p == m.src
    <2>1. /\ m.type = "AppendReply" /\ n \in Server /\ p \in Server
          /\ m.term \in Nat /\ m.reqLast \in Nat
          /\ m.conflictTerm \in Nat /\ m.conflictIndex \in Nat
          /\ m.conflictTerm > 0 => m.conflictIndex > 0
      BY Zenon DEF StepDownOnAppendReply, HandleAppendSuccess, HandleAppendConflict,
             LeaderOfRequest, TypeInv, TypeOK, HintsNameSlots, Message
    <2>2. /\ log[n] \in Seq(Entry(Command)) /\ commitIndex[n] \in Nat
          /\ nextIndex[n][p] \in Nat /\ matchIndex[n][p] \in Nat
          /\ nextIndex[n] \in [Server -> Nat] /\ matchIndex[n] \in [Server -> Nat]
      BY <2>1, ZenonT(30) DEF TypeInv, TypeOK
    <2>3. CASE StepDownOnAppendReply(m)
      BY <2>1, <2>3, <1>BecomeFollowerType DEF StepDownOnAppendReply
    <2>4. ASSUME NEW next \in Nat,
                 nextIndex[n][p] >= 1 => next >= 1,
                 nextIndex' = [nextIndex EXCEPT ![n][p] = next]
          PROVE  /\ nextIndex' \in [Server -> [Server -> Nat]]
                 /\ \A k \in Server, q \in Server :
                      nextIndex[k][q] >= 1 => nextIndex'[k][q] >= 1
      BY <2>1, <2>2, <2>4, Zenon DEF TypeInv, TypeOK
    <2>5. CASE HandleAppendSuccess(m)
      <3> DEFINE match == [matchIndex[n] EXCEPT ![p] = Max({matchIndex[n][p], m.reqLast})]
                 acked == [match EXCEPT ![n] = LastIndex(log[n])]
                 commit == LeaderCommitIndex(log[n], currentTerm[n], commitIndex[n], acked)
                 next == Max({nextIndex[n][p], m.reqLast + 1})
      <3>1. /\ nextIndex' = [nextIndex EXCEPT ![n][p] = next]
            /\ matchIndex' = [matchIndex EXCEPT ![n] = match]
            /\ commitIndex' = [commitIndex EXCEPT ![n] = commit]
            /\ UNCHANGED <<electionVars, log, ticks, msgs, wal, diskVars>>
        BY <2>5 DEF HandleAppendSuccess
      <3>2. next \in Nat /\ next >= 1
        <4>1. m.reqLast + 1 \in Nat
          BY <2>1, SMT
        <4>2. /\ next \in Nat
              /\ next = IF nextIndex[n][p] >= m.reqLast + 1
                        THEN nextIndex[n][p] ELSE m.reqLast + 1
          BY <2>2, <4>1, MaxOfTwo, Zenon
        <4>3. m.reqLast + 1 >= 1
          BY <2>1, SMT
        <4>4. next >= m.reqLast + 1
          <5> HIDE DEF next, n, p
          <5> QED BY <2>2, <4>1, <4>2, SMT
        <4> HIDE DEF next
        <4> QED BY <2>1, <4>1, <4>2, <4>3, <4>4, SMTT(30)
      <3>3. match \in [Server -> Nat]
        <4>1. Max({matchIndex[n][p], m.reqLast}) \in Nat
          BY <2>1, <2>2, MaxOfTwo, Zenon
        <4> QED BY <2>1, <2>2, <4>1, Zenon
      <3>4. commit \in Nat
        <4> HIDE DEF acked
        <4> QED BY <2>2, <1>LeaderCommitType
      <3> HIDE DEF n, p, match, commit, next
      <3>5. /\ nextIndex' \in [Server -> [Server -> Nat]]
            /\ \A k \in Server, q \in Server :
                 nextIndex[k][q] >= 1 => nextIndex'[k][q] >= 1
        BY <3>1, <3>2, <2>4, Zenon
      <3>6. /\ matchIndex' \in [Server -> [Server -> Nat]]
            /\ commitIndex' \in [Server -> Nat]
        BY <3>1, <3>3, <3>4, Zenon DEF TypeInv, TypeOK
      <3> QED BY <3>1, <3>5, <3>6, ZenonT(30)
              DEF TypeInv, TypeOK, HintsNameSlots, Peers, electionVars, diskVars
    <2>6. CASE HandleAppendConflict(m)
      <3> DEFINE next == NextIndexAfterConflict(log[n], nextIndex[n][p],
                                                m.conflictTerm, m.conflictIndex)
      <3>1. /\ nextIndex' = [nextIndex EXCEPT ![n][p] = next]
            /\ UNCHANGED <<electionVars, logVars, matchIndex, ticks, msgs, wal, diskVars>>
        BY <2>6 DEF HandleAppendConflict
      <3>2. next \in Nat /\ (nextIndex[n][p] >= 1 => next >= 1)
        BY <2>1, <2>2, <1>NextIndexType, Zenon
      <3> HIDE DEF n, p, next
      <3>3. /\ nextIndex' \in [Server -> [Server -> Nat]]
            /\ \A k \in Server, q \in Server :
                 nextIndex[k][q] >= 1 => nextIndex'[k][q] >= 1
        BY <3>1, <3>2, <2>4, Zenon
      <3> QED BY <3>1, <3>3, Zenon
              DEF TypeInv, TypeOK, HintsNameSlots, Peers, electionVars, logVars, diskVars
    <2> QED BY <2>3, <2>5, <2>6
  \* A restart preserves the types.
  <1>RestartType.
      ASSUME TypeInv, NEW n \in Server, Restart(n)
      PROVE  TypeInv'
    <2> USE <1>RestartType
    <2>1. PICK w \in CrashPoints(n) :
            /\ restarts' = restarts + 1
            /\ wal' = [wal EXCEPT ![n] = w]
            /\ currentTerm' = [currentTerm EXCEPT ![n] = w.term]
            /\ votedFor' = [votedFor EXCEPT ![n] = w.votedFor]
            /\ log' = [log EXCEPT ![n] = w.entries]
            /\ StepDown(n)
            /\ leaderID' = [leaderID EXCEPT ![n] = Nil]
            /\ commitIndex' = [commitIndex EXCEPT ![n] = 0]
            /\ nextIndex' = [nextIndex EXCEPT ![n] = [p \in Server |-> 0]]
            /\ matchIndex' = [matchIndex EXCEPT ![n] = [p \in Server |-> 0]]
            /\ ticks' = [ticks EXCEPT ![n] = {}]
            /\ diskOK' = [diskOK EXCEPT ![n] = TRUE]
            /\ Send({})
      BY Zenon DEF Restart
    <2>2. w \in WALState
      BY CrashPointsType
    <2>3. msgs' \subseteq Message /\ HintsNameSlots'
      BY <2>1, <1>NoSendType
    <2>4. w.term \in Nat /\ w.votedFor \in Server \cup {Nil} /\ w.entries \in Seq(Entry(Command))
      BY <2>2 DEF WALState
    <2>5. /\ wal' \in [Server -> WALState] /\ currentTerm' \in [Server -> Nat]
          /\ votedFor' \in [Server -> Server \cup {Nil}]
          /\ log' \in [Server -> Seq(Entry(Command))]
      BY <2>1, <2>2, <2>4, Zenon DEF TypeInv, TypeOK
    <2>6. /\ state' \in [Server -> {"Follower", "Candidate", "Leader"}]
          /\ votes' \in [Server -> Nat]
          /\ votesReceived' \in [Server -> SUBSET Server]
          /\ leaderID' \in [Server -> Server \cup {Nil}]
          /\ commitIndex' \in [Server -> Nat]
      BY <2>1 DEF TypeInv, TypeOK, StepDown
    <2>7. /\ nextIndex' \in [Server -> [Server -> Nat]]
          /\ matchIndex' \in [Server -> [Server -> Nat]]
          /\ ticks' \in [Server -> SUBSET [term : Nat, commitIndex : Nat]]
          /\ diskOK' \in [Server -> BOOLEAN]
          /\ restarts' \in Nat
      <3> DEFINE zero == [p \in Server |-> 0]
      <3>1. /\ nextIndex \in [Server -> [Server -> Nat]]
            /\ matchIndex \in [Server -> [Server -> Nat]]
            /\ ticks \in [Server -> SUBSET [term : Nat, commitIndex : Nat]]
            /\ diskOK \in [Server -> BOOLEAN]
            /\ restarts \in Nat
        BY DEF TypeInv, TypeOK
      <3>2. zero \in [Server -> Nat]
        OBVIOUS
      <3>3. /\ nextIndex' = [nextIndex EXCEPT ![n] = zero]
            /\ matchIndex' = [matchIndex EXCEPT ![n] = zero]
        BY <2>1
      <3> HIDE DEF zero
      <3>4. nextIndex' \in [Server -> [Server -> Nat]]
        BY <3>1, <3>2, <3>3
      <3>5. matchIndex' \in [Server -> [Server -> Nat]]
        BY <3>1, <3>2, <3>3
      <3>6. ticks' \in [Server -> SUBSET [term : Nat, commitIndex : Nat]]
        BY <2>1, <3>1
      <3> QED BY <2>1, <3>1, <3>4, <3>5, <3>6, SMTT(30)
    <2>8. \A k \in Server : state'[k] = "Leader" \/ ticks'[k] # {} =>
            \A p \in Peers(k) : nextIndex'[k][p] >= 1
      <3> TAKE k \in Server
      <3>1. CASE k = n
        BY <2>1, <3>1 DEF TypeInv, TypeOK, StepDown
      <3>2. CASE k # n
        BY <2>1, <3>2 DEF TypeInv, TypeOK, StepDown
      <3> QED BY <3>1, <3>2
    <2> QED BY <2>3, <2>5, <2>6, <2>7, <2>8, Zenon DEF TypeInv, TypeOK
  \* A disk failure preserves the types.
  <1>DiskFailType.
      ASSUME TypeInv, NEW n \in Server, DiskFail(n)
      PROVE  TypeInv'
    BY <1>DiskFailType DEF DiskFail, TypeInv, TypeOK, HintsNameSlots, electionVars, logVars, leaderVars
  <1> SUFFICES ASSUME TypeInv, [Next]_vars PROVE TypeInv'
    OBVIOUS
  <1>1. ASSUME NEW n \in Server, StartElection(n) PROVE TypeInv'
    BY <1>1, <1>StartElectionType
  <1>2. ASSUME NEW n \in Server, NEW c \in Command, SubmitCommand(n, c) PROVE TypeInv'
    BY <1>2, <1>SubmitCommandType
  <1>3. ASSUME NEW n \in Server, NEW p \in Server,
               ReplicateLog(n, p) \/ \E h \in ticks[n] : SendHeartbeatTo(n, p, h)
        PROVE  TypeInv'
    BY <1>3, <1>SendersType
  <1>4. ASSUME NEW n \in Server, SendHeartbeats(n) PROVE TypeInv'
    BY <1>4, <1>SendHeartbeatsType
  <1>5. ASSUME NEW m \in msgs, Receive(m) PROVE TypeInv'
    BY <1>5, <1>HandleRequestVoteType, <1>VoteReplyType, <1>RejectStaleAppendType,
       <1>HandleAppendEntriesType, <1>AppendReplyHandlersType DEF Receive
  <1>6. ASSUME NEW n \in Server, Restart(n) PROVE TypeInv'
    BY <1>6, <1>RestartType
  <1>7. ASSUME NEW n \in Server, DiskFail(n) PROVE TypeInv'
    BY <1>7, <1>DiskFailType
  <1>8. CASE UNCHANGED vars
    BY <1>8 DEF vars, electionVars, logVars, leaderVars, diskVars,
                TypeInv, TypeOK, HintsNameSlots
  <1> QED BY <1>1, <1>2, <1>3, <1>4, <1>5, <1>6, <1>7, <1>8 DEF Next, Step

\* Every variable keeps its type, and nextIndex - 1 never wraps around, in any
\* cluster, whatever crashes and disk failures occur (node.go,
\* replication.go).
THEOREM TypeCorrect == Spec => []TypeOK
<1>1. Init => TypeInv
  BY InitType
<1>2. TypeInv /\ [Next]_vars => TypeInv'
  BY NextType
<1>3. TypeInv => TypeOK
  BY DEF TypeInv
<1> QED BY <1>1, <1>2, <1>3, PTL DEF Spec

-----------------------------------------------------------------------------
(* Votes: the inductive invariant *)

\* Evidence that v votes for c in term t: c asked for votes (it votes for
\* itself), v said so, or c counted the vote.
Asked(c, t) ==
  \E m \in msgs : m.type = "RequestVote" /\ m.src = c /\ m.term = t
Told(v, c, t) ==
  \E m \in msgs : /\ m.type = "VoteReply" /\ m.granted
                  /\ m.src = v /\ m.dst = c /\ m.term = t
Counted(v, c, t) ==
  /\ state[c] \in {"Candidate", "Leader"} /\ currentTerm[c] = t
  /\ v \in votesReceived[c]
VoteFor(v, c, t) == (v = c /\ Asked(c, t)) \/ Told(v, c, t) \/ Counted(v, c, t)

\* v is beyond term t, or in it and remembers its vote for c.
Voted(v, c, t) ==
  currentTerm[v] > t \/ (currentTerm[v] = t /\ votedFor[v] = c)

\* A restart would find the current term and the current vote.
WALCurrent ==
  \A n \in Server :
    /\ diskOK[n]
    /\ wal[n].term = currentTerm[n]
    /\ votedFor[n] # Nil => wal[n].votedFor = votedFor[n]

\* A vote is granted in the term it was asked for.
GrantsOfTerm ==
  \A m \in msgs : m.type = "VoteReply" /\ m.granted => m.term = m.reqTerm

\* votes counts votesReceived, and a Leader has a majority.
VotesCounted ==
  \A n \in Server :
    state[n] \in {"Candidate", "Leader"} =>
      /\ votes[n] = Cardinality(votesReceived[n])
      /\ state[n] = "Leader" => votes[n] >= Majority

VotesRemembered ==
  \A v, c \in Server, t \in Nat : VoteFor(v, c, t) => Voted(v, c, t)

OneVotePerTerm ==
  \A v, a, b \in Server, t \in Nat : VoteFor(v, a, t) /\ VoteFor(v, b, t) => a = b

VoteInv ==
  /\ WALCurrent /\ GrantsOfTerm /\ VotesCounted
  /\ VotesRemembered /\ OneVotePerTerm

-----------------------------------------------------------------------------
(* What every step does to votes *)

\* The step inside TermsAndVotesStand.
VotesStandStep ==
  \A n \in Server :
    /\ currentTerm'[n] >= currentTerm[n]
    /\ currentTerm'[n] = currentTerm[n] /\ votedFor[n] # Nil
         => votedFor'[n] = votedFor[n]

\* v casts its vote for c in term t in this step, or repeats it.
CastNow(v, c, t) ==
  /\ currentTerm'[v] = t /\ votedFor'[v] = c
  /\ \/ currentTerm[v] < t
     \/ currentTerm[v] = t /\ votedFor[v] \in {Nil, c}

\* New evidence of a vote comes from a vote cast in this step.
OnlyCastVotes ==
  \A v, c \in Server, t \in Nat :
    VoteFor(v, c, t)' => VoteFor(v, c, t) \/ CastNow(v, c, t)

\* What a step must do to preserve the two facts about votes.
LEMMA VotesInduct ==
  ASSUME TypeInv, TypeInv', VotesRemembered, OneVotePerTerm,
         VotesStandStep, OnlyCastVotes
  PROVE  VotesRemembered' /\ OneVotePerTerm'
<1>1. \A v \in Server : currentTerm[v] \in Nat /\ currentTerm'[v] \in Nat
  BY DEF TypeInv, TypeOK
<1>2. \A c \in Server : c # Nil
  BY ServerAssumption
<1>3. ASSUME NEW v \in Server, NEW c \in Server, NEW t \in Nat, VoteFor(v, c, t)'
      PROVE  Voted(v, c, t)'
  <2>1. CASE VoteFor(v, c, t)
    <3>1. Voted(v, c, t)
      BY <2>1 DEF VotesRemembered
    <3> QED BY <1>1, <1>2, <3>1, SMT DEF Voted, VotesStandStep
  <2>2. CASE CastNow(v, c, t)
    BY <2>2 DEF CastNow, Voted
  <2> QED BY <1>3, <2>1, <2>2 DEF OnlyCastVotes
<1>4. ASSUME NEW v \in Server, NEW a \in Server, NEW b \in Server, NEW t \in Nat,
             VoteFor(v, a, t), CastNow(v, b, t)
      PROVE  a = b
  <2>1. Voted(v, a, t)
    BY <1>4 DEF VotesRemembered
  <2> QED BY <1>1, <1>2, <1>4, <2>1, SMTT(30) DEF Voted, CastNow
<1>5. ASSUME NEW v \in Server, NEW a \in Server, NEW b \in Server, NEW t \in Nat,
             VoteFor(v, a, t)', VoteFor(v, b, t)'
      PROVE  a = b
  <2>1. /\ VoteFor(v, a, t) \/ CastNow(v, a, t)
        /\ VoteFor(v, b, t) \/ CastNow(v, b, t)
    BY <1>5 DEF OnlyCastVotes
  <2>2. CASE VoteFor(v, a, t) /\ VoteFor(v, b, t)
    BY <2>2 DEF OneVotePerTerm
  <2>3. CASE CastNow(v, a, t) /\ CastNow(v, b, t)
    BY <2>3 DEF CastNow
  <2> QED BY <1>4, <2>1, <2>2, <2>3
<1>6. VotesRemembered'
  BY <1>3 DEF VotesRemembered
<1>7. OneVotePerTerm'
  BY <1>5 DEF OneVotePerTerm
<1> QED BY <1>6, <1>7

-----------------------------------------------------------------------------
(* Steps without votes *)

\* No request for votes and no granted vote is sent.
NoVoteSent ==
  \A m \in msgs' : m.type = "RequestVote" \/ (m.type = "VoteReply" /\ m.granted)
                     => m \in msgs

\* Sending something else sends no vote.
LEMMA OtherMessages ==
  ASSUME NEW ms, Send(ms), \A r \in ms : r.type \in {"AppendEntries", "AppendReply"}
  PROVE  NoVoteSent
<1>1. \A r \in msgs' : r \in msgs \/ r \in ms
  BY DEF Send
<1>2. \A r \in ms : r.type # "RequestVote" /\ r.type # "VoteReply"
  OBVIOUS
<1> QED BY <1>1, <1>2 DEF NoVoteSent

\* Then all new evidence is in what candidates counted.
LEMMA NoVoteSentEvidence ==
  ASSUME NoVoteSent, NEW v \in Server, NEW c \in Server, NEW t \in Nat,
         VoteFor(v, c, t)'
  PROVE  VoteFor(v, c, t) \/ Counted(v, c, t)'
<1>1. CASE v = c /\ Asked(c, t)'
  BY <1>1 DEF NoVoteSent, Asked, VoteFor
<1>2. CASE Told(v, c, t)'
  BY <1>2 DEF NoVoteSent, Told, VoteFor
<1> QED BY <1>1, <1>2 DEF VoteFor

\* No new grant is sent: those in msgs stay of their term.
LEMMA NoVoteSentGrants ==
  ASSUME GrantsOfTerm, NoVoteSent
  PROVE  GrantsOfTerm'
BY DEF GrantsOfTerm, NoVoteSent

\* A step in which node n becomes, or stays, Follower: in a later term, or in
\* its own with the vote it has there.
LEMMA FollowerStep ==
  ASSUME TypeInv, TypeInv', VoteInv, NoVoteSent, NEW n \in Server,
         state' = [state EXCEPT ![n] = "Follower"],
         \A k \in Server \ {n} :
           /\ currentTerm'[k] = currentTerm[k] /\ votedFor'[k] = votedFor[k]
           /\ votes'[k] = votes[k] /\ votesReceived'[k] = votesReceived[k]
           /\ wal'[k] = wal[k],
         \/ currentTerm'[n] > currentTerm[n]
         \/ /\ currentTerm'[n] = currentTerm[n]
            /\ votedFor[n] # Nil => votedFor'[n] = votedFor[n],
         \A k \in Server : diskOK'[k],
         wal'[n].term = currentTerm'[n],
         votedFor'[n] # Nil => wal'[n].votedFor = votedFor'[n]
  PROVE  VoteInv' /\ VotesStandStep /\ OnlyCastVotes
<1>1. /\ \A k \in Server : currentTerm[k] \in Nat /\ currentTerm'[k] \in Nat
      /\ state \in [Server -> {"Follower", "Candidate", "Leader"}]
  BY Zenon DEF TypeInv, TypeOK
<1>2. VotesStandStep
  BY <1>1, SMT DEF VotesStandStep
<1>3. OnlyCastVotes
  <2> SUFFICES ASSUME NEW v \in Server, NEW c \in Server, NEW t \in Nat,
                      VoteFor(v, c, t)'
               PROVE  VoteFor(v, c, t)
    BY DEF OnlyCastVotes
  <2>1. Counted(v, c, t)' => Counted(v, c, t)
    BY <1>1 DEF Counted
  <2> QED BY <2>1, NoVoteSentEvidence DEF VoteFor
<1>4. VotesRemembered' /\ OneVotePerTerm'
  BY <1>2, <1>3, VotesInduct DEF VoteInv
<1>5. WALCurrent'
  BY DEF VoteInv, WALCurrent
<1>6. VotesCounted'
  BY <1>1 DEF VoteInv, VotesCounted
<1>7. GrantsOfTerm'
  BY NoVoteSentGrants DEF VoteInv
<1> QED BY <1>2, <1>3, <1>4, <1>5, <1>6, <1>7 DEF VoteInv

-----------------------------------------------------------------------------
(* The other steps *)

\* Every step of running nodes preserves the invariant, lets terms and votes
\* stand, and is evidence only of votes cast in it.
LEMMA StepVotes ==
  ASSUME TypeInv, TypeInv', VoteInv, [Step]_vars
  PROVE  VoteInv' /\ VotesStandStep /\ OnlyCastVotes
  \* A step that touches neither terms, nor votes, nor roles.
  <1>QuietStep.
      ASSUME TypeInv, TypeInv', VoteInv, NoVoteSent,
             UNCHANGED <<state, currentTerm, votedFor, votes, votesReceived, diskOK>>,
             \A n \in Server : /\ wal'[n].term = wal[n].term
                               /\ wal'[n].votedFor = wal[n].votedFor
      PROVE  VoteInv' /\ VotesStandStep /\ OnlyCastVotes
    <2> USE <1>QuietStep
    <2>1. VotesStandStep
      BY SMT DEF VotesStandStep, TypeInv, TypeOK
    <2>2. OnlyCastVotes
      <3> SUFFICES ASSUME NEW v \in Server, NEW c \in Server, NEW t \in Nat,
                          VoteFor(v, c, t)'
                   PROVE  VoteFor(v, c, t)
        BY DEF OnlyCastVotes
      <3>1. Counted(v, c, t)' => Counted(v, c, t)
        BY DEF Counted
      <3> QED BY <3>1, NoVoteSentEvidence DEF VoteFor
    <2>3. VotesRemembered' /\ OneVotePerTerm'
      BY <2>1, <2>2, VotesInduct DEF VoteInv
    <2>4. WALCurrent' /\ VotesCounted'
      BY DEF VoteInv, WALCurrent, VotesCounted
    <2>5. GrantsOfTerm'
      BY NoVoteSentGrants DEF VoteInv
    <2> QED BY <2>1, <2>2, <2>3, <2>4, <2>5 DEF VoteInv
  \* A vote record sets the vote and a term that is not lower.
  <1>PersistVoteFields.
      ASSUME NEW w \in WALState, NEW c \in Server, NEW t \in Nat, w.term <= t
      PROVE  PersistVote(w, c, t).term = t /\ PersistVote(w, c, t).votedFor = c
    <2> USE <1>PersistVoteFields
    <2>1. w.term \in Nat
      BY DEF WALState
    <2>2. Max({w.term, t}) = t
      BY <2>1, MaxOfTwo
    <2> QED BY <2>2 DEF PersistVote, WALState
  \* A term record leaves the vote.
  <1>PersistTermFields.
      ASSUME NEW w \in WALState, NEW t \in Nat
      PROVE  PersistTerm(w, t).term = t /\ PersistTerm(w, t).votedFor = w.votedFor
    BY <1>PersistTermFields DEF PersistTerm, WALState
  \* startElection: the candidate's vote for itself is the only new one.
  <1>StartElectionVotes.
      ASSUME TypeInv, TypeInv', VoteInv, NEW n \in Server, StartElection(n)
      PROVE  VoteInv' /\ VotesStandStep /\ OnlyCastVotes
    <2> USE <1>StartElectionVotes
    <2> DEFINE term == currentTerm[n] + 1
               request(p) == [type |-> "RequestVote", src |-> n, dst |-> p, term |-> term,
                              lastLogIndex |-> LastIndex(log[n]),
                              lastLogTerm |-> LastTerm(log[n])]
               saved == PersistVote(PersistTerm(wal[n], term), n, term)
    <2>1. /\ currentTerm' = [currentTerm EXCEPT ![n] = term]
          /\ state' = [state EXCEPT ![n] = "Candidate"]
          /\ votedFor' = [votedFor EXCEPT ![n] = n]
          /\ votes' = [votes EXCEPT ![n] = 1]
          /\ votesReceived' = [votesReceived EXCEPT ![n] = {n}]
          /\ wal' = [wal EXCEPT ![n] = saved]
          /\ diskOK' = diskOK
          /\ \A m \in msgs' : m \in msgs \/ \E p \in Server : m = request(p)
      BY DEF StartElection, Save, Send, VoteInv, WALCurrent, Peers, diskVars
    <2>2. /\ term \in Nat /\ wal[n] \in WALState
          /\ \A k \in Server : currentTerm[k] \in Nat
      BY SMTT(30) DEF TypeInv, TypeOK
    <2>3. saved.term = term /\ saved.votedFor = n
      <3>1. PersistTerm(wal[n], term) \in WALState
        BY <2>2, PersistType
      <3>2. PersistTerm(wal[n], term).term = term
        BY <2>2, <1>PersistTermFields
      <3> HIDE DEF term
      <3> QED BY <2>2, <3>1, <3>2, <1>PersistVoteFields, SMT
    <2>4. /\ \A p \in Server : /\ request(p).type = "RequestVote"
                               /\ request(p).src = n /\ request(p).term = term
          /\ currentTerm[n] < term
      BY <2>2, SMT
    <2> HIDE DEF term, request, saved
    <2>5. VotesStandStep
      <3>1. /\ currentTerm'[n] = term
            /\ \A k \in Server \ {n} : currentTerm'[k] = currentTerm[k]
                                       /\ votedFor'[k] = votedFor[k]
        BY <2>1, SMTT(30) DEF TypeInv, TypeOK
      <3> QED BY <2>2, <2>4, <3>1, SMTT(30) DEF VotesStandStep
    <2>6. CastNow(n, n, term)
      BY <2>1, <2>4, SMT DEF CastNow, TypeInv, TypeOK
    <2>7. OnlyCastVotes
      <3> SUFFICES ASSUME NEW v \in Server, NEW c \in Server, NEW t \in Nat,
                          VoteFor(v, c, t)'
                   PROVE  VoteFor(v, c, t) \/ CastNow(v, c, t)
        BY DEF OnlyCastVotes
      <3>1. CASE v = c /\ Asked(c, t)'
        BY <2>1, <2>4, <2>6, <3>1 DEF Asked, VoteFor
      <3>2. CASE Told(v, c, t)'
        BY <2>1, <2>4, <3>2 DEF Told, VoteFor
      <3>3. CASE Counted(v, c, t)'
        <4>1. CASE c = n
          BY <2>1, <2>6, <3>3, <4>1 DEF Counted, TypeInv, TypeOK
        <4>2. CASE c # n
          BY <2>1, <3>3, <4>2, SMTT(30) DEF Counted, VoteFor, TypeInv, TypeOK
        <4> QED BY <4>1, <4>2
      <3> QED BY <3>1, <3>2, <3>3 DEF VoteFor
    <2>8. VotesRemembered' /\ OneVotePerTerm'
      BY <2>5, <2>7, VotesInduct DEF VoteInv
    <2>9. WALCurrent'
      <3>1. /\ wal'[n] = saved /\ currentTerm'[n] = term /\ votedFor'[n] = n
            /\ \A k \in Server \ {n} : /\ currentTerm'[k] = currentTerm[k]
                                       /\ votedFor'[k] = votedFor[k]
                                       /\ wal'[k] = wal[k]
        BY <2>1, SMT DEF TypeInv, TypeOK
      <3> QED BY <2>1, <2>3, <3>1 DEF VoteInv, WALCurrent
    <2>10. VotesCounted'
      <3>1. Cardinality({n}) = 1
        BY FS_Singleton, Zenon
      <3> QED BY <2>1, <3>1, ZenonT(30) DEF VoteInv, VotesCounted, TypeInv, TypeOK
    <2>11. GrantsOfTerm'
      BY <2>1, <2>4 DEF VoteInv, GrantsOfTerm
    <2> QED BY <2>5, <2>7, <2>8, <2>9, <2>10, <2>11 DEF VoteInv
  \* HandleRequestVote: a vote is granted only to the candidate that has it
  \* already or when none is cast in the term.
  <1>HandleRequestVoteVotes.
      ASSUME TypeInv, TypeInv', VoteInv, NEW m \in msgs, HandleRequestVote(m)
      PROVE  VoteInv' /\ VotesStandStep /\ OnlyCastVotes
    <2> USE <1>HandleRequestVoteVotes
    <2> DEFINE n == m.dst
               newer == m.term > currentTerm[n]
               term == Max({m.term, currentTerm[n]})
               voted == IF newer THEN Nil ELSE votedFor[n]
               granted == /\ m.term >= currentTerm[n]
                          /\ CanVote(voted, m.src)
                          /\ isLogUpToDate(log[n], m.lastLogTerm, m.lastLogIndex)
               stepped == IF newer THEN PersistTerm(wal[n], term) ELSE wal[n]
               saved == IF granted THEN PersistVote(stepped, m.src, term) ELSE stepped
               reply == [type |-> "VoteReply", src |-> n, dst |-> m.src,
                         reqTerm |-> m.term, term |-> term, granted |-> granted]
    <2>1. m.type = "RequestVote" /\ m.src \in Server /\ n \in Server /\ m.term \in Nat
      BY Zenon DEF HandleRequestVote, TypeInv, TypeOK, Message
    <2>2. /\ currentTerm \in [Server -> Nat] /\ wal \in [Server -> WALState]
           /\ votedFor \in [Server -> Server \cup {Nil}]
      BY DEF TypeInv, TypeOK
    <2>3. /\ wal[n] \in WALState /\ \A k \in Server : currentTerm[k] \in Nat
          /\ wal[n].term = currentTerm[n]
          /\ votedFor[n] # Nil => wal[n].votedFor = votedFor[n]
      BY <2>1, <2>2 DEF VoteInv, WALCurrent
    <2>4. /\ term \in Nat /\ term = IF newer THEN m.term ELSE currentTerm[n]
          /\ granted => term = m.term
      <3>1. /\ currentTerm[n] \in Nat /\ m.term \in Nat
            /\ granted => m.term >= currentTerm[n]
        BY <2>1, <2>3
      <3>2. term \in Nat /\ term = IF m.term >= currentTerm[n] THEN m.term ELSE currentTerm[n]
        BY <3>1, MaxOfTwo
      <3> HIDE DEF n, term, granted
      <3> QED BY <3>1, <3>2, SMT
    <2>5. /\ currentTerm' = [currentTerm EXCEPT ![n] = term]
          /\ votedFor' = [votedFor EXCEPT ![n] = IF granted THEN m.src ELSE voted]
          /\ IF newer THEN StepDown(n) ELSE UNCHANGED <<state, votes, votesReceived>>
          /\ wal' = [wal EXCEPT ![n] = saved]
          /\ diskOK' = diskOK
          /\ \A r \in msgs' : r \in msgs \/ r = reply
      BY <2>1 DEF HandleRequestVote, Save, Respond, Send, VoteInv, WALCurrent, diskVars
    <2>6. stepped \in WALState /\ stepped.term = term
          /\ (voted # Nil => stepped.votedFor = voted)
      <3>1. CASE newer
        <4> HIDE DEF term
        <4> QED BY <2>3, <2>4, <3>1, PersistType, <1>PersistTermFields
      <3>2. CASE ~newer
        BY <2>3, <2>4, <3>2
      <3> QED BY <3>1, <3>2
    <2>7. /\ saved.term = term
          /\ votedFor'[n] # Nil => saved.votedFor = votedFor'[n]
      <3>1. votedFor'[n] = IF granted THEN m.src ELSE voted
        <4> HIDE DEF granted, voted
        <4> QED BY <2>1, <2>5, <2>2
      <3>2. CASE granted
        <4>1. saved = PersistVote(stepped, m.src, term)
          BY <3>2
        <4>2. votedFor'[n] = m.src
          BY <3>1, <3>2
        <4> HIDE DEF term, stepped, granted, saved
        <4>3. stepped.term <= term
          BY <2>4, <2>6, SMT
        <4>4. /\ PersistVote(stepped, m.src, term).term = term
              /\ PersistVote(stepped, m.src, term).votedFor = m.src
          BY <2>1, <2>4, <2>6, <4>3, <1>PersistVoteFields
        <4> QED BY <4>1, <4>2, <4>4
      <3>3. CASE ~granted
        BY <2>6, <3>1, <3>3
      <3> QED BY <3>2, <3>3
    <2>8. granted => voted \in {Nil, m.src}
      BY DEF CanVote
    <2>9. /\ reply.type = "VoteReply" /\ reply.src = n /\ reply.dst = m.src
          /\ reply.reqTerm = m.term /\ reply.term = term /\ (reply.granted <=> granted)
      OBVIOUS
    <2> HIDE DEF term, granted, stepped, saved, reply
    <2>10. VotesStandStep
      <3>1. /\ currentTerm'[n] = term
            /\ votedFor'[n] = IF granted THEN m.src ELSE voted
            /\ \A k \in Server \ {n} : currentTerm'[k] = currentTerm[k]
                                       /\ votedFor'[k] = votedFor[k]
        <4> HIDE DEF n, voted
        <4> QED BY <2>1, <2>5, <2>2
      <3> HIDE DEF n
      <3> QED BY <2>1, <2>3, <2>4, <2>8, <3>1, SMTT(30) DEF VotesStandStep
    <2>11. granted => CastNow(n, m.src, term)
      BY <2>1, <2>3, <2>4, <2>5, <2>8 DEF CastNow, TypeInv, TypeOK
    <2>12. \A c \in Server :
             state'[c] \in {"Candidate", "Leader"} =>
               /\ state'[c] = state[c] /\ currentTerm'[c] = currentTerm[c]
               /\ votes'[c] = votes[c] /\ votesReceived'[c] = votesReceived[c]
      <3>1. CASE newer
        <4>1. StepDown(n)
          BY <2>5, <3>1
        <4>2. /\ state \in [Server -> {"Follower", "Candidate", "Leader"}]
              /\ votes \in [Server -> Nat]
              /\ votesReceived \in [Server -> SUBSET Server]
          BY DEF TypeInv, TypeOK
        <4>3. \A c \in Server \ {n} :
                /\ state'[c] = state[c] /\ currentTerm'[c] = currentTerm[c]
                /\ votes'[c] = votes[c] /\ votesReceived'[c] = votesReceived[c]
          <5> HIDE DEF n
          <5> QED BY <2>2, <2>5, <4>1, <4>2 DEF StepDown
        <4>4. state'[n] = "Follower"
          BY <2>1, <4>1, <4>2 DEF StepDown
        <4> QED BY <4>3, <4>4
      <3>2. CASE ~newer
        BY <2>1, <2>4, <2>5, <3>2, Zenon DEF TypeInv, TypeOK
      <3> QED BY <3>1, <3>2
    <2>13. OnlyCastVotes
      <3> SUFFICES ASSUME NEW v \in Server, NEW c \in Server, NEW t \in Nat,
                          VoteFor(v, c, t)'
                   PROVE  VoteFor(v, c, t) \/ CastNow(v, c, t)
        BY DEF OnlyCastVotes
      <3>1. CASE v = c /\ Asked(c, t)'
        BY <2>5, <2>9, <3>1 DEF Asked, VoteFor
      <3>2. CASE Told(v, c, t)'
        <4>1. PICK r \in msgs' : /\ r.type = "VoteReply" /\ r.granted
                                 /\ r.src = v /\ r.dst = c /\ r.term = t
          BY <3>2 DEF Told
        <4>2. CASE r \in msgs
          BY <4>1, <4>2 DEF Told, VoteFor
        <4>3. CASE r = reply
          BY <2>9, <2>11, <4>1, <4>3
        <4> QED BY <2>5, <4>2, <4>3
      <3>3. CASE Counted(v, c, t)'
        BY <2>12, <3>3 DEF Counted, VoteFor
      <3> QED BY <3>1, <3>2, <3>3 DEF VoteFor
    <2>14. VotesRemembered' /\ OneVotePerTerm'
      BY <2>10, <2>13, VotesInduct DEF VoteInv
    <2>15. WALCurrent'
      <3>1. /\ currentTerm'[n] = term /\ wal'[n] = saved
            /\ \A k \in Server \ {n} : /\ currentTerm'[k] = currentTerm[k]
                                       /\ votedFor'[k] = votedFor[k]
                                       /\ wal'[k] = wal[k]
        BY <2>1, <2>5, <2>2
      <3> HIDE DEF n
      <3> QED BY <2>5, <2>7, <3>1 DEF VoteInv, WALCurrent
    <2>16. VotesCounted'
      BY <2>12 DEF VoteInv, VotesCounted
    <2>17. GrantsOfTerm'
      BY <2>4, <2>5, <2>9 DEF VoteInv, GrantsOfTerm
    <2> QED BY <2>10, <2>13, <2>14, <2>15, <2>16, <2>17 DEF VoteInv
  \* A counted vote was told before.
  <1>CountVoteVotes.
      ASSUME TypeInv, TypeInv', VoteInv, NEW m \in msgs, CountVote(m)
      PROVE  VoteInv' /\ VotesStandStep /\ OnlyCastVotes
    <2> USE <1>CountVoteVotes
    <2> DEFINE n == m.dst
    <2>1. /\ m.type = "VoteReply" /\ m.src \in Server /\ n \in Server
          /\ m.granted /\ m.src \notin votesReceived[n]
          /\ state[n] = "Candidate" /\ currentTerm[n] = m.reqTerm
      BY Zenon DEF CountVote, TypeInv, TypeOK, Message
    <2>2. /\ votesReceived' = [votesReceived EXCEPT ![n] = votesReceived[n] \cup {m.src}]
          /\ votes' = [votes EXCEPT ![n] = votes[n] + 1]
          /\ UNCHANGED <<currentTerm, votedFor, wal, diskOK>>
          /\ msgs' \subseteq msgs
          /\ IF votes[n] + 1 >= Majority THEN state' = [state EXCEPT ![n] = "Leader"]
                                         ELSE state' = state
      BY DEF CountVote, BecomeLeader, Send, diskVars
    <2>3. m.term = currentTerm[n]
      BY <2>1 DEF VoteInv, GrantsOfTerm
    <2>4. Told(m.src, n, currentTerm[n])
      BY <2>1, <2>3 DEF Told
    <2>5. /\ votes \in [Server -> Nat] /\ votesReceived \in [Server -> SUBSET Server]
          /\ state \in [Server -> {"Follower", "Candidate", "Leader"}]
          /\ \A k \in Server : currentTerm[k] \in Nat
      BY DEF TypeInv, TypeOK
    <2> HIDE DEF n
    <2>6. VotesStandStep
      BY <2>2, <2>5, SMT DEF VotesStandStep
    <2>7. OnlyCastVotes
      <3> SUFFICES ASSUME NEW v \in Server, NEW c \in Server, NEW t \in Nat,
                          VoteFor(v, c, t)'
                   PROVE  VoteFor(v, c, t)
        BY DEF OnlyCastVotes
      <3>1. NoVoteSent
        BY <2>2 DEF NoVoteSent
      <3>2. Counted(v, c, t)' => VoteFor(v, c, t)
        <4>1. CASE c = n
          BY <2>1, <2>2, <2>4, <2>5, <4>1 DEF Counted, VoteFor
        <4>2. CASE c # n
          BY <2>1, <2>2, <2>5, <4>2 DEF Counted, VoteFor
        <4> QED BY <4>1, <4>2
      <3> QED BY <3>1, <3>2, NoVoteSentEvidence
    <2>8. VotesRemembered' /\ OneVotePerTerm'
      BY <2>6, <2>7, VotesInduct DEF VoteInv
    <2>9. WALCurrent'
      BY <2>2 DEF VoteInv, WALCurrent
    <2>10. VotesCounted'
      <3>1. votes[n] = Cardinality(votesReceived[n])
        BY <2>1 DEF VoteInv, VotesCounted
      <3>2. IsFiniteSet(votesReceived[n])
        BY <2>1, <2>5, FS_Subset, ServerAssumption
      <3>3. Cardinality(votesReceived[n] \cup {m.src}) = Cardinality(votesReceived[n]) + 1
        BY <2>1, <3>2, FS_AddElement, Zenon
      <3>4. votes'[n] = Cardinality(votesReceived'[n])
        BY <2>1, <2>2, <2>5, <3>1, <3>3
      <3>5. state'[n] = "Leader" => votes'[n] >= Majority
        BY <2>1, <2>2, <2>5
      <3>6. \A k \in Server \ {n} :
              state'[k] = state[k] /\ votes'[k] = votes[k] /\ votesReceived'[k] = votesReceived[k]
        BY <2>1, <2>2, <2>5
      <3> QED BY <3>4, <3>5, <3>6 DEF VoteInv, VotesCounted, Majority
    <2>11. GrantsOfTerm'
      BY <2>2 DEF VoteInv, GrantsOfTerm
    <2> QED BY <2>6, <2>7, <2>8, <2>9, <2>10, <2>11 DEF VoteInv
  \* Entry records leave the term and the vote.
  <1>PersistEntriesFields.
      ASSUME NEW w \in WALState, NEW es
      PROVE  /\ PersistEntries(w, es).term = w.term
             /\ PersistEntries(w, es).votedFor = w.votedFor
    BY <1>PersistEntriesFields DEF PersistEntries, WALState
  \* becomeFollowerLocked in a reply handler.
  <1>BecomeFollowerVotes.
      ASSUME TypeInv, TypeInv', VoteInv, NEW n \in Server, NEW term \in Nat,
             term > currentTerm[n], BecomeFollower(n, term), Send({}),
             UNCHANGED diskOK
      PROVE  VoteInv' /\ VotesStandStep /\ OnlyCastVotes
    <2> USE <1>BecomeFollowerVotes
    <2>1. /\ state' = [state EXCEPT ![n] = "Follower"]
          /\ currentTerm' = [currentTerm EXCEPT ![n] = term]
          /\ votedFor' = [votedFor EXCEPT ![n] = Nil]
          /\ votes' = [votes EXCEPT ![n] = 0]
          /\ votesReceived' = [votesReceived EXCEPT ![n] = {}]
          /\ wal' = [wal EXCEPT ![n] = PersistTerm(wal[n], term)]
      BY DEF BecomeFollower, StepDown, Save, VoteInv, WALCurrent
    <2>2. NoVoteSent
      BY DEF Send, NoVoteSent
    <2>3. wal[n] \in WALState
      BY DEF TypeInv, TypeOK
    <2>4. /\ currentTerm'[n] = term /\ votedFor'[n] = Nil /\ wal'[n].term = term
          /\ \A k \in Server \ {n} :
               /\ currentTerm'[k] = currentTerm[k] /\ votedFor'[k] = votedFor[k]
               /\ votes'[k] = votes[k] /\ votesReceived'[k] = votesReceived[k]
               /\ wal'[k] = wal[k]
      <3>1. /\ currentTerm \in [Server -> Nat] /\ wal \in [Server -> WALState]
            /\ votedFor \in [Server -> Server \cup {Nil}] /\ votes \in [Server -> Nat]
            /\ votesReceived \in [Server -> SUBSET Server]
        BY DEF TypeInv, TypeOK
      <3>2. PersistTerm(wal[n], term).term = term
        BY <2>3, <1>PersistTermFields
      <3> QED BY <2>1, <3>1, <3>2
    <2>5. \A k \in Server : diskOK'[k]
      BY DEF VoteInv, WALCurrent
    <2>6. state' = [state EXCEPT ![n] = "Follower"]
      BY <2>1
    <2>7. /\ currentTerm'[n] > currentTerm[n]
          /\ wal'[n].term = currentTerm'[n]
          /\ votedFor'[n] # Nil => wal'[n].votedFor = votedFor'[n]
      BY <2>4
    <2> QED BY ONLY TypeInv, TypeInv', VoteInv, n \in Server, Zenon,
               <2>2, <2>4, <2>5, <2>6, <2>7, FollowerStep
  \* The replies that make a node step down.
  <1>StepDownVotes.
      ASSUME TypeInv, TypeInv', VoteInv, NEW m \in msgs,
             StepDownOnVoteReply(m) \/ StepDownOnAppendReply(m)
      PROVE  VoteInv' /\ VotesStandStep /\ OnlyCastVotes
    <2> USE <1>StepDownVotes
    <2>1. m.dst \in Server /\ m.term \in Nat
      BY DEF StepDownOnVoteReply, StepDownOnAppendReply, LeaderOfRequest,
             TypeInv, TypeOK, Message
    <2>2. /\ m.term > currentTerm[m.dst] /\ BecomeFollower(m.dst, m.term)
          /\ Send({}) /\ UNCHANGED diskOK
      BY DEF StepDownOnVoteReply, StepDownOnAppendReply, diskVars
    <2> QED BY <2>1, <2>2, <1>BecomeFollowerVotes
  \* HandleAppendEntries keeps the vote of its term.
  <1>HandleAppendEntriesVotes.
      ASSUME TypeInv, TypeInv', VoteInv, NEW m \in msgs, HandleAppendEntries(m)
      PROVE  VoteInv' /\ VotesStandStep /\ OnlyCastVotes
    <2> USE <1>HandleAppendEntriesVotes
    <2> DEFINE n == m.dst
               newer == m.term > currentTerm[n]
               new == IF PrevMatches(log[n], m.prevLogIndex, m.prevLogTerm)
                      THEN NewEntries(log[n], m.prevLogIndex, m.entries) ELSE <<>>
               stepped == IF newer THEN PersistTerm(wal[n], m.term) ELSE wal[n]
               saved == PersistEntries(stepped, new)
    <2>1. /\ n \in Server /\ m.term \in Nat /\ m.term >= currentTerm[n]
          /\ currentTerm[n] \in Nat /\ wal[n] \in WALState
      BY ZenonT(30) DEF HandleAppendEntries, TypeInv, TypeOK, Message
    <2>2. /\ state' = [state EXCEPT ![n] = "Follower"]
          /\ currentTerm' = [currentTerm EXCEPT ![n] = m.term]
          /\ IF newer
             THEN /\ votedFor' = [votedFor EXCEPT ![n] = Nil]
                  /\ votes' = [votes EXCEPT ![n] = 0]
                  /\ votesReceived' = [votesReceived EXCEPT ![n] = {}]
             ELSE UNCHANGED <<votedFor, votes, votesReceived>>
          /\ wal' = [wal EXCEPT ![n] = saved]
          /\ diskOK' = diskOK
      BY <2>1, Zenon DEF HandleAppendEntries, Save, VoteInv, WALCurrent, diskVars
    <2>3. NoVoteSent
      <3>1. PICK r : Respond(r) /\ r.type = "AppendReply"
        <4>1. \A t, ok, hint : AppendReply(m, t, ok, hint).type = "AppendReply"
          BY DEF AppendReply
        <4> QED BY <4>1 DEF HandleAppendEntries
      <3>2. PICK ms : Send(ms) /\ ms \subseteq {r}
        BY <3>1 DEF Respond
      <3> QED BY <3>1, <3>2, OtherMessages
    <2>4. /\ saved.term = m.term
          /\ ~newer => saved.votedFor = wal[n].votedFor
      <3>1. /\ stepped \in WALState /\ stepped.term = m.term
            /\ ~newer => stepped = wal[n]
        <4>1. CASE newer
          BY <2>1, <4>1, PersistType, <1>PersistTermFields, Zenon
        <4>2. CASE ~newer
          <5>1. stepped = wal[n] /\ m.term = currentTerm[n]
            BY <2>1, <4>2, SMT
          <5>2. wal[n].term = currentTerm[n]
            BY <2>1 DEF VoteInv, WALCurrent
          <5> HIDE DEF stepped
          <5> QED BY <2>1, <5>1, <5>2
        <4> QED BY <4>1, <4>2
      <3> HIDE DEF stepped, new
      <3> QED BY <3>1, <1>PersistEntriesFields
    <2> HIDE DEF saved
    <2>5. /\ currentTerm'[n] = m.term /\ wal'[n] = saved
          /\ IF newer THEN votedFor'[n] = Nil ELSE votedFor'[n] = votedFor[n]
          /\ \A k \in Server \ {n} :
               /\ currentTerm'[k] = currentTerm[k] /\ votedFor'[k] = votedFor[k]
               /\ votes'[k] = votes[k] /\ votesReceived'[k] = votesReceived[k]
               /\ wal'[k] = wal[k]
      <3>1. /\ currentTerm \in [Server -> Nat] /\ wal \in [Server -> WALState]
            /\ votedFor \in [Server -> Server \cup {Nil}] /\ votes \in [Server -> Nat]
            /\ votesReceived \in [Server -> SUBSET Server]
        BY DEF TypeInv, TypeOK
      <3>2. CASE newer
        BY <2>1, <2>2, <3>1, <3>2
      <3>3. CASE ~newer
        BY <2>1, <2>2, <3>1, <3>3
      <3> QED BY <3>2, <3>3
    <2>6. /\ \A k \in Server : diskOK'[k]
          /\ votedFor[n] # Nil => wal[n].votedFor = votedFor[n]
      BY <2>1, <2>2 DEF VoteInv, WALCurrent
    <2>7. \/ currentTerm'[n] > currentTerm[n]
          \/ /\ currentTerm'[n] = currentTerm[n]
             /\ votedFor[n] # Nil => votedFor'[n] = votedFor[n]
      BY <2>1, <2>5, SMT
    <2>8. wal'[n].term = currentTerm'[n] /\ (votedFor'[n] # Nil => wal'[n].votedFor = votedFor'[n])
      BY <2>4, <2>5, <2>6
    <2> HIDE DEF n, newer
    <2> QED BY <2>1, <2>2, <2>3, <2>5, <2>6, <2>7, <2>8, FollowerStep, Zenon
  \* Commands, the senders of AppendEntries and the handlers that do not step
  \* down leave elections alone.
  <1>QuietVotes.
      ASSUME TypeInv, TypeInv', VoteInv,
             \/ \E n \in Server, c \in Command : SubmitCommand(n, c)
             \/ \E n \in Server, p \in Server : ReplicateLog(n, p)
             \/ \E n \in Server : SendHeartbeats(n)
             \/ \E n \in Server, p \in Server : \E h \in ticks[n] : SendHeartbeatTo(n, p, h)
             \/ \E m \in msgs : \/ RejectStaleAppend(m) \/ HandleAppendSuccess(m)
                                \/ HandleAppendConflict(m)
             \/ UNCHANGED vars
      PROVE  VoteInv' /\ VotesStandStep /\ OnlyCastVotes
    <2> USE <1>QuietVotes
    <2>1. CASE \E n \in Server, c \in Command : SubmitCommand(n, c)
      <3>1. PICK n \in Server, c \in Command : SubmitCommand(n, c)
        BY <2>1
      <3>2. PICK es : wal' = [wal EXCEPT ![n] = PersistEntries(wal[n], es)]
        BY <3>1, ZenonT(30) DEF SubmitCommand, Save, VoteInv, WALCurrent
      <3>3. \A k \in Server : /\ wal'[k].term = wal[k].term
                              /\ wal'[k].votedFor = wal[k].votedFor
        <4>1. wal \in [Server -> WALState]
          BY DEF TypeInv, TypeOK
        <4>2. /\ wal'[n] = PersistEntries(wal[n], es)
              /\ \A k \in Server \ {n} : wal'[k] = wal[k]
          BY <3>2, <4>1
        <4>3. /\ wal'[n].term = wal[n].term
              /\ wal'[n].votedFor = wal[n].votedFor
          <5>1. wal[n] \in WALState
            BY <4>1
          <5>2. /\ PersistEntries(wal[n], es).term = wal[n].term
                /\ PersistEntries(wal[n], es).votedFor = wal[n].votedFor
            BY <5>1, <1>PersistEntriesFields
          <5> QED BY <4>2, <5>2
        <4> QED BY <4>2, <4>3
      <3>4. /\ UNCHANGED <<state, currentTerm, votedFor, votes, votesReceived, diskOK>>
            /\ NoVoteSent
        BY <3>1 DEF SubmitCommand, electionVars, diskVars, NoVoteSent
      <3> QED BY <3>3, <3>4, <1>QuietStep
    <2>2. CASE \/ \E n \in Server, p \in Server : ReplicateLog(n, p)
               \/ \E n \in Server, p \in Server : \E h \in ticks[n] : SendHeartbeatTo(n, p, h)
      <3>1. /\ UNCHANGED <<electionVars, wal, diskVars>>
            /\ NoVoteSent
        <4>1. PICK n \in Server, p \in Server :
                ReplicateLog(n, p) \/ \E h \in ticks[n] : SendHeartbeatTo(n, p, h)
          BY <2>2
        <4>2. PICK t, c : Send({AppendEntries(n, p, t, c)})
          BY <4>1, Zenon DEF ReplicateLog, SendHeartbeatTo
        <4>3. AppendEntries(n, p, t, c).type = "AppendEntries"
          BY DEF AppendEntries
        <4>4. NoVoteSent
          BY <4>2, <4>3, OtherMessages
        <4> QED BY <4>1, <4>4, Zenon DEF ReplicateLog, SendHeartbeatTo
      <3> QED BY <3>1, <1>QuietStep DEF electionVars, diskVars
    <2>3. CASE \E m \in msgs : RejectStaleAppend(m)
      <3>1. /\ UNCHANGED <<electionVars, wal, diskVars>>
            /\ NoVoteSent
        <4>1. PICK m \in msgs : RejectStaleAppend(m)
          BY <2>3
        <4>2. PICK r : Respond(r) /\ r.type = "AppendReply"
          <5>1. \A t, ok, hint : AppendReply(m, t, ok, hint).type = "AppendReply"
            BY DEF AppendReply
          <5> QED BY <4>1, <5>1, ZenonT(30) DEF RejectStaleAppend
        <4>3. PICK ms : Send(ms) /\ ms \subseteq {r}
          BY <4>2 DEF Respond
        <4>4. NoVoteSent
          BY <4>2, <4>3, OtherMessages
        <4> QED BY <4>1, <4>4 DEF RejectStaleAppend
      <3> QED BY <3>1, <1>QuietStep DEF electionVars, diskVars
    <2>4. CASE \/ \E n \in Server : SendHeartbeats(n)
               \/ \E m \in msgs : HandleAppendSuccess(m) \/ HandleAppendConflict(m)
               \/ UNCHANGED vars
      <3>1. UNCHANGED <<electionVars, wal, diskVars, msgs>>
        BY <2>4, Zenon DEF SendHeartbeats, HandleAppendSuccess, HandleAppendConflict, vars
      <3>2. NoVoteSent
        BY <3>1 DEF NoVoteSent
      <3> QED BY <3>1, <3>2, <1>QuietStep DEF electionVars, diskVars
    <2> QED BY <2>1, <2>2, <2>3, <2>4
  <1> DEFINE Goal == VoteInv' /\ VotesStandStep /\ OnlyCastVotes
  <1>1. ASSUME NEW n \in Server, StartElection(n) PROVE Goal
    BY <1>1, <1>StartElectionVotes
  <1>2. ASSUME NEW m \in msgs, HandleRequestVote(m) PROVE Goal
    BY <1>2, <1>HandleRequestVoteVotes
  <1>3. ASSUME NEW m \in msgs, CountVote(m) PROVE Goal
    BY <1>3, <1>CountVoteVotes
  <1>4. ASSUME NEW m \in msgs, StepDownOnVoteReply(m) \/ StepDownOnAppendReply(m) PROVE Goal
    BY <1>4, <1>StepDownVotes
  <1>5. ASSUME NEW m \in msgs, HandleAppendEntries(m) PROVE Goal
    BY <1>5, <1>HandleAppendEntriesVotes
  <1> QED BY <1>1, <1>2, <1>3, <1>4, <1>5, <1>QuietVotes DEF Step, Receive

\* As long as no disk fails, so does a restart.
LEMMA NextVotes ==
  ASSUME Faulty = {}, TypeInv, VoteInv, [Next]_vars
  PROVE  VoteInv' /\ VotesStandStep
  \* A restart finds the current term, or a later one, and the current vote.
  <1>RestartVotes.
      ASSUME TypeInv, TypeInv', VoteInv, NEW n \in Server, Restart(n)
      PROVE  VoteInv' /\ VotesStandStep /\ OnlyCastVotes
    <2> USE <1>RestartVotes
    <2>1. PICK w \in CrashPoints(n) :
            /\ wal' = [wal EXCEPT ![n] = w]
            /\ currentTerm' = [currentTerm EXCEPT ![n] = w.term]
            /\ votedFor' = [votedFor EXCEPT ![n] = w.votedFor]
            /\ StepDown(n)
            /\ diskOK' = [diskOK EXCEPT ![n] = TRUE]
            /\ Send({})
      BY Zenon DEF Restart
    <2>2. /\ w.votedFor = wal[n].votedFor
          /\ w = wal[n] \/ w.term > currentTerm[n] \/ w.term = wal[n].term
      BY CrashPointsType
    <2>3. wal[n].term = currentTerm[n] /\ (votedFor[n] # Nil => wal[n].votedFor = votedFor[n])
      BY DEF VoteInv, WALCurrent
    <2>4. NoVoteSent
      BY <2>1 DEF Send, NoVoteSent
    <2>5. /\ currentTerm'[n] = w.term /\ votedFor'[n] = w.votedFor /\ wal'[n] = w
          /\ state' = [state EXCEPT ![n] = "Follower"]
          /\ \A k \in Server \ {n} :
               /\ currentTerm'[k] = currentTerm[k] /\ votedFor'[k] = votedFor[k]
               /\ votes'[k] = votes[k] /\ votesReceived'[k] = votesReceived[k]
               /\ wal'[k] = wal[k]
      <3>1. /\ currentTerm \in [Server -> Nat] /\ wal \in [Server -> WALState]
            /\ votedFor \in [Server -> Server \cup {Nil}] /\ votes \in [Server -> Nat]
            /\ votesReceived \in [Server -> SUBSET Server]
        BY DEF TypeInv, TypeOK
      <3> QED BY <2>1, <3>1 DEF StepDown
    <2>6. \A k \in Server : diskOK'[k]
      <3>1. diskOK \in [Server -> BOOLEAN] /\ \A k \in Server : diskOK[k]
        BY DEF VoteInv, WALCurrent, TypeInv, TypeOK
      <3> QED BY <2>1, <3>1
    <2>7. \/ currentTerm'[n] > currentTerm[n]
          \/ /\ currentTerm'[n] = currentTerm[n]
             /\ votedFor[n] # Nil => votedFor'[n] = votedFor[n]
      BY <2>2, <2>3, <2>5
    <2> QED BY <2>4, <2>5, <2>6, <2>7, FollowerStep, Zenon
  <1>1. TypeInv'
    BY NextType
  <1>2. \A n \in Server : ~DiskFail(n)
    BY DEF DiskFail
  <1>3. ASSUME NEW n \in Server, Restart(n) PROVE VoteInv' /\ VotesStandStep
    BY <1>1, <1>3, <1>RestartVotes
  <1>4. CASE [Step]_vars
    BY <1>1, <1>4, StepVotes
  <1> QED BY <1>2, <1>3, <1>4 DEF Next

\* The invariant holds initially: there is no evidence of any vote.
LEMMA InitVotes == Init => VoteInv
<1> SUFFICES ASSUME Init PROVE VoteInv
  OBVIOUS
<1>1. \A v, c \in Server, t \in Nat : ~VoteFor(v, c, t)
  BY DEF Init, VoteFor, Asked, Told, Counted
<1>2. VotesRemembered /\ OneVotePerTerm
  BY <1>1 DEF VotesRemembered, OneVotePerTerm
<1>3. WALCurrent /\ GrantsOfTerm /\ VotesCounted
  BY DEF Init, WALCurrent, GrantsOfTerm, VotesCounted, EmptyWAL
<1> QED BY <1>2, <1>3 DEF VoteInv

-----------------------------------------------------------------------------
(* Theorems *)

\* Any two majorities share a server.
LEMMA MajoritiesMeet ==
  ASSUME NEW A \in SUBSET Server, NEW B \in SUBSET Server,
         Cardinality(A) >= Majority, Cardinality(B) >= Majority
  PROVE  \E v \in Server : v \in A /\ v \in B
<1>1. IsFiniteSet(Server) /\ Cardinality(Server) \in Nat
  BY ServerAssumption, FS_CardinalityType
<1>2. Cardinality(A) \in Nat /\ Cardinality(B) \in Nat
  <2>1. IsFiniteSet(A) /\ IsFiniteSet(B)
    BY <1>1, FS_Subset
  <2> QED BY <2>1, FS_CardinalityType
<1>3. Cardinality(A) + Cardinality(B) > Cardinality(Server)
  <2> DEFINE N == Cardinality(Server)
             x == Cardinality(A)
             y == Cardinality(B)
  <2>1. x >= N \div 2 + 1 /\ y >= N \div 2 + 1
    BY DEF Majority
  <2>2. N \in Nat /\ x \in Nat /\ y \in Nat
    BY <1>1, <1>2
  <2> HIDE DEF N, x, y
  <2>3. x + y > N
    BY <2>1, <2>2, SMT
  <2> QED BY <2>3 DEF N, x, y
<1>4. PICK v : v \in A \cap B
  BY <1>1, <1>3, FS_MajoritiesIntersect
<1> QED BY <1>4

\* Two Leaders of a term would share a voter.
LEMMA ElectionSafetyFromVotes == TypeInv /\ VoteInv => ElectionSafety
<1> SUFFICES ASSUME TypeInv, VoteInv, NEW a \in Server, NEW b \in Server,
                    state[a] = "Leader", state[b] = "Leader",
                    currentTerm[a] = currentTerm[b]
             PROVE  a = b
  BY DEF ElectionSafety
<1>1. votesReceived[a] \in SUBSET Server /\ votesReceived[b] \in SUBSET Server
  BY DEF TypeInv, TypeOK
<1>2. /\ Cardinality(votesReceived[a]) >= Majority
      /\ Cardinality(votesReceived[b]) >= Majority
  BY DEF VoteInv, VotesCounted
<1>3. PICK v \in Server : v \in votesReceived[a] /\ v \in votesReceived[b]
  BY <1>1, <1>2, MajoritiesMeet
<1>4. VoteFor(v, a, currentTerm[a]) /\ VoteFor(v, b, currentTerm[a])
  BY <1>3 DEF VoteFor, Counted
<1>5. currentTerm[a] \in Nat
  BY DEF TypeInv, TypeOK
<1> QED BY <1>4, <1>5 DEF VoteInv, OneVotePerTerm

\* A vote that was announced is remembered, and the WAL is current.
LEMMA AnnouncedFromVotes == TypeInv /\ VoteInv => AnnouncedVotesPersisted
<1> SUFFICES ASSUME TypeInv, VoteInv, NEW m \in msgs
             PROVE  /\ m.type = "VoteReply" /\ m.granted => VotePersisted(m.src, m.dst, m.term)
                    /\ m.type = "RequestVote" => VotePersisted(m.src, m.src, m.term)
  BY DEF AnnouncedVotesPersisted
<1>1. ASSUME NEW v \in Server, NEW c \in Server, NEW t \in Nat, VoteFor(v, c, t)
      PROVE  VotePersisted(v, c, t)
  <2>1. Voted(v, c, t)
    BY <1>1 DEF VoteInv, VotesRemembered
  <2>2. c # Nil
    BY ServerAssumption
  <2> QED BY <2>1, <2>2 DEF Voted, VotePersisted, VoteInv, WALCurrent
<1>2. CASE m.type = "VoteReply" /\ m.granted
  <2>1. m.src \in Server /\ m.dst \in Server /\ m.term \in Nat
    BY <1>2, Zenon DEF TypeInv, TypeOK, Message
  <2>2. VoteFor(m.src, m.dst, m.term)
    BY <1>2 DEF VoteFor, Told
  <2> QED BY <1>1, <1>2, <2>1, <2>2
<1>3. CASE m.type = "RequestVote"
  <2>1. m.src \in Server /\ m.term \in Nat
    BY <1>3, Zenon DEF TypeInv, TypeOK, Message
  <2>2. VoteFor(m.src, m.src, m.term)
    BY <1>3 DEF VoteFor, Asked
  <2> QED BY <1>1, <1>3, <2>1, <2>2
<1> QED BY <1>2, <1>3

\* There is at most one Leader per term in any cluster, whatever messages are
\* lost, repeated or late and however often nodes crash and replay their WAL,
\* provided writes to the WAL succeed (node.go startElection,
\* HandleRequestVote, becomeLeaderLocked, Replay).
THEOREM ElectionsAreSafe == Faulty = {} => (Spec => []ElectionSafety)
<1> SUFFICES ASSUME Faulty = {} PROVE Spec => []ElectionSafety
  OBVIOUS
<1>1. Init => TypeInv /\ VoteInv
  BY InitType, InitVotes
<1>2. (TypeInv /\ VoteInv) /\ [Next]_vars => (TypeInv /\ VoteInv)'
  BY NextType, NextVotes
<1>3. TypeInv /\ VoteInv => ElectionSafety
  BY ElectionSafetyFromVotes
<1> QED BY <1>1, <1>2, <1>3, PTL DEF Spec

\* INVARIANT 2 of node.go: a vote that has been announced is in the voter's
\* WAL, provided writes to the WAL succeed.
THEOREM VotesArePersisted == Faulty = {} => (Spec => []AnnouncedVotesPersisted)
<1> SUFFICES ASSUME Faulty = {} PROVE Spec => []AnnouncedVotesPersisted
  OBVIOUS
<1>1. Init => TypeInv /\ VoteInv
  BY InitType, InitVotes
<1>2. (TypeInv /\ VoteInv) /\ [Next]_vars => (TypeInv /\ VoteInv)'
  BY NextType, NextVotes
<1>3. TypeInv /\ VoteInv => AnnouncedVotesPersisted
  BY AnnouncedFromVotes
<1> QED BY <1>1, <1>2, <1>3, PTL DEF Spec

\* INVARIANT 1 of node.go: no step, a crash and replay included, lowers a
\* node's term or changes the vote of its term, provided writes to the WAL
\* succeed.
THEOREM TermsAndVotesAreKept == Faulty = {} => (Spec => TermsAndVotesStand)
<1> SUFFICES ASSUME Faulty = {} PROVE Spec => TermsAndVotesStand
  OBVIOUS
<1>1. Init => TypeInv /\ VoteInv
  BY InitType, InitVotes
<1>2. (TypeInv /\ VoteInv) /\ [Next]_vars => (TypeInv /\ VoteInv)'
  BY NextType, NextVotes
<1>3. (TypeInv /\ VoteInv) /\ [Next]_vars => [VotesStandStep]_vars
  BY NextVotes
<1> QED BY <1>1, <1>2, <1>3, PTL DEF Spec, TermsAndVotesStand, VotesStandStep

-----------------------------------------------------------------------------
(* Who asks for votes, and who gets them *)

\* v can grant c the vote of term t.
Granted(v, c, t) ==
  \E m \in msgs :
    /\ m.type = "RequestVote" /\ m.src = c /\ m.dst = v /\ m.term = t
    /\ currentTerm[v] <= t
    /\ isLogUpToDate(log[v], m.lastLogTerm, m.lastLogIndex)

\* c enters term t in this step.
Enters(c, t) == currentTerm[c] < t /\ currentTerm'[c] = t

\* New evidence of a vote is that of a candidate for itself or of a grant.
VotesAsked ==
  \A v, c \in Server, t \in Nat :
    VoteFor(v, c, t)' =>
      VoteFor(v, c, t) \/ Granted(v, c, t) \/ (v = c /\ Enters(c, t))

\* A candidate asks for votes with the end of its log.
RequestsFresh ==
  \A m \in msgs' : m.type = "RequestVote" =>
    \/ m \in msgs
    \/ /\ Enters(m.src, m.term) /\ log'[m.src] = log[m.src]
       /\ m.lastLogIndex = Len(log[m.src]) /\ m.lastLogTerm = LastTerm(log[m.src])

\* v accepts the request m.
Accepts(v, m) ==
  /\ m.type = "AppendEntries" /\ m.dst = v
  /\ m.term >= currentTerm[v] /\ currentTerm'[v] = m.term /\ state'[v] = "Follower"
  /\ PrevMatches(log[v], m.prevLogIndex, m.prevLogTerm)
  /\ log'[v] = AppendNew(log[v], m.prevLogIndex, m.entries)

NoNewVotes == \A v, c \in Server, t \in Nat : VoteFor(v, c, t)' => VoteFor(v, c, t)

\* HandleAppendEntries, taken apart.
LEMMA HandleAppendEntriesParts ==
  ASSUME TypeInv, NEW m \in msgs, HandleAppendEntries(m)
  PROVE  /\ m.type = "AppendEntries" /\ m.dst \in Server /\ m.term \in Nat
         /\ m.term >= currentTerm[m.dst]
         /\ state' = [state EXCEPT ![m.dst] = "Follower"]
         /\ currentTerm' = [currentTerm EXCEPT ![m.dst] = m.term]
         /\ \A k \in Server \ {m.dst} :
              /\ currentTerm'[k] = currentTerm[k] /\ log'[k] = log[k]
              /\ votesReceived'[k] = votesReceived[k] /\ commitIndex'[k] = commitIndex[k]
         /\ UNCHANGED <<ticks, matchIndex>>
         /\ \/ Accepts(m.dst, m) /\ \/ commitIndex'[m.dst] = commitIndex[m.dst]
                                    \/ /\ m.leaderCommit > commitIndex[m.dst]
                                       /\ commitIndex'[m.dst] =
                                            Min({m.leaderCommit, Len(log'[m.dst])})
            \/ log'[m.dst] = log[m.dst] /\ commitIndex'[m.dst] = commitIndex[m.dst]
         /\ \E r : /\ msgs' \subseteq msgs \cup {r} /\ r.type = "AppendReply"
                   /\ r.src = m.dst /\ r.dst = m.src /\ r.reqTerm = m.term
<1> DEFINE n == m.dst
           ok == PrevMatches(log[n], m.prevLogIndex, m.prevLogTerm)
           newLog == IF ok THEN AppendNew(log[n], m.prevLogIndex, m.entries) ELSE log[n]
           hint == IF ok THEN NoHint ELSE ConflictHint(log[n], m.prevLogIndex)
           r == AppendReply(m, m.term, ok, hint)
<1>1. m.type = "AppendEntries" /\ n \in Server /\ m.term \in Nat
  BY DEF HandleAppendEntries, TypeInv, TypeOK, Message
<1>2. /\ m.term >= currentTerm[n]
      /\ state' = [state EXCEPT ![n] = "Follower"]
      /\ currentTerm' = [currentTerm EXCEPT ![n] = m.term]
      /\ log' = [log EXCEPT ![n] = newLog]
      /\ commitIndex' = [commitIndex EXCEPT ![n] =
           IF ok THEN FollowerCommit(newLog, commitIndex[n], m.leaderCommit)
                 ELSE commitIndex[n]]
      /\ votesReceived' = votesReceived \/ votesReceived' = [votesReceived EXCEPT ![n] = {}]
      /\ Respond(r) /\ UNCHANGED <<ticks, matchIndex>>
  BY DEF HandleAppendEntries, leaderVars
<1>3. r.type = "AppendReply" /\ r.src = n /\ r.dst = m.src /\ r.reqTerm = m.term
  BY Zenon DEF AppendReply
<1>4. /\ currentTerm \in [Server -> Nat] /\ log \in [Server -> Seq(Entry(Command))]
      /\ commitIndex \in [Server -> Nat] /\ votesReceived \in [Server -> SUBSET Server]
      /\ state \in [Server -> {"Follower", "Candidate", "Leader"}]
  BY DEF TypeInv, TypeOK
<1>5. ok => newLog = AppendNew(log[n], m.prevLogIndex, m.entries)
  OBVIOUS
<1>6. ~ok => newLog = log[n]
  OBVIOUS
<1>7. ok => PrevMatches(log[n], m.prevLogIndex, m.prevLogTerm)
  OBVIOUS
<1> HIDE DEF r, n, ok, newLog
<1>8. msgs' \subseteq msgs \cup {r}
  BY <1>2 DEF Respond, Send
<1>9. \A k \in Server \ {n} :
        /\ currentTerm'[k] = currentTerm[k] /\ log'[k] = log[k]
        /\ votesReceived'[k] = votesReceived[k] /\ commitIndex'[k] = commitIndex[k]
  BY <1>2, <1>4
<1>10. /\ log'[n] = newLog /\ currentTerm'[n] = m.term /\ state'[n] = "Follower"
       /\ commitIndex'[n] =
            IF ok THEN FollowerCommit(newLog, commitIndex[n], m.leaderCommit)
                  ELSE commitIndex[n]
  BY <1>1, <1>2, <1>4
<1>11. CASE ok
  <2>1. Accepts(n, m)
    BY <1>1, <1>2, <1>5, <1>7, <1>10, <1>11 DEF Accepts, n
  <2>2. \/ commitIndex'[n] = commitIndex[n]
        \/ /\ m.leaderCommit > commitIndex[n]
           /\ commitIndex'[n] = Min({m.leaderCommit, Len(log'[n])})
    BY <1>10, <1>11 DEF FollowerCommit, LastIndex
  <2> QED BY <1>1, <1>2, <1>3, <1>8, <1>9, <2>1, <2>2 DEF n
<1>12. CASE ~ok
  <2>1. log'[n] = log[n] /\ commitIndex'[n] = commitIndex[n]
    BY <1>6, <1>10, <1>12
  <2> QED BY <1>1, <1>2, <1>3, <1>8, <1>9, <2>1 DEF n
<1> QED BY <1>11, <1>12

\* What every step does to votes and requests for them.
LEMMA StepAsks ==
  ASSUME TypeInv, TypeInv', VoteInv, [Step]_vars
  PROVE  VotesAsked /\ RequestsFresh
  \* Then none has to be accounted for.
  <1>NoVotesMoved.
      ASSUME NoVoteSent, NoNewVotes
      PROVE  VotesAsked /\ RequestsFresh
    BY <1>NoVotesMoved DEF NoVoteSent, NoNewVotes, VotesAsked, RequestsFresh
  \* Votes come neither from messages nor from what candidates count.
  <1>VotesKept.
      ASSUME NoVoteSent,
             \A c \in Server : state'[c] \in {"Candidate", "Leader"} =>
               /\ state[c] \in {"Candidate", "Leader"} /\ currentTerm'[c] = currentTerm[c]
               /\ votesReceived'[c] = votesReceived[c]
      PROVE  NoNewVotes
    <2> USE <1>VotesKept
    <2> SUFFICES ASSUME NEW v \in Server, NEW c \in Server, NEW t \in Nat, VoteFor(v, c, t)'
                 PROVE  VoteFor(v, c, t)
      BY DEF NoNewVotes
    <2>1. Counted(v, c, t)' => Counted(v, c, t)
      BY DEF Counted
    <2> QED BY <2>1, NoVoteSentEvidence DEF VoteFor
  \* startElection asks with the end of the log, and votes for itself.
  <1>StartElectionAsks.
      ASSUME TypeInv, NEW n \in Server, StartElection(n)
      PROVE  VotesAsked /\ RequestsFresh
    <2> USE <1>StartElectionAsks
    <2> DEFINE term == currentTerm[n] + 1
               request(p) == [type |-> "RequestVote", src |-> n, dst |-> p, term |-> term,
                              lastLogIndex |-> LastIndex(log[n]),
                              lastLogTerm |-> LastTerm(log[n])]
    <2>1. /\ currentTerm' = [currentTerm EXCEPT ![n] = term]
          /\ state' = [state EXCEPT ![n] = "Candidate"]
          /\ votesReceived' = [votesReceived EXCEPT ![n] = {n}]
          /\ log' = log
          /\ \A m \in msgs' : m \in msgs \/ \E p \in Server : m = request(p)
      BY DEF StartElection, Send, Peers, logVars
    <2>2. \A p \in Server : /\ request(p).type = "RequestVote"
                            /\ request(p).src = n /\ request(p).term = term
                            /\ request(p).lastLogIndex = Len(log[n])
                            /\ request(p).lastLogTerm = LastTerm(log[n])
      BY DEF LastIndex
    <2>3. term \in Nat /\ currentTerm[n] < term
      <3>1. currentTerm[n] \in Nat
        BY DEF TypeInv, TypeOK
      <3> QED BY <3>1, SMT
    <2> HIDE DEF term, request
    <2>4. Enters(n, term)
      BY <2>1, <2>3 DEF Enters, TypeInv, TypeOK
    <2>5. RequestsFresh
      BY <2>1, <2>2, <2>4 DEF RequestsFresh
    <2>6. ASSUME NEW v \in Server, NEW c \in Server, NEW t \in Nat, VoteFor(v, c, t)'
          PROVE  VoteFor(v, c, t) \/ (v = c /\ Enters(c, t))
      <3>1. CASE v = c /\ Asked(c, t)'
        BY <2>1, <2>2, <2>4, <3>1 DEF Asked, VoteFor
      <3>2. CASE Told(v, c, t)'
        BY <2>1, <2>2, <3>2 DEF Told, VoteFor
      <3>3. CASE Counted(v, c, t)'
        <4>1. CASE c = n
          BY <2>1, <2>4, <3>3, <4>1 DEF Counted, TypeInv, TypeOK
        <4>2. CASE c # n
          BY <2>1, <3>3, <4>2 DEF Counted, VoteFor, TypeInv, TypeOK
        <4> QED BY <4>1, <4>2
      <3> QED BY <2>6, <3>1, <3>2, <3>3 DEF VoteFor
    <2>7. VotesAsked
      BY <2>6 DEF VotesAsked
    <2> QED BY <2>5, <2>7
  \* The reply to a vote request, and the roles after it.
  <1>HandleRequestVoteReply.
      ASSUME TypeInv, NEW m \in msgs, HandleRequestVote(m)
      PROVE  /\ m.type = "RequestVote"
             /\ \E r : /\ msgs' \subseteq msgs \cup {r}
                       /\ r.type = "VoteReply" /\ r.src = m.dst /\ r.dst = m.src
                       /\ r.granted => /\ r.term = m.term /\ currentTerm[m.dst] <= m.term
                                       /\ isLogUpToDate(log[m.dst], m.lastLogTerm,
                                                        m.lastLogIndex)
             /\ \A c \in Server : state'[c] \in {"Candidate", "Leader"} =>
                  /\ state[c] \in {"Candidate", "Leader"}
                  /\ currentTerm'[c] = currentTerm[c]
                  /\ votesReceived'[c] = votesReceived[c]
    <2> USE <1>HandleRequestVoteReply
    <2> DEFINE n == m.dst
               newer == m.term > currentTerm[n]
               term == Max({m.term, currentTerm[n]})
               voted == IF newer THEN Nil ELSE votedFor[n]
               granted == /\ m.term >= currentTerm[n]
                          /\ CanVote(voted, m.src)
                          /\ isLogUpToDate(log[n], m.lastLogTerm, m.lastLogIndex)
               reply == [type |-> "VoteReply", src |-> n, dst |-> m.src,
                         reqTerm |-> m.term, term |-> term, granted |-> granted]
    <2>1. m.type = "RequestVote" /\ m.src \in Server /\ n \in Server /\ m.term \in Nat
      BY ZenonT(30) DEF HandleRequestVote, TypeInv, TypeOK, Message
    <2>2. /\ currentTerm' = [currentTerm EXCEPT ![n] = term]
          /\ IF newer THEN StepDown(n) ELSE UNCHANGED <<state, votes, votesReceived>>
          /\ Respond(reply)
      BY ZenonT(30) DEF HandleRequestVote
    <2>3. /\ currentTerm \in [Server -> Nat] /\ currentTerm[n] \in Nat
          /\ state \in [Server -> {"Follower", "Candidate", "Leader"}]
          /\ votesReceived \in [Server -> SUBSET Server]
      BY <2>1, Zenon DEF TypeInv, TypeOK
    <2>4. term = IF m.term >= currentTerm[n] THEN m.term ELSE currentTerm[n]
      BY <2>1, <2>3, MaxOfTwo
    <2>5. /\ reply.type = "VoteReply" /\ reply.src = n /\ reply.dst = m.src
          /\ reply.term = term
          /\ reply.granted => /\ m.term >= currentTerm[n]
                              /\ isLogUpToDate(log[n], m.lastLogTerm, m.lastLogIndex)
      OBVIOUS
    <2> HIDE DEF n, term, granted, reply
    <2>6. msgs' \subseteq msgs \cup {reply}
      BY <2>2 DEF Respond, Send
    <2>7. reply.granted => reply.term = m.term /\ currentTerm[n] <= m.term
      BY <2>1, <2>3, <2>4, <2>5
    <2>8. \A c \in Server : state'[c] \in {"Candidate", "Leader"} =>
            /\ state[c] \in {"Candidate", "Leader"} /\ currentTerm'[c] = currentTerm[c]
            /\ votesReceived'[c] = votesReceived[c]
      <3>1. CASE newer
        BY <2>1, <2>2, <2>3, <3>1 DEF StepDown
      <3>2. CASE ~newer
        <4>1. term = currentTerm[n]
          BY <2>1, <2>3, <2>4, <3>2, SMTT(30)
        <4>2. \A c \in Server : currentTerm'[c] = currentTerm[c]
          BY <2>1, <2>2, <2>3, <4>1
        <4>3. state' = state /\ votesReceived' = votesReceived
          BY <2>2, <3>2
        <4> QED BY <4>2, <4>3
      <3> QED BY <3>1, <3>2
    <2> QED BY <2>1, <2>5, <2>6, <2>7, <2>8 DEF n
  \* HandleRequestVote gives its vote to a log that is up to date.
  <1>HandleRequestVoteGrants.
      ASSUME TypeInv, NEW m \in msgs, HandleRequestVote(m)
      PROVE  VotesAsked /\ RequestsFresh
    <2> USE <1>HandleRequestVoteGrants
    <2>1. /\ m.type = "RequestVote"
          /\ \A c \in Server : state'[c] \in {"Candidate", "Leader"} =>
               /\ state[c] \in {"Candidate", "Leader"} /\ currentTerm'[c] = currentTerm[c]
               /\ votesReceived'[c] = votesReceived[c]
      BY <1>HandleRequestVoteReply
    <2>2. PICK r : /\ msgs' \subseteq msgs \cup {r}
                   /\ r.type = "VoteReply" /\ r.src = m.dst /\ r.dst = m.src
                   /\ r.granted => /\ r.term = m.term /\ currentTerm[m.dst] <= m.term
                                   /\ isLogUpToDate(log[m.dst], m.lastLogTerm,
                                                    m.lastLogIndex)
      BY <1>HandleRequestVoteReply
    <2>3. RequestsFresh
      BY <2>2 DEF RequestsFresh
    <2>4. ASSUME NEW v \in Server, NEW c \in Server, NEW t \in Nat, VoteFor(v, c, t)'
          PROVE  VoteFor(v, c, t) \/ Granted(v, c, t)
      <3>1. CASE v = c /\ Asked(c, t)'
        BY <2>2, <3>1 DEF Asked, VoteFor
      <3>2. CASE Told(v, c, t)'
        <4>1. PICK q \in msgs' : /\ q.type = "VoteReply" /\ q.granted
                                 /\ q.src = v /\ q.dst = c /\ q.term = t
          BY <3>2 DEF Told
        <4>2. CASE q \in msgs
          BY <4>1, <4>2 DEF Told, VoteFor
        <4>3. CASE q = r
          BY <2>1, <2>2, <4>1, <4>3 DEF Granted
        <4> QED BY <2>2, <4>2, <4>3
      <3>3. CASE Counted(v, c, t)'
        BY <2>1, <3>3 DEF Counted, VoteFor
      <3> QED BY <2>4, <3>1, <3>2, <3>3 DEF VoteFor
    <2>5. VotesAsked
      BY <2>4 DEF VotesAsked
    <2> QED BY <2>3, <2>5
  \* A vote is counted that was told before.
  <1>CountVoteTold.
      ASSUME TypeInv, VoteInv, NEW m \in msgs, CountVote(m)
      PROVE  VotesAsked /\ RequestsFresh
    <2> USE <1>CountVoteTold
    <2> DEFINE n == m.dst
    <2>1. /\ m.type = "VoteReply" /\ m.src \in Server /\ n \in Server /\ m.granted
          /\ state[n] = "Candidate" /\ currentTerm[n] = m.reqTerm
      BY Zenon DEF CountVote, TypeInv, TypeOK, Message
    <2>2. /\ votesReceived' = [votesReceived EXCEPT ![n] = votesReceived[n] \cup {m.src}]
          /\ currentTerm' = currentTerm /\ msgs' \subseteq msgs
          /\ state' = state \/ state' = [state EXCEPT ![n] = "Leader"]
      BY DEF CountVote, BecomeLeader, Send
    <2>3. Told(m.src, n, currentTerm[n])
      BY <2>1 DEF VoteInv, GrantsOfTerm, Told
    <2>4. /\ votesReceived \in [Server -> SUBSET Server]
          /\ state \in [Server -> {"Follower", "Candidate", "Leader"}]
      BY Zenon DEF TypeInv, TypeOK
    <2> HIDE DEF n
    <2>5. NoVoteSent
      BY <2>2 DEF NoVoteSent
    <2>6. NoNewVotes
      <3> SUFFICES ASSUME NEW v \in Server, NEW c \in Server, NEW t \in Nat,
                          VoteFor(v, c, t)'
                   PROVE  VoteFor(v, c, t)
        BY DEF NoNewVotes
      <3>1. Counted(v, c, t)' => VoteFor(v, c, t)
        <4>1. CASE c = n
          BY <2>1, <2>2, <2>3, <2>4, <4>1 DEF Counted, VoteFor
        <4>2. CASE c # n
          BY <2>1, <2>2, <2>4, <4>2 DEF Counted, VoteFor
        <4> QED BY <4>1, <4>2
      <3> QED BY <2>5, <3>1, NoVoteSentEvidence
    <2> QED BY <2>5, <2>6, <1>NoVotesMoved
  \* A node that becomes or stays Follower.
  <1>FollowerVotes.
      ASSUME TypeInv, NoVoteSent, NEW n \in Server,
             state' = [state EXCEPT ![n] = "Follower"],
             \A k \in Server \ {n} :
               currentTerm'[k] = currentTerm[k] /\ votesReceived'[k] = votesReceived[k]
      PROVE  VotesAsked /\ RequestsFresh
    <2> USE <1>FollowerVotes
    <2>1. state \in [Server -> {"Follower", "Candidate", "Leader"}]
      BY DEF TypeInv, TypeOK
    <2>2. NoNewVotes
      BY <2>1, <1>VotesKept
    <2> QED BY <2>2, <1>NoVotesMoved
  \* No handler of replication has to do with votes.
  <1>ReplicationVotes.
      ASSUME TypeInv, TypeInv', VoteInv, NoVoteSent,
             UNCHANGED <<state, currentTerm, votesReceived>>
      PROVE  VotesAsked /\ RequestsFresh
    BY <1>ReplicationVotes, <1>VotesKept, <1>NoVotesMoved
  <1> DEFINE Goal == VotesAsked /\ RequestsFresh
  <1>1. ASSUME NEW n \in Server, StartElection(n) PROVE Goal
    BY <1>1, <1>StartElectionAsks
  <1>2. ASSUME NEW m \in msgs, HandleRequestVote(m) PROVE Goal
    BY <1>2, <1>HandleRequestVoteGrants
  <1>3. ASSUME NEW m \in msgs, CountVote(m) PROVE Goal
    BY <1>3, <1>CountVoteTold
  <1>4. ASSUME NEW m \in msgs, StepDownOnVoteReply(m) \/ StepDownOnAppendReply(m) PROVE Goal
    <2>1. m.dst \in Server
      BY <1>4 DEF StepDownOnVoteReply, StepDownOnAppendReply, LeaderOfRequest,
                  TypeInv, TypeOK, Message
    <2>2. BecomeFollower(m.dst, m.term) /\ Send({})
      BY <1>4 DEF StepDownOnVoteReply, StepDownOnAppendReply
    <2>3. NoVoteSent
      BY <2>2 DEF Send, NoVoteSent
    <2>4. /\ state' = [state EXCEPT ![m.dst] = "Follower"]
          /\ \A k \in Server \ {m.dst} :
               currentTerm'[k] = currentTerm[k] /\ votesReceived'[k] = votesReceived[k]
      BY <2>1, <2>2 DEF BecomeFollower, StepDown, TypeInv, TypeOK
    <2> QED BY <2>1, <2>3, <2>4, <1>FollowerVotes, Zenon
  <1>5. ASSUME NEW m \in msgs, HandleAppendEntries(m) PROVE Goal
    <2>1. /\ m.dst \in Server /\ state' = [state EXCEPT ![m.dst] = "Follower"]
          /\ \A k \in Server \ {m.dst} :
               currentTerm'[k] = currentTerm[k] /\ votesReceived'[k] = votesReceived[k]
      BY <1>5, HandleAppendEntriesParts, Zenon
    <2>2. PICK r : msgs' \subseteq msgs \cup {r} /\ r.type = "AppendReply"
      BY <1>5, HandleAppendEntriesParts, Zenon
    <2>3. NoVoteSent
      BY <2>2 DEF NoVoteSent
    <2> QED BY <2>1, <2>3, <1>FollowerVotes, Zenon
  <1>6. ASSUME NEW n \in Server, NEW p \in Server,
               ReplicateLog(n, p) \/ \E h \in ticks[n] : SendHeartbeatTo(n, p, h)
        PROVE  Goal
    <2>1. PICK t, c : Send({AppendEntries(n, p, t, c)})
      BY <1>6, Zenon DEF ReplicateLog, SendHeartbeatTo
    <2>2. AppendEntries(n, p, t, c).type = "AppendEntries"
      BY DEF AppendEntries
    <2>3. NoVoteSent
      BY <2>1, <2>2, OtherMessages
    <2>4. UNCHANGED electionVars
      BY <1>6, Zenon DEF ReplicateLog, SendHeartbeatTo
    <2> QED BY <2>3, <2>4, <1>ReplicationVotes DEF electionVars
  <1>7. ASSUME NEW m \in msgs, RejectStaleAppend(m) PROVE Goal
    <2>1. \A t, ok, hint : AppendReply(m, t, ok, hint).type = "AppendReply"
      BY DEF AppendReply
    <2>2. PICK r : Respond(r) /\ r.type = "AppendReply"
      BY <1>7, <2>1, Zenon DEF RejectStaleAppend
    <2>3. PICK ms : Send(ms) /\ ms \subseteq {r}
      BY <2>2 DEF Respond
    <2>4. NoVoteSent
      BY <2>2, <2>3, OtherMessages
    <2>5. UNCHANGED electionVars
      BY <1>7 DEF RejectStaleAppend
    <2> QED BY <2>4, <2>5, <1>ReplicationVotes DEF electionVars
  <1>8. ASSUME UNCHANGED <<electionVars, msgs>> PROVE Goal
    <2>1. NoVoteSent
      BY <1>8 DEF NoVoteSent
    <2> QED BY <1>8, <2>1, <1>ReplicationVotes DEF electionVars
  <1>9. ASSUME \/ \E n \in Server, c \in Command : SubmitCommand(n, c)
               \/ \E n \in Server : SendHeartbeats(n)
               \/ \E m \in msgs : HandleAppendSuccess(m) \/ HandleAppendConflict(m)
               \/ UNCHANGED vars
        PROVE  Goal
    <2>1. UNCHANGED <<electionVars, msgs>>
      BY <1>9, Zenon DEF SubmitCommand, SendHeartbeats, HandleAppendSuccess,
                  HandleAppendConflict, vars
    <2> QED BY <1>8, <2>1
  <1> QED BY <1>1, <1>2, <1>3, <1>4, <1>5, <1>6, <1>7, <1>9 DEF Step, Receive

-----------------------------------------------------------------------------
(* Elected *)

\* v took c's side in term t: it is past t or votes for c, and there is no
\* evidence of a vote for another.
Chose(v, c, t) ==
  Voted(v, c, t) /\ \A d \in Server : VoteFor(v, d, t) => d = c

\* Whoever else becomes Leader of term t, or became it, is c.
Elected(c, t) ==
  \E Q \in SUBSET Server : Cardinality(Q) >= Majority /\ \A v \in Q : Chose(v, c, t)

\* A side taken in a term is taken for good.
LEMMA ChoseStays ==
  ASSUME TypeInv, TypeInv', VotesStandStep, OnlyCastVotes,
         NEW v \in Server, NEW c \in Server, NEW t \in Nat, Chose(v, c, t)
  PROVE  Chose(v, c, t)'
<1>1. currentTerm[v] \in Nat /\ currentTerm'[v] \in Nat /\ c # Nil
  BY ServerAssumption DEF TypeInv, TypeOK
<1>2. Voted(v, c, t) /\ Voted(v, c, t)'
  BY <1>1, SMT DEF Chose, Voted, VotesStandStep
<1>3. ASSUME NEW d \in Server, VoteFor(v, d, t)' PROVE d = c
  <2>1. CASE VoteFor(v, d, t)
    BY <2>1 DEF Chose
  <2>2. CASE CastNow(v, d, t)
    BY <1>1, <1>2, <2>2, SMTT(30) DEF CastNow, Voted
  <2> QED BY <1>3, <2>1, <2>2 DEF OnlyCastVotes
<1> QED BY <1>2, <1>3 DEF Chose

\* So is an election.
LEMMA ElectedStays ==
  ASSUME TypeInv, TypeInv', VotesStandStep, OnlyCastVotes,
         NEW c \in Server, NEW t \in Nat, Elected(c, t)
  PROVE  Elected(c, t)'
<1>1. PICK Q \in SUBSET Server : Cardinality(Q) >= Majority /\ \A v \in Q : Chose(v, c, t)
  BY DEF Elected
<1>2. \A v \in Q : Chose(v, c, t)'
  BY <1>1, ChoseStays
<1> QED BY <1>1, <1>2 DEF Elected

\* The Leader of a term is elected in it.
LEMMA LeaderElected ==
  ASSUME TypeInv, VoteInv, NEW n \in Server, state[n] = "Leader"
  PROVE  Elected(n, currentTerm[n])
<1>1. votesReceived[n] \in SUBSET Server /\ currentTerm[n] \in Nat
  BY DEF TypeInv, TypeOK
<1>2. Cardinality(votesReceived[n]) >= Majority
  BY DEF VoteInv, VotesCounted
<1>3. ASSUME NEW v \in votesReceived[n] PROVE Chose(v, n, currentTerm[n])
  <2>1. v \in Server /\ VoteFor(v, n, currentTerm[n])
    BY <1>1 DEF VoteFor, Counted
  <2> QED BY <1>1, <2>1 DEF Chose, VoteInv, VotesRemembered, OneVotePerTerm
<1> QED BY <1>1, <1>2, <1>3 DEF Elected

\* And nobody else is.
OnlyLeaderElected ==
  \A n, c \in Server : state[n] = "Leader" /\ Elected(c, currentTerm[n]) => c = n

\* The majority that chose another would share a voter with the Leader's.
LEMMA LeaderOnlyElected == TypeInv /\ VoteInv => OnlyLeaderElected
<1> SUFFICES ASSUME TypeInv, VoteInv, NEW n \in Server, state[n] = "Leader",
                    NEW c \in Server, Elected(c, currentTerm[n])
             PROVE  c = n
  BY DEF OnlyLeaderElected
<1>1. votesReceived[n] \in SUBSET Server /\ currentTerm[n] \in Nat
  BY DEF TypeInv, TypeOK
<1>2. Cardinality(votesReceived[n]) >= Majority
  BY DEF VoteInv, VotesCounted
<1>3. PICK Q \in SUBSET Server :
        Cardinality(Q) >= Majority /\ \A v \in Q : Chose(v, c, currentTerm[n])
  BY DEF Elected
<1>4. PICK v \in Server : v \in votesReceived[n] /\ v \in Q
  BY <1>1, <1>2, <1>3, MajoritiesMeet
<1>5. VoteFor(v, n, currentTerm[n])
  BY <1>4 DEF VoteFor, Counted
<1> QED BY <1>3, <1>4, <1>5 DEF Chose

\* The same of the state after a step.
LEMMA LeaderOnlyElectedNext == TypeInv' /\ VoteInv' => OnlyLeaderElected'
BY LeaderOnlyElected, PTL

-----------------------------------------------------------------------------
(* Links: the inductive invariant *)

\* Some log or some request on its way has this link.
InLog(i, e, p) == \E a \in Server : Link(log[a], 0, 0, i, e, p)
InRequest(i, e, p) ==
  \E m \in msgs : /\ m.type = "AppendEntries"
                  /\ Link(m.entries, m.prevLogIndex, m.prevLogTerm, i, e, p)
Linked(i, e, p) == InLog(i, e, p) \/ InRequest(i, e, p)

\* c is done with being a Candidate of term t.
Begun(c, t) ==
  currentTerm[c] > t \/ (currentTerm[c] = t /\ state[c] # "Candidate")

\* The slot and the term of an entry determine it and its predecessor's term.
LinksUnique ==
  \A i \in Nat, e, f \in Entry(Command), p, q \in Nat :
    Linked(i, e, p) /\ Linked(i, f, q) /\ e.term = f.term => e = f /\ p = q

\* Only one slot is the first of a term.
StartsUnique ==
  \A i, j \in Nat, e, f \in Entry(Command), p, q \in Nat :
    /\ Linked(i, e, p) /\ Linked(j, f, q)
    /\ e.term = f.term /\ p # e.term /\ q # f.term
    => i = j

\* An entry comes from a Leader of its term.
LinksElected ==
  \A i \in Nat, e \in Entry(Command), p \in Nat :
    Linked(i, e, p) => \E c \in Server : Elected(c, e.term) /\ Begun(c, e.term)

\* An entry carries the slot it is at.
IndexIsSlot ==
  \A i \in Nat, e \in Entry(Command), p \in Nat : Linked(i, e, p) => e.index = i

\* Entries of a Leader's term are in its log, which ends with one of them.
LeaderAhead ==
  \A n \in Server, i \in Nat, e \in Entry(Command), p \in Nat :
    state[n] = "Leader" /\ Linked(i, e, p) /\ e.term = currentTerm[n]
      => i <= Len(log[n]) /\ LastTerm(log[n]) = currentTerm[n]

\* A request that starts at slot 1 names the sentinel's term.
SentinelSent ==
  \A m \in msgs : m.type = "AppendEntries" /\ m.prevLogIndex = 0 => m.prevLogTerm = 0

MatchInv ==
  /\ LinksUnique /\ StartsUnique /\ LinksElected /\ IndexIsSlot
  /\ LeaderAhead /\ SentinelSent

-----------------------------------------------------------------------------
(* What every step does to links *)

\* No link is made.
NoNewLinks ==
  \A i \in Nat, e \in Entry(Command), p \in Nat : Linked(i, e, p)' => Linked(i, e, p)

\* A node becomes Candidate in a new term only, and a Leader was Candidate or
\* Leader in its term.
RolesStand ==
  \A n \in Server :
    /\ state'[n] = "Candidate" =>
         state[n] = "Candidate" \/ currentTerm'[n] > currentTerm[n]
    /\ state'[n] = "Leader" =>
         /\ state[n] \in {"Candidate", "Leader"}
         /\ currentTerm'[n] = currentTerm[n]

\* Who is Leader after the step keeps its log in it.
LeadersKeepLogs == \A n \in Server : state'[n] = "Leader" => log'[n] = log[n]

\* A term that has begun stays begun.
LEMMA BegunStays ==
  ASSUME TypeInv, TypeInv', VotesStandStep, RolesStand,
         NEW c \in Server, NEW t \in Nat, Begun(c, t)
  PROVE  Begun(c, t)'
<1>1. currentTerm[c] \in Nat /\ currentTerm'[c] \in Nat
  BY DEF TypeInv, TypeOK
<1> QED BY <1>1, SMT DEF Begun, VotesStandStep, RolesStand

-----------------------------------------------------------------------------
(* The steps that copy links, or leave them alone *)

\* No request to append entries is sent.
NoAppendSent == \A m \in msgs' : m.type = "AppendEntries" => m \in msgs

\* Sending anything else sends none.
LEMMA NoAppendSentBy ==
  ASSUME NEW ms, Send(ms), \A r \in ms : r.type # "AppendEntries"
  PROVE  NoAppendSent
BY DEF Send, NoAppendSent

\* A step that neither touches a log nor sends a request copies nothing.
LEMMA LogsAlone ==
  ASSUME SentinelSent, log' = log, NoAppendSent
  PROVE  NoNewLinks /\ SentinelSent'
<1>1. SentinelSent'
  BY DEF SentinelSent, NoAppendSent
<1>2. NoNewLinks
  BY DEF NoNewLinks, Linked, InLog, InRequest, NoAppendSent
<1> QED BY <1>1, <1>2

\* The steps of elections, and becomeFollowerLocked on a reply.
ElectionStep ==
  \/ \E n \in Server : StartElection(n)
  \/ \E m \in msgs : \/ HandleRequestVote(m) \/ CountVote(m)
                     \/ StepDownOnVoteReply(m) \/ StepDownOnAppendReply(m)

\* The steps that leave roles and logs alone and send no request.
ReplyStep ==
  \/ \E n \in Server : SendHeartbeats(n)
  \/ \E m \in msgs : \/ RejectStaleAppend(m) \/ HandleAppendSuccess(m)
                     \/ HandleAppendConflict(m)
  \/ UNCHANGED vars

\* The steps that send requests.
SendStep(n, p) == ReplicateLog(n, p) \/ \E h \in ticks[n] : SendHeartbeatTo(n, p, h)

\* The steps of elections, and becomeFollowerLocked on a reply.
LEMMA ElectionCopies ==
  ASSUME TypeInv, SentinelSent, ElectionStep
  PROVE  NoNewLinks /\ RolesStand /\ LeadersKeepLogs /\ SentinelSent'
<1> USE DEF TypeInv, TypeOK
<1>1. ASSUME NEW n \in Server, StartElection(n)
      PROVE  log' = log /\ NoAppendSent /\ RolesStand /\ LeadersKeepLogs
  <2>1. NoAppendSent
    <3>1. PICK ms : Send(ms) /\ \A r \in ms : r.type = "RequestVote"
      BY <1>1, SMT DEF StartElection
    <3> QED BY <3>1, NoAppendSentBy, Zenon
  <2>2. RolesStand /\ LeadersKeepLogs
    <3>1. /\ state' = [state EXCEPT ![n] = "Candidate"]
          /\ currentTerm' = [currentTerm EXCEPT ![n] = currentTerm[n] + 1]
          /\ log' = log
      BY <1>1 DEF StartElection, logVars
    <3> QED BY <3>1, SMT DEF RolesStand, LeadersKeepLogs
  <2> QED BY <1>1, <2>1, <2>2 DEF StartElection, logVars
<1>2. ASSUME NEW m \in msgs, HandleRequestVote(m)
      PROVE  log' = log /\ NoAppendSent /\ RolesStand /\ LeadersKeepLogs
  <2>1. PICK r : Respond(r) /\ r.type = "VoteReply"
    BY <1>2, SMT DEF HandleRequestVote
  <2>2. PICK ms : Send(ms) /\ ms \subseteq {r}
    BY <2>1 DEF Respond
  <2>3. NoAppendSent
    BY <2>1, <2>2, NoAppendSentBy
  <2>4. log' = log /\ m.dst \in Server /\ m.term \in Nat /\ currentTerm[m.dst] \in Nat
    BY <1>2 DEF HandleRequestVote, logVars, Message
  <2>5. currentTerm' = [currentTerm EXCEPT ![m.dst] = Max({m.term, currentTerm[m.dst]})]
    BY <1>2 DEF HandleRequestVote
  <2>6. IF m.term > currentTerm[m.dst]
        THEN state' = [state EXCEPT ![m.dst] = "Follower"] ELSE state' = state
    BY <1>2 DEF HandleRequestVote, StepDown
  <2>7. Max({m.term, currentTerm[m.dst]})
          = IF m.term >= currentTerm[m.dst] THEN m.term ELSE currentTerm[m.dst]
    BY <2>4, MaxOfTwo, Zenon
  <2>8. RolesStand /\ LeadersKeepLogs
    <3>1. CASE m.term > currentTerm[m.dst]
      <4>1. /\ state' = [state EXCEPT ![m.dst] = "Follower"]
            /\ \A k \in Server \ {m.dst} : currentTerm'[k] = currentTerm[k]
        BY <2>5, <2>6, <3>1
      <4> QED BY <2>4, <4>1 DEF RolesStand, LeadersKeepLogs
    <3>2. CASE ~(m.term > currentTerm[m.dst])
      <4>1. Max({m.term, currentTerm[m.dst]}) = currentTerm[m.dst]
        BY <2>4, <2>7, <3>2, SMT
      <4>2. state' = state /\ \A k \in Server : currentTerm'[k] = currentTerm[k]
        BY <2>5, <2>6, <3>2, <4>1
      <4> QED BY <2>4, <4>2 DEF RolesStand, LeadersKeepLogs
    <3> QED BY <3>1, <3>2
  <2> QED BY <2>3, <2>4, <2>8
<1>3. ASSUME NEW m \in msgs, CountVote(m)
      PROVE  log' = log /\ NoAppendSent /\ RolesStand /\ LeadersKeepLogs
  <2>1. NoAppendSent
    BY <1>3, NoAppendSentBy DEF CountVote
  <2>2. /\ log' = log /\ currentTerm' = currentTerm /\ state[m.dst] = "Candidate"
        /\ state' \in {state, [state EXCEPT ![m.dst] = "Leader"]}
    BY <1>3, Zenon DEF CountVote, BecomeLeader, logVars
  <2>3. RolesStand /\ LeadersKeepLogs
    BY <2>2, Zenon DEF RolesStand, LeadersKeepLogs
  <2> QED BY <2>1, <2>2, <2>3
<1>4. ASSUME NEW m \in msgs, StepDownOnVoteReply(m) \/ StepDownOnAppendReply(m)
      PROVE  log' = log /\ NoAppendSent /\ RolesStand /\ LeadersKeepLogs
  <2>1. NoAppendSent
    BY <1>4, NoAppendSentBy DEF StepDownOnVoteReply, StepDownOnAppendReply
  <2>2. /\ log' = log
        /\ state' = [state EXCEPT ![m.dst] = "Follower"]
        /\ currentTerm' = [currentTerm EXCEPT ![m.dst] = m.term]
    BY <1>4 DEF StepDownOnVoteReply, StepDownOnAppendReply, BecomeFollower, StepDown,
                logVars
  <2>3. RolesStand /\ LeadersKeepLogs
    BY <2>2 DEF RolesStand, LeadersKeepLogs
  <2> QED BY <2>1, <2>2, <2>3
<1>5. log' = log /\ NoAppendSent /\ RolesStand /\ LeadersKeepLogs
  BY <1>1, <1>2, <1>3, <1>4 DEF ElectionStep
<1> QED BY <1>5, LogsAlone

\* The steps that leave roles and logs alone and send no request.
LEMMA ReplyCopies ==
  ASSUME TypeInv, SentinelSent, ReplyStep
  PROVE  NoNewLinks /\ RolesStand /\ LeadersKeepLogs /\ SentinelSent'
<1>1. log' = log /\ UNCHANGED electionVars
  BY Zenon DEF ReplyStep, SendHeartbeats, RejectStaleAppend, HandleAppendSuccess,
         HandleAppendConflict, vars, logVars
<1>2. RolesStand /\ LeadersKeepLogs
  BY <1>1 DEF RolesStand, LeadersKeepLogs, electionVars
<1>3. CASE \E m \in msgs : RejectStaleAppend(m)
  <2>1. PICK m \in msgs : RejectStaleAppend(m)
    BY <1>3
  <2>2. PICK r : Respond(r) /\ r.type = "AppendReply"
    <3>1. \A t, ok, hint : AppendReply(m, t, ok, hint).type = "AppendReply"
      BY DEF AppendReply
    <3> QED BY <2>1, <3>1, Zenon DEF RejectStaleAppend
  <2>3. PICK ms : Send(ms) /\ ms \subseteq {r}
    BY <2>2 DEF Respond
  <2>4. NoAppendSent
    BY <2>2, <2>3, NoAppendSentBy
  <2> QED BY <1>1, <1>2, <2>4, LogsAlone
<1>4. CASE msgs' = msgs
  <2>1. NoAppendSent
    BY <1>4 DEF NoAppendSent
  <2> QED BY <1>1, <1>2, <2>1, LogsAlone
<1> QED BY <1>3, <1>4, Zenon DEF ReplyStep, SendHeartbeats, HandleAppendSuccess,
                          HandleAppendConflict, vars

\* The requests of replicateLog and sendHeartbeats copy links of a log.
LEMMA SendersCopy ==
  ASSUME TypeInv, SentinelSent, NEW n \in Server, NEW p \in Server,
         SendStep(n, p)
  PROVE  NoNewLinks /\ RolesStand /\ LeadersKeepLogs /\ SentinelSent'
<1> DEFINE next == nextIndex[n][p]
<1>1. /\ log' = log /\ UNCHANGED electionVars
      /\ p \in Peers(n) /\ (state[n] = "Leader" \/ ticks[n] # {})
  BY Zenon DEF SendStep, ReplicateLog, SendHeartbeatTo, logVars
<1>2. PICK t, c : Send({AppendEntries(n, p, t, c)})
  BY Zenon DEF SendStep, ReplicateLog, SendHeartbeatTo
<1>3. log[n] \in Seq(Entry(Command)) /\ next \in Nat \ {0}
  <2>1. log[n] \in Seq(Entry(Command)) /\ next \in Nat /\ next >= 1
    BY <1>1 DEF TypeInv, TypeOK, Peers
  <2> HIDE DEF next
  <2> QED BY <2>1, SMT
<1> DEFINE r == AppendEntries(n, p, t, c)
<1>4. /\ r.prevLogIndex = next - 1 /\ r.prevLogTerm = TermAt(log[n], next - 1)
      /\ r.entries = EntriesFrom(log[n], next)
  BY DEF AppendEntries
<1>5. msgs' \subseteq msgs \cup {r}
  BY <1>2 DEF Send
<1> HIDE DEF next, r
<1>6. RolesStand /\ LeadersKeepLogs
  BY <1>1 DEF RolesStand, LeadersKeepLogs, electionVars
<1>7. SentinelSent'
  <2>1. r.prevLogIndex = 0 => r.prevLogTerm = 0
    BY <1>3, <1>4, SMT DEF TermAt
  <2> QED BY <1>5, <2>1 DEF SentinelSent
<1>8. NoNewLinks
  <2> SUFFICES ASSUME NEW i \in Nat, NEW e \in Entry(Command), NEW q \in Nat,
                      Linked(i, e, q)'
               PROVE  Linked(i, e, q)
    BY DEF NoNewLinks
  <2>1. CASE InLog(i, e, q)'
    BY <1>1, <2>1 DEF InLog, Linked
  <2>2. CASE InRequest(i, e, q)'
    <3>1. PICK m \in msgs' : /\ m.type = "AppendEntries"
                             /\ Link(m.entries, m.prevLogIndex, m.prevLogTerm, i, e, q)
      BY <2>2 DEF InRequest
    <3>2. CASE m \in msgs
      BY <3>1, <3>2 DEF InRequest, Linked
    <3>3. CASE m = r
      <4>1. Link(EntriesFrom(log[n], next), next - 1, TermAt(log[n], next - 1), i, e, q)
        BY <1>4, <3>1, <3>3
      <4>2. Link(log[n], 0, 0, i, e, q)
        BY <1>3, <4>1, SentLinks
      <4> QED BY <4>2 DEF InLog, Linked
    <3> QED BY <1>5, <3>1, <3>2, <3>3
  <2> QED BY <2>1, <2>2 DEF Linked
<1> QED BY <1>6, <1>7, <1>8

\* HandleAppendEntries copies links of the request.
LEMMA HandleAppendEntriesCopies ==
  ASSUME TypeInv, SentinelSent, NEW m \in msgs, HandleAppendEntries(m)
  PROVE  NoNewLinks /\ RolesStand /\ LeadersKeepLogs /\ SentinelSent'
<1> DEFINE n == m.dst
<1>1. /\ n \in Server /\ m.type = "AppendEntries"
      /\ m.prevLogIndex \in Nat /\ m.prevLogTerm \in Nat
      /\ m.entries \in Seq(Entry(Command)) /\ log[n] \in Seq(Entry(Command))
  BY Zenon DEF HandleAppendEntries, TypeInv, TypeOK, Message
<1>2. /\ state' = [state EXCEPT ![n] = "Follower"]
      /\ currentTerm' = [currentTerm EXCEPT ![n] = m.term]
  BY DEF HandleAppendEntries
<1>3. log' = [log EXCEPT ![n] =
                IF PrevMatches(log[n], m.prevLogIndex, m.prevLogTerm)
                THEN AppendNew(log[n], m.prevLogIndex, m.entries) ELSE log[n]]
  BY DEF HandleAppendEntries
<1>4. NoAppendSent
  <2>1. PICK r : Respond(r) /\ r.type = "AppendReply"
    <3>1. \A t, ok, hint : AppendReply(m, t, ok, hint).type = "AppendReply"
      BY DEF AppendReply
    <3> QED BY <3>1 DEF HandleAppendEntries
  <2>2. PICK ms : Send(ms) /\ ms \subseteq {r}
    BY <2>1 DEF Respond
  <2> QED BY <2>1, <2>2, NoAppendSentBy
<1> HIDE DEF n
<1>5. /\ \A k \in Server \ {n} : log'[k] = log[k]
      /\ log'[n] = IF PrevMatches(log[n], m.prevLogIndex, m.prevLogTerm)
                   THEN AppendNew(log[n], m.prevLogIndex, m.entries) ELSE log[n]
  BY <1>1, <1>3 DEF TypeInv, TypeOK
<1>6. RolesStand /\ LeadersKeepLogs
  BY <1>1, <1>2, <1>5 DEF RolesStand, LeadersKeepLogs, TypeInv, TypeOK
<1>7. SentinelSent'
  BY <1>4 DEF SentinelSent, NoAppendSent
<1>8. NoNewLinks
  <2> SUFFICES ASSUME NEW i \in Nat, NEW e \in Entry(Command), NEW p \in Nat,
                      Linked(i, e, p)'
               PROVE  Linked(i, e, p)
    BY DEF NoNewLinks
  <2>1. CASE InRequest(i, e, p)'
    BY <1>4, <2>1 DEF InRequest, Linked, NoAppendSent
  <2>2. CASE InLog(i, e, p)'
    <3>1. PICK a \in Server : Link(log'[a], 0, 0, i, e, p)
      BY <2>2 DEF InLog
    <3>2. CASE log'[a] = log[a]
      BY <3>1, <3>2 DEF InLog, Linked
    <3>3. CASE a = n /\ PrevMatches(log[n], m.prevLogIndex, m.prevLogTerm)
      <4>1. m.prevLogIndex = 0 => m.prevLogTerm = 0
        BY <1>1 DEF SentinelSent
      <4>2. Link(AppendNew(log[n], m.prevLogIndex, m.entries), 0, 0, i, e, p)
        BY <1>5, <3>1, <3>3
      <4>3. \/ Link(log[n], 0, 0, i, e, p)
            \/ Link(m.entries, m.prevLogIndex, m.prevLogTerm, i, e, p)
        BY <1>1, <3>3, <4>1, <4>2, AppendNewLinks
      <4> QED BY <1>1, <4>3 DEF InLog, InRequest, Linked
    <3> QED BY <1>5, <3>2, <3>3
  <2> QED BY <2>1, <2>2 DEF Linked
<1> QED BY <1>6, <1>7, <1>8

-----------------------------------------------------------------------------
(* The step that makes a link *)

-----------------------------------------------------------------------------
(* Theorems *)

\* There are no links initially.
LEMMA InitMatch == Init => MatchInv
<1> SUFFICES ASSUME Init PROVE MatchInv
  OBVIOUS
<1>1. ASSUME NEW i, NEW e, NEW p PROVE ~Linked(i, e, p)
  BY SMT DEF Init, Linked, InLog, InRequest, Link
<1> QED BY <1>1 DEF Init, MatchInv, LinksUnique, StartsUnique, LinksElected,
                    IndexIsSlot, LeaderAhead, SentinelSent

\* Every step of running nodes preserves the invariant.
LEMMA StepMatch ==
  ASSUME TypeInv, VoteInv, MatchInv, [Step]_vars
  PROVE  TypeInv' /\ VoteInv' /\ MatchInv'
  \* Links are elected as long as they are copied.
  <1>LinksElectedStays.
      ASSUME TypeInv, TypeInv', VotesStandStep, OnlyCastVotes, RolesStand, LinksElected,
             NEW i \in Nat, NEW e \in Entry(Command), NEW p \in Nat, Linked(i, e, p)
      PROVE  \E c \in Server : Elected(c, e.term) /\ Elected(c, e.term)'
                                /\ Begun(c, e.term) /\ Begun(c, e.term)'
    <2> USE <1>LinksElectedStays
    <2>1. PICK c \in Server : Elected(c, e.term) /\ Begun(c, e.term)
      BY DEF LinksElected
    <2>2. e.term \in Nat
      BY DEF Entry
    <2> QED BY <2>1, <2>2, ElectedStays, BegunStays
  \* What a step must do to preserve the invariant, if it makes no link: the one
  \* thing to show is that a new Leader finds no entry of its term.
  <1>CopyingStep.
      ASSUME TypeInv, TypeInv', VoteInv, VoteInv', VotesStandStep, OnlyCastVotes,
             MatchInv, NoNewLinks, RolesStand, LeadersKeepLogs, SentinelSent'
      PROVE  MatchInv'
    <2> USE <1>CopyingStep
    <2>1. LinksUnique'
      <3> SUFFICES ASSUME NEW i \in Nat, NEW e \in Entry(Command), NEW f \in Entry(Command),
                          NEW p \in Nat, NEW q \in Nat,
                          Linked(i, e, p)', Linked(i, f, q)', e.term = f.term
                   PROVE  e = f /\ p = q
        BY DEF LinksUnique
      <3>1. Linked(i, e, p) /\ Linked(i, f, q)
        BY DEF NoNewLinks
      <3> QED BY <3>1 DEF MatchInv, LinksUnique
    <2>2. StartsUnique'
      <3> SUFFICES ASSUME NEW i \in Nat, NEW j \in Nat,
                          NEW e \in Entry(Command), NEW f \in Entry(Command),
                          NEW p \in Nat, NEW q \in Nat,
                          Linked(i, e, p)', Linked(j, f, q)',
                          e.term = f.term, p # e.term, q # f.term
                   PROVE  i = j
        BY DEF StartsUnique
      <3>1. Linked(i, e, p) /\ Linked(j, f, q)
        BY DEF NoNewLinks
      <3> QED BY <3>1 DEF MatchInv, StartsUnique
    <2>3. LinksElected'
      <3> SUFFICES ASSUME NEW i \in Nat, NEW e \in Entry(Command), NEW p \in Nat,
                          Linked(i, e, p)'
                   PROVE  \E c \in Server : Elected(c, e.term)' /\ Begun(c, e.term)'
        BY DEF LinksElected
      <3>1. Linked(i, e, p)
        BY DEF NoNewLinks
      <3> QED BY <3>1, <1>LinksElectedStays DEF MatchInv
    <2>4. LeaderAhead'
      <3> SUFFICES ASSUME NEW n \in Server, NEW i \in Nat, NEW e \in Entry(Command),
                          NEW p \in Nat, state'[n] = "Leader", Linked(i, e, p)',
                          e.term = currentTerm'[n]
                   PROVE  i <= Len(log'[n]) /\ LastTerm(log'[n]) = currentTerm'[n]
        BY DEF LeaderAhead
      <3>1. Linked(i, e, p)
        BY DEF NoNewLinks
      <3>2. /\ state[n] \in {"Candidate", "Leader"} /\ currentTerm'[n] = currentTerm[n]
            /\ log'[n] = log[n]
        BY DEF RolesStand, LeadersKeepLogs
      <3>3. CASE state[n] = "Leader"
        BY <3>1, <3>2, <3>3 DEF MatchInv, LeaderAhead
      <3>4. CASE state[n] = "Candidate"
        <4>1. PICK c \in Server : Elected(c, e.term)' /\ Begun(c, e.term)
          BY <3>1, <1>LinksElectedStays DEF MatchInv
        <4>2. c = n
          BY <4>1, LeaderOnlyElectedNext DEF OnlyLeaderElected
        <4>3. currentTerm[n] \in Nat
          BY DEF TypeInv, TypeOK
        <4> QED BY <3>2, <3>4, <4>1, <4>2, <4>3, SMTT(30) DEF Begun
      <3> QED BY <3>2, <3>3, <3>4
    <2>5. IndexIsSlot'
      BY DEF MatchInv, IndexIsSlot, NoNewLinks
    <2> QED BY <2>1, <2>2, <2>3, <2>4, <2>5 DEF MatchInv
  \* SubmitCommand makes one link.  All others of its term are behind it, for the
  \* Leader's log reaches past them, and it starts the term only if there is none.
  <1>SubmitCommandMatch.
      ASSUME TypeInv, TypeInv', VoteInv, VoteInv', VotesStandStep, OnlyCastVotes,
             MatchInv, NEW n \in Server, NEW c \in Command, SubmitCommand(n, c)
      PROVE  MatchInv'
    <2> USE <1>SubmitCommandMatch
    <2> DEFINE x == [term |-> currentTerm[n], index |-> LastIndex(log[n]) + 1,
                     command |-> c]
               New(i, e, p) == i = Len(log[n]) + 1 /\ e = x /\ p = LastTerm(log[n])
    <2>1. /\ state[n] = "Leader" /\ log' = [log EXCEPT ![n] = Append(@, x)]
          /\ UNCHANGED <<state, currentTerm, msgs>>
      BY DEF SubmitCommand, electionVars
    <2>2. /\ log[n] \in Seq(Entry(Command)) /\ Len(log[n]) \in Nat
          /\ currentTerm[n] \in Nat /\ x \in Entry(Command)
          /\ x.term = currentTerm[n] /\ x.index = Len(log[n]) + 1
      <3>1. log[n] \in Seq(Entry(Command)) /\ currentTerm[n] \in Nat
        BY DEF TypeInv, TypeOK
      <3>2. Len(log[n]) \in Nat
        BY <3>1, SMT
      <3> QED BY <3>1, <3>2, SMT DEF LastIndex, Entry
    <2> HIDE DEF x
    <2>3. log'[n] = Append(log[n], x) /\ \A k \in Server \ {n} : log'[k] = log[k]
      BY <2>1 DEF TypeInv, TypeOK
    <2>4. /\ Len(log'[n]) = Len(log[n]) + 1 /\ LastTerm(log'[n]) = currentTerm[n]
          /\ \A i \in Nat : \A e, p : Link(log'[n], 0, 0, i, e, p) =>
               Link(log[n], 0, 0, i, e, p) \/ New(i, e, p)
      <3>1. /\ Len(Append(log[n], x)) = Len(log[n]) + 1
            /\ LastTerm(Append(log[n], x)) = x.term
            /\ \A i \in Nat : \A e, p : Link(Append(log[n], x), 0, 0, i, e, p) =>
                 \/ Link(log[n], 0, 0, i, e, p)
                 \/ i = Len(log[n]) + 1 /\ e = x /\ p = LastTerm(log[n])
        BY <2>2, AppendLinks
      <3> QED BY <2>2, <2>3, <3>1
    <2> HIDE DEF New
    <2>5. ASSUME NEW i \in Nat, NEW e \in Entry(Command), NEW p \in Nat, Linked(i, e, p)'
          PROVE  Linked(i, e, p) \/ New(i, e, p)
      <3>1. CASE InRequest(i, e, p)'
        BY <2>1, <3>1 DEF InRequest, Linked
      <3>2. CASE InLog(i, e, p)'
        <4>1. PICK a \in Server : Link(log'[a], 0, 0, i, e, p)
          BY <3>2 DEF InLog
        <4>2. Link(log[a], 0, 0, i, e, p) \/ New(i, e, p)
          BY <2>3, <2>4, <4>1, Zenon
        <4> QED BY <4>2 DEF InLog, Linked
      <3> QED BY <2>5, <3>1, <3>2 DEF Linked
    <2>6. ASSUME NEW i \in Nat, NEW e \in Entry(Command), NEW p \in Nat,
                 Linked(i, e, p), e.term = currentTerm[n]
          PROVE  i <= Len(log[n]) /\ LastTerm(log[n]) = currentTerm[n]
      BY <2>1, <2>6, Zenon DEF MatchInv, LeaderAhead
    <2>7. LinksUnique'
      <3> SUFFICES ASSUME NEW i \in Nat, NEW e \in Entry(Command), NEW f \in Entry(Command),
                          NEW p \in Nat, NEW q \in Nat,
                          Linked(i, e, p)', Linked(i, f, q)', e.term = f.term
                   PROVE  e = f /\ p = q
        BY DEF LinksUnique
      <3>1. /\ Linked(i, e, p) \/ New(i, e, p)
            /\ Linked(i, f, q) \/ New(i, f, q)
        BY <2>5
      <3>2. CASE Linked(i, e, p) /\ Linked(i, f, q)
        BY <3>2 DEF MatchInv, LinksUnique
      <3>3. CASE New(i, e, p) /\ New(i, f, q)
        BY <3>3 DEF New
      <3>4. CASE Linked(i, e, p) /\ New(i, f, q)
        BY <2>2, <2>6, <3>4, SMTT(30) DEF New
      <3>5. CASE New(i, e, p) /\ Linked(i, f, q)
        BY <2>2, <2>6, <3>5, SMTT(30) DEF New
      <3> QED BY <3>1, <3>2, <3>3, <3>4, <3>5
    <2>8. StartsUnique'
      <3> SUFFICES ASSUME NEW i \in Nat, NEW j \in Nat,
                          NEW e \in Entry(Command), NEW f \in Entry(Command),
                          NEW p \in Nat, NEW q \in Nat,
                          Linked(i, e, p)', Linked(j, f, q)',
                          e.term = f.term, p # e.term, q # f.term
                   PROVE  i = j
        BY DEF StartsUnique
      <3>1. /\ Linked(i, e, p) \/ New(i, e, p)
            /\ Linked(j, f, q) \/ New(j, f, q)
        BY <2>5
      <3>2. CASE Linked(i, e, p) /\ Linked(j, f, q)
        BY <3>2 DEF MatchInv, StartsUnique
      <3>3. CASE New(i, e, p) /\ New(j, f, q)
        BY <3>3 DEF New
      <3>4. CASE Linked(i, e, p) /\ New(j, f, q)
        BY <2>2, <2>6, <3>4 DEF New
      <3>5. CASE New(i, e, p) /\ Linked(j, f, q)
        BY <2>2, <2>6, <3>5 DEF New
      <3> QED BY <3>1, <3>2, <3>3, <3>4, <3>5
    <2>9. LinksElected'
      <3> SUFFICES ASSUME NEW i \in Nat, NEW e \in Entry(Command), NEW p \in Nat,
                          Linked(i, e, p)'
                   PROVE  \E a \in Server : Elected(a, e.term)' /\ Begun(a, e.term)'
        BY DEF LinksElected
      <3>1. e.term \in Nat
        BY DEF Entry
      <3>2. PICK a \in Server : Elected(a, e.term) /\ Begun(a, e.term)
        <4>1. CASE Linked(i, e, p)
          BY <4>1 DEF MatchInv, LinksElected
        <4>2. CASE New(i, e, p)
          <5>1. e.term = currentTerm[n]
            BY <2>2, <4>2 DEF New
          <5>2. Elected(n, currentTerm[n])
            BY <2>1, LeaderElected
          <5>3. Begun(n, currentTerm[n])
            BY <2>1 DEF Begun
          <5> QED BY <5>1, <5>2, <5>3
        <4> QED BY <2>5, <4>1, <4>2
      <3>3. Elected(a, e.term)'
        BY <3>1, <3>2, ElectedStays
      <3>4. Begun(a, e.term)'
        BY <2>1, <3>2 DEF Begun
      <3> QED BY <3>3, <3>4
    <2>10. LeaderAhead'
      <3> SUFFICES ASSUME NEW b \in Server, NEW i \in Nat, NEW e \in Entry(Command),
                          NEW p \in Nat, state[b] = "Leader", Linked(i, e, p)',
                          e.term = currentTerm[b]
                   PROVE  i <= Len(log'[b]) /\ LastTerm(log'[b]) = currentTerm[b]
        BY <2>1 DEF LeaderAhead
      <3>1. CASE b = n
        <4>1. i <= Len(log[n]) + 1
          BY <2>2, <2>5, <2>6, <3>1, SMTT(30) DEF New
        <4> QED BY <2>4, <3>1, <4>1
      <3>2. CASE b # n
        <4>1. ~New(i, e, p)
          <5>1. ElectionSafety
            BY ElectionSafetyFromVotes
          <5> QED BY <2>1, <2>2, <3>2, <5>1 DEF New, ElectionSafety
        <4> QED BY <2>3, <2>5, <3>2, <4>1 DEF MatchInv, LeaderAhead
      <3> QED BY <3>1, <3>2
    <2>11. SentinelSent'
      BY <2>1 DEF MatchInv, SentinelSent
    <2>12. IndexIsSlot'
      BY <2>2, <2>5 DEF New, MatchInv, IndexIsSlot
    <2> QED BY <2>7, <2>8, <2>9, <2>10, <2>11, <2>12 DEF MatchInv
  <1>1. TypeInv'
    BY NextType DEF Next
  <1>2. VoteInv' /\ VotesStandStep /\ OnlyCastVotes
    BY <1>1, StepVotes
  <1>3. ASSUME NEW n \in Server, NEW c \in Command, SubmitCommand(n, c)
        PROVE  MatchInv'
    BY <1>1, <1>2, <1>3, <1>SubmitCommandMatch
  <1>4. CASE ~ \E n \in Server, c \in Command : SubmitCommand(n, c)
    <2>1. SentinelSent
      BY DEF MatchInv
    <2>2. ASSUME NEW n \in Server, NEW p \in Server, SendStep(n, p)
          PROVE  NoNewLinks /\ RolesStand /\ LeadersKeepLogs /\ SentinelSent'
      BY <2>1, <2>2, SendersCopy
    <2>3. ASSUME NEW m \in msgs, HandleAppendEntries(m)
          PROVE  NoNewLinks /\ RolesStand /\ LeadersKeepLogs /\ SentinelSent'
      BY <2>1, <2>3, HandleAppendEntriesCopies
    <2>4. NoNewLinks /\ RolesStand /\ LeadersKeepLogs /\ SentinelSent'
      BY <1>4, <2>1, <2>2, <2>3, ElectionCopies, ReplyCopies
       DEF Step, Receive, ElectionStep, ReplyStep, SendStep
    <2> QED BY <1>1, <1>2, <2>4, <1>CopyingStep
  <1> QED BY <1>1, <1>2, <1>3, <1>4

\* Below a slot with entries of one term there is no last slot at which two
\* logs differ: the links above it agree, so the terms at it do.
LEMMA SlotsAgree ==
  ASSUME TypeInv, MatchInv, NEW a \in Server, NEW b \in Server,
         NEW i \in Nat, i \in 1..Len(log[a]), i \in 1..Len(log[b]),
         log[a][i].term = log[b][i].term
  PROVE  \A j \in 1..i : log[a][j] = log[b][j]
<1> DEFINE A == log[a]
           B == log[b]
<1>1. /\ A \in Seq(Entry(Command)) /\ B \in Seq(Entry(Command))
      /\ Len(A) \in Nat /\ Len(B) \in Nat
  <2>1. A \in Seq(Entry(Command)) /\ B \in Seq(Entry(Command))
    BY DEF TypeInv, TypeOK
  <2> QED BY <2>1, SMT
<1>2. i \in 1..Len(A) /\ i \in 1..Len(B)
  OBVIOUS
<1>3. ASSUME NEW j \in 1..i, A[j].term = B[j].term
      PROVE  A[j] = B[j] /\ TermAt(A, j - 1) = TermAt(B, j - 1)
  <2>1. j \in Nat /\ j \in 1..Len(A) /\ j \in 1..Len(B)
    BY <1>1, <1>2, SMT
  <2>2. /\ Link(A, 0, 0, j, A[j], TermAt(A, j - 1))
        /\ A[j] \in Entry(Command) /\ TermAt(A, j - 1) \in Nat
    BY <1>1, <2>1, LinkInLog
  <2>3. /\ Link(B, 0, 0, j, B[j], TermAt(B, j - 1))
        /\ B[j] \in Entry(Command) /\ TermAt(B, j - 1) \in Nat
    BY <1>1, <2>1, LinkInLog
  <2>4. Linked(j, A[j], TermAt(A, j - 1)) /\ Linked(j, B[j], TermAt(B, j - 1))
    BY <2>2, <2>3 DEF Linked, InLog
  <2> HIDE DEF A, B
  <2> QED BY <1>3, <2>1, <2>2, <2>3, <2>4, SMTT(30) DEF MatchInv, LinksUnique
<1>4. A[i].term = B[i].term
  OBVIOUS
<1> DEFINE D == {j \in 1..i : A[j] # B[j]}
<1> HIDE DEF A, B
<1>5. D = {}
  <2> SUFFICES ASSUME D # {} PROVE FALSE
    OBVIOUS
  <2>1. Max(D) \in D /\ \A y \in D : Max(D) >= y
    <3>1. D \subseteq 1..i
      OBVIOUS
    <3> HIDE DEF D
    <3> QED BY <1>2, <3>1, MaxOfSlots, Zenon
  <2> DEFINE j == Max(D)
  <2>2. j \in 1..i /\ A[j] # B[j]
    BY <2>1
  <2> HIDE DEF j
  <2>3. j # i
    BY <1>2, <1>3, <1>4, <2>2
  <2>4. j + 1 \in 1..i /\ (j + 1) - 1 = j
    BY <1>2, <2>2, <2>3, SMT
  <2>5. A[j + 1] = B[j + 1]
    <3>1. j + 1 \notin D
      BY <2>1, <2>2, SMT DEF j
    <3> QED BY <2>4, <3>1
  <2>6. TermAt(A, j) = TermAt(B, j)
    BY <1>3, <2>4, <2>5
  <2>7. j \in 1..Len(A) /\ j \in 1..Len(B)
    BY <1>1, <1>2, <2>2, SMT
  <2>8. A[j].term = B[j].term
    BY <2>6, <2>7 DEF TermAt
  <2> QED BY <1>3, <2>2, <2>8
<1> QED BY <1>5 DEF A, B

\* So the logs are equal up to it.
LEMMA MatchingFromLinks == TypeInv /\ MatchInv => LogMatching
<1> SUFFICES ASSUME TypeInv, MatchInv, NEW a \in Server, NEW b \in Server,
                    NEW i \in 1..Min({Len(log[a]), Len(log[b])}),
                    log[a][i].term = log[b][i].term
             PROVE  SubSeq(log[a], 1, i) = SubSeq(log[b], 1, i)
  BY DEF LogMatching
<1>1. /\ log[a] \in Seq(Entry(Command)) /\ log[b] \in Seq(Entry(Command))
      /\ Len(log[a]) \in Nat /\ Len(log[b]) \in Nat
  <2>1. log[a] \in Seq(Entry(Command)) /\ log[b] \in Seq(Entry(Command))
    BY DEF TypeInv, TypeOK
  <2> QED BY <2>1, SMT
<1>2. i \in 1..Len(log[a]) /\ i \in 1..Len(log[b]) /\ i \in Nat
  <2>1. Min({Len(log[a]), Len(log[b])})
          = IF Len(log[a]) <= Len(log[b]) THEN Len(log[a]) ELSE Len(log[b])
    BY <1>1, MinOfTwo
  <2> QED BY <1>1, <2>1, SMT
<1>3. \A j \in 1..i : log[a][j] = log[b][j]
  BY <1>2, SlotsAgree
<1> QED BY <1>1, <1>2, <1>3, SMT

\* Links that start a term are at one slot.
LEMMA StartsFromLinks == TypeInv /\ MatchInv => TermsStartAlike
<1> SUFFICES ASSUME TypeInv, MatchInv, NEW a \in Server, NEW b \in Server,
                    NEW t \in 1..MaxTerm,
                    FindFirstIndexOfTerm(log[a], t) > 0,
                    FindFirstIndexOfTerm(log[b], t) > 0
             PROVE  FindFirstIndexOfTerm(log[a], t) = FindFirstIndexOfTerm(log[b], t)
  BY DEF TermsStartAlike
<1>1. \A k \in Server : log[k] \in Seq(Entry(Command))
  BY DEF TypeInv, TypeOK
<1>2. t \in Nat \ {0}
  BY BoundsAssumption, SMT
<1>3. ASSUME NEW k \in Server, FindFirstIndexOfTerm(log[k], t) > 0
      PROVE  /\ FindFirstIndexOfTerm(log[k], t) \in Nat
             /\ \E e \in Entry(Command), p \in Nat :
                  /\ Linked(FindFirstIndexOfTerm(log[k], t), e, p)
                  /\ e.term = t /\ p # t
  <2> DEFINE i == FindFirstIndexOfTerm(log[k], t)
  <2>1. i \in 1..Len(log[k]) /\ log[k][i].term = t /\ TermAt(log[k], i - 1) # t
    BY <1>1, <1>2, <1>3, FirstOfTerm
  <2> HIDE DEF i
  <2>2. /\ Link(log[k], 0, 0, i, log[k][i], TermAt(log[k], i - 1))
        /\ log[k][i] \in Entry(Command) /\ TermAt(log[k], i - 1) \in Nat
    BY <1>1, <2>1, LinkInLog
  <2>3. Linked(i, log[k][i], TermAt(log[k], i - 1))
    BY <2>2 DEF Linked, InLog
  <2> QED BY <2>1, <2>2, <2>3, SMTT(30) DEF i
<1> QED BY <1>3 DEF MatchInv, StartsUnique

\* Two logs that hold an entry of the same term at the same slot are equal up
\* to that slot, in every cluster whose nodes do not crash.
THEOREM LogsMatch == StableSpec => []LogMatching
<1>1. Init => TypeInv /\ VoteInv /\ MatchInv
  BY InitType, InitVotes, InitMatch
<1>2. (TypeInv /\ VoteInv /\ MatchInv) /\ [Step]_vars => (TypeInv /\ VoteInv /\ MatchInv)'
  BY StepMatch
<1>3. TypeInv /\ VoteInv /\ MatchInv => LogMatching
  BY MatchingFromLinks
<1> QED BY <1>1, <1>2, <1>3, PTL DEF StableSpec

\* The entries of a term start at the same slot in every log, in every cluster
\* whose nodes do not crash: the rollback by whole terms of
\* handleConflictLocked skips the same entries on both sides.
THEOREM TermsStartTogether == StableSpec => []TermsStartAlike
<1>1. Init => TypeInv /\ VoteInv /\ MatchInv
  BY InitType, InitVotes, InitMatch
<1>2. (TypeInv /\ VoteInv /\ MatchInv) /\ [Step]_vars => (TypeInv /\ VoteInv /\ MatchInv)'
  BY StepMatch
<1>3. TypeInv /\ VoteInv /\ MatchInv => TermsStartAlike
  BY StartsFromLinks
<1> QED BY <1>1, <1>2, <1>3, PTL DEF StableSpec

-----------------------------------------------------------------------------
(* What a Leader believes of its followers: the invariant *)

\* c has been Leader of term t.
Issued(c, t) == Elected(c, t) /\ Begun(c, t)

\* Requests, and so the replies to them, are those of a Leader of their term.
SenderIssued(m) ==
  /\ m.type = "AppendEntries" => Issued(m.src, m.term) /\ m.src # m.dst
  /\ m.type = "AppendReply" => Issued(m.dst, m.reqTerm) /\ m.src # m.dst
SendersIssued ==
  /\ \A n \in Server : \A h \in ticks[n] : Issued(n, h.term)
  /\ \A m \in msgs : SenderIssued(m)

\* The links of request m are links of the log l.
Within(m, l) ==
  \A i \in Nat : \A e, p :
    Link(m.entries, m.prevLogIndex, m.prevLogTerm, i, e, p) => Link(l, 0, 0, i, e, p)

\* As long as its sender is Leader of the term, a request is part of its log.
OwnRequests ==
  \A m \in msgs :
    m.type = "AppendEntries" /\ state[m.src] = "Leader" /\ m.term = currentTerm[m.src]
      => Within(m, log[m.src])

\* n holds, or will on a reply, that p has its log up to slot k.
AckedUpTo(n, p, k) ==
  \/ matchIndex[n][p] = k
  \/ \E r \in msgs : /\ r.type = "AppendReply" /\ r.success /\ r.src = p /\ r.dst = n
                      /\ r.reqTerm = currentTerm[n] /\ r.reqLast = k

\* That is true as long as p is in the term of n, which it has reached.
AckTrue(n, p, k) ==
  /\ k <= Len(log[n])
  /\ currentTerm[p] >= currentTerm[n]
  /\ currentTerm[p] = currentTerm[n] => SameTermAt(log[n], log[p], k)

AcksTrue ==
  \A n, p \in Server, k \in Nat \ {0} :
    p # n /\ state[n] = "Leader" /\ AckedUpTo(n, p, k) => AckTrue(n, p, k)

AckInv == SendersIssued /\ OwnRequests /\ AcksTrue

-----------------------------------------------------------------------------
(* What every step does to acknowledgements *)

\* The Leader of a term is one that has been.
LEMMA LeaderIssued ==
  ASSUME TypeInv, VoteInv, NEW n \in Server, state[n] = "Leader"
  PROVE  Issued(n, currentTerm[n])
BY LeaderElected DEF Issued, Begun

\* Only one that has been Leader of a term starts to send in it.
SendsIssued ==
  /\ \A n \in Server : \A h \in ticks'[n] : h \in ticks[n] \/ Issued(n, h.term)
  /\ \A m \in msgs' : m \in msgs \/ SenderIssued(m)

\* A new request is part of its sender's log.
RequestsFromLogs ==
  \A m \in msgs' : m.type = "AppendEntries" => m \in msgs \/ Within(m, log'[m.src])

\* A Leader only adds to its log.
LeadersAppend ==
  \A n \in Server : state[n] = "Leader" /\ state'[n] = "Leader" =>
    \A i \in Nat : \A e, p : Link(log[n], 0, 0, i, e, p) => Link(log'[n], 0, 0, i, e, p)

\* What a Leader has been told is true after the step.
AcksStand ==
  \A n, p \in Server, k \in Nat \ {0} :
    /\ p # n /\ state[n] = "Leader" /\ state'[n] = "Leader" /\ AckedUpTo(n, p, k)'
    => AckTrue(n, p, k)'

\* A new Leader knows nothing of the others.
FreshLeaders ==
  \A n, p \in Server :
    state[n] = "Candidate" /\ state'[n] = "Leader" => matchIndex'[n][p] = 0

-----------------------------------------------------------------------------
(* The steps that leave logs alone *)

\* Nothing new is acknowledged.
NoAckSent == \A r \in msgs' : r.type = "AppendReply" /\ r.success => r \in msgs

\* A Leader's matchIndex is what it was or what it has been told.
MatchKept ==
  \A n, p \in Server :
    state[n] = "Leader" /\ state'[n] = "Leader" => AckedUpTo(n, p, matchIndex'[n][p])

\* Then nobody is told anything new.
LEMMA NoAcks ==
  ASSUME TypeInv, RolesStand, NoAckSent, MatchKept,
         NEW n \in Server, NEW p \in Server, NEW k \in Nat \ {0},
         state[n] = "Leader", state'[n] = "Leader", AckedUpTo(n, p, k)'
  PROVE  AckedUpTo(n, p, k)
<1>1. CASE matchIndex'[n][p] = k
  BY <1>1 DEF MatchKept
<1>2. CASE \E r \in msgs' : /\ r.type = "AppendReply" /\ r.success
                            /\ r.src = p /\ r.dst = n
                            /\ r.reqTerm = currentTerm'[n] /\ r.reqLast = k
  <2>1. currentTerm'[n] = currentTerm[n]
    BY DEF RolesStand
  <2> QED BY <1>2, <2>1 DEF NoAckSent, AckedUpTo
<1> QED BY <1>1, <1>2 DEF AckedUpTo

\* Neither requests to append entries nor replies to them are sent.
NoneSent ==
  \A m \in msgs' : m.type \in {"AppendEntries", "AppendReply"} => m \in msgs

\* A matchIndex that is not touched is kept.
LEMMA SameMatch ==
  ASSUME matchIndex' = matchIndex
  PROVE  MatchKept
BY DEF MatchKept, AckedUpTo

\* Election steps, and becomeFollowerLocked on a reply, send none of them and
\* leave what is acknowledged alone.
LEMMA ElectionQuiet ==
  ASSUME TypeInv, ElectionStep
  PROVE  log' = log /\ ticks' = ticks /\ NoneSent /\ MatchKept /\ FreshLeaders
  \* Sending votes sends none of them.
  <1>NoneSentBy.
      ASSUME NEW ms, Send(ms),
             \A r \in ms : r.type # "AppendEntries" /\ r.type # "AppendReply"
      PROVE  NoneSent
    BY <1>NoneSentBy DEF Send, NoneSent
  \* The answer to a vote request is no message of the other kind.
  <1>VoteReplySent.
      ASSUME NEW m, HandleRequestVote(m)
      PROVE  NoneSent
    <2> USE <1>VoteReplySent
    <2>1. PICK r : Respond(r) /\ r.type = "VoteReply"
      BY SMT DEF HandleRequestVote
    <2>2. PICK ms : Send(ms) /\ ms \subseteq {r}
      BY <2>1 DEF Respond
    <2> QED BY <2>1, <2>2, <1>NoneSentBy
  <1> DEFINE Quiet == log' = log /\ ticks' = ticks /\ NoneSent /\ MatchKept /\ FreshLeaders
  <1>1. ASSUME NEW n \in Server, StartElection(n) PROVE Quiet
    <2>1. PICK ms : Send(ms) /\ \A r \in ms : r.type = "RequestVote"
      <3> DEFINE request(p) == [type |-> "RequestVote", src |-> n, dst |-> p,
                                term |-> currentTerm[n] + 1,
                                lastLogIndex |-> LastIndex(log[n]),
                                lastLogTerm |-> LastTerm(log[n])]
      <3> DEFINE requests == {request(p) : p \in Peers(n)}
      <3>1. Send(requests)
        BY <1>1 DEF StartElection
      <3>2. \A r \in requests : r.type = "RequestVote"
        <4>1. \A p : request(p).type = "RequestVote"
          OBVIOUS
        <4> HIDE DEF request
        <4> QED BY <4>1
      <3> HIDE DEF requests
      <3> QED BY <3>1, <3>2
    <2>2. NoneSent
      BY <2>1, <1>NoneSentBy
    <2>3. /\ log' = log /\ ticks' = ticks /\ matchIndex' = matchIndex
          /\ state' = [state EXCEPT ![n] = "Candidate"]
      BY <1>1 DEF StartElection, logVars, leaderVars
    <2>4. FreshLeaders
      BY <2>3 DEF FreshLeaders, TypeInv, TypeOK
    <2> QED BY <2>2, <2>3, <2>4, SameMatch
  <1>2. ASSUME NEW m \in msgs, HandleRequestVote(m) PROVE Quiet
    <2>3. NoneSent
      BY <1>2, <1>VoteReplySent
    <2>4. /\ log' = log /\ ticks' = ticks /\ matchIndex' = matchIndex
          /\ state' \in {state, [state EXCEPT ![m.dst] = "Follower"]}
      BY <1>2 DEF HandleRequestVote, StepDown, logVars, leaderVars
    <2>5. FreshLeaders
      BY <2>4, Zenon DEF FreshLeaders, TypeInv, TypeOK
    <2> QED BY <2>3, <2>4, <2>5, SameMatch
  <1>3. ASSUME NEW m \in msgs, CountVote(m) PROVE Quiet
    <2>1. NoneSent
      BY <1>3, <1>NoneSentBy DEF CountVote
    <2>2. /\ log' = log /\ ticks' = ticks /\ state[m.dst] = "Candidate"
          /\ \/ UNCHANGED <<state, matchIndex>>
             \/ /\ state' = [state EXCEPT ![m.dst] = "Leader"]
                /\ matchIndex' = [matchIndex EXCEPT ![m.dst] = [p \in Server |-> 0]]
      BY <1>3 DEF CountVote, BecomeLeader, logVars
    <2>3. CASE UNCHANGED <<state, matchIndex>>
      <3>1. FreshLeaders
        BY <2>3 DEF FreshLeaders
      <3> QED BY <2>1, <2>2, <2>3, <3>1, SameMatch
    <2>4. CASE /\ state' = [state EXCEPT ![m.dst] = "Leader"]
               /\ matchIndex' = [matchIndex EXCEPT ![m.dst] = [p \in Server |-> 0]]
      <3>1. /\ \A k \in Server \ {m.dst} : matchIndex'[k] = matchIndex[k] /\ state'[k] = state[k]
            /\ m.dst \in Server => matchIndex'[m.dst] = [p \in Server |-> 0]
        BY <2>4 DEF TypeInv, TypeOK
      <3>2. FreshLeaders
        BY <3>1 DEF FreshLeaders
      <3>3. MatchKept
        BY <2>2, <3>1 DEF MatchKept, AckedUpTo
      <3> QED BY <2>1, <2>2, <3>2, <3>3
    <2> QED BY <2>2, <2>3, <2>4
  <1>4. ASSUME NEW m \in msgs, StepDownOnVoteReply(m) \/ StepDownOnAppendReply(m)
        PROVE  Quiet
    <2>1. NoneSent
      BY <1>4, <1>NoneSentBy DEF StepDownOnVoteReply, StepDownOnAppendReply
    <2>2. /\ log' = log /\ ticks' = ticks /\ matchIndex' = matchIndex
          /\ state' = [state EXCEPT ![m.dst] = "Follower"]
      BY <1>4 DEF StepDownOnVoteReply, StepDownOnAppendReply, BecomeFollower, StepDown,
                  logVars, leaderVars
    <2>3. FreshLeaders
      BY <2>2 DEF FreshLeaders, TypeInv, TypeOK
    <2> QED BY <2>1, <2>2, <2>3, SameMatch
  <1> QED BY <1>1, <1>2, <1>3, <1>4 DEF ElectionStep

\* The steps that leave roles and logs alone and send no request.
LEMMA ReplyQuiet ==
  ASSUME TypeInv, VoteInv, AckInv, ReplyStep
  PROVE  /\ log' = log /\ state' = state /\ currentTerm' = currentTerm
         /\ SendsIssued /\ NoAppendSent /\ NoAckSent /\ MatchKept
<1> DEFINE Quiet == SendsIssued /\ NoAppendSent /\ NoAckSent /\ MatchKept
<1>1. log' = log /\ state' = state /\ currentTerm' = currentTerm
  BY Zenon DEF ReplyStep, SendHeartbeats, RejectStaleAppend, HandleAppendSuccess,
         HandleAppendConflict, vars, logVars, electionVars
<1>2. ASSUME NEW n \in Server, SendHeartbeats(n) PROVE Quiet
  <2>1. /\ msgs' = msgs /\ matchIndex' = matchIndex /\ state[n] = "Leader"
        /\ ticks' = [ticks EXCEPT ![n] =
             @ \cup {[term |-> currentTerm[n], commitIndex |-> commitIndex[n]]}]
    BY <1>2 DEF SendHeartbeats
  <2>2. ASSUME NEW k \in Server, NEW h \in ticks'[k]
        PROVE  h \in ticks[k] \/ (k = n /\ h.term = currentTerm[n])
    BY <2>1, SMT DEF TypeInv, TypeOK
  <2>3. Issued(n, currentTerm[n])
    BY <2>1, LeaderIssued
  <2>4. SendsIssued
    BY <2>1, <2>2, <2>3 DEF SendsIssued
  <2>5. NoAppendSent /\ NoAckSent
    BY <2>1 DEF NoAppendSent, NoAckSent
  <2> QED BY <2>1, <2>4, <2>5, SameMatch
<1>3. ASSUME NEW m \in msgs, RejectStaleAppend(m) PROVE Quiet
  <2> DEFINE r == AppendReply(m, currentTerm[m.dst], FALSE, NoHint)
  <2>1. /\ r.type = "AppendReply" /\ r.success = FALSE
        /\ r.src = m.dst /\ r.dst = m.src /\ r.reqTerm = m.term
    BY DEF AppendReply
  <2>2. ticks' = ticks /\ matchIndex' = matchIndex /\ Respond(r) /\ m.type = "AppendEntries"
    BY <1>3, Zenon DEF RejectStaleAppend, leaderVars
  <2> HIDE DEF r
  <2>3. msgs' \subseteq msgs \cup {r}
    BY <2>2 DEF Respond, Send
  <2>4. SenderIssued(r)
    BY <2>1, <2>2 DEF AckInv, SendersIssued, SenderIssued
  <2>5. SendsIssued
    BY <2>2, <2>3, <2>4 DEF SendsIssued
  <2>6. NoAppendSent /\ NoAckSent
    BY <2>1, <2>3 DEF NoAppendSent, NoAckSent
  <2> QED BY <2>2, <2>5, <2>6, SameMatch
<1>4. ASSUME msgs' = msgs, ticks' = ticks, MatchKept PROVE Quiet
  BY <1>4 DEF SendsIssued, NoAppendSent, NoAckSent
<1>5. ASSUME NEW m \in msgs, HandleAppendSuccess(m) PROVE Quiet
  <2>1. /\ m.type = "AppendReply" /\ m.success /\ m.reqLast \in Nat
        /\ m.reqTerm = currentTerm[m.dst] /\ m.src \in Server /\ m.dst \in Server
    BY <1>5, Zenon DEF HandleAppendSuccess, LeaderOfRequest, TypeInv, TypeOK, Message
  <2>2. matchIndex' = [matchIndex EXCEPT ![m.dst] =
          [matchIndex[m.dst] EXCEPT ![m.src] = Max({@, m.reqLast})]]
    BY <1>5 DEF HandleAppendSuccess
  <2>3. matchIndex \in [Server -> [Server -> Nat]]
    BY DEF TypeInv, TypeOK
  <2>4. Max({matchIndex[m.dst][m.src], m.reqLast}) \in {matchIndex[m.dst][m.src], m.reqLast}
    BY <2>1, <2>3, MaxOfTwo, Zenon
  <2>5. ASSUME NEW n \in Server, NEW p \in Server
        PROVE  \/ matchIndex'[n][p] = matchIndex[n][p]
               \/ n = m.dst /\ p = m.src /\ matchIndex'[n][p] = m.reqLast
    BY <2>1, <2>2, <2>3, <2>4
  <2>6. MatchKept
    BY <2>1, <2>5 DEF MatchKept, AckedUpTo
  <2> QED BY <1>4, <1>5, <2>6 DEF HandleAppendSuccess
<1>6. ASSUME UNCHANGED <<msgs, ticks, matchIndex>> PROVE Quiet
  BY <1>4, <1>6, SameMatch
<1> QED BY <1>1, <1>2, <1>3, <1>5, <1>6, Zenon DEF ReplyStep, HandleAppendConflict, vars, leaderVars

-----------------------------------------------------------------------------
(* The steps that change a log *)

-----------------------------------------------------------------------------
(* Theorem: matchIndex *)

\* Roles change as the election rules say in every step.
LEMMA StepRoles ==
  ASSUME TypeInv, MatchInv, [Step]_vars
  PROVE  RolesStand
<1>1. SentinelSent
  BY DEF MatchInv
<1>2. ASSUME NEW n \in Server, NEW c \in Command, SubmitCommand(n, c)
      PROVE  RolesStand
  BY <1>2 DEF SubmitCommand, electionVars, RolesStand
<1>3. ASSUME NEW n \in Server, NEW p \in Server, SendStep(n, p)
      PROVE  RolesStand
  BY <1>1, <1>3, SendersCopy
<1>4. ASSUME NEW m \in msgs, HandleAppendEntries(m)
      PROVE  RolesStand
  BY <1>1, <1>4, HandleAppendEntriesCopies
<1> QED BY <1>1, <1>2, <1>3, <1>4, ElectionCopies, ReplyCopies
     DEF Step, Receive, ElectionStep, ReplyStep, SendStep

\* Nobody has been told anything initially.
LEMMA InitAcks == Init => AckInv
<1> SUFFICES ASSUME Init PROVE AckInv
  OBVIOUS
<1>1. SendersIssued /\ OwnRequests
  BY DEF Init, SendersIssued, OwnRequests
<1>2. AcksTrue
  BY DEF Init, AcksTrue
<1> QED BY <1>1, <1>2 DEF AckInv

\* Every step of running nodes preserves the invariant.
LEMMA StepAcks ==
  ASSUME TypeInv, VoteInv, MatchInv, AckInv, [Step]_vars
  PROVE  AckInv'
  \* Who has been Leader of a term stays that.
  <1>IssuedStays.
      ASSUME TypeInv, TypeInv', VotesStandStep, OnlyCastVotes, RolesStand,
             NEW c \in Server, NEW t \in Nat, Issued(c, t)
      PROVE  Issued(c, t)'
    BY <1>IssuedStays, ElectedStays, BegunStays DEF Issued
  \* What a step must do to preserve the invariant.
  <1>AckInduct.
      ASSUME TypeInv, TypeInv', VotesStandStep, OnlyCastVotes, RolesStand, AckInv,
             SendsIssued, RequestsFromLogs, LeadersAppend, AcksStand, FreshLeaders
      PROVE  AckInv'
    <2> USE <1>AckInduct
    <2> USE DEF AckInv
    <2>1. \A m \in msgs' : SenderIssued(m)
      BY DEF SendersIssued, SendsIssued
    <2>2. SendersIssued'
      <3>1. ASSUME NEW n \in Server, NEW h \in ticks'[n] PROVE Issued(n, h.term)'
        <4>1. h.term \in Nat
          <5>1. ticks' \in [Server -> SUBSET [term : Nat, commitIndex : Nat]]
            BY DEF TypeInv, TypeOK
          <5>2. h \in [term : Nat, commitIndex : Nat]
            BY <5>1
          <5> QED BY <5>2
        <4>2. Issued(n, h.term)
          BY DEF SendersIssued, SendsIssued
        <4> QED BY <4>1, <4>2, <1>IssuedStays
      <3>2. ASSUME NEW m \in msgs' PROVE SenderIssued(m)'
        <4>1. m \in Message
          BY DEF TypeInv, TypeOK
        <4>2. CASE m.type = "AppendEntries"
          <5>1. m.src \in Server /\ m.term \in Nat
            BY <4>1, <4>2 DEF Message
          <5>2. Issued(m.src, m.term) /\ m.src # m.dst
            BY <2>1, <4>2 DEF SenderIssued
          <5> QED BY <4>2, <5>1, <5>2, <1>IssuedStays DEF SenderIssued
        <4>3. CASE m.type = "AppendReply"
          <5>1. m.dst \in Server /\ m.reqTerm \in Nat
            BY <4>1, <4>3 DEF Message
          <5>2. Issued(m.dst, m.reqTerm) /\ m.src # m.dst
            BY <2>1, <4>3 DEF SenderIssued
          <5> QED BY <4>3, <5>1, <5>2, <1>IssuedStays DEF SenderIssued
        <4> QED BY <4>2, <4>3 DEF SenderIssued
      <3> QED BY <3>1, <3>2 DEF SendersIssued
    <2>3. ASSUME NEW n \in Server, state'[n] = "Leader"
          PROVE  /\ currentTerm'[n] = currentTerm[n]
                 /\ state[n] = "Leader" \/ (state[n] = "Candidate" /\ ~Issued(n, currentTerm[n]))
      <3>1. currentTerm[n] \in Nat
        BY DEF TypeInv, TypeOK
      <3> QED BY <2>3, <3>1, SMTT(30) DEF RolesStand, Issued, Begun
    <2>4. OwnRequests'
      <3> SUFFICES ASSUME NEW m \in msgs', m.type = "AppendEntries",
                          state'[m.src] = "Leader", m.term = currentTerm'[m.src]
                   PROVE  Within(m, log'[m.src])
        BY DEF OwnRequests, Within
      <3>1. m.src \in Server
        BY DEF TypeInv, TypeOK, Message
      <3>2. Issued(m.src, m.term)
        BY <2>1 DEF SenderIssued
      <3>3. state[m.src] = "Leader" /\ m.term = currentTerm[m.src]
        BY <2>3, <3>1, <3>2
      <3>4. CASE m \in msgs
        <4>1. Within(m, log[m.src])
          BY <3>3, <3>4 DEF OwnRequests
        <4>2. \A i \in Nat : \A e, p :
                Link(log[m.src], 0, 0, i, e, p) => Link(log'[m.src], 0, 0, i, e, p)
          BY <3>1, <3>3 DEF LeadersAppend
        <4> QED BY <4>1, <4>2 DEF Within
      <3> QED BY <3>4 DEF RequestsFromLogs
    <2>5. AcksTrue'
      <3> SUFFICES ASSUME NEW n \in Server, NEW p \in Server, NEW k \in Nat \ {0},
                          p # n, state'[n] = "Leader", AckedUpTo(n, p, k)'
                   PROVE  AckTrue(n, p, k)'
        BY DEF AcksTrue
      <3>1. CASE state[n] = "Leader"
        BY <3>1 DEF AcksStand
      <3>2. CASE state[n] = "Candidate" /\ ~Issued(n, currentTerm[n])
        <4>1. matchIndex'[n][p] = 0
          BY <3>2 DEF FreshLeaders
        <4>2. PICK r \in msgs' : r.type = "AppendReply" /\ r.dst = n /\ r.reqTerm = currentTerm'[n]
          BY <4>1 DEF AckedUpTo
        <4>3. Issued(n, currentTerm[n])
          BY <2>1, <2>3, <4>2 DEF SenderIssued
        <4> QED BY <3>2, <4>3
      <3> QED BY <2>3, <3>1, <3>2
    <2> QED BY <2>2, <2>4, <2>5
  \* Then what Leaders have been told stays true.
  <1>LogsAloneAcks.
      ASSUME TypeInv, TypeInv', VotesStandStep, RolesStand, AckInv,
             log' = log, NoAckSent, MatchKept
      PROVE  LeadersAppend /\ AcksStand
    <2> USE <1>LogsAloneAcks
    <2>1. LeadersAppend
      BY DEF LeadersAppend
    <2>2. AcksStand
      <3> SUFFICES ASSUME NEW n \in Server, NEW p \in Server, NEW k \in Nat \ {0},
                          p # n, state[n] = "Leader", state'[n] = "Leader",
                          AckedUpTo(n, p, k)'
                   PROVE  AckTrue(n, p, k)'
        BY DEF AcksStand
      <3>1. /\ currentTerm'[n] = currentTerm[n] /\ currentTerm'[p] >= currentTerm[p]
            /\ currentTerm[n] \in Nat /\ currentTerm[p] \in Nat /\ currentTerm'[p] \in Nat
        BY DEF RolesStand, VotesStandStep, TypeInv, TypeOK
      <3>2. AckedUpTo(n, p, k)
        BY NoAcks
      <3>3. AckTrue(n, p, k)
        BY <3>2 DEF AckInv, AcksTrue
      <3> QED BY <3>1, <3>3, SMTT(30) DEF AckTrue
    <2> QED BY <2>1, <2>2
  \* Then no step of others is needed.
  <1>NoneSentAcks.
      ASSUME NoneSent, ticks' = ticks
      PROVE  SendsIssued /\ RequestsFromLogs /\ NoAckSent
    BY <1>NoneSentAcks DEF NoneSent, SendsIssued, SenderIssued, RequestsFromLogs, NoAckSent
  \* So they preserve the invariant.
  <1>ElectionAcks.
      ASSUME TypeInv, TypeInv', VotesStandStep, OnlyCastVotes, RolesStand, AckInv,
             ElectionStep
      PROVE  AckInv'
    <2> USE <1>ElectionAcks
    <2>1. log' = log /\ ticks' = ticks /\ NoneSent /\ MatchKept /\ FreshLeaders
      BY ElectionQuiet
    <2>2. SendsIssued /\ RequestsFromLogs /\ NoAckSent
      BY <2>1, <1>NoneSentAcks
    <2>3. LeadersAppend /\ AcksStand
      BY <2>1, <2>2, <1>LogsAloneAcks
    <2> QED BY <2>1, <2>2, <2>3, <1>AckInduct
  \* They preserve the invariant, too.
  <1>ReplyAcks.
      ASSUME TypeInv, TypeInv', VoteInv, VotesStandStep, OnlyCastVotes, RolesStand, AckInv,
             ReplyStep
      PROVE  AckInv'
    <2> USE <1>ReplyAcks
    <2>1. /\ log' = log /\ state' = state /\ SendsIssued
          /\ NoAppendSent /\ NoAckSent /\ MatchKept
      BY ReplyQuiet
    <2>2. FreshLeaders /\ RequestsFromLogs
      BY <2>1 DEF FreshLeaders, RequestsFromLogs, NoAppendSent
    <2>3. LeadersAppend /\ AcksStand
      BY <2>1, <1>LogsAloneAcks
    <2> QED BY <2>1, <2>2, <2>3, <1>AckInduct
  \* The requests of replicateLog and sendHeartbeats are part of a log.
  <1>SendersAcks.
      ASSUME TypeInv, TypeInv', VoteInv, VotesStandStep, OnlyCastVotes, RolesStand, AckInv,
             NEW n \in Server, NEW p \in Server,
             SendStep(n, p)
      PROVE  AckInv'
    <2> USE <1>SendersAcks
    <2> DEFINE next == nextIndex[n][p]
    <2>1. /\ log' = log /\ UNCHANGED leaderVars /\ UNCHANGED electionVars
          /\ p \in Peers(n) /\ (state[n] = "Leader" \/ ticks[n] # {})
      BY Zenon DEF SendStep, ReplicateLog, SendHeartbeatTo, logVars
    <2>2. PICK t, c : Send({AppendEntries(n, p, t, c)}) /\ Issued(n, t)
      <3>1. CASE ReplicateLog(n, p)
        BY <3>1, LeaderIssued, Zenon DEF ReplicateLog
      <3>2. ASSUME NEW h \in ticks[n], SendHeartbeatTo(n, p, h)
            PROVE  Send({AppendEntries(n, p, h.term, h.commitIndex)}) /\ Issued(n, h.term)
        BY <3>2 DEF SendHeartbeatTo, AckInv, SendersIssued
      <3> QED BY <3>1, <3>2, Zenon DEF SendStep
    <2>3. log[n] \in Seq(Entry(Command)) /\ next \in Nat \ {0}
      <3>1. log[n] \in Seq(Entry(Command)) /\ next \in Nat /\ next >= 1
        BY <2>1, ZenonT(30) DEF TypeInv, TypeOK, Peers
      <3> HIDE DEF next
      <3> QED BY <3>1, SMTT(30)
    <2> DEFINE r == AppendEntries(n, p, t, c)
    <2>4. /\ r.prevLogIndex = next - 1 /\ r.prevLogTerm = TermAt(log[n], next - 1)
          /\ r.entries = EntriesFrom(log[n], next) /\ r.type = "AppendEntries"
          /\ r.src = n /\ r.dst = p /\ r.term = t
      BY DEF AppendEntries
    <2>5. msgs' \subseteq msgs \cup {r}
      BY <2>2 DEF Send
    <2> HIDE DEF next, r
    <2>6. SendsIssued
      <3>1. SenderIssued(r)
        BY <2>1, <2>2, <2>4 DEF SenderIssued, Peers
      <3> QED BY <2>1, <2>5, <3>1 DEF SendsIssued, leaderVars
    <2>7. Within(r, log[n])
      <3>1. ASSUME NEW i \in Nat, NEW e, NEW q,
                   Link(r.entries, r.prevLogIndex, r.prevLogTerm, i, e, q)
            PROVE  Link(log[n], 0, 0, i, e, q)
        <4>1. Link(EntriesFrom(log[n], next), next - 1, TermAt(log[n], next - 1), i, e, q)
          BY <2>4, <3>1
        <4> QED BY <2>3, <4>1, SentLinks
      <3> QED BY <3>1 DEF Within
    <2>8. RequestsFromLogs
      BY <2>1, <2>4, <2>5, <2>7 DEF RequestsFromLogs
    <2>9. NoAckSent
      BY <2>4, <2>5 DEF NoAckSent
    <2>10. MatchKept /\ FreshLeaders
      BY <2>1, SameMatch DEF FreshLeaders, leaderVars, electionVars
    <2>11. LeadersAppend /\ AcksStand
      BY <2>1, <2>9, <2>10, <1>LogsAloneAcks
    <2> QED BY <2>6, <2>8, <2>10, <2>11, <1>AckInduct
  \* SubmitCommand adds an entry nobody has acknowledged.
  <1>SubmitCommandAcks.
      ASSUME TypeInv, TypeInv', VoteInv, VotesStandStep, OnlyCastVotes, AckInv,
             NEW n \in Server, NEW c \in Command, SubmitCommand(n, c)
      PROVE  AckInv'
    <2> USE <1>SubmitCommandAcks
    <2> DEFINE x == [term |-> currentTerm[n], index |-> LastIndex(log[n]) + 1,
                     command |-> c]
    <2>1. /\ state[n] = "Leader" /\ log' = [log EXCEPT ![n] = Append(@, x)]
          /\ UNCHANGED <<state, currentTerm, msgs, ticks, matchIndex>>
      BY DEF SubmitCommand, electionVars, leaderVars
    <2>2. log[n] \in Seq(Entry(Command)) /\ x \in Entry(Command) /\ Len(log[n]) \in Nat
      <3>1. log[n] \in Seq(Entry(Command)) /\ currentTerm[n] \in Nat
        BY DEF TypeInv, TypeOK
      <3>2. Len(log[n]) \in Nat
        BY <3>1, SMTT(30)
      <3> QED BY <3>1, <3>2, SMTT(30) DEF LastIndex, Entry
    <2> HIDE DEF x
    <2>3. log'[n] = Append(log[n], x) /\ \A k \in Server \ {n} : log'[k] = log[k]
      BY <2>1 DEF TypeInv, TypeOK
    <2>4. /\ Len(log'[n]) = Len(log[n]) + 1
          /\ \A j \in 1..Len(log[n]) : log'[n][j] = log[n][j]
      BY <2>2, <2>3, SMTT(30)
    <2>5. RolesStand /\ FreshLeaders
      BY <2>1 DEF RolesStand, FreshLeaders
    <2>6. SendsIssued /\ RequestsFromLogs
      BY <2>1 DEF SendsIssued, RequestsFromLogs
    <2>7. LeadersAppend
      <3>1. ASSUME NEW i \in Nat, NEW e, NEW p, Link(log[n], 0, 0, i, e, p)
            PROVE  Link(log'[n], 0, 0, i, e, p)
        BY <2>2, <2>3, <3>1, AppendKeepsLinks
      <3> QED BY <2>3, <3>1, Zenon DEF LeadersAppend
    <2>8. AcksStand
      <3> SUFFICES ASSUME NEW a \in Server, NEW p \in Server, NEW k \in Nat \ {0},
                          p # a, state[a] = "Leader", AckedUpTo(a, p, k)'
                   PROVE  AckTrue(a, p, k)'
        BY DEF AcksStand
      <3>1. AckedUpTo(a, p, k)
        BY <2>1 DEF AckedUpTo
      <3>2. AckTrue(a, p, k)
        BY <3>1 DEF AckInv, AcksTrue
      <3>3. Len(log[a]) \in Nat
        <4>1. log[a] \in Seq(Entry(Command))
          BY DEF TypeInv, TypeOK
        <4> QED BY ONLY <4>1
      <3>4. k <= Len(log'[a])
        BY <2>3, <2>4, <3>2, <3>3, SMTT(30) DEF AckTrue
      <3>5. ASSUME currentTerm[p] = currentTerm[a] PROVE SameTermAt(log'[a], log'[p], k)
        <4>1. SameTermAt(log[a], log[p], k)
          BY <3>2, <3>5 DEF AckTrue
        <4>2. p # n
          <5>1. ElectionSafety
            BY ElectionSafetyFromVotes
          <5> QED BY <2>1, <3>5, <5>1 DEF ElectionSafety
        <4>3. CASE a = n
          <5>1. k \in 1..Len(log'[n]) /\ log'[n][k] = log[n][k]
            BY <2>2, <2>4, <4>1, <4>3, SMTT(30) DEF SameTermAt
          <5> QED BY <2>3, <4>1, <4>2, <4>3, <5>1, Zenon DEF SameTermAt
        <4> QED BY <2>3, <4>1, <4>2, <4>3
      <3> QED BY <2>1, <3>2, <3>4, <3>5 DEF AckTrue
    <2> QED BY <2>5, <2>6, <2>7, <2>8, <1>AckInduct
  \* The last entry of a request carries its slot, so that is what a reply
  \* acknowledges.
  <1>LastSent.
      ASSUME TypeInv, MatchInv, NEW m \in msgs, m.type = "AppendEntries", m.entries # <<>>
      PROVE  m.entries[Len(m.entries)].index = m.prevLogIndex + Len(m.entries)
    <2> USE <1>LastSent
    <2> DEFINE i == m.prevLogIndex + Len(m.entries)
    <2>1. /\ m.entries \in Seq(Entry(Command)) /\ m.prevLogIndex \in Nat
          /\ m.prevLogTerm \in Nat
      BY Zenon DEF TypeInv, TypeOK, Message
    <2>2. Len(m.entries) \in Nat \ {0}
      <3>1. Len(m.entries) \in Nat /\ Len(m.entries) # 0
        BY <2>1, SMT
      <3> QED BY <3>1
    <2>3. /\ i \in Nat /\ i - m.prevLogIndex = Len(m.entries)
          /\ i - m.prevLogIndex \in 1..Len(m.entries)
      BY <2>1, <2>2, SMTT(30)
    <2> HIDE DEF i
    <2> DEFINE e == m.entries[i - m.prevLogIndex]
    <2>4. PICK q \in Nat : Link(m.entries, m.prevLogIndex, m.prevLogTerm, i, e, q)
      BY <2>1, <2>3, RequestLink, ZenonT(30)
    <2>5. e \in Entry(Command)
      BY <2>1, <2>3, <2>4, LinkTypes
    <2>6. Linked(i, e, q)
      BY <2>4 DEF Linked, InRequest
    <2> HIDE DEF e
    <2>7. e.index = i
      BY <2>3, <2>5, <2>6 DEF MatchInv, IndexIsSlot
    <2> QED BY <2>3, <2>7 DEF e, i
  \* HandleAppendEntries: a follower takes back nothing it acknowledged in the
  \* term, for all requests of the term are part of the one Leader's log.
  <1>HandleAppendEntriesAcks.
      ASSUME TypeInv, TypeInv', VoteInv, VotesStandStep, OnlyCastVotes, RolesStand,
             MatchInv, AckInv, NEW m \in msgs, HandleAppendEntries(m)
      PROVE  AckInv'
    <2> USE <1>HandleAppendEntriesAcks
    <2> DEFINE n == m.dst
               ok == PrevMatches(log[n], m.prevLogIndex, m.prevLogTerm)
               hint == IF ok THEN NoHint ELSE ConflictHint(log[n], m.prevLogIndex)
               r == AppendReply(m, m.term, ok, hint)
    <2>1. /\ n \in Server /\ m.src \in Server /\ m.type = "AppendEntries"
          /\ m.prevLogIndex \in Nat /\ m.prevLogTerm \in Nat /\ m.term \in Nat
          /\ m.entries \in Seq(Entry(Command)) /\ log[n] \in Seq(Entry(Command))
          /\ Len(m.entries) \in Nat
      <3>1. /\ n \in Server /\ m.src \in Server /\ m.type = "AppendEntries"
            /\ m.prevLogIndex \in Nat /\ m.prevLogTerm \in Nat /\ m.term \in Nat
            /\ m.entries \in Seq(Entry(Command)) /\ log[n] \in Seq(Entry(Command))
        BY ZenonT(30) DEF HandleAppendEntries, TypeInv, TypeOK, Message
      <3> QED BY <3>1, SMT
    <2>2. /\ state' = [state EXCEPT ![n] = "Follower"]
          /\ currentTerm' = [currentTerm EXCEPT ![n] = m.term]
          /\ log' = [log EXCEPT ![n] = IF ok THEN AppendNew(log[n], m.prevLogIndex, m.entries)
                                             ELSE log[n]]
          /\ UNCHANGED <<ticks, matchIndex>> /\ m.term >= currentTerm[n]
      BY ZenonT(30) DEF HandleAppendEntries, leaderVars
    <2>3. Respond(r)
      BY ZenonT(30) DEF HandleAppendEntries
    <2>4. /\ r.type = "AppendReply" /\ r.src = n /\ r.dst = m.src /\ r.reqTerm = m.term
          /\ r.success = ok /\ (r.reqLast # 0 => m.entries # <<>>
                                /\ r.reqLast = m.entries[Len(m.entries)].index)
      BY Zenon DEF AppendReply
    <2>5. msgs' \subseteq msgs \cup {r}
      BY <2>3 DEF Respond, Send
    <2> HIDE DEF n, ok, hint, r
    <2>6. /\ \A k \in Server \ {n} : log'[k] = log[k] /\ currentTerm'[k] = currentTerm[k]
          /\ log'[n] = (IF ok THEN AppendNew(log[n], m.prevLogIndex, m.entries) ELSE log[n])
          /\ currentTerm'[n] = m.term /\ state'[n] = "Follower"
          /\ \A k \in Server \ {n} : state'[k] = state[k]
      BY <2>1, <2>2 DEF TypeInv, TypeOK
    <2>7. Issued(m.src, m.term) /\ m.src # n
      BY <2>1 DEF AckInv, SendersIssued, SenderIssued, n
    <2>8. SendsIssued
      <3>1. SenderIssued(r)
        BY <2>4, <2>7 DEF SenderIssued
      <3> QED BY <2>2, <2>5, <3>1 DEF SendsIssued
    <2>9. RequestsFromLogs /\ FreshLeaders /\ LeadersAppend
      BY <2>4, <2>5, <2>6 DEF RequestsFromLogs, FreshLeaders, LeadersAppend
    <2>10. ASSUME NEW a \in Server, state[a] = "Leader", currentTerm[a] = m.term
           PROVE  a = m.src /\ Within(m, log[a])
      <3>1. a = m.src
        BY <2>1, <2>7, <2>10, LeaderOnlyElected DEF OnlyLeaderElected, Issued
      <3> QED BY <2>1, <2>10, <3>1 DEF AckInv, OwnRequests
    <2>11. AcksStand
      <3> SUFFICES ASSUME NEW a \in Server, NEW p \in Server, NEW k \in Nat \ {0},
                          p # a, state[a] = "Leader", state'[a] = "Leader",
                          AckedUpTo(a, p, k)'
                   PROVE  AckTrue(a, p, k)'
        BY DEF AcksStand
      <3>1. a # n /\ log'[a] = log[a] /\ currentTerm'[a] = currentTerm[a]
        BY <2>6
      <3>2. log[a] \in Seq(Entry(Command)) /\ currentTerm[a] \in Nat
        BY DEF TypeInv, TypeOK
      <3>3. CASE AckedUpTo(a, p, k)
        <4>1. AckTrue(a, p, k)
          BY <3>3 DEF AckInv, AcksTrue
        <4>2. CASE p # n
          BY <2>6, <3>1, <4>1, <4>2 DEF AckTrue
        <4>3. CASE p = n
          <5>1. currentTerm[n] \in Nat /\ currentTerm[n] >= currentTerm[a]
            BY <2>1, <4>1, <4>3 DEF AckTrue, TypeInv, TypeOK
          <5>2. currentTerm'[n] >= currentTerm'[a]
            BY <2>1, <2>2, <2>6, <3>1, <3>2, <5>1, SMTT(30)
          <5>3. ASSUME currentTerm[a] = m.term, ok
                PROVE  SameTermAt(log[a], AppendNew(log[n], m.prevLogIndex, m.entries), k)
            <6>1. SameTermAt(log[a], log[n], k)
              BY <2>2, <2>1, <4>1, <4>3, <5>1, <5>3, SMTT(30) DEF AckTrue
            <6>2. \A j \in 1..k : log[a][j] = log[n][j]
              BY <2>1, <6>1, SlotsAgree DEF SameTermAt
            <6>3. Within(m, log[a])
              BY <2>10, <5>3
            <6>4. k <= Len(log[n]) /\ Len(log[n]) \in Nat
              BY <2>1, <6>1, SMTT(30) DEF SameTermAt
            <6>5. NoConflict(log[n], k, m.entries, m.prevLogIndex, m.prevLogTerm)
              <7>1. ASSUME NEW i \in 1..k, NEW e, NEW q,
                           Link(m.entries, m.prevLogIndex, m.prevLogTerm, i, e, q)
                    PROVE  e.term = log[n][i].term
                <8>1. Link(log[a], 0, 0, i, e, q) /\ i - 0 = i
                  BY <6>3, <7>1, SMTT(30) DEF Within
                <8>2. e = log[a][i]
                  BY <8>1 DEF Link
                <8> QED BY <6>2, <8>2
              <7> QED BY <7>1 DEF NoConflict
            <6>6. /\ k <= Len(AppendNew(log[n], m.prevLogIndex, m.entries))
                  /\ \A j \in 1..k :
                       AppendNew(log[n], m.prevLogIndex, m.entries)[j] = log[n][j]
              <7>1. PrevMatches(log[n], m.prevLogIndex, m.prevLogTerm) /\ k \in Nat
                BY <5>3 DEF ok
              <7> QED BY <2>1, <6>4, <6>5, <7>1, AcceptedKeeps, SMTT(30)
            <6>7. Len(AppendNew(log[n], m.prevLogIndex, m.entries)) \in Nat
              BY <2>1, AppendNewType, SMTT(30)
            <6> QED BY <6>1, <6>6, <6>7, SMTT(30) DEF SameTermAt
          <5>4. ASSUME currentTerm[a] = m.term PROVE SameTermAt(log'[a], log'[n], k)
            <6>1. CASE ok
              BY <2>6, <3>1, <5>3, <5>4, <6>1
            <6>2. CASE ~ok
              BY <2>1, <2>2, <2>6, <3>1, <4>1, <4>3, <5>1, <5>4, <6>2, SMTT(30) DEF AckTrue
            <6> QED BY <6>1, <6>2
          <5> QED BY <2>6, <3>1, <4>1, <4>3, <5>2, <5>4 DEF AckTrue
        <4> QED BY <4>2, <4>3
      <3>4. CASE ~AckedUpTo(a, p, k)
        <4>1. /\ r.success /\ r.src = p /\ r.dst = a
              /\ r.reqTerm = currentTerm'[a] /\ r.reqLast = k
          BY <2>2, <2>5, <3>1, <3>4 DEF AckedUpTo
        <4>2. /\ ok /\ p = n /\ a = m.src /\ m.term = currentTerm[a] /\ m.entries # <<>>
              /\ k = m.entries[Len(m.entries)].index
          BY <2>4, <3>1, <4>1
        <4>3. k = m.prevLogIndex + Len(m.entries)
          BY <2>1, <4>2, <1>LastSent
        <4>4. SameTermAt(log[a], AppendNew(log[n], m.prevLogIndex, m.entries),
                         m.prevLogIndex + Len(m.entries))
          <5>1. Within(m, log[a])
            BY <2>10, <4>2
          <5> QED BY <2>1, <3>2, <4>2, <5>1, AcceptedHas, Zenon DEF Within, ok
        <4>5. SameTermAt(log'[a], log'[n], k)
          BY <2>6, <3>1, <4>2, <4>3, <4>4
        <4>6. currentTerm'[n] >= currentTerm'[a]
          BY <2>1, <2>6, <3>1, <4>2, SMTT(30)
        <4> QED BY <3>1, <3>2, <4>2, <4>5, <4>6, SMTT(30) DEF AckTrue, SameTermAt
      <3> QED BY <3>3, <3>4
    <2> QED BY <2>8, <2>9, <2>11, <1>AckInduct
  <1>1. TypeInv'
    BY NextType DEF Next
  <1>2. VotesStandStep /\ OnlyCastVotes
    BY <1>1, StepVotes
  <1>3. RolesStand
    BY StepRoles
  <1>4. ASSUME NEW n \in Server, NEW c \in Command, SubmitCommand(n, c)
        PROVE  AckInv'
    BY <1>1, <1>2, <1>4, <1>SubmitCommandAcks
  <1>5. ASSUME NEW n \in Server, NEW p \in Server, SendStep(n, p)
        PROVE  AckInv'
    BY <1>1, <1>2, <1>3, <1>5, <1>SendersAcks
  <1>6. ASSUME NEW m \in msgs, HandleAppendEntries(m)
        PROVE  AckInv'
    BY <1>1, <1>2, <1>3, <1>6, <1>HandleAppendEntriesAcks
  <1> QED BY <1>1, <1>2, <1>3, <1>4, <1>5, <1>6, <1>ElectionAcks, <1>ReplyAcks
         DEF Step, Receive, ElectionStep, ReplyStep, SendStep

\* What was acknowledged in the term is there, and so is all before it.
LEMMA MatchFromAcks == TypeInv /\ MatchInv /\ AckInv => MatchIndexSound
<1> SUFFICES ASSUME TypeInv, MatchInv, AckInv, NEW n \in Server, NEW p \in Server,
                    state[n] = "Leader", currentTerm[p] = currentTerm[n], p # n
             PROVE  IsPrefix(SubSeq(log[n], 1, matchIndex[n][p]), log[p])
  BY DEF MatchIndexSound
<1> DEFINE k == matchIndex[n][p]
<1>1. /\ log[n] \in Seq(Entry(Command)) /\ log[p] \in Seq(Entry(Command)) /\ k \in Nat
      /\ Len(log[n]) \in Nat /\ Len(log[p]) \in Nat
  <2>1. log[n] \in Seq(Entry(Command)) /\ log[p] \in Seq(Entry(Command)) /\ k \in Nat
    BY DEF TypeInv, TypeOK
  <2>2. Len(log[n]) \in Nat /\ Len(log[p]) \in Nat
    BY ONLY <2>1
  <2> QED BY <2>1, <2>2
<1>2. AckedUpTo(n, p, k)
  BY DEF AckedUpTo
<1> HIDE DEF k
<1>3. k > 0 => SameTermAt(log[n], log[p], k)
  BY <1>1, <1>2, SMTT(30) DEF AckInv, AcksTrue, AckTrue
<1>4. k > 0 => \A j \in 1..k : log[n][j] = log[p][j]
  BY <1>1, <1>3, SlotsAgree DEF SameTermAt
<1>5. k <= Len(log[n]) /\ k <= Len(log[p]) /\ \A j \in 1..k : log[n][j] = log[p][j]
  BY <1>1, <1>3, <1>4, SMTT(30) DEF SameTermAt
<1>6. IsPrefix(SubSeq(log[n], 1, k), log[p])
  BY <1>1, <1>5, PrefixOfSlots
<1> QED BY <1>6 DEF k

\* What a Leader believes of the log of a follower in its term is true, in every
\* cluster whose nodes do not crash: no request or reply that is lost, late or
\* repeated makes it count an entry the follower lacks.
THEOREM MatchIsSound == StableSpec => []MatchIndexSound
<1>1. Init => TypeInv /\ VoteInv /\ MatchInv /\ AckInv
  BY InitType, InitVotes, InitMatch, InitAcks
<1>2. (TypeInv /\ VoteInv /\ MatchInv /\ AckInv) /\ [Step]_vars
        => (TypeInv /\ VoteInv /\ MatchInv /\ AckInv)'
  BY StepMatch, StepAcks
<1>3. TypeInv /\ VoteInv /\ MatchInv /\ AckInv => MatchIndexSound
  BY MatchFromAcks
<1> QED BY <1>1, <1>2, <1>3, PTL DEF StableSpec

=============================================================================
