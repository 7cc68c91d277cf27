-------------------------- MODULE RaftCommitProofs --------------------------
(***************************************************************************)
(* What nodes take for committed, for any cluster and any bounds, while no *)
(* node crashes: it is on a majority, in the log of every later Leader,    *)
(* and never taken back, and the nodes implement one agreed log.           *)
(*                                                                         *)
(* A commit index is backed by an entry that a majority holds for good     *)
(* (Anchored, module RaftQuorumProofs) and that the node's log agrees with *)
(* up to that index; so is what a heartbeat says of it to a follower.      *)
(* Before it is committed, an entry of the Leader's own term is safe with  *)
(* those that have acknowledged it (Clear), or a majority is past the term *)
(* and the Leader will never commit it: PendingInv.                        *)
(***************************************************************************)
EXTENDS RaftQuorumProofs

\* Most leaves are first-order; the ones that need arithmetic cite SMT.
USE ZenonT(30)

-----------------------------------------------------------------------------
(* The entries of a Leader's own term *)

\* Who has told n, or will, that it has n's log up to slot k.
Ackers(n, k) ==
  {v \in Server \ {n} : \E j \in Nat \ {0} : j >= k /\ AckedUpTo(n, v, j)}

\* A majority is past the term of n and will never tell it.
Blocked(n, k) ==
  \E Q \in SUBSET Server :
    /\ Cardinality(Q) >= Majority
    /\ \A v \in Q : currentTerm[v] > currentTerm[n] /\ v \notin Ackers(n, k)

\* An entry of its own term that a Leader has can no longer be committed by
\* it, or is safe with those that have acknowledged it.
PendingInv ==
  \A n \in Server : \A k \in 1..Len(log[n]) :
    state[n] = "Leader" /\ log[n][k].term = currentTerm[n] =>
      Blocked(n, k) \/ Clear({n} \cup Ackers(n, k), k, currentTerm[n])

\* Nobody has been elected in a later term than t.
Unrivalled(t) == \A c \in Server, u \in Nat : Elected(c, u) => u <= t

FreshClear ==
  \A n \in Server, k \in Nat, t \in Nat :
    state[n] = "Leader" /\ currentTerm[n] = t /\ Holds(n, k, t) /\ Unrivalled(t)
      => Clear({n}, k, t)

\* A new entry of the latest Leader is safe with it.
LEMMA FreshIsClear == BaseInv => FreshClear
<1> SUFFICES ASSUME TypeInv, VoteInv, MatchInv, AckInv,
                    NEW n \in Server, NEW k \in Nat, NEW t \in Nat,
                    state[n] = "Leader", currentTerm[n] = t, Holds(n, k, t), Unrivalled(t)
             PROVE  Clear({n}, k, t)
  BY DEF BaseInv, FreshClear
<1>1. ASSUME NEW c \in Server, NEW u \in Nat, Elected(c, u), u >= t
      PROVE  c = n
  <2>1. u = t
    BY <1>1, SMT DEF Unrivalled
  <2> QED BY <1>1, <2>1, LeaderOnlyElected DEF OnlyLeaderElected
<1>2. NoCross(k, t)
  <2>1. ASSUME NEW i \in Nat, NEW e \in Entry(Command), NEW p \in Nat, Linked(i, e, p)
        PROVE  ~(e.term > t)
    <3>1. PICK c \in Server : Elected(c, e.term)
      BY <2>1 DEF MatchInv, LinksElected
    <3>2. e.term \in Nat
      BY DEF Entry
    <3> QED BY <3>1, <3>2, SMTT(30) DEF Unrivalled
  <2> QED BY <2>1 DEF NoCross
<1>3. RequestsAgree(k, t)
  <2> SUFFICES ASSUME NEW m \in msgs, NEW v \in Server, m.type = "AppendEntries",
                      m.term >= t, Holds(v, k, t), NEW i \in 1..k, NEW e, NEW p,
                      Link(m.entries, m.prevLogIndex, m.prevLogTerm, i, e, p)
               PROVE  e = log[v][i]
    BY Zenon DEF RequestsAgree
  <2>1. m.src \in Server /\ m.term \in Nat
    BY Zenon DEF TypeInv, TypeOK, Message
  <2>2. Elected(m.src, m.term)
    BY DEF AckInv, SendersIssued, SenderIssued, Issued
  <2>3. m.src = n /\ m.term = t
    BY <1>1, <2>1, <2>2, SMTT(30) DEF Unrivalled
  <2>4. Within(m, log[n])
    BY <2>3 DEF AckInv, OwnRequests
  <2>5. i \in Nat
    BY SMT
  <2>6. Link(log[n], 0, 0, i, e, p)
    BY <2>4, <2>5 DEF Within
  <2>7. e = log[n][i]
    BY <2>5, <2>6, SMTT(30) DEF Link
  <2>8. \A j \in 1..k : log[n][j] = log[v][j]
    BY MatchedSlots, SMTT(30) DEF SlotsMatch, Holds
  <2> QED BY <2>7, <2>8
<1>4. LeadersHold(k, t)
  <2> SUFFICES ASSUME NEW c \in Server, SendsSince(c, t) PROVE c = n
    BY DEF LeadersHold
  <2>1. CASE state[c] = "Leader" /\ currentTerm[c] >= t
    BY <1>1, <2>1, LeaderElected, Types
  <2>2. ASSUME NEW h \in ticks[c], h.term >= t PROVE c = n
    <3>1. Elected(c, h.term)
      BY DEF AckInv, SendersIssued, Issued
    <3>2. h.term \in Nat
      BY TicksReached
    <3> QED BY <1>1, <2>2, <3>1, <3>2
  <2> QED BY <2>1, <2>2 DEF SendsSince
<1>5. VotesHold(n, k, t)
  <2> SUFFICES ASSUME NEW c \in Server, currentTerm[c] > t, VoteFor(n, c, currentTerm[c])
               PROVE  FALSE
    BY DEF VotesHold
  <2>1. currentTerm[c] \in Nat
    BY Types
  <2>2. Voted(n, c, currentTerm[c])
    BY <2>1 DEF VoteInv, VotesRemembered
  <2> QED BY <2>1, <2>2, SMTT(30) DEF Voted
<1>6. currentTerm[n] >= t
  BY SMT
<1> QED BY <1>2, <1>3, <1>4, <1>5, <1>6 DEF Clear

\* The same of the state after a step.
LEMMA FreshIsClearNext == BaseInv' => FreshClear'
BY FreshIsClear, PTL

\* The entries of a Leader's own term are kept like this by every step.
LEMMA PendingInvStays ==
  ASSUME Stepped, OrderInv, PendingInv
  PROVE  PendingInv'
  \* A node past the Leader's term has acknowledged nothing new.
  <1>LateAckers.
      ASSUME Stepped, NEW n \in Server, state[n] = "Leader", state'[n] = "Leader",
             NEW k \in Nat, NEW v \in Server, currentTerm'[v] > currentTerm[n],
             v \notin Ackers(n, k)
      PROVE  v \notin Ackers(n, k)'
    <2> USE <1>LateAckers
    <2> SUFFICES ASSUME v # n, NEW j \in Nat \ {0}, j >= k, AckedUpTo(n, v, j)' PROVE FALSE
      BY DEF Ackers
    <2>1. AckedUpTo(n, v, j) \/ currentTerm'[v] = currentTerm[n]
      BY DEF Stepped, AcksGiven
    <2>2. ~AckedUpTo(n, v, j)
      BY DEF Ackers
    <2> QED BY <2>1, <2>2, TermsRise, SMTT(30)
  \* A Leader's entry that cannot be committed stays that.
  <1>BlockedStays.
      ASSUME Stepped, NEW n \in Server, state[n] = "Leader", state'[n] = "Leader",
             NEW k \in Nat, Blocked(n, k)
      PROVE  Blocked(n, k)'
    <2> USE <1>BlockedStays
    <2>1. PICK Q \in SUBSET Server :
            /\ Cardinality(Q) >= Majority
            /\ \A v \in Q : currentTerm[v] > currentTerm[n] /\ v \notin Ackers(n, k)
      BY DEF Blocked
    <2>2. currentTerm'[n] = currentTerm[n]
      BY DEF Stepped, RolesStand
    <2>3. ASSUME NEW v \in Q PROVE currentTerm'[v] > currentTerm'[n] /\ v \notin Ackers(n, k)'
      <3>1. currentTerm'[v] > currentTerm[n]
        BY <2>1, TermsRise, SMTT(30)
      <3> QED BY <2>1, <2>2, <3>1, <1>LateAckers
    <2> QED BY <2>1, <2>3 DEF Blocked
  \* A node that acknowledges an entry of a Leader's term in this step has it,
  \* and has not voted in a later term.
  <1>NewAckerHolds.
      ASSUME Stepped, NEW n \in Server, state[n] = "Leader", state'[n] = "Leader",
             NEW k \in Nat, NEW t \in Nat, t = currentTerm[n], Holds(n, k, t)',
             NEW v \in Server, v \in Ackers(n, k)', v \notin Ackers(n, k)
      PROVE  (currentTerm[v] >= t /\ Holds(v, k, t) /\ VotesHold(v, k, t))'
    <2> USE <1>NewAckerHolds
    <2>1. PICK j \in Nat \ {0} : v # n /\ j >= k /\ AckedUpTo(n, v, j)'
      BY DEF Ackers
    <2>2. ~AckedUpTo(n, v, j)
      BY <2>1 DEF Ackers
    <2>3. currentTerm'[v] = t /\ currentTerm'[n] = t
      BY <2>1, <2>2 DEF Stepped, AcksGiven, RolesStand
    <2>4. AckTrue(n, v, j)'
      BY <2>1 DEF Stepped, AckInv, AcksTrue
    <2>5. j \in 1..Len(log'[n]) /\ j \in 1..Len(log'[v]) /\ log'[n][j].term = log'[v][j].term
      BY <2>3, <2>4 DEF AckTrue, SameTermAt
    <2>6. SlotsMatch'
      BY MatchedSlotsNext DEF Stepped
    <2>7. \A i \in 1..j : log'[n][i] = log'[v][i]
      BY <2>5, <2>6 DEF SlotsMatch
    <2>8. k \in 1..Len(log'[n]) /\ log'[n][k].term = t
      BY DEF Holds
    <2>9. Len(log'[v]) \in Nat /\ Len(log'[n]) \in Nat
      <3>1. log'[v] \in Seq(Entry(Command)) /\ log'[n] \in Seq(Entry(Command))
        BY DEF Stepped, TypeInv, TypeOK
      <3> QED BY <3>1, SMTT(30)
    <2>10. Holds(v, k, t)'
      <3>1. k \in 1..j /\ k \in 1..Len(log'[v])
        BY <2>1, <2>5, <2>8, <2>9, SMTT(30)
      <3> QED BY <2>7, <2>8, <3>1 DEF Holds
    <2>11. VotesHold(v, k, t)'
      <3> SUFFICES ASSUME NEW c \in Server, NEW u \in Nat, u = currentTerm'[c], u > t,
                          VoteFor(v, c, u)'
                   PROVE  FALSE
        BY TermsRise DEF VotesHold
      <3>1. Voted(v, c, u)'
        BY DEF Stepped, VoteInv, VotesRemembered
      <3> QED BY <2>3, <3>1, SMTT(30) DEF Voted
    <2> QED BY <2>3, <2>10, <2>11, SMTT(30)
  \* An entry that is safe with those that acknowledged it stays that, or
  \* cannot be committed by this Leader any more.
  <1>PendingStays.
      ASSUME Stepped, OrderInv, NEW n \in Server, state[n] = "Leader", state'[n] = "Leader",
             NEW k \in Nat, NEW t \in Nat, t = currentTerm[n],
             Clear({n} \cup Ackers(n, k), k, t)
      PROVE  Blocked(n, k)' \/ Clear({n} \cup Ackers(n, k), k, t)'
    <2> USE <1>PendingStays
    <2>1. PICK Q \in SUBSET Server : Q = {n} \cup Ackers(n, k)
      BY DEF Ackers
    <2>2. Holds(n, k, t) /\ NoCross(k, t)
      BY DEF Clear
    <2>3. currentTerm'[n] = t
      BY DEF Stepped, RolesStand
    <2>4. CASE NewLeadersHold(k, t)
      <3>1. Clear(Q, k, t)'
        <4>1. Clear(Q, k, t) /\ Q # {}
          BY <2>1
        <4> QED BY <2>4, <4>1, ClearStays
      <3>2. ASSUME NEW v \in {n} \cup Ackers(n, k)'
            PROVE  (currentTerm[v] >= t /\ Holds(v, k, t) /\ VotesHold(v, k, t))'
        <4>1. CASE v \in Q
          BY <3>1, <4>1 DEF Clear
        <4>2. CASE v \notin Q
          <5>1. v \in Server /\ v \in Ackers(n, k)' /\ v \notin Ackers(n, k)
            BY <2>1, <3>2, <4>2 DEF Ackers
          <5>2. Holds(n, k, t)'
            BY <2>1, <3>1 DEF Clear
          <5> QED BY <5>1, <5>2, <1>NewAckerHolds
        <4> QED BY <4>1, <4>2
      <3>3. Clear({n} \cup Ackers(n, k), k, t)'
        BY <3>1, <3>2 DEF Clear
      <3> QED BY <3>3
    <2>5. CASE ~NewLeadersHold(k, t)
      <3>1. PICK A \in SUBSET Server :
               /\ Cardinality(A) >= Majority
               /\ \A v \in A : currentTerm'[v] > t /\ ~(Holds(v, k, t) /\ VotesHold(v, k, t))
        BY <2>2, <2>5, NewLeaderVoters
      <3>2. ASSUME NEW v \in A PROVE currentTerm'[v] > currentTerm'[n] /\ v \notin Ackers(n, k)'
        <4>1. v \notin Ackers(n, k)
          BY <3>1, <3>2 DEF Clear
        <4> QED BY <2>3, <3>1, <4>1, <1>LateAckers
      <3> QED BY <3>1, <3>2 DEF Blocked
    <2> QED BY <2>4, <2>5
  \* Nobody has acknowledged an entry that is being appended.
  <1>NewSlotPending.
      ASSUME Stepped, NEW n \in Server, NEW x, Submits(n, x), NEW t \in Nat,
             t = currentTerm[n], NEW k \in Nat, k = Len(log[n]) + 1, Holds(n, k, t)'
      PROVE  Blocked(n, k)' \/ Clear({n} \cup Ackers(n, k), k, t)'
    <2> USE <1>NewSlotPending
    <2>1. state[n] = "Leader" /\ state'[n] = "Leader" /\ currentTerm'[n] = t
      BY DEF Submits, Stepped, RolesStand
    <2>2. Len(log[n]) \in Nat /\ log[n] \in Seq(Entry(Command))
      BY Types DEF Stepped
    <2>3. log'[n] # log[n]
      <3>1. Len(Append(log[n], x)) = Len(log[n]) + 1
        BY <2>2, AppendLinks DEF Submits
      <3> QED BY <2>2, <3>1, SMTT(30) DEF Submits
    <2>4. Ackers(n, k)' = {}
      <3> SUFFICES ASSUME NEW v \in Server, v # n, NEW j \in Nat \ {0}, j >= k,
                          AckedUpTo(n, v, j)'
                   PROVE  FALSE
        BY DEF Ackers
      <3>1. AckedUpTo(n, v, j)
        BY <2>1, <2>3 DEF Stepped, AcksGiven
      <3>2. AckTrue(n, v, j)
        BY <2>1, <3>1 DEF Stepped, AckInv, AcksTrue
      <3> QED BY <2>2, <3>2, SMTT(30) DEF AckTrue
    <2>5. CASE Unrivalled(t)'
      <3>1. FreshClear'
        BY FreshIsClearNext DEF Stepped, BaseInv
      <3>2. Clear({n}, k, t)'
        BY <2>1, <2>5, <3>1 DEF FreshClear
      <3>3. {n} \cup Ackers(n, k)' = {n}
        BY <2>4
      <3> QED BY <3>2, <3>3 DEF Clear
    <2>6. CASE ~Unrivalled(t)'
      <3>1. PICK c \in Server, u \in Nat : Elected(c, u)' /\ ~(u <= t)
        BY <2>6 DEF Unrivalled
      <3>2. PICK Q \in SUBSET Server :
              Cardinality(Q) >= Majority /\ \A v \in Q : Chose(v, c, u)'
        BY <3>1 DEF Elected
      <3>3. ASSUME NEW v \in Q PROVE currentTerm'[v] > currentTerm'[n]
        <4>1. Voted(v, c, u)'
          BY <3>2, <3>3 DEF Chose
        <4> QED BY <2>1, <3>1, <4>1, TermsRise, SMTT(30) DEF Voted
      <3> QED BY <2>4, <3>2, <3>3 DEF Blocked
    <2> QED BY <2>5, <2>6
  <1> SUFFICES ASSUME NEW n \in Server, NEW k \in 1..Len(log'[n]), NEW t \in Nat,
                      state'[n] = "Leader", t = currentTerm'[n], log'[n][k].term = t
               PROVE  Blocked(n, k)' \/ Clear({n} \cup Ackers(n, k), k, t)'
    BY TermsRise, Zenon DEF PendingInv
  <1>1. currentTerm[n] = t /\ state[n] \in {"Candidate", "Leader"}
    BY DEF Stepped, RolesStand
  <1>2. log[n] \in Seq(Entry(Command)) /\ Len(log[n]) \in Nat
    BY Types DEF Stepped
  <1>3. Holds(n, k, t)' /\ k \in Nat
    BY SMTT(30) DEF Holds
  <1>4. CASE state[n] = "Candidate"
    <2>1. log'[n] = log[n]
      BY <1>4, CandidateLog DEF Stepped
    <2>2. Holds(n, k, t)
      BY <1>3, <2>1 DEF Holds
    <2> QED BY <1>1, <1>3, <1>4, <2>2, NoSecondLeader
  <1>5. CASE state[n] = "Leader" /\ Holds(n, k, t)
    <2>1. Blocked(n, k) \/ Clear({n} \cup Ackers(n, k), k, t)
      BY <1>1, <1>5, Zenon DEF PendingInv, Holds
    <2> QED BY <1>1, <1>3, <1>5, <2>1, <1>BlockedStays, <1>PendingStays
  <1>6. CASE state[n] = "Leader" /\ ~Holds(n, k, t)
    <2>1. log'[n] # log[n]
      BY <1>3, <1>6 DEF Holds
    <2>2. PICK x : Submits(n, x)
      BY <2>1 DEF Stepped, LogsMove, Accepts
    <2>3. log'[n] = Append(log[n], x) /\ x \in Entry(Command)
      BY <2>2 DEF Submits
    <2>4. Len(log'[n]) = Len(log[n]) + 1 /\ \A j \in 1..Len(log[n]) : log'[n][j] = log[n][j]
      BY <1>2, <2>3, SMTT(30)
    <2>5. k \notin 1..Len(log[n])
      BY <1>6, <2>4 DEF Holds
    <2>6. k = Len(log[n]) + 1
      BY <1>2, <2>4, <2>5, SMTT(30)
    <2> QED BY <1>1, <1>3, <2>2, <2>6, <1>NewSlotPending
  <1> QED BY <1>1, <1>4, <1>5, <1>6

-----------------------------------------------------------------------------
(* What nodes take for committed *)

\* The log of n has, up to slot c, what every log with the entry of term s at
\* slot k has.
Agrees(n, c, k, s) ==
  /\ c <= k /\ c <= Len(log[n])
  /\ \A v \in Server : Holds(v, k, s) => \A i \in 1..c : log[v][i] = log[n][i]

\* A commit index is backed by an entry that is there for good.
CommitBacked(n) ==
  \/ commitIndex[n] = 0
  \/ \E k, s \in Nat : /\ Anchored(k, s) /\ s <= currentTerm[n]
                       /\ Agrees(n, commitIndex[n], k, s)
CommitsBacked == \A n \in Server : CommitBacked(n)

\* So is the one that heartbeats carry.
TickBacked(h) ==
  \/ h.commitIndex = 0
  \/ \E k, s \in Nat : Anchored(k, s) /\ s <= h.term /\ h.commitIndex <= k
TicksBacked == \A n \in Server : \A h \in ticks[n] : TickBacked(h)

\* The last slot of request m, and its term.
EndSlot(m) == m.prevLogIndex + Len(m.entries)
EndTerm(m) ==
  IF m.entries = <<>> THEN m.prevLogTerm ELSE m.entries[Len(m.entries)].term

\* Who accepts m has the entry of term s at slot k.
Reaches(m, k, s) == EndTerm(m) > s \/ (EndTerm(m) = s /\ EndSlot(m) >= k)

\* A request sent with nextIndex beyond the end of the log: nobody accepts it.
Hollow(m) == m.entries = <<>> /\ m.prevLogTerm = 0 /\ m.prevLogIndex > 0

\* So is the one of a request, with an entry that who accepts it has.
RequestBacked(m) ==
  \/ m.leaderCommit = 0 \/ Hollow(m)
  \/ \E k, s \in Nat : /\ Anchored(k, s) /\ s <= m.term
                       /\ m.leaderCommit <= k /\ Reaches(m, k, s)
RequestsBacked == \A m \in msgs : m.type = "AppendEntries" => RequestBacked(m)

CommitInv == CommitsBacked /\ TicksBacked /\ RequestsBacked

\* Some node holds an entry that is there for good.
LEMMA AnchorHeld ==
  ASSUME NEW k, NEW s, Anchored(k, s)
  PROVE  /\ NoCross(k, s) /\ RequestsAgree(k, s) /\ LeadersHold(k, s)
         /\ \E q \in Server : Holds(q, k, s) /\ currentTerm[q] >= s
<1>1. PICK Q \in SUBSET Server : Cardinality(Q) >= Majority /\ Clear(Q, k, s)
  BY DEF Anchored
<1>2. PICK q \in Server : q \in Q
  BY <1>1, MajoritiesMeet
<1> QED BY <1>1, <1>2 DEF Clear

\* A node keeps what is backed by such an entry.
LEMMA AgreesStays ==
  ASSUME Stepped, NEW k \in Nat, NEW s \in Nat, Anchored(k, s),
         NEW n \in Server, s <= currentTerm[n], NEW c \in Nat, Agrees(n, c, k, s)
  PROVE  Agrees(n, c, k, s)' /\ \A i \in 1..c : log'[n][i] = log[n][i]
<1>1. PICK q \in Server : Holds(q, k, s) /\ currentTerm[q] >= s
  BY AnchorHeld
<1>2. RequestsAgree(k, s)
  BY AnchorHeld
<1>3. /\ c <= k /\ c <= Len(log[n])
      /\ \A v \in Server : Holds(v, k, s) => \A i \in 1..c : log[v][i] = log[n][i]
  BY DEF Agrees
<1>4. 1..c \subseteq 1..k
  BY <1>3, SMTT(30)
<1>5. Unopposed(n, c)
  <2> SUFFICES ASSUME NEW m \in msgs, m.type = "AppendEntries", m.term >= currentTerm[n],
                      NEW i \in 1..c, NEW e, NEW p,
                      Link(m.entries, m.prevLogIndex, m.prevLogTerm, i, e, p)
               PROVE  e.term = log[n][i].term
    BY DEF Unopposed, NoConflict
  <2>1. m.term >= s
    <3>1. m.term \in Nat /\ currentTerm[n] \in Nat
      BY Zenon DEF Stepped, TypeInv, TypeOK, Message
    <3> QED BY <3>1, SMTT(30)
  <2>2. i \in 1..k
    BY <1>4
  <2>3. e = log[q][i]
    BY <1>1, <1>2, <2>1, <2>2, Zenon DEF RequestsAgree
  <2> QED BY <1>1, <1>3, <2>3
<1>6. c <= Len(log'[n]) /\ \A i \in 1..c : log'[n][i] = log[n][i]
  BY <1>3, <1>5, UnopposedKeeps
<1>7. Holds(q, k, s)' /\ \A j \in 1..k : log'[q][j] = log[q][j]
  BY <1>1, <1>2, HoldKept, Zenon
<1>8. ASSUME NEW v \in Server, Holds(v, k, s)', NEW i \in 1..c
      PROVE  log'[v][i] = log'[n][i]
  <2>1. SlotsMatch'
    BY MatchedSlotsNext DEF Stepped
  <2>2. \A j \in 1..k : log'[v][j] = log'[q][j]
    BY <1>7, <1>8, <2>1, SMTT(30) DEF SlotsMatch, Holds
  <2>3. log'[v][i] = log[q][i]
    BY <1>4, <1>7, <2>2
  <2> QED BY <1>1, <1>3, <1>6, <2>3
<1> QED BY <1>3, <1>6, <1>8 DEF Agrees

\* A Leader commits an entry that is there for good.
LEMMA LeaderCommitBacked ==
  ASSUME Stepped, PendingInv, NEW n \in Server, state[n] = "Leader",
         NEW c \in 1..Len(log[n]), NEW t \in Nat, t = currentTerm[n],
         log[n][c].term = t, MajorityAcked(n, c)
  PROVE  Anchored(c, t) /\ Agrees(n, c, c, t)
<1>1. PICK A \in SUBSET Server :
        /\ Cardinality(A) >= Majority
        /\ \A v \in A \ {n} : \E j \in Nat \ {0} : j >= c /\ AckedUpTo(n, v, j)
  BY Zenon DEF MajorityAcked
<1>2. A \subseteq {n} \cup Ackers(n, c)
  BY <1>1 DEF Ackers
<1>3. ~Blocked(n, c)
  <2> SUFFICES ASSUME Blocked(n, c) PROVE FALSE
    OBVIOUS
  <2>1. PICK Q \in SUBSET Server :
          /\ Cardinality(Q) >= Majority
          /\ \A v \in Q : currentTerm[v] > currentTerm[n] /\ v \notin Ackers(n, c)
    BY DEF Blocked
  <2>2. PICK v \in Server : v \in A /\ v \in Q
    BY <1>1, <2>1, MajoritiesMeet
  <2>3. v = n
    BY <1>2, <2>1, <2>2
  <2> QED BY <2>1, <2>2, <2>3, SMTT(30)
<1>4. Clear({n} \cup Ackers(n, c), c, t)
  BY <1>3, Zenon DEF PendingInv
<1>5. Clear(A, c, t)
  BY <1>2, <1>4 DEF Clear
<1>6. Agrees(n, c, c, t)
  <2>1. Len(log[n]) \in Nat
    BY Types DEF Stepped
  <2>2. c \in Nat /\ c <= Len(log[n]) /\ c <= c
    BY <2>1, SMTT(30)
  <2>3. ASSUME NEW v \in Server, Holds(v, c, t) PROVE \A i \in 1..c : log[v][i] = log[n][i]
    BY <2>2, <2>3, MatchedSlots DEF Stepped, SlotsMatch, Holds
  <2> QED BY <2>2, <2>3 DEF Agrees
<1> QED BY <1>1, <1>5, <1>6 DEF Anchored

\* A follower that accepts a request has its last entry.
LEMMA AcceptedReaches ==
  ASSUME Stepped, LogsAscend, NEW n \in Server, NEW m \in msgs, Accepts(n, m),
         NEW k \in Nat, NEW s \in Nat \ {0}, Reaches(m, k, s)
  PROVE  Past(log'[n], EndSlot(m), k, s)
<1>1. /\ m.type = "AppendEntries" /\ PrevMatches(log[n], m.prevLogIndex, m.prevLogTerm)
      /\ log'[n] = AppendNew(log[n], m.prevLogIndex, m.entries)
  BY DEF Accepts
<1>2. /\ m.prevLogIndex \in Nat /\ m.prevLogTerm \in Nat
      /\ m.entries \in Seq(Entry(Command))
  BY <1>1, Zenon DEF Stepped, TypeInv, TypeOK, Message
<1>3. log[n] \in Seq(Entry(Command)) /\ Len(log[n]) \in Nat
  BY Types DEF Stepped
<1>4. SUFFICES EndSlot(m) \in 1..Len(log'[n]) /\ log'[n][EndSlot(m)].term = EndTerm(m)
  BY Zenon DEF Past, Reaches
<1>5. CASE m.entries # <<>>
  BY <1>1, <1>2, <1>3, <1>5, AcceptedEnd, SMTT(30) DEF EndSlot, EndTerm
<1>6. CASE m.entries = <<>>
  <2>1. EndTerm(m) = m.prevLogTerm /\ EndSlot(m) = m.prevLogIndex
    BY <1>2, <1>6, SMTT(30) DEF EndTerm, EndSlot
  <2>2. log'[n] = log[n]
    <3>1. NewEntries(log[n], m.prevLogIndex, m.entries) = <<>>
      <4>1. 1..Len(m.entries) = {}
        BY <1>6, SMTT(30)
      <4> QED BY <4>1 DEF NewEntries
    <3> QED BY <1>1, <3>1 DEF AppendNew
  <2>3. m.prevLogTerm > 0
    BY <1>2, <2>1, SMTT(30) DEF Reaches
  <2>4. m.prevLogIndex > 0
    BY <1>1, <1>2, <2>3, SMTT(30) DEF Stepped, MatchInv, SentinelSent
  <2>5. TermAt(log[n], m.prevLogIndex) = m.prevLogTerm
    BY <1>1, <2>4 DEF PrevMatches
  <2>6. m.prevLogIndex \in 1..Len(log[n]) /\ log[n][m.prevLogIndex].term = m.prevLogTerm
    BY <2>3, <2>5, SMTT(30) DEF TermAt
  <2> QED BY <2>1, <2>2, <2>6
<1> QED BY <1>5, <1>6

\* What a follower commits is backed by the entry that backs the request.
LEMMA FollowerCommitBacked ==
  ASSUME Stepped, OrderInv, OrderInv', NEW n \in Server, NEW m \in msgs,
         Accepts(n, m), RequestBacked(m), m.leaderCommit > commitIndex[n],
         commitIndex'[n] = Min({m.leaderCommit, Len(log'[n])})
  PROVE  CommitBacked(n)' /\ commitIndex'[n] = m.leaderCommit
<1>1. /\ m.type = "AppendEntries" /\ PrevMatches(log[n], m.prevLogIndex, m.prevLogTerm)
      /\ currentTerm'[n] = m.term
  BY DEF Accepts
<1>2. /\ m.prevLogIndex \in Nat /\ m.prevLogTerm \in Nat /\ m.term \in Nat
      /\ m.leaderCommit \in Nat
  BY <1>1, Zenon DEF Stepped, TypeInv, TypeOK, Message
<1>3. Len(log'[n]) \in Nat /\ commitIndex[n] \in Nat
  <2>1. log'[n] \in Seq(Entry(Command)) /\ commitIndex[n] \in Nat
    BY DEF Stepped, TypeInv, TypeOK
  <2> QED BY <2>1, SMTT(30)
<1>4. LogsAscend
  BY AscendingLogs DEF Stepped, OrderInv
<1>5. ~Hollow(m)
  <2> SUFFICES ASSUME Hollow(m) PROVE FALSE
    OBVIOUS
  <2>1. m.prevLogIndex \in 1..Len(log[n]) /\ TermAt(log[n], m.prevLogIndex) = 0
    <3>1. /\ m.prevLogIndex \in 0..Len(log[n]) /\ m.prevLogIndex > 0
          /\ TermAt(log[n], m.prevLogIndex) = 0
      BY <1>1 DEF Hollow, PrevMatches, Contains
    <3>2. Len(log[n]) \in Nat
      BY Types DEF Stepped
    <3> QED BY <3>1, <3>2, SMTT(30)
  <2>2. log[n][m.prevLogIndex].term > 0
    BY <1>4, <2>1 DEF LogsAscend
  <2> QED BY <2>1, <2>2, SMTT(30) DEF TermAt
<1>6. PICK k \in Nat, s \in Nat : /\ Anchored(k, s) /\ s <= m.term
                                  /\ m.leaderCommit <= k /\ Reaches(m, k, s)
  BY <1>2, <1>3, <1>5, SMTT(30) DEF RequestBacked
<1>7. s > 0
  <2>1. PICK q \in Server : Holds(q, k, s)
    BY <1>6, AnchorHeld
  <2> QED BY <1>4, <2>1 DEF LogsAscend, Holds
<1>8. Anchored(k, s)'
  BY <1>6, AnchoredStays
<1>9. PICK q \in Server : Holds(q, k, s)' /\ NoCross(k, s)'
  <2>1. PICK q \in Server : Holds(q, k, s) /\ currentTerm[q] >= s
    BY <1>6, AnchorHeld
  <2>2. Holds(q, k, s)'
    BY <1>6, <2>1, AnchorHeld, HoldKept
  <2>3. NoCross(k, s)'
    BY <1>8 DEF Anchored, Clear
  <2> QED BY <2>2, <2>3
<1>10. Past(log'[n], EndSlot(m), k, s)
  BY <1>4, <1>6, <1>7, AcceptedReaches, SMTT(30)
<1>11. Holds(n, k, s)'
  <2>1. PastHolds'
    BY HoldsFromPastNext DEF Stepped, OrderInv
  <2> QED BY <1>9, <1>10, <2>1 DEF PastHolds
<1>12. k \in 1..Len(log'[n])
  BY <1>11 DEF Holds
<1>13. commitIndex'[n] = m.leaderCommit
  <2>1. m.leaderCommit <= Len(log'[n])
    BY <1>2, <1>3, <1>6, <1>12, SMTT(30)
  <2> QED BY <1>2, <1>3, <2>1, MinOfTwo
<1>14. Agrees(n, m.leaderCommit, k, s)'
  <2>1. SlotsMatch'
    BY MatchedSlotsNext DEF Stepped
  <2>2. ASSUME NEW v \in Server, Holds(v, k, s)' PROVE \A i \in 1..k : log'[v][i] = log'[n][i]
    BY <1>11, <2>1, <2>2, SMTT(30) DEF SlotsMatch, Holds
  <2>3. 1..m.leaderCommit \subseteq 1..k /\ m.leaderCommit <= Len(log'[n])
    BY <1>2, <1>3, <1>6, <1>12, SMTT(30)
  <2> QED BY <1>6, <2>2, <2>3 DEF Agrees
<1>15. CommitBacked(n)'
  BY <1>1, <1>6, <1>8, <1>13, <1>14, Zenon DEF CommitBacked
<1> QED BY <1>13, <1>15

\* A commit index that stands stays backed.
LEMMA StandingCommitBacked ==
  ASSUME Stepped, OrderInv, NEW n \in Server, NEW c \in Nat, commitIndex'[n] = c,
         NEW k \in Nat, NEW s \in Nat, Anchored(k, s), s <= currentTerm[n],
         Agrees(n, c, k, s)
  PROVE  CommitBacked(n)'
<1>1. Anchored(k, s)' /\ Agrees(n, c, k, s)'
  BY AnchoredStays, AgreesStays
<1>2. s <= currentTerm'[n]
  BY TermsRise, SMTT(30)
<1> QED BY <1>1, <1>2 DEF CommitBacked

\* Every commit index is backed after a step, and none is lowered.
LEMMA CommitsBackedStay ==
  ASSUME Stepped, OrderInv, OrderInv', PendingInv, CommitInv, NEW n \in Server
  PROVE  CommitBacked(n)' /\ commitIndex'[n] >= commitIndex[n]
<1>1. commitIndex[n] \in Nat /\ commitIndex'[n] \in Nat
  BY DEF Stepped, TypeInv, TypeOK
<1>2. CASE commitIndex'[n] = commitIndex[n]
  <2>1. CASE commitIndex[n] = 0
    BY <1>1, <1>2, <2>1, SMTT(30) DEF CommitBacked
  <2>2. CASE commitIndex[n] # 0
    <3>1. PICK c \in Nat : c = commitIndex[n]
      BY <1>1
    <3>2. PICK k \in Nat, s \in Nat : /\ Anchored(k, s) /\ s <= currentTerm[n]
                                      /\ Agrees(n, c, k, s)
      BY <2>2, <3>1 DEF CommitInv, CommitsBacked, CommitBacked
    <3> QED BY <1>1, <1>2, <3>1, <3>2, StandingCommitBacked, SMTT(30)
  <2> QED BY <2>1, <2>2
<1>3. CASE /\ state[n] = "Leader" /\ commitIndex'[n] > commitIndex[n]
           /\ commitIndex'[n] \in 1..Len(log[n])
           /\ log[n][commitIndex'[n]].term = currentTerm[n]
           /\ MajorityAcked(n, commitIndex'[n])
  <2>1. PICK c \in Nat, t \in Nat : c = commitIndex'[n] /\ t = currentTerm[n]
    BY <1>1, TermsRise
  <2>2. Anchored(c, t) /\ Agrees(n, c, c, t)
    BY <1>3, <2>1, LeaderCommitBacked
  <2>3. CommitBacked(n)'
    BY <2>1, <2>2, StandingCommitBacked, SMTT(30)
  <2> QED BY <1>1, <1>3, <2>3, SMTT(30)
<1>4. ASSUME NEW m \in msgs, Accepts(n, m), m.leaderCommit > commitIndex[n],
             commitIndex'[n] = Min({m.leaderCommit, Len(log'[n])})
      PROVE  CommitBacked(n)' /\ commitIndex'[n] >= commitIndex[n]
  <2>1. RequestBacked(m)
    BY <1>4 DEF CommitInv, RequestsBacked, Accepts
  <2>2. CommitBacked(n)' /\ commitIndex'[n] = m.leaderCommit
    BY <1>4, <2>1, FollowerCommitBacked
  <2> QED BY <1>1, <1>4, <2>2, SMTT(30)
<1> QED BY <1>2, <1>3, <1>4, Zenon DEF Stepped, CommitsMove

\* What backs a node's commit index backs the heartbeats it starts.
LEMMA TicksBackedStay ==
  ASSUME Stepped, OrderInv, CommitInv
  PROVE  TicksBacked'
<1> SUFFICES ASSUME NEW n \in Server, NEW h \in ticks'[n], h.commitIndex # 0
             PROVE  \E k, s \in Nat : Anchored(k, s)' /\ s <= h.term /\ h.commitIndex <= k
  BY DEF TicksBacked, TickBacked
<1>1. SUFFICES \E k, s \in Nat : Anchored(k, s) /\ s <= h.term /\ h.commitIndex <= k
  BY AnchoredStays
<1>2. CASE h \in ticks[n]
  BY <1>2 DEF CommitInv, TicksBacked, TickBacked
<1>3. CASE h.term = currentTerm[n] /\ h.commitIndex = commitIndex[n]
  BY <1>3 DEF CommitInv, CommitsBacked, CommitBacked, Agrees
<1> QED BY <1>2, <1>3 DEF Stepped, TicksStarted

\* Requests are backed by what backs their sender, who holds it.
LEMMA RequestsBackedStay ==
  ASSUME Stepped, OrderInv, CommitInv
  PROVE  RequestsBacked'
  \* A request reaches the entries its sender holds, or the end of its log is
  \* before its first slot.
  <1>SentEnd.
      ASSUME TypeInv, LogsAscend, NEW m, m.src \in Server, NEW a, NEW b, Sends(m, a, b),
             NEW k \in Nat, NEW s \in Nat, Holds(m.src, k, s)
      PROVE  Hollow(m) \/ Reaches(m, k, s)
    <2> USE <1>SentEnd
    <2> DEFINE l == log[m.src]
    <2>1. PICK next \in Nat \ {0} :
            /\ m.prevLogIndex = next - 1 /\ m.prevLogTerm = TermAt(l, next - 1)
            /\ m.entries = EntriesFrom(l, next)
      BY DEF Sends
    <2>2. l \in Seq(Entry(Command)) /\ Len(l) \in Nat /\ LastTerm(l) \in Nat
      BY Types
    <2>3. /\ LastTerm(l) >= s /\ Len(l) >= k /\ Len(l) \in 1..Len(l)
          /\ l[Len(l)].term = LastTerm(l)
      BY EndOfHolder
    <2> HIDE DEF l
    <2>4. SUFFICES ASSUME ~Hollow(m) PROVE EndSlot(m) = Len(l) /\ EndTerm(m) = LastTerm(l)
      BY <2>2, <2>3, SMTT(30) DEF Reaches
    <2>5. CASE next <= Len(l)
      <3>1. /\ Len(m.entries) = Len(l) - next + 1
            /\ \A i \in 1 .. (Len(l) - next + 1) : m.entries[i] = l[next + i - 1]
        BY <2>1, <2>2, <2>5, SMTT(30) DEF EntriesFrom
      <3>2. Len(m.entries) \in 1 .. (Len(l) - next + 1) /\ next + Len(m.entries) - 1 = Len(l)
        BY <2>2, <2>5, <3>1, SMTT(30)
      <3>3. m.entries # <<>>
        BY <3>2, SMTT(30)
      <3>4. m.entries[Len(m.entries)] = l[Len(l)]
        BY <3>1, <3>2
      <3>5. EndTerm(m) = LastTerm(l)
        BY <2>3, <3>3, <3>4 DEF EndTerm
      <3>6. EndSlot(m) = Len(l)
        BY <2>1, <2>2, <3>1, SMTT(30) DEF EndSlot
      <3> QED BY <3>5, <3>6
    <2>6. CASE next > Len(l)
      <3>1. m.entries = <<>>
        BY <2>1, <2>2, <2>6, SMTT(30) DEF EntriesFrom
      <3>2. EndTerm(m) = TermAt(l, next - 1) /\ EndSlot(m) = next - 1
        BY <2>1, <3>1, SMTT(30) DEF EndTerm, EndSlot
      <3>3. CASE next - 1 = Len(l)
        BY <3>2, <3>3 DEF LastTerm
      <3>4. CASE next - 1 > Len(l)
        <4>1. TermAt(l, next - 1) = 0 /\ next - 1 > 0
          BY <2>2, <3>4, SMTT(30) DEF TermAt
        <4> QED BY <2>1, <2>4, <3>1, <4>1 DEF Hollow
      <3> QED BY <2>2, <2>6, <3>3, <3>4, SMTT(30)
    <2> QED BY <2>2, <2>5, <2>6, SMTT(30)
  <1> SUFFICES ASSUME NEW m \in msgs', m.type = "AppendEntries", m.leaderCommit # 0,
                      ~Hollow(m)
               PROVE  \E k, s \in Nat : /\ Anchored(k, s)' /\ s <= m.term
                                        /\ m.leaderCommit <= k /\ Reaches(m, k, s)
    BY DEF RequestsBacked, RequestBacked
  <1>1. SUFFICES \E k, s \in Nat : /\ Anchored(k, s) /\ s <= m.term
                                   /\ m.leaderCommit <= k /\ Reaches(m, k, s)
    BY AnchoredStays
  <1>2. CASE m \in msgs
    BY <1>2 DEF CommitInv, RequestsBacked, RequestBacked
  <1>3. CASE m \notin msgs
    <2> DEFINE c == m.src
    <2>1. c \in Server
      BY DEF Stepped, TypeInv, TypeOK, Message
    <2>2. LogsAscend
      BY AscendingLogs DEF Stepped, OrderInv
    <2>3. PICK a, b : Sends(m, a, b) /\ a = m.term /\ b = m.leaderCommit /\
            \/ state[c] = "Leader" /\ a = currentTerm[c] /\ b = commitIndex[c]
            \/ \E h \in ticks[c] : a = h.term /\ b = h.commitIndex
      BY <1>3 DEF Stepped, RequestsSent, Sends
    <2>4. PICK k \in Nat, s \in Nat : /\ Anchored(k, s) /\ s <= m.term /\ m.leaderCommit <= k
                                      /\ SendsSince(c, s)
      <3>1. CASE state[c] = "Leader" /\ a = currentTerm[c] /\ b = commitIndex[c]
        <4>1. PICK k \in Nat, s \in Nat :
                Anchored(k, s) /\ s <= currentTerm[c] /\ commitIndex[c] <= k
          BY <2>1, <2>3, <3>1 DEF CommitInv, CommitsBacked, CommitBacked, Agrees
        <4>2. currentTerm[c] >= s
          BY <2>1, <4>1, TermsRise
        <4> QED BY <2>3, <3>1, <4>1, <4>2 DEF SendsSince
      <3>2. ASSUME NEW h \in ticks[c], a = h.term, b = h.commitIndex
            PROVE  \E k, s \in Nat : /\ Anchored(k, s) /\ s <= m.term /\ m.leaderCommit <= k
                                     /\ SendsSince(c, s)
        <4>1. PICK k \in Nat, s \in Nat :
                Anchored(k, s) /\ s <= h.term /\ h.commitIndex <= k
          BY <2>1, <2>3, <3>2 DEF CommitInv, TicksBacked, TickBacked
        <4>2. h.term \in Nat
          BY <2>1, TicksReached DEF Stepped
        <4>3. h.term >= s
          BY <4>1, <4>2
        <4> QED BY <2>3, <3>2, <4>1, <4>3 DEF SendsSince
      <3> QED BY <2>3, <3>1, <3>2
    <2>5. Holds(c, k, s)
      BY <2>1, <2>4, AnchorHeld DEF LeadersHold
    <2>6. Reaches(m, k, s)
      BY <2>1, <2>2, <2>3, <2>5, <1>SentEnd DEF Stepped
    <2> QED BY <2>4, <2>6
  <1> QED BY <1>2, <1>3

-----------------------------------------------------------------------------
(* Theorems *)

SafeInv == BaseInv /\ OrderInv /\ PendingInv /\ CommitInv

\* Initially there are no entries, votes or messages.
LEMMA InitSafe == Init => SafeInv
<1> SUFFICES ASSUME Init PROVE SafeInv
  OBVIOUS
<1>1. BaseInv
  BY InitType, InitVotes, InitMatch, InitAcks DEF BaseInv
<1>2. /\ \A n \in Server : /\ Len(log[n]) = 0 /\ state[n] = "Follower"
                           /\ commitIndex[n] = 0 /\ ticks[n] = {}
      /\ msgs = {}
  BY DEF Init
<1>3. ~ \E i, e, p : Linked(i, e, p)
  BY <1>2, SMTT(30) DEF Linked, InLog, InRequest, Link
<1>4. ~ \E v, t : \E c \in Server : VoteFor(v, c, t)
  BY <1>2 DEF VoteFor, Asked, Told, Counted
<1>5. OrderInv
  BY <1>2, <1>3, <1>4
     DEF OrderInv, LinksAscend, VotesReached, RolesBegin, LateLogsLose, RequestsCurrent
<1>6. PendingInv
  BY <1>2 DEF PendingInv
<1>7. CommitInv
  BY <1>2 DEF CommitInv, CommitsBacked, CommitBacked, TicksBacked, RequestsBacked
<1> QED BY <1>1, <1>5, <1>6, <1>7 DEF SafeInv

\* Every step of running nodes preserves the invariant.
LEMMA StepSafe ==
  ASSUME SafeInv, [Step]_vars
  PROVE  SafeInv' /\ Stepped /\ \A n \in Server : commitIndex'[n] >= commitIndex[n]
<1>1. BaseInv /\ OrderInv /\ PendingInv /\ CommitInv
  BY DEF SafeInv
<1>2. Stepped /\ BaseInv'
  BY <1>1, StepStepped
<1>3. OrderInv' /\ PendingInv'
  BY <1>1, <1>2, OrderStays, PendingInvStays
<1>4. ASSUME NEW n \in Server PROVE CommitBacked(n)' /\ commitIndex'[n] >= commitIndex[n]
  BY <1>1, <1>2, <1>3, CommitsBackedStay
<1>5. TicksBacked' /\ RequestsBacked'
  BY <1>1, <1>2, TicksBackedStay, RequestsBackedStay
<1> QED BY <1>2, <1>3, <1>4, <1>5 DEF SafeInv, CommitInv, CommitsBacked

\* What n knows to be committed is in v's log.
KnownTo(n, v) ==
  /\ commitIndex[n] <= Len(log[v])
  /\ \A i \in 1..commitIndex[n] : log[v][i] = log[n][i]

\* What a node knows to be committed is in its log and on a majority.
LEMMA CommittedKnown ==
  ASSUME SafeInv, NEW n \in Server
  PROVE  /\ commitIndex[n] <= Len(log[n])
         /\ \E Q \in SUBSET Server :
              Cardinality(Q) >= Majority /\ \A v \in Q : KnownTo(n, v)
<1>1. /\ TypeInv /\ CommitBacked(n)
      /\ commitIndex[n] \in Nat /\ Len(log[n]) \in Nat
  BY Types DEF SafeInv, BaseInv, CommitInv, CommitsBacked
<1>2. CASE commitIndex[n] = 0
  <2>1. Cardinality(Server) >= Majority
    <3>1. Cardinality(Server) \in Nat /\ Cardinality(Server) # 0
      BY ServerAssumption, FS_EmptySet, FS_CardinalityType
    <3> QED BY <3>1, SMTT(30) DEF Majority
  <2>2. ASSUME NEW v \in Server PROVE KnownTo(n, v)
    <3>1. Len(log[v]) \in Nat
      BY <1>1, Types
    <3> QED BY <1>2, <3>1, SMTT(30) DEF KnownTo
  <2> QED BY <1>1, <1>2, <2>1, <2>2, SMTT(30)
<1>3. CASE commitIndex[n] # 0
  <2>1. PICK k \in Nat, s \in Nat : Anchored(k, s) /\ Agrees(n, commitIndex[n], k, s)
    BY <1>1, <1>3 DEF CommitBacked
  <2>2. PICK Q \in SUBSET Server : Cardinality(Q) >= Majority /\ Clear(Q, k, s)
    BY <2>1 DEF Anchored
  <2>3. ASSUME NEW v \in Q PROVE KnownTo(n, v)
    <3>1. Holds(v, k, s) /\ v \in Server
      BY <2>2, <2>3 DEF Clear
    <3>2. k \in 1..Len(log[v]) /\ Len(log[v]) \in Nat /\ commitIndex[n] <= k
      BY <1>1, <2>1, <3>1, Types DEF Holds, Agrees
    <3>3. commitIndex[n] <= Len(log[v])
      BY <1>1, <3>2, SMTT(30)
    <3> QED BY <2>1, <3>1, <3>3 DEF Agrees, KnownTo
  <2> QED BY <2>1, <2>2, <2>3 DEF Agrees
<1> QED BY <1>2, <1>3

\* Then it is a prefix of v's log.
LEMMA KnownPrefix ==
  ASSUME TypeInv, NEW n \in Server, NEW v \in Server, commitIndex[n] <= Len(log[n]),
         KnownTo(n, v)
  PROVE  IsPrefix(Committed(n), log[v])
<1>1. /\ log[n] \in Seq(Entry(Command)) /\ log[v] \in Seq(Entry(Command))
      /\ commitIndex[n] \in Nat
  BY Types
<1>2. \A j \in 1..commitIndex[n] : log[n][j] = log[v][j]
  BY DEF KnownTo
<1> QED BY <1>1, <1>2, PrefixOfSlots DEF KnownTo, Committed

\* The invariant implies CommittedOnMajority.
LEMMA MajorityFromSafe == SafeInv => CommittedOnMajority
<1> SUFFICES ASSUME SafeInv, NEW n \in Server
             PROVE  /\ commitIndex[n] <= Len(log[n])
                    /\ Cardinality({m \in Server : IsPrefix(Committed(n), log[m])}) >= Majority
  BY DEF CommittedOnMajority
<1> DEFINE S == {m \in Server : IsPrefix(Committed(n), log[m])}
<1>1. commitIndex[n] <= Len(log[n])
  BY CommittedKnown
<1>2. PICK Q \in SUBSET Server : Cardinality(Q) >= Majority /\ \A v \in Q : KnownTo(n, v)
  BY CommittedKnown
<1>3. Q \in SUBSET S
  BY <1>1, <1>2, KnownPrefix DEF SafeInv, BaseInv
<1>4. IsFiniteSet(S) /\ S \in SUBSET Server
  BY ServerAssumption, FS_Subset
<1>5. IsFiniteSet(Q) /\ Cardinality(Q) <= Cardinality(S)
  BY <1>3, <1>4, FS_Subset
<1>6. /\ Cardinality(Q) \in Nat /\ Cardinality(S) \in Nat /\ Majority \in Nat
  <2>1. Cardinality(Server) \in Nat
    BY ServerAssumption, FS_CardinalityType
  <2>2. Majority \in Nat
    BY <2>1, SMTT(30) DEF Majority
  <2> QED BY <1>4, <1>5, <2>2, FS_CardinalityType
<1> HIDE DEF S
<1>7. Cardinality(S) >= Majority
  BY <1>2, <1>5, <1>6, SMTT(30)
<1> QED BY <1>1, <1>7 DEF S

\* The invariant implies LeaderCompleteness.
LEMMA LeadersComplete == SafeInv => LeaderCompleteness
<1> SUFFICES ASSUME SafeInv, NEW n \in Server, NEW m \in Server,
                    state[n] = "Leader", currentTerm[n] >= currentTerm[m]
             PROVE  IsPrefix(Committed(m), log[n])
  BY DEF LeaderCompleteness
<1>1. /\ TypeInv /\ CommitBacked(m) /\ commitIndex[m] <= Len(log[m])
      /\ commitIndex[m] \in Nat /\ Len(log[n]) \in Nat
      /\ currentTerm[n] \in Nat /\ currentTerm[m] \in Nat
  BY Types, CommittedKnown DEF SafeInv, BaseInv, CommitInv, CommitsBacked
<1>2. KnownTo(m, n)
  <2>1. CASE commitIndex[m] = 0
    BY <1>1, <2>1, SMTT(30) DEF KnownTo
  <2>2. CASE commitIndex[m] # 0
    <3>1. PICK k \in Nat, s \in Nat : /\ Anchored(k, s) /\ s <= currentTerm[m]
                                      /\ Agrees(m, commitIndex[m], k, s)
      BY <1>1, <2>2 DEF CommitBacked
    <3>2. currentTerm[n] >= s
      BY <1>1, <3>1, SMTT(30)
    <3>3. Holds(n, k, s)
      BY <3>1, <3>2, AnchorHeld DEF LeadersHold, SendsSince
    <3>4. k \in 1..Len(log[n]) /\ commitIndex[m] <= k
      BY <3>1, <3>3 DEF Holds, Agrees
    <3>5. commitIndex[m] <= Len(log[n])
      BY <1>1, <3>4, SMTT(30)
    <3> QED BY <3>1, <3>3, <3>5 DEF Agrees, KnownTo
  <2> QED BY <2>1, <2>2
<1> QED BY <1>1, <1>2, KnownPrefix

\* Nodes keep what they know to be committed.
LEMMA CommittedKept ==
  ASSUME SafeInv, Stepped, NEW n \in Server
  PROVE  /\ \A i \in 1..commitIndex[n] : log'[n][i] = log[n][i]
         /\ IsPrefix(Committed(n), log'[n])
<1>1. /\ CommitBacked(n) /\ commitIndex[n] <= Len(log[n])
      /\ commitIndex[n] \in Nat /\ log[n] \in Seq(Entry(Command))
  BY Types, CommittedKnown DEF SafeInv, BaseInv, CommitInv, CommitsBacked
<1>2. log'[n] \in Seq(Entry(Command)) /\ Len(log'[n]) \in Nat
  <2>1. log'[n] \in Seq(Entry(Command))
    BY DEF Stepped, TypeInv, TypeOK
  <2> QED BY <2>1, SMTT(30)
<1>3. /\ commitIndex[n] <= Len(log'[n])
      /\ \A i \in 1..commitIndex[n] : log'[n][i] = log[n][i]
  <2>1. CASE commitIndex[n] = 0
    BY <1>2, <2>1, SMTT(30)
  <2>2. CASE commitIndex[n] # 0
    <3>1. PICK c \in Nat : c = commitIndex[n]
      BY <1>1
    <3>2. PICK k \in Nat, s \in Nat : /\ Anchored(k, s) /\ s <= currentTerm[n]
                                      /\ Agrees(n, c, k, s)
      BY <1>1, <2>2, <3>1 DEF CommitBacked
    <3>3. Agrees(n, c, k, s)' /\ \A i \in 1..c : log'[n][i] = log[n][i]
      BY <3>2, AgreesStays
    <3> QED BY <3>1, <3>3 DEF Agrees
  <2> QED BY <2>1, <2>2
<1>4. IsPrefix(Committed(n), log'[n])
  BY <1>1, <1>2, <1>3, PrefixOfSlots DEF Committed
<1> QED BY <1>3, <1>4

\* What a node takes for committed is in the logs of a majority, in every
\* cluster whose nodes do not crash (advanceCommitIndexLocked and the commit
\* rule of HandleAppendEntries).
THEOREM CommitsOnMajority == StableSpec => []CommittedOnMajority
<1>1. Init => SafeInv
  BY InitSafe
<1>2. SafeInv /\ [Step]_vars => SafeInv'
  BY StepSafe
<1>3. SafeInv => CommittedOnMajority
  BY MajorityFromSafe
<1> QED BY <1>1, <1>2, <1>3, PTL DEF StableSpec

\* A Leader has every entry that a node whose term is not higher knows to be
\* committed (isLogUpToDate, and the rule that only entries of the Leader's
\* own term are counted), in every cluster whose nodes do not crash.
THEOREM LeadersAreComplete == StableSpec => []LeaderCompleteness
<1>1. Init => SafeInv
  BY InitSafe
<1>2. SafeInv /\ [Step]_vars => SafeInv'
  BY StepSafe
<1>3. SafeInv => LeaderCompleteness
  BY LeadersComplete
<1> QED BY <1>1, <1>2, <1>3, PTL DEF StableSpec

\* No step deletes or replaces an entry its node knows to be committed, in
\* every cluster whose nodes do not crash (the truncation of
\* HandleAppendEntries).
THEOREM CommittedEntriesAreKept == StableSpec => CommittedEntriesKept
<1>1. Init => SafeInv
  BY InitSafe
<1>2. SafeInv /\ [Step]_vars => SafeInv'
  BY StepSafe
<1>3. SafeInv /\ [Step]_vars =>
        [\A n \in Server : IsPrefix(Committed(n), log'[n])]_vars
  BY StepSafe, CommittedKept
<1> QED BY <1>1, <1>2, <1>3, PTL DEF StableSpec, CommittedEntriesKept

-----------------------------------------------------------------------------
(* The agreed log *)

\* A step changes the commit index of one node at most.
LEMMA OneCommit ==
  ASSUME TypeInv, [Step]_vars, NEW a \in Server, NEW b \in Server,
         commitIndex'[a] # commitIndex[a], commitIndex'[b] # commitIndex[b]
  PROVE  a = b
<1>1. ASSUME NEW m \in msgs, HandleAppendSuccess(m) PROVE a = b
  <2>1. PICK c : commitIndex' = [commitIndex EXCEPT ![m.dst] = c]
    BY <1>1, Zenon DEF HandleAppendSuccess
  <2>2. commitIndex \in [Server -> Nat]
    BY DEF TypeInv, TypeOK
  <2> QED BY <2>1, <2>2, SMTT(30)
<1>2. ASSUME NEW m \in msgs, HandleAppendEntries(m) PROVE a = b
  BY <1>2, HandleAppendEntriesParts, ZenonT(30)
<1>3. ASSUME commitIndex' = commitIndex PROVE a = b
  BY <1>3
<1>4. CASE ElectionStep
  BY <1>3, <1>4, Zenon DEF ElectionStep, StartElection, HandleRequestVote, CountVote,
                    StepDownOnVoteReply, StepDownOnAppendReply, logVars
<1>5. CASE ReplyStep
  BY <1>1, <1>3, <1>5, Zenon DEF ReplyStep, SendHeartbeats, RejectStaleAppend,
                          HandleAppendConflict, vars, logVars
<1>6. ASSUME NEW n \in Server, NEW p \in Server, SendStep(n, p) PROVE a = b
  BY <1>3, <1>6, Zenon DEF SendStep, ReplicateLog, SendHeartbeatTo, logVars
<1>7. ASSUME NEW n \in Server, NEW c \in Command, SubmitCommand(n, c) PROVE a = b
  BY <1>3, <1>7 DEF SubmitCommand
<1> QED BY <1>2, <1>4, <1>5, <1>6, <1>7 DEF Step, Receive, ElectionStep, ReplyStep, SendStep

\* No node knows more than n does.
Top(n) == \A m \in Server : commitIndex[n] >= commitIndex[m]
TopExists == \E n \in Server : Top(n)

\* What nodes know is a sequence of that many entries of their logs.
ViewsAreLogs ==
  \A n \in Server :
    /\ commitIndex[n] \in Nat /\ Committed(n) \in Seq(Entry(Command))
    /\ Len(Committed(n)) = commitIndex[n]
    /\ \A i \in 1..commitIndex[n] : Committed(n)[i] = log[n][i]

\* And of one log.
ViewsAgree ==
  \A a, b \in Server, i \in Nat :
    i \in 1..commitIndex[a] /\ i \in 1..commitIndex[b] => log[a][i] = log[b][i]

\* Two majorities that know what is committed share a node.
LEMMA OneLog == SafeInv => ViewsAreLogs /\ ViewsAgree
<1> SUFFICES ASSUME SafeInv PROVE ViewsAreLogs /\ ViewsAgree
  OBVIOUS
<1>1. ASSUME NEW n \in Server
      PROVE  /\ commitIndex[n] \in Nat /\ Committed(n) \in Seq(Entry(Command))
             /\ Len(Committed(n)) = commitIndex[n]
             /\ \A i \in 1..commitIndex[n] : Committed(n)[i] = log[n][i]
  <2>1. /\ commitIndex[n] \in Nat /\ log[n] \in Seq(Entry(Command))
        /\ commitIndex[n] <= Len(log[n])
    BY Types, CommittedKnown DEF SafeInv, BaseInv
  <2>2. \A i \in 1..commitIndex[n] : log[n][i] \in Entry(Command)
    BY <2>1, SMTT(30)
  <2> QED BY <2>1, <2>2, SubSeqType, SMT DEF Committed
<1>2. ASSUME NEW a \in Server, NEW b \in Server, NEW i \in Nat,
             i \in 1..commitIndex[a], i \in 1..commitIndex[b]
      PROVE  log[a][i] = log[b][i]
  <2>1. PICK A \in SUBSET Server : Cardinality(A) >= Majority /\ \A v \in A : KnownTo(a, v)
    BY CommittedKnown
  <2>2. PICK B \in SUBSET Server : Cardinality(B) >= Majority /\ \A v \in B : KnownTo(b, v)
    BY CommittedKnown
  <2>3. PICK v \in Server : v \in A /\ v \in B
    BY <2>1, <2>2, MajoritiesMeet
  <2> QED BY <1>2, <2>1, <2>2, <2>3 DEF KnownTo
<1> QED BY <1>1, <1>2 DEF ViewsAreLogs, ViewsAgree

\* The same of the state after a step.
LEMMA OneLogNext == SafeInv' => ViewsAreLogs' /\ ViewsAgree'
BY OneLog, PTL

\* The agreed log is what some node knows that knows most.
LEMMA AgreedIsTop == TopExists => \E a \in Server : Top(a) /\ Agreed = Committed(a)
BY Zenon DEF TopExists, Top, Agreed

\* The same of the state after a step.
LEMMA AgreedIsTopNext ==
  TopExists' => \E a \in Server : Top(a)' /\ Agreed' = Committed(a)'
<1>1. (TopExists => \E a \in Server : Top(a) /\ Agreed = Committed(a))'
  BY AgreedIsTop, PTL
<1> QED BY <1>1

\* A sequence that begins like another is a part of it.
LEMMA SameStart ==
  ASSUME NEW C, NEW s \in Seq(C), NEW r \in Seq(C), Len(s) <= Len(r),
         \A i \in 1..Len(s) : s[i] = r[i]
  PROVE  SubSeq(r, 1, Len(s)) = s /\ (Len(r) = Len(s) => r = s)
<1>1. Len(s) \in Nat /\ Len(r) \in Nat
  BY SMTT(30)
<1>2. \A i \in 1..Len(s) : r[i] \in C
  BY <1>1, SMTT(30)
<1>3. /\ SubSeq(r, 1, Len(s)) \in Seq(C) /\ Len(SubSeq(r, 1, Len(s))) = Len(s)
      /\ \A i \in 1..Len(s) : SubSeq(r, 1, Len(s))[i] = r[i]
  BY <1>1, <1>2, SubSeqType, SMTT(30)
<1>4. SubSeq(r, 1, Len(s)) = s
  BY <1>3, SMTT(30)
<1>5. Len(r) = Len(s) => r = s
  BY SMTT(30)
<1> QED BY <1>4, <1>5

\* What n knew, m knows as well if it knows as much.
LEMMA ViewStays ==
  ASSUME SafeInv, SafeInv', Stepped, NEW n \in Server, NEW m \in Server,
         commitIndex'[n] >= commitIndex[n], commitIndex[n] <= commitIndex'[m]
  PROVE  /\ SubSeq(Committed(m)', 1, commitIndex[n]) = Committed(n)
         /\ commitIndex'[m] = commitIndex[n] => Committed(m)' = Committed(n)
<1>1. ViewsAreLogs /\ ViewsAreLogs' /\ ViewsAgree'
  BY OneLog, OneLogNext
<1>2. /\ Committed(n) \in Seq(Entry(Command)) /\ Len(Committed(n)) = commitIndex[n]
      /\ \A i \in 1..commitIndex[n] : Committed(n)[i] = log[n][i]
      /\ commitIndex[n] \in Nat
  BY <1>1 DEF ViewsAreLogs
<1>3. /\ Committed(m)' \in Seq(Entry(Command)) /\ Len(Committed(m)') = commitIndex'[m]
      /\ \A i \in 1..commitIndex'[m] : Committed(m)'[i] = log'[m][i]
      /\ commitIndex'[m] \in Nat /\ commitIndex'[n] \in Nat
  BY <1>1 DEF ViewsAreLogs
<1>4. ASSUME NEW i \in 1..commitIndex[n] PROVE Committed(n)[i] = Committed(m)'[i]
  <2>1. i \in Nat /\ i \in 1..commitIndex'[n] /\ i \in 1..commitIndex'[m]
    BY <1>2, <1>3, SMTT(30)
  <2>2. log'[n][i] = log'[m][i]
    BY <1>1, <2>1 DEF ViewsAgree
  <2>3. log'[n][i] = log[n][i]
    BY CommittedKept
  <2> QED BY <1>2, <1>3, <2>1, <2>2, <2>3, Zenon
<1> QED BY <1>2, <1>3, <1>4, SameStart, SMTT(30)

\* What n comes to know, m knew if it knew as much.
LEMMA ViewKnown ==
  ASSUME SafeInv, SafeInv', Stepped, NEW n \in Server, NEW m \in Server,
         commitIndex'[m] >= commitIndex[m], commitIndex'[n] <= commitIndex[m]
  PROVE  SubSeq(Committed(m), 1, commitIndex'[n]) = Committed(n)'
<1>1. ViewsAreLogs /\ ViewsAreLogs' /\ ViewsAgree'
  BY OneLog, OneLogNext
<1>2. /\ Committed(m) \in Seq(Entry(Command)) /\ Len(Committed(m)) = commitIndex[m]
      /\ \A i \in 1..commitIndex[m] : Committed(m)[i] = log[m][i]
      /\ commitIndex[m] \in Nat
  BY <1>1 DEF ViewsAreLogs
<1>3. /\ Committed(n)' \in Seq(Entry(Command)) /\ Len(Committed(n)') = commitIndex'[n]
      /\ \A i \in 1..commitIndex'[n] : Committed(n)'[i] = log'[n][i]
      /\ commitIndex'[m] \in Nat /\ commitIndex'[n] \in Nat
  BY <1>1 DEF ViewsAreLogs
<1>4. ASSUME NEW i \in 1..commitIndex'[n] PROVE Committed(n)'[i] = Committed(m)[i]
  <2>1. i \in Nat /\ i \in 1..commitIndex[m] /\ i \in 1..commitIndex'[m]
    BY <1>2, <1>3, SMTT(30)
  <2>2. log'[n][i] = log'[m][i]
    BY <1>1, <2>1 DEF ViewsAgree
  <2>3. log'[m][i] = log[m][i]
    BY <2>1, CommittedKept
  <2> QED BY <1>2, <1>3, <2>1, <2>2, <2>3
<1> QED BY <1>2, <1>3, <1>4, SameStart

\* Who knows most still does, or the one node that learnt something does.
LEMMA TopStays ==
  ASSUME SafeInv, SafeInv', TopExists, [Step]_vars,
         \A n \in Server : commitIndex'[n] >= commitIndex[n]
  PROVE  TopExists'
<1>1. TypeInv
  BY DEF SafeInv, BaseInv
<1>2. \A n \in Server : commitIndex[n] \in Nat /\ commitIndex'[n] \in Nat
  <2>1. ViewsAreLogs /\ ViewsAreLogs'
    BY OneLog, OneLogNext
  <2> QED BY <2>1 DEF ViewsAreLogs
<1>3. PICK a \in Server : Top(a)
  BY DEF TopExists
<1>4. CASE \A m \in Server : commitIndex'[m] <= commitIndex'[a]
  BY <1>2, <1>4 DEF TopExists, Top
<1>5. ASSUME NEW n \in Server, ~(commitIndex'[n] <= commitIndex'[a]) PROVE TopExists'
  <2>1. commitIndex'[n] # commitIndex[n] /\ n # a
    BY <1>2, <1>3, <1>5, SMTT(30) DEF Top
  <2>2. ASSUME NEW m \in Server, m # n PROVE commitIndex'[n] >= commitIndex'[m]
    <3>1. commitIndex'[m] = commitIndex[m]
      BY <1>1, <2>1, <2>2, OneCommit
    <3> QED BY <1>2, <1>3, <1>5, <3>1, SMTT(30) DEF Top
  <2>3. commitIndex'[n] >= commitIndex'[n]
    BY <1>2, SMTT(30)
  <2> QED BY <2>2, <2>3 DEF TopExists, Top
<1> QED BY <1>4, <1>5

\* A step of the cluster agrees on entries, teaches a node of them, or leaves
\* the agreed log and what nodes know of it alone.
LEMMA StepAgrees ==
  ASSUME SafeInv, SafeInv', TopExists, TopExists', Stepped, [Step]_vars,
         \A n \in Server : commitIndex'[n] >= commitIndex[n]
  PROVE  [Abstract!Next]_<<Agreed, [n \in Server |-> Committed(n)]>>
<1> DEFINE view == [n \in Server |-> Committed(n)]
<1>1. PICK a \in Server : Top(a) /\ Agreed = Committed(a)
  BY AgreedIsTop
<1>2. PICK b \in Server : Top(b)' /\ Agreed' = Committed(b)'
  BY AgreedIsTopNext
<1>3. /\ \A n \in Server : commitIndex[n] \in Nat /\ commitIndex'[n] \in Nat
      /\ \A n \in Server : Len(Committed(n)) = commitIndex[n]
      /\ \A n \in Server : Len(Committed(n)') = commitIndex'[n]
  <2>1. ViewsAreLogs /\ ViewsAreLogs'
    BY OneLog, OneLogNext
  <2> QED BY <2>1 DEF ViewsAreLogs
<1>4. \A m \in Server : commitIndex[a] >= commitIndex[m]
  BY <1>1 DEF Top
<1>5. \A m \in Server : commitIndex'[b] >= commitIndex'[m]
  BY <1>2 DEF Top
<1>6. ASSUME NEW m \in Server, commitIndex'[m] = commitIndex[m]
      PROVE  Committed(m)' = Committed(m)
  BY <1>3, <1>6, ViewStays
<1>7. ASSUME commitIndex'[b] = commitIndex[a] PROVE Agreed' = Agreed
  BY <1>1, <1>2, <1>3, <1>7, ViewStays, SMTT(30)
<1>8. CASE \A n \in Server : commitIndex'[n] = commitIndex[n]
  <2>1. view' = view
    BY <1>6, <1>8
  <2>2. commitIndex'[b] = commitIndex[a]
    BY <1>3, <1>4, <1>5, <1>8, SMTT(30)
  <2> QED BY <1>7, <2>1, <2>2
<1>9. ASSUME NEW n \in Server, commitIndex'[n] # commitIndex[n]
      PROVE  Abstract!Next
  <2>1. TypeInv
    BY DEF SafeInv, BaseInv
  <2>2. ASSUME NEW m \in Server, m # n
        PROVE  commitIndex'[m] = commitIndex[m] /\ Committed(m)' = Committed(m)
    BY <1>6, <1>9, <2>1, <2>2, OneCommit
  <2>3. view' = [view EXCEPT ![n] = Committed(n)']
    BY <2>2, Zenon
  <2>4. commitIndex'[n] > commitIndex[n]
    BY <1>3, <1>9, SMTT(30)
  <2>5. CASE commitIndex'[n] > commitIndex[a]
    <3>1. b = n
      <4> SUFFICES ASSUME b # n PROVE FALSE
        OBVIOUS
      <4>1. commitIndex'[b] = commitIndex[b]
        BY <2>2
      <4> QED BY <1>3, <1>4, <1>5, <2>5, <4>1, SMTT(30)
    <3>2. Len(Agreed') > Len(Agreed)
      BY <1>1, <1>2, <1>3, <2>5, <3>1
    <3>3. SubSeq(Agreed', 1, Len(Agreed)) = Agreed
      <4>1. commitIndex[a] <= commitIndex'[b]
        BY <1>3, <2>5, <3>1, SMTT(30)
      <4>2. SubSeq(Committed(b)', 1, commitIndex[a]) = Committed(a)
        BY <4>1, ViewStays
      <4> QED BY <1>1, <1>2, <1>3, <4>2
    <3>4. Abstract!Agree(n)
      BY <1>2, <2>3, <3>1, <3>2, <3>3 DEF Abstract!Agree
    <3> QED BY <3>4 DEF Abstract!Next
  <2>6. CASE ~(commitIndex'[n] > commitIndex[a])
    <3>1. a # n /\ commitIndex'[a] = commitIndex[a]
      BY <1>3, <2>2, <2>4, <2>6
    <3>2. commitIndex'[b] = commitIndex[a]
      <4>1. commitIndex'[b] >= commitIndex[a]
        BY <1>5, <3>1
      <4>2. commitIndex'[b] <= commitIndex[a]
        BY <1>3, <1>4, <2>2, <2>6, SMTT(30)
      <4> QED BY <1>3, <4>1, <4>2, SMTT(30)
    <3>3. UNCHANGED Agreed
      BY <1>7, <3>2
    <3>4. view[n] = Committed(n)
      OBVIOUS
    <3>5. PICK k \in Nat : k = commitIndex'[n]
      BY <1>3
    <3>6. Len(view[n]) < Len(Agreed) /\ k \in Len(view[n]) + 1 .. Len(Agreed)
      BY <1>1, <1>3, <2>4, <2>6, <3>4, <3>5, SMTT(30)
    <3>7. SubSeq(Agreed, 1, k) = Committed(n)'
      <4>1. commitIndex'[n] <= commitIndex[a] /\ commitIndex'[a] >= commitIndex[a]
        BY <1>3, <2>6, SMTT(30)
      <4> QED BY <1>1, <3>5, <4>1, ViewKnown
    <3>8. Abstract!Learn(n)
      BY <2>3, <3>3, <3>6, <3>7, Zenon DEF Abstract!Learn
    <3> QED BY <3>8 DEF Abstract!Next
  <2> QED BY <2>5, <2>6
<1> QED BY <1>8, <1>9

\* Initially nothing is agreed.
LEMMA InitAgrees ==
  ASSUME Server # {}, Init
  PROVE  Abstract!Init /\ TopExists
<1>1. \A n \in Server : log[n] = <<>> /\ commitIndex[n] = 0
  BY DEF Init
<1>2. \A n \in Server : Committed(n) = <<>>
  BY <1>1, SMTT(30) DEF Committed
<1>3. TopExists
  BY <1>1, SMTT(30) DEF TopExists, Top
<1>4. Agreed = <<>>
  BY <1>2, <1>3, AgreedIsTop
<1> QED BY <1>2, <1>3, <1>4 DEF Abstract!Init

\* The cluster implements one agreed log that only grows, of which every node
\* knows a prefix that only grows, for every cluster whose nodes do not crash
\* (commitIndex in node.go and replication.go).
THEOREM ClusterAgrees == Server # {} => (StableSpec => ImplementsAgreedLog)
<1> SUFFICES ASSUME Server # {} PROVE StableSpec => ImplementsAgreedLog
  OBVIOUS
<1>1. Init => Abstract!Init /\ SafeInv /\ TopExists
  BY InitSafe, InitAgrees
<1>2. (SafeInv /\ TopExists) /\ [Step]_vars => (SafeInv /\ TopExists)'
  BY StepSafe, TopStays
<1>3. (SafeInv /\ TopExists) /\ (SafeInv /\ TopExists)' /\ [Step]_vars =>
        [Abstract!Next]_<<Agreed, [n \in Server |-> Committed(n)]>>
  BY StepSafe, StepAgrees
<1> QED BY <1>1, <1>2, <1>3, PTL DEF StableSpec, ImplementsAgreedLog, Abstract!Spec

=============================================================================
