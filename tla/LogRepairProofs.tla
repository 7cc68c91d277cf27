--------------------------- MODULE LogRepairProofs ---------------------------
(***************************************************************************)
(* The safety properties of a Leader's bookkeeping, for any cluster, any   *)
(* pair of logs to start from and any number of late requests and answers. *)
(*                                                                         *)
(* NextInLog needs that every hint the follower has ever answered with,    *)
(* and every request still under way, names slots of the Leader's log,     *)
(* which only grows.  RepairIsExact and SharedStays need that the two logs *)
(* agree up to any slot where their terms agree, so that the slot a        *)
(* request starts from vouches for all before it; the terms of the         *)
(* Leader's own entries are new to the follower.                           *)
(* RefusalBacksUp needs that a term both logs have starts no later in the  *)
(* Leader's.  CommitIsHighest needs that nobody acknowledges more than the *)
(* Leader has, that its own entries come after what it knew to be          *)
(* committed, and what the middle of the sorted list is.                   *)
(***************************************************************************)
EXTENDS LogRepair, RaftLogProofs

\* Most leaves are first-order; the ones that need arithmetic cite SMT.
USE ZenonT(30)

Slots == Seq(Entry({0}))

\* Those whose matchIndex the Leader keeps.
Known == Others \cup {Peer}

\* The terms of a log ascend, and are at most top.
Ascends(l, top) ==
  /\ \A i \in 1..Len(l) : l[i].term \in 1..top
  /\ \A i, j \in 1..Len(l) : i <= j => l[i].term <= l[j].term

\* A request for slots of the Leader's log.
InLog(m) ==
  /\ m.prev \in Nat /\ m.last \in Nat
  /\ m.prev <= m.last /\ m.last <= LastIndex(leader)

\* The requests and the hints, like nextIndex, name slots of the Leader's log.
BoundsInv ==
  /\ leader \in Slots /\ follower \in Slots /\ before \in Slots
  /\ NextInLog
  /\ \A m \in delayed : InLog(m)
  /\ \A h \in hints : h.term \in Nat /\ h.index \in 1..LastIndex(leader)

\* Matching, slot by slot, between the Leader's log and the follower's first.
MatchingInv ==
  /\ Ascends(leader, Term) /\ Ascends(before, MaxTerm)
  /\ \A i \in 1..Len(leader) :
       i <= Len(before) /\ leader[i].term = before[i].term
         => \A j \in 1..i : leader[j] = before[j]
  /\ \A i \in 1..Len(leader), j \in 1..Len(before) :
       leader[i].term = before[j].term => \E k \in 1..j : leader[k].term = before[j].term

\* Nobody acknowledges more than the Leader has, and the entries of its term
\* come after what it knew to be committed.
AckBound ==
  /\ matchIndex \in [Known -> Nat] /\ \A p \in Known : matchIndex[p] <= LastIndex(leader)
  /\ commitIndex \in Nat /\ settled \in 0..LastIndex(leader)
  /\ \A i \in 1..LastIndex(leader) : leader[i].term = Term => i > settled

-----------------------------------------------------------------------------
(* The logs to start from *)

\* Entries that ascend from slot to slot ascend.
LEMMA AscendingSlots ==
  ASSUME NEW l \in Seq(Entry({0})), NEW top \in Nat,
         \A i \in 1..Len(l) : l[i].term \in 1..top,
         \A i \in 1..(Len(l) - 1) : l[i].term <= l[i + 1].term
  PROVE  Ascends(l, top)
<1> SUFFICES ASSUME NEW i \in 1..Len(l), NEW j0 \in 1..Len(l), i <= j0,
                    ~(l[i].term <= l[j0].term)
             PROVE  FALSE
  BY DEF Ascends
<1> DEFINE S == {j \in 1..Len(l) : i <= j /\ ~(l[i].term <= l[j].term)}
           d == Min(S)
<1>1. S \subseteq Nat /\ S # {}
  <2>1. j0 \in S
    OBVIOUS
  <2>2. S \subseteq Nat
    BY SMT
  <2> HIDE DEF S
  <2> QED BY <2>1, <2>2
<1>2. d \in S /\ \A y \in S : d <= y
  <2> HIDE DEF S
  <2> QED BY <1>1, MinOfNats, Zenon
<1>3. d \in 1..Len(l) /\ i <= d /\ ~(l[i].term <= l[d].term)
  BY <1>2
<1> HIDE DEF d
<1>4. d # i /\ d - 1 \in 1..Len(l) /\ i <= d - 1 /\ d - 1 \in 1..(Len(l) - 1)
  BY <1>3, SMT
<1>5. d - 1 \notin S
  <2>1. ~(d <= d - 1)
    BY <1>3, SMT
  <2> HIDE DEF S
  <2> QED BY <1>2, <2>1
<1>6. l[i].term <= l[d - 1].term
  BY <1>4, <1>5
<1>7. l[d - 1].term <= l[d].term
  <2>1. (d - 1) + 1 = d
    BY <1>3, SMT
  <2> QED BY <1>4, <2>1
<1>8. l[i].term \in Nat /\ l[d - 1].term \in Nat /\ l[d].term \in Nat
  BY <1>3, <1>4, SMTT(30)
<1> QED BY <1>3, <1>6, <1>7, <1>8, SMTT(30)

\* The logs of Init are logs, and ascend.
LEMMA LogsType ==
  ASSUME NEW l \in Logs
  PROVE  l \in Slots /\ Ascends(l, MaxTerm)
<1>0. MaxTerm \in Nat /\ MaxLen \in Nat
  BY RepairAssumption
<1>1. PICK k \in 0..MaxLen :
        l \in {[i \in 1..k |-> [term |-> t[i], index |-> i, command |-> 0]] :
                 t \in {t \in [1..k -> 1..MaxTerm] :
                          \A i \in 1..(k - 1) : t[i] <= t[i + 1]}}
  BY Zenon DEF Logs
<1>2. PICK t \in [1..k -> 1..MaxTerm] :
        /\ \A i \in 1..(k - 1) : t[i] <= t[i + 1]
        /\ l = [i \in 1..k |-> [term |-> t[i], index |-> i, command |-> 0]]
  BY <1>1
<1>3. k \in Nat
  BY <1>0, SMT
<1>4. \A i \in 1..k : l[i] = [term |-> t[i], index |-> i, command |-> 0]
  BY <1>2
<1>5. ASSUME NEW i \in 1..k
      PROVE  l[i] \in Entry({0}) /\ l[i].term = t[i] /\ t[i] \in 1..MaxTerm
  <2>1. t[i] \in 1..MaxTerm /\ t[i] \in Nat /\ i \in Nat
    BY <1>0, <1>3, SMT
  <2>2. l[i] = [term |-> t[i], index |-> i, command |-> 0]
    BY <1>4
  <2>3. [term |-> t[i], index |-> i, command |-> 0] \in Entry({0})
    BY <2>1 DEF Entry
  <2> QED BY <2>1, <2>2, <2>3, SMT
<1>6. l \in [1..k -> Entry({0})]
  BY <1>2, <1>4, <1>5
<1>7. l \in Seq(Entry({0})) /\ Len(l) = k
  BY <1>3, <1>6, SMT
<1>8. \A i \in 1..(k - 1) : l[i].term <= l[i + 1].term
  <2> TAKE i \in 1..(k - 1)
  <2>1. i \in 1..k /\ i + 1 \in 1..k
    BY <1>3, SMT
  <2> QED BY <1>2, <1>5, <2>1
<1> QED BY <1>0, <1>5, <1>7, <1>8, AscendingSlots DEF Slots

-----------------------------------------------------------------------------
(* nextIndex *)

\* The first slot of a term that the log has.
LEMMA FirstSlot ==
  ASSUME NEW l \in Slots, NEW t, NEW i \in 1..Len(l), l[i].term = t
  PROVE  /\ FindFirstIndexOfTerm(l, t) \in 1..i
         /\ l[FindFirstIndexOfTerm(l, t)].term = t
<1> DEFINE at == {k \in 1..Len(l) : l[k].term = t}
<1>1. at # {} /\ FindFirstIndexOfTerm(l, t) = Min(at) /\ i \in at
  BY DEF FindFirstIndexOfTerm
<1>2. Min(at) \in at /\ Min(at) <= i
  <2>1. at \subseteq Nat
    BY SMT
  <2> HIDE DEF at
  <2> QED BY <1>1, <2>1, MinOfNats, Zenon
<1> DEFINE d == Min(at)
<1>3. d \in 1..Len(l) /\ l[d].term = t /\ d <= i
  BY <1>2
<1> HIDE DEF d
<1>4. d \in 1..i
  BY <1>3, SMT
<1> QED BY <1>1, <1>3, <1>4 DEF d

\* What the follower answers when it refuses the probe at slot prev.
LEMMA RefusalHint ==
  ASSUME NEW l \in Slots, NEW prev \in Nat, NEW pt, ~PrevMatches(l, prev, pt),
         NEW h, h = ConflictHint(l, prev)
  PROVE  /\ prev > 0 /\ h.term \in Nat /\ h.index \in 1..prev
         /\ \/ h.term = 0
            \/ prev \in 1..Len(l) /\ h.term = l[prev].term /\ l[prev].term # pt
         /\ prev \notin 1..Len(l) => h.term = 0
<1>1. prev > 0 /\ Len(l) \in Nat
  BY SMT DEF PrevMatches, Slots
<1>2. CASE prev <= Len(l)
  <2>1. prev \in 1..Len(l) /\ Contains(l, prev) /\ TermAt(l, prev) = l[prev].term
    BY <1>1, <1>2, SMT DEF Contains, TermAt
  <2>2. l[prev].term # pt
    BY <2>1 DEF PrevMatches
  <2>3. l[prev] \in Entry({0})
    BY <2>1, SMT DEF Slots
  <2>4. l[prev].term \in Nat
    BY <2>3 DEF Entry
  <2>5. h.term = l[prev].term /\ h.index = FindFirstIndexOfTerm(l, l[prev].term)
    BY <2>1 DEF ConflictHint
  <2>6. FindFirstIndexOfTerm(l, l[prev].term) \in 1..prev
    BY <2>1, FirstSlot
  <2> QED BY <1>1, <2>1, <2>2, <2>4, <2>5, <2>6
<1>3. CASE ~(prev <= Len(l))
  <2>1. ~Contains(l, prev)
    BY <1>1, <1>3, SMT DEF Contains
  <2>2. h.term = 0 /\ h.index = Len(l) + 1
    BY <2>1 DEF ConflictHint, LastIndex
  <2> QED BY <1>1, <1>3, <2>2, SMT
<1> QED BY <1>2, <1>3

\* Where handleConflictLocked goes on: after its own entries of the term the
\* follower names, if it has any, or at the slot the follower names.
LEMMA NextAfterHint ==
  ASSUME NEW l \in Slots, NEW nx, NEW t \in Nat, NEW i \in Nat \ {0}
  PROVE  LET r == NextIndexAfterConflict(l, nx, t, i)
         IN  \/ /\ t > 0 /\ r - 1 \in 1..Len(l) /\ l[r - 1].term = t /\ r \in Nat
             \/ /\ r = i
                /\ t > 0 => \A k \in 1..Len(l) : l[k].term # t
<1> DEFINE ofTerm == {k \in 1..Len(l) : l[k].term = t}
           r == NextIndexAfterConflict(l, nx, t, i)
<1>1. CASE t > 0 /\ ofTerm # {}
  <2>1. Max(ofTerm) \in ofTerm
    <3>1. ofTerm \subseteq 1..Len(l) /\ Len(l) \in Nat
      BY SMT DEF Slots
    <3> HIDE DEF ofTerm
    <3> QED BY <1>1, <3>1, MaxOfSlots
  <2>2. r = Max(ofTerm) + 1
    BY <1>1 DEF NextIndexAfterConflict
  <2> DEFINE m == Max(ofTerm)
  <2>3. m \in 1..Len(l) /\ l[m].term = t
    BY <2>1
  <2> HIDE DEF m
  <2>4. r = m + 1
    BY <2>2 DEF m
  <2> HIDE DEF r
  <2>5. r - 1 = m /\ r \in Nat
    BY <2>3, <2>4, SMT
  <2> QED BY <1>1, <2>3, <2>5 DEF r
<1>2. CASE t > 0 /\ ofTerm = {}
  <2>1. r = i
    BY <1>2 DEF NextIndexAfterConflict
  <2> QED BY <1>2, <2>1
<1>3. CASE ~(t > 0)
  <2>1. r = i
    BY <1>3, SMT DEF NextIndexAfterConflict
  <2> QED BY <1>3, <2>1
<1> QED BY <1>1, <1>2, <1>3

\* A hint that names a slot of the Leader's log leads to one, or to its end.
LEMMA HintLeadsIntoLog ==
  ASSUME BoundsInv, NEW t \in Nat, NEW i \in 1..LastIndex(leader)
  PROVE  NextIndexAfterConflict(leader, next, t, i) \in 1..(LastIndex(leader) + 1)
<1>1. leader \in Slots /\ Len(leader) \in Nat /\ i \in Nat \ {0}
  BY SMT DEF BoundsInv, Slots, LastIndex
<1> DEFINE r == NextIndexAfterConflict(leader, next, t, i)
<1>2. (r - 1 \in 1..Len(leader) /\ r \in Nat) \/ r = i
  <2> HIDE DEF r
  <2> QED BY <1>1, NextAfterHint DEF r
<1> HIDE DEF r
<1>3. r \in 1..(LastIndex(leader) + 1)
  BY <1>1, <1>2, SMT DEF LastIndex
<1> QED BY <1>3 DEF r

-----------------------------------------------------------------------------
(* The follower's log *)

\* IsPrefix, slot by slot.
LEMMA PrefixSlots ==
  ASSUME NEW a \in Slots, NEW b \in Slots, IsPrefix(a, b)
  PROVE  Len(a) <= Len(b) /\ \A i \in 1..Len(a) : a[i] = b[i]
<1>1. /\ a \in Seq(Entry({0})) /\ b \in Seq(Entry({0})) /\ Len(a) \in Nat
      /\ Len(a) <= Len(b) /\ SubSeq(b, 1, Len(a)) = a
  BY SMT DEF Slots, IsPrefix
<1>2. \A i \in 1..(Len(a) - 1 + 1) : SubSeq(b, 1, Len(a))[i] = b[1 + i - 1]
  BY <1>1, SubSeqType, SMT
<1>3. ASSUME NEW i \in 1..Len(a) PROVE a[i] = b[i]
  <2>1. i \in 1..(Len(a) - 1 + 1) /\ 1 + i - 1 = i
    BY <1>1, SMT
  <2> QED BY <1>1, <1>2, <2>1
<1> QED BY <1>1, <1>3

\* And the other way round.
LEMMA SlotsPrefix ==
  ASSUME NEW a \in Slots, NEW b \in Slots, Len(a) <= Len(b),
         \A i \in 1..Len(a) : a[i] = b[i]
  PROVE  IsPrefix(a, b)
<1> DEFINE r == SubSeq(b, 1, Len(a))
<1>1. /\ a \in Seq(Entry({0})) /\ b \in Seq(Entry({0})) /\ Len(a) \in Nat
  BY SMT DEF Slots
<1>2. /\ r \in Seq(Entry({0})) /\ Len(r) = IF 1 <= Len(a) THEN Len(a) - 1 + 1 ELSE 0
      /\ \A i \in 1..(Len(a) - 1 + 1) : r[i] = b[1 + i - 1]
  BY <1>1, SubSeqType, SMT
<1> HIDE DEF r
<1>3. Len(r) = Len(a) /\ \A i \in 1..Len(a) : r[i] = a[i]
  BY <1>1, <1>2, SMT
<1>4. r = a
  BY <1>1, <1>2, <1>3, SMT
<1> QED BY <1>4 DEF IsPrefix, r

\* Up to a slot at which the terms agree the follower has the Leader's log.
LEMMA FollowerAgrees ==
  ASSUME BoundsInv, MatchingInv, RepairIsExact,
         NEW i \in 1..Len(follower), i \in 1..Len(leader),
         follower[i].term = leader[i].term
  PROVE  \A j \in 1..i : follower[j] = leader[j]
<1>1. CASE follower = before
  BY <1>1, SMT DEF MatchingInv
<1>2. CASE IsPrefix(follower, leader)
  BY <1>2, PrefixSlots, SMT DEF BoundsInv
<1> QED BY <1>1, <1>2 DEF RepairIsExact

\* What a request brings are the entries of the Leader's log.
LEMMA SentEntries ==
  ASSUME BoundsInv, NEW m, InLog(m)
  PROVE  /\ Entries(m) \in Slots /\ Len(Entries(m)) = m.last - m.prev
         /\ \A j \in 1..Len(Entries(m)) : Entries(m)[j] = leader[m.prev + j]
<1> DEFINE es == Entries(m)
           a == m.prev
           b == m.last
<1>1. /\ leader \in Seq(Entry({0})) /\ Len(leader) \in Nat
      /\ a \in Nat /\ b \in Nat /\ a <= b /\ b <= Len(leader)
  BY SMT DEF BoundsInv, Slots, InLog, LastIndex
<1>2. es = SubSeq(leader, a + 1, b)
  BY DEF Entries
<1> HIDE DEF a, b, es
<1>3. /\ es \in Seq(Entry({0})) /\ Len(es) = IF a + 1 <= b THEN b - (a + 1) + 1 ELSE 0
      /\ \A j \in 1..(b - (a + 1) + 1) : es[j] = leader[a + 1 + j - 1]
  BY <1>1, <1>2, SubSeqType, SMT
<1>4. Len(es) = b - a
  BY <1>1, <1>3, SMT
<1>5. ASSUME NEW j \in 1..Len(es) PROVE es[j] = leader[a + j]
  <2>1. j \in 1..(b - (a + 1) + 1) /\ a + 1 + j - 1 = a + j
    BY <1>1, <1>4, SMT
  <2> QED BY <1>3, <2>1
<1> QED BY <1>3, <1>4, <1>5 DEF Slots, es, a, b

\* An accepted request leaves the follower's log as it is or makes it a part
\* of the Leader's that differs from what the follower had.  Whatever the two
\* share stays.
LEMMA AcceptedIsExact ==
  ASSUME BoundsInv, MatchingInv, RepairIsExact, NEW m, InLog(m), Accepts(m),
         NEW r, r = AppendNew(follower, m.prev, Entries(m))
  PROVE  /\ r \in Slots
         /\ r = follower \/ (IsPrefix(r, leader) /\ ~IsPrefix(r, before))
         /\ \A i \in 1..Len(follower) : i <= Len(leader) /\ follower[i] = leader[i]
              => i <= Len(r) /\ r[i] = follower[i]
<1> DEFINE es == Entries(m)
           prev == m.prev
           last == m.last
           pt == TermAt(leader, m.prev)
<1>1. /\ leader \in Seq(Entry({0})) /\ follower \in Seq(Entry({0}))
      /\ before \in Seq(Entry({0}))
      /\ Len(leader) \in Nat /\ Len(follower) \in Nat /\ Len(before) \in Nat
  BY SMT DEF BoundsInv, Slots
<1>2. /\ prev \in Nat /\ last \in Nat /\ prev <= last /\ last <= Len(leader)
      /\ prev <= Len(leader) /\ pt \in Nat
  <2>1. prev \in Nat /\ last \in Nat /\ prev <= last /\ last <= Len(leader)
    BY DEF InLog, LastIndex
  <2> HIDE DEF prev, last
  <2>2. prev <= Len(leader)
    BY <1>1, <2>1, SMT
  <2> QED BY <1>1, <2>1, <2>2, TermAtType DEF prev
<1>3. /\ es \in Seq(Entry({0})) /\ Len(es) = last - prev
      /\ \A j \in 1..Len(es) : es[j] = leader[prev + j]
  BY SentEntries DEF Slots
<1>4. PrevMatches(follower, prev, pt)
  BY DEF Accepts
<1>5. r = AppendNew(follower, prev, es)
  OBVIOUS
<1>p. pt = TermAt(leader, prev)
  OBVIOUS
<1> HIDE DEF es, pt, prev, last
<1>6. r \in Seq(Entry({0}))
  BY <1>1, <1>2, <1>3, <1>5, AppendNewType
<1>7. CASE NewEntries(follower, prev, es) = <<>>
  <2>1. r = follower
    BY <1>5, <1>7 DEF AppendNew
  <2>2. \A i \in 1..Len(follower) : i <= Len(follower)
    BY <1>1, SMT
  <2> QED BY <1>6, <2>1, <2>2 DEF Slots
<1>8. CASE NewEntries(follower, prev, es) # <<>>
  <2>1. PICK k \in Nat : Spliced(r, follower, prev, es, k)
    BY <1>1, <1>2, <1>3, <1>4, <1>5, <1>8, AppendNewSlots
  <2>2. /\ k \in prev .. (last - 1) /\ k <= Len(follower)
        /\ k > prev => TermAt(follower, k) = es[k - prev].term
        /\ k < Len(follower) => TermAt(follower, k + 1) # es[k + 1 - prev].term
        /\ Len(r) = last
        /\ \A i \in 1..k : r[i] = follower[i]
        /\ \A i \in (k + 1) .. last : r[i] = es[i - prev]
    <3>1. prev + Len(es) = last
      BY <1>1, <1>2, <1>3, SMT
    <3>2. /\ k \in prev .. (prev + Len(es) - 1) /\ k <= Len(follower)
          /\ k > prev => TermAt(follower, k) = es[k - prev].term
          /\ k < Len(follower) => TermAt(follower, k + 1) # es[k + 1 - prev].term
          /\ Len(r) = prev + Len(es)
          /\ \A i \in 1..k : r[i] = follower[i]
          /\ \A i \in (k + 1) .. (prev + Len(es)) : r[i] = es[i - prev]
      BY <2>1, Zenon DEF Spliced
    <3>3. k \in prev .. (last - 1)
      BY <1>1, <1>2, <3>1, <3>2, SMT
    <3>4. Len(r) = last /\ \A i \in (k + 1) .. last : r[i] = es[i - prev]
      BY <3>1, <3>2
    <3> QED BY <3>2, <3>3, <3>4, Zenon
  <2>3. \A i \in 1..k : follower[i] = leader[i]
    <3>1. CASE k = 0
      BY <3>1, SMT
    <3>2. CASE k > 0
      <4>1. k \in 1..Len(follower) /\ k \in 1..Len(leader)
        BY <1>1, <1>2, <2>2, <3>2, SMT
      <4>2. TermAt(follower, k) = follower[k].term /\ TermAt(leader, k) = leader[k].term
        BY <4>1 DEF TermAt
      <4>3. TermAt(follower, k) = leader[k].term
        <5>1. CASE k > prev
          <6>1. k - prev \in 1..Len(es) /\ prev + (k - prev) = k
            BY <1>1, <1>2, <1>3, <2>2, <5>1, SMT
          <6>2. es[k - prev] = leader[k]
            BY <1>3, <6>1
          <6> QED BY <2>2, <5>1, <6>2
        <5>2. CASE k = prev
          BY <1>4, <1>p, <3>2, <4>2, <5>2 DEF PrevMatches
        <5> QED BY <1>2, <2>2, <5>1, <5>2, SMT
      <4> QED BY <4>1, <4>2, <4>3, FollowerAgrees
    <3> QED BY <3>1, <3>2, SMT
  <2>4. ASSUME NEW i \in 1..last PROVE r[i] = leader[i]
    <3>1. CASE i <= k
      <4>1. i \in 1..k
        BY <1>2, <3>1, SMT
      <4> QED BY <2>2, <2>3, <4>1
    <3>2. CASE i > k
      <4>1. i \in (k + 1) .. last /\ i - prev \in 1..Len(es) /\ prev + (i - prev) = i
        BY <1>1, <1>2, <1>3, <2>2, <3>2, SMT
      <4> QED BY <1>3, <2>2, <4>1
    <3> QED BY <1>2, <3>1, <3>2, SMT
  <2>5. IsPrefix(r, leader)
    BY <1>1, <1>2, <1>6, <2>2, <2>4, SlotsPrefix, SMTT(30) DEF Slots
  <2>d. ASSUME k < Len(follower) PROVE follower[k + 1].term # leader[k + 1].term
    <3>1. /\ k + 1 - prev \in 1..Len(es) /\ prev + (k + 1 - prev) = k + 1
          /\ k + 1 \in 1..Len(follower)
      BY <1>1, <1>2, <1>3, <2>2, <2>d, SMT
    <3>2. es[k + 1 - prev] = leader[k + 1]
      BY <1>3, <3>1
    <3>3. TermAt(follower, k + 1) = follower[k + 1].term
      BY <3>1 DEF TermAt
    <3> QED BY <2>2, <2>d, <3>2, <3>3
  <2>6. ASSUME IsPrefix(r, before) PROVE FALSE
    <3>1. last <= Len(before) /\ \A i \in 1..last : leader[i] = before[i]
      BY <1>1, <1>6, <2>2, <2>4, <2>6, PrefixSlots DEF Slots
    <3>k. k + 1 \in 1..last
      BY <1>2, <2>2, SMT
    <3>2. CASE follower = before
      <4>1. k < Len(follower)
        BY <1>1, <1>2, <3>1, <3>2, <3>k, SMT
      <4> QED BY <2>d, <3>1, <3>2, <3>k, <4>1
    <3>3. CASE IsPrefix(follower, leader) /\ ~IsPrefix(follower, before)
      <4>1. /\ Len(follower) <= Len(leader)
            /\ \A i \in 1..Len(follower) : follower[i] = leader[i]
        BY <1>1, <3>3, PrefixSlots DEF Slots
      <4>2. ~(k < Len(follower))
        <5>1. ASSUME k < Len(follower) PROVE k + 1 \in 1..Len(follower)
          BY <1>1, <5>1, SMT
        <5> QED BY <2>d, <4>1, <5>1
      <4>3. Len(follower) <= Len(before) /\ \A i \in 1..Len(follower) : i \in 1..last
        BY <1>1, <1>2, <3>1, <3>k, <4>2, SMT
      <4>4. \A i \in 1..Len(follower) : follower[i] = before[i]
        BY <3>1, <4>1, <4>3
      <4> QED BY <1>1, <3>3, <4>3, <4>4, SlotsPrefix DEF Slots
    <3> QED BY <3>2, <3>3 DEF RepairIsExact
  <2>7. ASSUME NEW i \in 1..Len(follower), i <= Len(leader), follower[i] = leader[i]
        PROVE  i <= Len(r) /\ r[i] = follower[i]
    <3>1. i \in 1..Len(leader)
      BY <1>1, <2>7, SMT
    <3>2. \A j \in 1..i : follower[j] = leader[j]
      BY <2>7, <3>1, FollowerAgrees
    <3>3. ASSUME i > k PROVE FALSE
      <4>1. k < Len(follower) /\ k + 1 \in 1..i
        BY <1>1, <3>3, SMT
      <4> QED BY <2>d, <3>2, <4>1
    <3>4. i \in 1..k /\ i <= last
      BY <1>1, <1>2, <2>2, <3>3, SMT
    <3> QED BY <2>2, <3>4
  <2> QED BY <1>6, <2>5, <2>6, <2>7 DEF Slots
<1> QED BY <1>7, <1>8

-----------------------------------------------------------------------------
(* The invariant of repair *)

\* Inductive.
RepairInv == BoundsInv /\ MatchingInv /\ RepairIsExact

\* The logs a Leader and a follower may start with.
LEMMA InitRepair == Init => RepairInv
<1> SUFFICES ASSUME Init PROVE RepairInv
  OBVIOUS
<1>0. MaxTerm \in Nat /\ Term = MaxTerm + 1
  BY RepairAssumption DEF Term
<1>1. /\ leader \in Logs /\ before \in Logs /\ Matching(leader, before)
      /\ follower = before /\ next = Len(leader) + 1
      /\ hints = {} /\ delayed = {}
  BY DEF Init, LastIndex
<1>2. /\ leader \in Slots /\ Ascends(leader, MaxTerm)
      /\ before \in Slots /\ Ascends(before, MaxTerm)
  BY <1>1, LogsType
<1>3. Len(leader) \in Nat /\ Len(before) \in Nat
  BY <1>2, SMT DEF Slots
<1>4. BoundsInv
  BY <1>1, <1>2, <1>3, SMT DEF BoundsInv, NextInLog, LastIndex
<1>5. Ascends(leader, Term)
  BY <1>0, <1>2, SMT DEF Ascends
<1>6. ASSUME NEW i \in 1..Len(leader), i <= Len(before),
             leader[i].term = before[i].term, NEW j \in 1..i
      PROVE  leader[j] = before[j]
  <2>1. Min({Len(leader), Len(before)}) = IF Len(leader) <= Len(before)
                                          THEN Len(leader) ELSE Len(before)
    BY <1>3, MinOfTwo
  <2>2. i \in 1..Min({Len(leader), Len(before)})
    BY <1>3, <1>6, <2>1, SMT
  <2>3. SubSeq(leader, 1, i) = SubSeq(before, 1, i)
    BY <1>1, <1>6, <2>2 DEF Matching
  <2>4. /\ \A m \in 1..(i - 1 + 1) : SubSeq(leader, 1, i)[m] = leader[1 + m - 1]
        /\ \A m \in 1..(i - 1 + 1) : SubSeq(before, 1, i)[m] = before[1 + m - 1]
    BY <1>2, <1>3, <1>6, SubSeqType, SMT DEF Slots
  <2>5. j \in 1..(i - 1 + 1) /\ 1 + j - 1 = j
    BY <1>6, SMT
  <2> QED BY <2>3, <2>4, <2>5
<1>7. ASSUME NEW i \in 1..Len(leader), NEW j \in 1..Len(before),
             leader[i].term = before[j].term
      PROVE  \E k \in 1..j : leader[k].term = before[j].term
  <2> DEFINE t == before[j].term
             a == FindFirstIndexOfTerm(leader, t)
             b == FindFirstIndexOfTerm(before, t)
  <2>1. a \in 1..i /\ leader[a].term = t /\ b \in 1..j
    BY <1>2, <1>7, FirstSlot
  <2>2. t \in 1..MaxTerm
    BY <1>2 DEF Ascends
  <2>3. a = b
    <3>1. a > 0 /\ b > 0
      <4> HIDE DEF a, b
      <4> QED BY <1>3, <2>1, SMT
    <3> QED BY <1>1, <2>2, <3>1 DEF Matching
  <2> HIDE DEF a, b
  <2> QED BY <2>1, <2>3
<1>8. MatchingInv
  BY <1>2, <1>5, <1>6, <1>7 DEF MatchingInv
<1> QED BY <1>1, <1>4, <1>8 DEF RepairInv, RepairIsExact

\* Every step keeps it.
LEMMA NextRepair == RepairInv /\ [Next]_vars => RepairInv'
<1> SUFFICES ASSUME RepairInv, [Next]_vars PROVE RepairInv'
  OBVIOUS
<1>0. /\ MaxTerm \in Nat /\ Term = MaxTerm + 1
      /\ BoundsInv /\ MatchingInv /\ RepairIsExact
      /\ leader \in Slots /\ follower \in Slots /\ before \in Slots
      /\ Len(leader) \in Nat /\ Len(follower) \in Nat /\ Len(before) \in Nat
      /\ next \in 1..(Len(leader) + 1)
  BY RepairAssumption, SMT DEF Term, RepairInv, BoundsInv, Slots, NextInLog, LastIndex
<1>1. CASE Submit
  <2> DEFINE x == [term |-> Term, index |-> Len(leader) + 1, command |-> 0]
  <2>1. /\ leader' = Append(leader, x) /\ x \in Entry({0}) /\ x.term = Term
        /\ follower' = follower /\ before' = before /\ next' = next
        /\ hints' = hints /\ delayed' = delayed
    BY <1>0, <1>1, SMT DEF Submit, Entry, leaderVars
  <2> HIDE DEF x
  <2>2. /\ leader' \in Slots /\ Len(leader') = Len(leader) + 1
        /\ leader'[Len(leader) + 1] = x
        /\ \A i \in 1..Len(leader) : leader'[i] = leader[i]
    BY <1>0, <2>1, SMT DEF Slots
  <2>3. BoundsInv'
    <3>1. next' \in 1..(Len(leader') + 1)
      BY <1>0, <2>1, <2>2, SMT
    <3>2. \A m \in delayed' : InLog(m)'
      <4>1. \A m \in delayed : InLog(m)
        BY <1>0 DEF BoundsInv
      <4>2. ASSUME NEW k \in Nat, k <= Len(leader) PROVE k <= Len(leader')
        BY <1>0, <2>2, <4>2, SMT
      <4> QED BY <2>1, <4>1, <4>2 DEF InLog, LastIndex
    <3>3. \A h \in hints' : h.term \in Nat /\ h.index \in 1..Len(leader')
      <4>1. \A h \in hints : h.term \in Nat /\ h.index \in 1..Len(leader)
        BY <1>0 DEF BoundsInv, LastIndex
      <4> QED BY <1>0, <2>1, <2>2, <4>1, SMT
    <3> QED BY <1>0, <2>1, <2>2, <3>1, <3>2, <3>3 DEF BoundsInv, NextInLog, LastIndex
  <2>4. ASSUME NEW i \in 1..Len(leader')
        PROVE  (i \in 1..Len(leader) /\ leader'[i] = leader[i])
                 \/ (i = Len(leader) + 1 /\ leader'[i].term = Term)
    BY <1>0, <2>1, <2>2, SMT
  <2>5. /\ \A i \in 1..Len(leader) : leader[i].term \in 1..Term
        /\ \A i, j \in 1..Len(leader) : i <= j => leader[i].term <= leader[j].term
        /\ \A j \in 1..Len(before) : before[j].term \in 1..MaxTerm
    BY <1>0 DEF MatchingInv, Ascends
  <2>6. Ascends(leader, Term)'
    <3>1. \A i \in 1..Len(leader') : leader'[i].term \in 1..Term
      BY <1>0, <2>4, <2>5, SMTT(30)
    <3>2. ASSUME NEW i \in 1..Len(leader'), NEW j \in 1..Len(leader'), i <= j
          PROVE  leader'[i].term <= leader'[j].term
      <4>1. CASE j = Len(leader) + 1 /\ leader'[j].term = Term
        BY <1>0, <3>1, <4>1, SMT
      <4>2. CASE j \in 1..Len(leader) /\ leader'[j] = leader[j]
        <5>1. i \in 1..Len(leader) /\ leader'[i] = leader[i]
          BY <1>0, <2>4, <3>2, <4>2, SMT
        <5> QED BY <2>5, <3>2, <4>2, <5>1
      <4> QED BY <2>4, <4>1, <4>2
    <3>3. Term' = Term
      BY DEF Term
    <3> QED BY <3>1, <3>2, <3>3 DEF Ascends
  <2>7. Ascends(before, MaxTerm)'
    BY <1>0, <2>1 DEF MatchingInv, Ascends
  <2>8. ASSUME NEW i \in 1..Len(leader'), i <= Len(before),
               leader'[i].term = before[i].term, NEW j \in 1..i
        PROVE  leader'[j] = before[j]
    <3>1. i \in 1..Len(before)
      BY <1>0, <2>2, <2>8, SMT
    <3>2. i \in 1..Len(leader) /\ leader'[i] = leader[i]
      <4>1. before[i].term \in 1..MaxTerm
        BY <2>5, <3>1
      <4>2. before[i].term # Term
        BY <1>0, <4>1, SMT
      <4> QED BY <2>4, <2>8, <4>2
    <3>3. j \in 1..Len(leader)
      BY <1>0, <3>2, SMT
    <3>4. leader[j] = before[j]
      BY <1>0, <2>8, <3>2 DEF MatchingInv
    <3> QED BY <2>2, <3>3, <3>4
  <2>9. ASSUME NEW i \in 1..Len(leader'), NEW j \in 1..Len(before),
               leader'[i].term = before[j].term
        PROVE  \E k \in 1..j : leader'[k].term = before[j].term
    <3>1. i \in 1..Len(leader) /\ leader'[i] = leader[i]
      BY <1>0, <2>4, <2>5, <2>9, SMTT(30)
    <3>2. PICK k \in 1..j : leader[k].term = before[j].term
      BY <1>0, <2>9, <3>1 DEF MatchingInv
    <3>3. CASE k \in 1..Len(leader)
      BY <2>2, <3>2, <3>3
    <3>4. CASE ~(k \in 1..Len(leader))
      BY <2>2, <2>9, <3>1, <3>4, <1>0, SMT
    <3> QED BY <3>3, <3>4
  <2>10. MatchingInv'
    BY <2>1, <2>6, <2>7, <2>8, <2>9 DEF MatchingInv
  <2>11. RepairIsExact'
    <3>1. CASE follower = before
      BY <2>1, <3>1 DEF RepairIsExact
    <3>2. CASE IsPrefix(follower, leader) /\ ~IsPrefix(follower, before)
      <4>1. /\ Len(follower) <= Len(leader)
            /\ \A i \in 1..Len(follower) : follower[i] = leader[i]
        BY <1>0, <3>2, PrefixSlots
      <4>2. /\ Len(follower) <= Len(leader')
            /\ \A i \in 1..Len(follower) : follower[i] = leader'[i]
        BY <1>0, <2>2, <4>1, SMT
      <4>3. IsPrefix(follower, leader')
        BY <1>0, <2>2, <4>2, SlotsPrefix
      <4> QED BY <2>1, <3>2, <4>3 DEF RepairIsExact
    <3> QED BY <1>0, <3>1, <3>2 DEF RepairIsExact
  <2> QED BY <2>3, <2>10, <2>11 DEF RepairInv
<1>2. InLog(Request) /\ Request.prev = next - 1 /\ Request.last = Len(leader)
  <2>1. Request.prev = next - 1 /\ Request.last = Len(leader)
    BY DEF Request, LastIndex
  <2>2. /\ next - 1 \in Nat /\ next - 1 <= Len(leader)
    BY <1>0, SMT
  <2> QED BY <1>0, <2>1, <2>2, SMT DEF InLog, LastIndex
<1>3. ASSUME leader' = leader, before' = before,
             \/ follower' = follower
             \/ /\ follower' \in Slots
                /\ IsPrefix(follower', leader) /\ ~IsPrefix(follower', before),
             next' \in 1..(Len(leader) + 1),
             \A m \in delayed' : InLog(m),
             \A h \in hints' : h.term \in Nat /\ h.index \in 1..Len(leader)
      PROVE  RepairInv'
  <2>1. BoundsInv'
    BY <1>0, <1>3 DEF BoundsInv, NextInLog, InLog, LastIndex
  <2>2. MatchingInv'
    BY <1>0, <1>3 DEF MatchingInv, Ascends, Term
  <2>3. RepairIsExact'
    BY <1>0, <1>3 DEF RepairIsExact
  <2> QED BY <2>1, <2>2, <2>3 DEF RepairInv
<1>4. /\ \A h \in hints : h.term \in Nat /\ h.index \in 1..Len(leader)
      /\ \A m \in delayed : InLog(m)
  BY <1>0 DEF BoundsInv, LastIndex
<1>5. ASSUME NEW m, InLog(m), Success(m.last) PROVE next' \in 1..(Len(leader) + 1)
  <2>1. PICK k : k = m.last
    OBVIOUS
  <2>2. k \in Nat /\ k <= Len(leader) /\ next' = Max({next, k + 1})
    BY <1>5, <2>1 DEF InLog, LastIndex, Success
  <2>3. next \in Nat /\ k + 1 \in Nat
    BY <1>0, <2>2, SMT
  <2>4. next' = IF next >= k + 1 THEN next ELSE k + 1
    BY <2>2, <2>3, MaxOfTwo
  <2> QED BY <1>0, <2>2, <2>3, <2>4, SMT
<1>6. ASSUME NEW m, InLog(m), ~Accepts(m), NEW h, h = ConflictHint(follower, m.prev)
      PROVE  h.term \in Nat /\ h.index \in 1..Len(leader)
  <2>1. PICK k : k = m.prev
    OBVIOUS
  <2>2. k \in Nat /\ k <= Len(leader)
    <3>1. k \in Nat /\ m.last \in Nat /\ k <= m.last /\ m.last <= Len(leader)
      BY <1>6, <2>1 DEF InLog, LastIndex
    <3> QED BY <1>0, <3>1, SMT
  <2>3. ~PrevMatches(follower, k, TermAt(leader, k)) /\ h = ConflictHint(follower, k)
    BY <1>6, <2>1 DEF Accepts
  <2>4. h.term \in Nat /\ h.index \in 1..k
    BY <1>0, <2>2, <2>3, RefusalHint
  <2>5. h.index \in 1..Len(leader)
    BY <1>0, <2>2, <2>4, SMT
  <2> QED BY <2>4, <2>5
<1>7. CASE Accepted
  <2>1. /\ Accepts(Request) /\ Success(Request.last)
        /\ follower' = AppendNew(follower, Request.prev, Entries(Request))
        /\ leader' = leader /\ before' = before /\ hints' = hints /\ delayed' = delayed
    BY <1>7 DEF Accepted
  <2>2. /\ follower' \in Slots
        /\ \/ follower' = follower
           \/ IsPrefix(follower', leader) /\ ~IsPrefix(follower', before)
    BY <1>0, <1>2, <2>1, AcceptedIsExact
  <2> QED BY <1>2, <1>3, <1>4, <1>5, <2>1, <2>2
<1>8. CASE Refused
  <2> DEFINE h == ConflictHint(follower, Request.prev)
  <2>1. /\ ~Accepts(Request) /\ hints' = hints \cup {h}
        /\ next' = NextIndexAfterConflict(leader, next, h.term, h.index)
        /\ leader' = leader /\ follower' = follower /\ before' = before
        /\ delayed' = delayed
    BY <1>8 DEF Refused
  <2>2. h.term \in Nat /\ h.index \in 1..Len(leader)
    BY <1>2, <1>6, <2>1
  <2> HIDE DEF h
  <2>3. next' \in 1..(Len(leader) + 1)
    BY <1>0, <2>1, <2>2, HintLeadsIntoLog DEF LastIndex
  <2> QED BY <1>3, <1>4, <2>1, <2>2, <2>3
<1>9. CASE Delay
  <2>1. /\ delayed' = delayed \cup {Request} /\ hints' = hints /\ next' = next
        /\ leader' = leader /\ follower' = follower /\ before' = before
    BY <1>9 DEF Delay, leaderVars
  <2> QED BY <1>0, <1>2, <1>3, <1>4, <2>1
<1>10. ASSUME NEW m \in delayed, LateRequest(m) PROVE RepairInv'
  <2>1. InLog(m) /\ leader' = leader /\ before' = before /\ \A x \in delayed' : InLog(x)
    BY <1>4, <1>10 DEF LateRequest
  <2>2. CASE /\ Accepts(m) /\ follower' = AppendNew(follower, m.prev, Entries(m))
             /\ hints' = hints
             /\ Success(m.last) \/ next' = next
    <3>1. /\ follower' \in Slots
          /\ \/ follower' = follower
             \/ IsPrefix(follower', leader) /\ ~IsPrefix(follower', before)
      BY <1>0, <2>1, <2>2, AcceptedIsExact
    <3>2. next' \in 1..(Len(leader) + 1)
      BY <1>0, <1>5, <2>1, <2>2
    <3> QED BY <1>3, <1>4, <2>1, <2>2, <3>1, <3>2
  <2>3. CASE /\ ~Accepts(m) /\ hints' = hints \cup {ConflictHint(follower, m.prev)}
             /\ follower' = follower /\ next' = next
    <3>1. PICK h : h = ConflictHint(follower, m.prev)
      OBVIOUS
    <3>2. h.term \in Nat /\ h.index \in 1..Len(leader)
      BY <1>6, <2>1, <2>3, <3>1
    <3>3. hints' = hints \cup {h}
      BY <2>3, <3>1
    <3> QED BY <1>0, <1>3, <1>4, <2>1, <2>3, <3>2, <3>3
  <2> QED BY <1>10, <2>2, <2>3 DEF LateRequest, leaderVars
<1>11. CASE LateRefusal
  <2>1. PICK h \in hints : next' = NextIndexAfterConflict(leader, next, h.term, h.index)
    BY <1>11 DEF LateRefusal
  <2>2. next' \in 1..(Len(leader) + 1)
    BY <1>0, <1>4, <2>1, HintLeadsIntoLog DEF LastIndex
  <2> QED BY <1>3, <1>4, <1>11, <2>2 DEF LateRefusal
<1>12. ASSUME NEW p \in Others, AcceptedElsewhere(p) PROVE RepairInv'
  BY <1>0, <1>3, <1>4, <1>12 DEF AcceptedElsewhere
<1>13. CASE UNCHANGED vars
  BY <1>0, <1>3, <1>4, <1>13 DEF vars, leaderVars
<1> QED BY <1>1, <1>7, <1>8, <1>9, <1>10, <1>11, <1>12, <1>13 DEF Next

\* No step takes a shared entry away.
LEMMA SharedStep ==
  ASSUME RepairInv, [Next]_vars,
         NEW i \in 1..Len(follower), i <= Len(leader), follower[i] = leader[i]
  PROVE  i <= Len(follower') /\ follower'[i] = follower[i]
<1>0. BoundsInv /\ MatchingInv /\ RepairIsExact /\ Len(follower) \in Nat
  BY SMT DEF RepairInv, BoundsInv, Slots
<1>1. ASSUME NEW m, InLog(m), Accepts(m),
             follower' = AppendNew(follower, m.prev, Entries(m))
      PROVE  i <= Len(follower') /\ follower'[i] = follower[i]
  BY <1>0, <1>1, AcceptedIsExact
<1>2. ASSUME follower' = follower
      PROVE  i <= Len(follower') /\ follower'[i] = follower[i]
  BY <1>0, <1>2, SMT
<1>3. CASE Accepted
  <2>1. InLog(Request)
    <3>1. /\ Request.prev = next - 1 /\ Request.last = Len(leader)
          /\ next \in 1..(Len(leader) + 1) /\ Len(leader) \in Nat
      BY <1>0, SMT DEF BoundsInv, Slots, NextInLog, Request, LastIndex
    <3> QED BY <3>1, SMT DEF InLog, LastIndex
  <2> QED BY <1>1, <1>3, <2>1 DEF Accepted
<1>4. ASSUME NEW m \in delayed, LateRequest(m)
      PROVE  i <= Len(follower') /\ follower'[i] = follower[i]
  <2>1. InLog(m)
    BY <1>0 DEF BoundsInv
  <2> QED BY <1>1, <1>2, <1>4, <2>1 DEF LateRequest
<1>5. CASE ~Accepted /\ ~(\E m \in delayed : LateRequest(m))
  BY <1>2, <1>5 DEF Next, vars, Submit, Refused, Delay, LateRefusal, AcceptedElsewhere
<1> QED BY <1>3, <1>4, <1>5

\* After a refusal the Leader probes an earlier slot.
LEMMA RefusalStep == RepairInv /\ Refused => next' < next
<1> SUFFICES ASSUME RepairInv, Refused PROVE next' < next
  OBVIOUS
<1> DEFINE h == ConflictHint(follower, next - 1)
           prev == next - 1
           t == h.term
<1>r. Request.prev = prev
  BY DEF Request
<1>0. /\ MatchingInv /\ RepairIsExact
      /\ leader \in Slots /\ follower \in Slots
      /\ Len(leader) \in Nat /\ next \in 1..(Len(leader) + 1)
  BY SMT DEF RepairInv, BoundsInv, Slots, NextInLog, LastIndex
<1>1. /\ ~PrevMatches(follower, prev, TermAt(leader, prev))
      /\ next' = NextIndexAfterConflict(leader, next, t, h.index)
  BY <1>r DEF Refused, Accepts
<1>2. prev \in Nat /\ prev <= Len(leader) /\ prev < next
  BY <1>0, SMT
<1>3. /\ prev > 0 /\ t \in Nat /\ h.index \in 1..prev
      /\ \/ t = 0
         \/ prev \in 1..Len(follower) /\ t = follower[prev].term
            /\ follower[prev].term # TermAt(leader, prev)
  <2> HIDE DEF prev
  <2> QED BY <1>0, <1>1, <1>2, RefusalHint, SMT DEF prev
<1> DEFINE r == NextIndexAfterConflict(leader, next, t, h.index)
<1>4. \/ t > 0 /\ r - 1 \in 1..Len(leader) /\ leader[r - 1].term = t /\ r \in Nat
      \/ r = h.index
  <2>1. h.index \in Nat \ {0}
    BY <1>2, <1>3, SMT
  <2> HIDE DEF h, t
  <2> QED BY <1>0, <1>3, <2>1, NextAfterHint
<1>5. next' = r
  BY <1>1
<1> HIDE DEF r, t, h, prev
<1>6. CASE r = h.index
  BY <1>0, <1>2, <1>3, <1>5, <1>6, SMT
<1>7. CASE t > 0 /\ r - 1 \in 1..Len(leader) /\ leader[r - 1].term = t /\ r \in Nat
  <2>1. /\ prev \in 1..Len(leader) /\ TermAt(leader, prev) = leader[prev].term
        /\ prev \in 1..Len(follower) /\ t = follower[prev].term /\ t # leader[prev].term
    BY <1>0, <1>2, <1>3, <1>7, SMT DEF TermAt
  <2>2. follower = before
    <3>1. ASSUME IsPrefix(follower, leader) PROVE FALSE
      <4>1. follower[prev] = leader[prev]
        BY <1>0, <2>1, <3>1, PrefixSlots
      <4> QED BY <2>1, <4>1
    <3> QED BY <1>0, <3>1 DEF RepairIsExact
  <2>3. ASSUME ~(r - 1 < prev) PROVE FALSE
    <3>1. PICK k \in 1..prev : leader[k].term = t
      BY <1>0, <1>7, <2>1, <2>2 DEF MatchingInv
    <3>2. k \in 1..Len(leader) /\ k <= prev /\ prev <= r - 1
      BY <1>0, <1>2, <1>7, <2>3, <3>1, SMT
    <3>3. leader[k].term <= leader[prev].term /\ leader[prev].term <= leader[r - 1].term
      BY <1>0, <1>7, <2>1, <3>2 DEF MatchingInv, Ascends
    <3>4. leader[prev].term \in Nat
      <4>1. leader[prev] \in Entry({0})
        BY <1>0, <2>1, SMT DEF Slots
      <4> QED BY <4>1 DEF Entry
    <3> QED BY <1>3, <1>7, <2>1, <3>1, <3>3, <3>4, SMTT(30)
  <2>4. next = prev + 1
    BY <1>0, SMT DEF prev
  <2> QED BY <1>2, <1>5, <1>7, <2>3, <2>4, SMT
<1> QED BY <1>4, <1>6, <1>7

-----------------------------------------------------------------------------
(* The commit index *)

Cluster == Others \cup {Peer, Self}

\* What each server has, as advanceCommitIndexLocked collects it.
AllOf(match) ==
  [s \in Cluster |-> IF s = Self THEN LastIndex(leader) ELSE match[s]]

\* The servers of the cluster.
LEMMA ClusterType ==
  /\ IsFiniteSet(Cluster) /\ Cardinality(Cluster) \in Nat /\ Cardinality(Cluster) >= 2
  /\ Self \in Cluster /\ Self \notin Known /\ Cluster = Known \cup {Self}
<1>1. /\ IsFiniteSet(Others) /\ Self # Peer /\ Self \notin Others
  BY RepairAssumption
<1>2. Self \in Cluster /\ Self \notin Known /\ Cluster = Known \cup {Self}
  BY <1>1 DEF Cluster, Known
<1>3. IsFiniteSet({Peer, Self}) /\ Cardinality({Peer, Self}) = 2
  <2>1. /\ IsFiniteSet({Self}) /\ Cardinality({Self}) = 1
    BY FS_Singleton
  <2>2. /\ IsFiniteSet({Self} \cup {Peer})
        /\ Cardinality({Self} \cup {Peer}) = Cardinality({Self}) + 1
    BY <1>1, <2>1, FS_AddElement
  <2>3. {Peer, Self} = {Self} \cup {Peer}
    OBVIOUS
  <2> QED BY <2>1, <2>2, <2>3, SMT
<1>4. IsFiniteSet(Cluster)
  BY <1>1, <1>3, FS_Union DEF Cluster
<1>5. Cardinality({Peer, Self}) <= Cardinality(Cluster)
  <2>1. {Peer, Self} \subseteq Cluster
    BY DEF Cluster
  <2> QED BY <1>4, <2>1, FS_Subset
<1>6. Cardinality(Cluster) \in Nat
  BY <1>4, FS_CardinalityType
<1> QED BY <1>2, <1>3, <1>4, <1>5, <1>6

\* Who has slot i.
Held(match, i) == {p \in Known : match[p] >= i} \cup {Self}

\* The value in the middle is the highest slot that more than half have.
LEMMA MiddleIsHighest ==
  ASSUME leader \in Slots, NEW match \in [Known -> Nat],
         \A p \in Known : match[p] <= Len(leader),
         NEW x, x = SortedDescAt(AllOf(match), Cardinality(DOMAIN AllOf(match)) \div 2)
  PROVE  /\ x \in 0..Len(leader)
         /\ \A i \in 1..Len(leader) :
              2 * Cardinality(Held(match, i)) > Cardinality(Cluster) <=> i <= x
<1> DEFINE f == AllOf(match)
           N == Cardinality(Cluster)
           k == N \div 2
           above == {s \in Cluster : f[s] > x}
           from == {s \in Cluster : f[s] >= x}
<1>1. Len(leader) \in Nat
  BY SMT DEF Slots
<1>2. /\ f \in [Cluster -> Nat] /\ \A s \in Cluster : f[s] <= Len(leader)
      /\ f[Self] = Len(leader) /\ \A p \in Known : f[p] = match[p]
  BY <1>1, ClusterType, SMT DEF AllOf, LastIndex
<1> HIDE DEF f
<1>3. IsFiniteSet(Cluster) /\ N \in Nat /\ N >= 2 /\ Cluster # {}
  BY ClusterType
<1>4. x \in Nat /\ Cardinality(above) <= k /\ Cardinality(from) > k /\ x <= Len(leader)
  <2>1. IsMiddle(Cluster, f, x)
    BY <1>1, <1>2, <1>3, SortedMiddle DEF f
  <2>2. x \in {f[s] : s \in Cluster} /\ Cardinality(above) <= k /\ Cardinality(from) > k
    BY <2>1, Zenon DEF IsMiddle
  <2> HIDE DEF above, from, k
  <2> QED BY <1>1, <1>2, <2>2
<1>5. x \in 0..Len(leader)
  BY <1>1, <1>4, SMT
<1>6. /\ IsFiniteSet(above) /\ IsFiniteSet(from)
      /\ Cardinality(above) \in Nat /\ Cardinality(from) \in Nat
  <2>1. above \subseteq Cluster /\ from \subseteq Cluster
    OBVIOUS
  <2> HIDE DEF above, from
  <2> QED BY <1>3, <2>1, FS_Subset, FS_CardinalityType
<1>7. ASSUME NEW i \in 1..Len(leader)
      PROVE  2 * Cardinality(Held(match, i)) > N <=> i <= x
  <2> DEFINE H == Held(match, i)
  <2>1. H = {s \in Cluster : f[s] >= i}
    BY <1>1, <1>2, ClusterType, SMT DEF Held
  <2>2. IsFiniteSet(H) /\ Cardinality(H) \in Nat
    <3>1. H \subseteq Cluster
      BY <2>1
    <3> HIDE DEF H
    <3> QED BY <1>3, <3>1, FS_Subset, FS_CardinalityType
  <2>3. CASE i <= x
    <3>1. from \subseteq H
      BY <1>2, <1>4, <2>1, <2>3, SMT
    <3> HIDE DEF from, H
    <3>2. Cardinality(from) <= Cardinality(H)
      BY <2>2, <3>1, FS_Subset
    <3> HIDE DEF N
    <3>3. Cardinality(H) > N \div 2
      BY <1>3, <1>4, <1>6, <2>2, <3>2, SMT
    <3>4. 2 * Cardinality(H) > N
      BY <1>3, <2>2, <3>3, SMT
    <3> QED BY <2>3, <3>4 DEF H, N
  <2>4. CASE ~(i <= x)
    <3>1. H \subseteq above
      BY <1>2, <1>4, <2>1, <2>4, SMT
    <3> HIDE DEF above, H
    <3>2. Cardinality(H) <= Cardinality(above)
      BY <1>6, <3>1, FS_Subset
    <3> HIDE DEF N
    <3>3. Cardinality(H) <= N \div 2
      BY <1>3, <1>4, <1>6, <2>2, <3>2, SMT
    <3>4. ~(2 * Cardinality(H) > N)
      BY <1>3, <2>2, <3>3, SMT
    <3> QED BY <2>4, <3>4 DEF H, N
  <2> QED BY <2>3, <2>4
<1> QED BY <1>5, <1>7

\* The slots that CommitIsHighest is about.
CommitSlots == {i \in 1..LastIndex(leader) : Committable(i)}

\* c is the highest of the slots S, or what was known when there is none.
IsHighest(c, S) == (S = {} /\ c = settled) \/ (c \in S /\ \A y \in S : y <= c)

\* CommitIsHighest in these words.
LEMMA HighestSlot ==
  ASSUME NEW n \in Nat, NEW S, S \subseteq 1..n, NEW c
  PROVE  IsHighest(c, S) <=> c = IF S = {} THEN settled ELSE Max(S)
<1>1. CASE S = {}
  BY <1>1 DEF IsHighest
<1>2. CASE S # {}
  <2>1. Max(S) \in S /\ \A y \in S : Max(S) >= y
    BY <1>2, MaxOfSlots
  <2>2. PICK m : m = Max(S)
    OBVIOUS
  <2>3. m \in S /\ \A y \in S : m >= y
    BY <2>1, <2>2, Zenon
  <2>4. \A y \in S : y \in Nat
    BY SMT
  <2>5. ASSUME IsHighest(c, S) PROVE c = m
    <3>1. c \in S /\ m <= c
      BY <1>2, <2>3, <2>5, Zenon DEF IsHighest
    <3>2. m >= c
      BY <2>3, <3>1
    <3> QED BY <2>3, <2>4, <3>1, <3>2, SMT
  <2>6. ASSUME c = m PROVE IsHighest(c, S)
    <3>1. \A y \in S : y <= m
      BY <2>3, <2>4
    <3> QED BY <2>3, <2>6, <3>1 DEF IsHighest
  <2> QED BY <1>2, <2>2, <2>5, <2>6
<1> QED BY <1>1, <1>2

\* An acknowledgement moves the commit index to the highest slot again.
LEMMA AckStep ==
  ASSUME leader \in Slots, Ascends(leader, Term), AckBound, CommitIsHighest,
         NEW p \in Known, NEW k \in 1..Len(leader), Acknowledged(p, k),
         leader' = leader, settled' = settled
  PROVE  AckBound' /\ CommitIsHighest'
<1> DEFINE match == [matchIndex EXCEPT ![p] = Max({@, k})]
           x == SortedDescAt(AllOf(match), Cardinality(DOMAIN AllOf(match)) \div 2)
<1>0. Len(leader) \in Nat /\ Term \in Nat
  BY RepairAssumption, SMT DEF Slots, Term
<1>1. /\ matchIndex \in [Known -> Nat] /\ commitIndex \in Nat
      /\ \A q \in Known : matchIndex[q] <= Len(leader)
      /\ settled \in 0..Len(leader)
      /\ \A i \in 1..Len(leader) : leader[i].term = Term => i > settled
  BY DEF AckBound, LastIndex
<1>2. /\ match \in [Known -> Nat] /\ \A q \in Known : match[q] <= Len(leader)
      /\ \A q \in Known : matchIndex[q] <= match[q]
  <2>1. PICK m : m = Max({matchIndex[p], k})
    OBVIOUS
  <2>2. matchIndex[p] \in Nat /\ matchIndex[p] <= Len(leader) /\ k \in Nat
    BY <1>0, <1>1, SMT
  <2>3. m \in Nat /\ m = IF matchIndex[p] >= k THEN matchIndex[p] ELSE k
    BY <2>1, <2>2, MaxOfTwo
  <2>4. m <= Len(leader) /\ matchIndex[p] <= m
    BY <1>0, <2>2, <2>3, SMT
  <2>5. match = [matchIndex EXCEPT ![p] = m]
    BY <2>1
  <2> HIDE DEF match
  <2> QED BY <1>1, <2>3, <2>4, <2>5, SMT
<1>3. matchIndex' = match
  BY DEF Acknowledged
<1>4. commitIndex' = LeaderCommitIndex(leader, Term, commitIndex, AllOf(match))
  BY DEF Acknowledged, AllOf, Cluster
<1> HIDE DEF match
<1>5. /\ x \in 0..Len(leader)
      /\ \A i \in 1..Len(leader) :
           2 * Cardinality(Held(match, i)) > Cardinality(Cluster) <=> i <= x
  <2> HIDE DEF x
  <2>1. x = SortedDescAt(AllOf(match), Cardinality(DOMAIN AllOf(match)) \div 2)
    BY DEF x
  <2> QED BY <1>2, <2>1, MiddleIsHighest
<1>6. commitIndex' = IF x > commitIndex /\ Contains(leader, x) /\ TermAt(leader, x) = Term
                     THEN x ELSE commitIndex
  BY <1>4, Zenon DEF LeaderCommitIndex
<1> HIDE DEF x
<1>7. x \in Nat /\ Contains(leader, x)
  BY <1>0, <1>5, SMT DEF Contains
<1>8. CommitSlots' = {i \in 1..Len(leader) : leader[i].term = Term /\ i <= x}
  <2>1. \A i : Holders(i)' = Held(match, i)
    BY <1>3 DEF Holders, Held, Known
  <2>2. ASSUME NEW i \in 1..Len(leader)
        PROVE  Committable(i)' <=> leader[i].term = Term /\ i <= x
    <3>1. Committable(i)' <=> /\ leader[i].term = Term
                              /\ 2 * Cardinality(Held(match, i)) > Cardinality(Cluster)
      BY <2>1 DEF Committable, Cluster, Term
    <3> QED BY <1>5, <3>1
  <2> QED BY <2>2 DEF CommitSlots, LastIndex
<1>9. CommitSlots \subseteq CommitSlots'
  <2>1. ASSUME NEW i \in CommitSlots PROVE i \in CommitSlots'
    <3>1. /\ i \in 1..Len(leader) /\ leader[i].term = Term
          /\ 2 * Cardinality(Held(matchIndex, i)) > Cardinality(Cluster)
      BY <2>1 DEF CommitSlots, Committable, Holders, Held, Known, Cluster, LastIndex
    <3>2. Held(matchIndex, i) \subseteq Held(match, i) /\ Held(match, i) \subseteq Cluster
      BY <1>0, <1>1, <1>2, <3>1, ClusterType, SMT DEF Held
    <3>3. /\ IsFiniteSet(Held(match, i)) /\ IsFiniteSet(Held(matchIndex, i))
          /\ Cardinality(Held(match, i)) \in Nat /\ Cardinality(Held(matchIndex, i)) \in Nat
      BY <3>2, ClusterType, FS_Subset, FS_CardinalityType
    <3>4. Cardinality(Held(matchIndex, i)) <= Cardinality(Held(match, i))
      BY <3>2, <3>3, FS_Subset
    <3>5. 2 * Cardinality(Held(match, i)) > Cardinality(Cluster)
      BY <3>1, <3>3, <3>4, ClusterType, SMT
    <3>6. i <= x
      BY <1>5, <3>1, <3>5
    <3> QED BY <1>8, <3>1, <3>6
  <2> QED BY <2>1
<1>10. IsHighest(commitIndex, CommitSlots)
  <2>1. CommitSlots \subseteq 1..Len(leader)
    BY DEF CommitSlots, LastIndex
  <2>2. commitIndex = IF CommitSlots = {} THEN settled ELSE Max(CommitSlots)
    BY Zenon DEF CommitIsHighest, CommitSlots
  <2> QED BY <1>0, <2>1, <2>2, HighestSlot
<1>11. \A i \in CommitSlots' : i \in 1..Len(leader) /\ leader[i].term = Term /\ i <= x
  BY <1>8
<1>12. \A i \in 1..Len(leader) : leader[i].term = Term /\ i <= x => i \in CommitSlots'
  BY <1>8
<1>13. IsHighest(commitIndex', CommitSlots')
  <2>1. CASE x > commitIndex /\ TermAt(leader, x) = Term
    <3>1. commitIndex' = x
      BY <1>6, <1>7, <2>1
    <3>2. x \in 1..Len(leader)
      BY <1>0, <1>1, <1>5, <2>1, SMT
    <3>3. x \in CommitSlots'
      BY <1>12, <1>7, <2>1, <3>2, SMT DEF TermAt
    <3> QED BY <1>11, <3>1, <3>3 DEF IsHighest
  <2>2. CASE ~(x > commitIndex)
    <3>1. commitIndex' = commitIndex /\ x <= commitIndex
      BY <1>1, <1>6, <1>7, <2>2, SMT
    <3>2. CASE CommitSlots = {} /\ commitIndex = settled
      <4>1. ASSUME NEW i \in CommitSlots' PROVE FALSE
        <5>1. i \in 1..Len(leader) /\ i <= x /\ i > settled
          BY <1>1, <1>11
        <5> QED BY <1>0, <1>1, <1>7, <3>1, <3>2, <5>1, SMT
      <4> QED BY <3>1, <3>2, <4>1 DEF IsHighest
    <3>3. CASE commitIndex \in CommitSlots
      <4>1. commitIndex \in CommitSlots'
        BY <1>9, <3>3
      <4>2. \A y \in CommitSlots' : y <= commitIndex
        BY <1>1, <1>7, <1>11, <3>1, SMT
      <4> QED BY <3>1, <4>1, <4>2 DEF IsHighest
    <3> QED BY <1>10, <3>2, <3>3 DEF IsHighest
  <2>3. CASE x > commitIndex /\ TermAt(leader, x) # Term
    <3>1. commitIndex' = commitIndex
      BY <1>6, <2>3
    <3>2. x \in 1..Len(leader) /\ leader[x].term # Term
      BY <1>0, <1>1, <1>5, <2>3, SMT DEF TermAt
    <3>3. \A i \in CommitSlots' : FALSE
      <4> TAKE i \in CommitSlots'
      <4>1. i \in 1..Len(leader) /\ leader[i].term = Term /\ i <= x
        BY <1>11
      <4>2. leader[i].term <= leader[x].term /\ leader[x].term \in 1..Term
        BY <3>2, <4>1 DEF Ascends
      <4> QED BY <1>0, <3>2, <4>1, <4>2, SMT
    <3>4. CommitSlots' = {} /\ CommitSlots = {}
      BY <1>9, <3>3
    <3>5. commitIndex = settled
      BY <1>10, <3>4 DEF IsHighest
    <3> QED BY <3>1, <3>4, <3>5 DEF IsHighest
  <2> QED BY <2>1, <2>2, <2>3
<1>14. CommitIsHighest'
  <2>1. CommitSlots' \subseteq 1..Len(leader)
    BY <1>11
  <2>2. commitIndex' = IF CommitSlots' = {} THEN settled ELSE Max(CommitSlots')
    BY <1>0, <1>13, <2>1, HighestSlot
  <2> QED BY <2>2, Zenon DEF CommitIsHighest, CommitSlots
<1>15. AckBound'
  BY <1>0, <1>1, <1>2, <1>3, <1>6, <1>7 DEF AckBound, LastIndex, Term
<1> QED BY <1>14, <1>15

\* Nothing of the Leader's term is there to commit at first.
LEMMA InitCommit == Init => AckBound /\ CommitIsHighest
<1> SUFFICES ASSUME Init PROVE AckBound /\ CommitIsHighest
  OBVIOUS
<1>0. MaxTerm \in Nat /\ Term = MaxTerm + 1
  BY RepairAssumption DEF Term
<1>1. leader \in Slots /\ Ascends(leader, MaxTerm)
  BY LogsType DEF Init
<1>2. Len(leader) \in Nat
  BY <1>1, SMT DEF Slots
<1>3. \A i \in 1..Len(leader) : leader[i].term # Term
  BY <1>0, <1>1, SMT DEF Ascends
<1>4. AckBound
  <2>1. /\ matchIndex \in [Known -> Nat] /\ commitIndex \in Nat
        /\ \A p \in Known : matchIndex[p] <= Len(leader)
        /\ settled \in 0..Len(leader)
    BY <1>2, SMT DEF Init, Known, LastIndex
  <2> QED BY <1>3, <2>1 DEF AckBound, LastIndex
<1>5. CommitSlots = {}
  BY <1>3 DEF CommitSlots, Committable, LastIndex
<1>6. commitIndex = settled
  BY DEF Init
<1> QED BY <1>4, <1>5, <1>6, Zenon DEF CommitIsHighest, CommitSlots

\* A new entry is on the Leader only, so it is not committed yet.
LEMMA SubmitCommit ==
  ASSUME leader \in Slots, AckBound, CommitIsHighest, Submit
  PROVE  AckBound' /\ CommitIsHighest'
<1> DEFINE x == [term |-> Term, index |-> Len(leader) + 1, command |-> 0]
<1>0. Len(leader) \in Nat /\ Term \in Nat
  BY RepairAssumption, SMT DEF Slots, Term
<1>1. /\ leader' = Append(leader, x) /\ x \in Entry({0})
      /\ matchIndex' = matchIndex /\ commitIndex' = commitIndex /\ settled' = settled
  BY <1>0, SMT DEF Submit, Entry, leaderVars
<1> HIDE DEF x
<1>2. /\ Len(leader') = Len(leader) + 1
      /\ \A i \in 1..Len(leader) : leader'[i] = leader[i]
  BY <1>1, SMT DEF Slots
<1>3. /\ matchIndex \in [Known -> Nat] /\ commitIndex \in Nat
      /\ \A q \in Known : matchIndex[q] <= Len(leader)
      /\ settled \in 0..Len(leader)
      /\ \A i \in 1..Len(leader) : leader[i].term = Term => i > settled
  BY DEF AckBound, LastIndex
<1>4. AckBound'
  <2>1. /\ \A q \in Known : matchIndex[q] <= Len(leader')
        /\ settled \in 0..Len(leader')
    BY <1>0, <1>2, <1>3, SMT
  <2>2. ASSUME NEW i \in 1..Len(leader'), leader'[i].term = Term PROVE i > settled
    <3>1. CASE i \in 1..Len(leader)
      BY <1>2, <1>3, <2>2, <3>1
    <3>2. CASE i = Len(leader) + 1
      BY <1>0, <1>3, <3>2, SMT
    <3> QED BY <1>0, <1>2, <3>1, <3>2, SMT
  <2> QED BY <1>1, <1>3, <2>1, <2>2 DEF AckBound, LastIndex, Term
<1>5. \A i : Holders(i)' = Held(matchIndex, i) /\ Holders(i) = Held(matchIndex, i)
  BY <1>1 DEF Holders, Held, Known
<1>6. \A i \in 1..Len(leader) : Committable(i)' <=> Committable(i)
  BY <1>2, <1>5 DEF Committable, Term
<1>7. PICK k \in Nat : k = Len(leader) + 1
  BY <1>0, SMT
<1>8. ~Committable(k)'
  <2>1. \A q \in Known : ~(matchIndex[q] >= k)
    BY <1>0, <1>3, <1>7, SMT
  <2>2. Held(matchIndex, k) = {Self}
    BY <2>1 DEF Held
  <2>3. Cardinality(Held(matchIndex, k)) = 1
    BY <2>2, FS_Singleton
  <2>4. Holders(k)' = Held(matchIndex, k)
    BY <1>5
  <2>5. ~(2 * 1 > Cardinality(Cluster))
    BY ClusterType, SMT
  <2>6. ~(2 * Cardinality(Holders(k)') > Cardinality(Cluster))
    BY <2>3, <2>4, <2>5
  <2> QED BY <2>6 DEF Committable, Cluster
<1>9. CommitSlots' = CommitSlots
  <2>1. \A i : i \in 1..Len(leader') <=> i \in 1..Len(leader) \/ i = k
    BY <1>0, <1>2, <1>7, SMT
  <2> QED BY <1>6, <1>8, <2>1 DEF CommitSlots, LastIndex
<1>10. commitIndex' = IF CommitSlots' = {} THEN settled ELSE Max(CommitSlots')
  <2>1. commitIndex = IF CommitSlots = {} THEN settled ELSE Max(CommitSlots)
    BY Zenon DEF CommitIsHighest, CommitSlots
  <2> QED BY <1>1, <1>9, <2>1
<1>11. CommitIsHighest'
  BY <1>1, <1>10, Zenon DEF CommitIsHighest, CommitSlots
<1> QED BY <1>4, <1>11

\* Every step leaves the commit index at the highest slot.
LEMMA NextCommit ==
  RepairInv /\ AckBound /\ CommitIsHighest /\ [Next]_vars => AckBound' /\ CommitIsHighest'
<1> SUFFICES ASSUME RepairInv, AckBound, CommitIsHighest, [Next]_vars
             PROVE  AckBound' /\ CommitIsHighest'
  OBVIOUS
<1>0. /\ leader \in Slots /\ Ascends(leader, Term) /\ Len(leader) \in Nat
      /\ next \in 1..(Len(leader) + 1)
  BY SMT DEF RepairInv, BoundsInv, MatchingInv, Slots, NextInLog, LastIndex
<1>1. CASE Submit
  BY <1>0, <1>1, SubmitCommit
<1>2. ASSUME NEW m, InLog(m), Entries(m) # <<>>, Success(m.last),
             leader' = leader, settled' = settled
      PROVE  AckBound' /\ CommitIsHighest'
  <2>1. Acknowledged(Peer, m.last) /\ Peer \in Known
    BY <1>2 DEF Success, Known
  <2>2. m.last \in 1..Len(leader)
    <3>1. Entries(m) \in Slots /\ Len(Entries(m)) = m.last - m.prev
      BY <1>2, SentEntries DEF RepairInv
    <3>2. ASSUME NEW es \in Seq(Entry({0})), es # <<>> PROVE Len(es) > 0
      BY <3>2, SMT
    <3>3. m.last - m.prev > 0
      BY <1>2, <3>1, <3>2 DEF Slots
    <3>4. m.prev \in Nat /\ m.last \in Nat /\ m.last <= Len(leader)
      BY <1>2 DEF InLog, LastIndex
    <3> QED BY <1>0, <3>3, <3>4, SMT
  <2> QED BY <1>0, <1>2, <2>1, <2>2, AckStep
<1>3. ASSUME leader' = leader, matchIndex' = matchIndex, commitIndex' = commitIndex,
             settled' = settled
      PROVE  AckBound' /\ CommitIsHighest'
  <2>1. AckBound'
    BY <1>3 DEF AckBound, LastIndex, Term
  <2>2. \A i : Committable(i)' <=> Committable(i)
    BY <1>3 DEF Committable, Holders, Term
  <2>3. CommitSlots' = CommitSlots
    BY <1>3, <2>2 DEF CommitSlots, LastIndex
  <2>4. commitIndex' = IF CommitSlots' = {} THEN settled ELSE Max(CommitSlots')
    <3>1. commitIndex = IF CommitSlots = {} THEN settled ELSE Max(CommitSlots)
      BY Zenon DEF CommitIsHighest, CommitSlots
    <3> QED BY <1>3, <2>3, <3>1
  <2>5. CommitIsHighest'
    BY <1>3, <2>4, Zenon DEF CommitIsHighest, CommitSlots
  <2> QED BY <2>1, <2>5
<1>4. CASE Accepted
  <2>1. InLog(Request)
    <3>1. Request.prev = next - 1 /\ Request.last = Len(leader)
      BY DEF Request, LastIndex
    <3> QED BY <1>0, <3>1, SMT DEF InLog, LastIndex
  <2> QED BY <1>2, <1>4, <2>1 DEF Accepted
<1>5. CASE Refused
  BY <1>3, <1>5 DEF Refused
<1>6. CASE Delay
  BY <1>3, <1>6 DEF Delay, leaderVars
<1>7. ASSUME NEW m \in delayed, LateRequest(m)
      PROVE  AckBound' /\ CommitIsHighest'
  <2>1. InLog(m)
    BY DEF RepairInv, BoundsInv
  <2>2. /\ leader' = leader /\ settled' = settled
        /\ \/ Entries(m) # <<>> /\ Success(m.last)
           \/ matchIndex' = matchIndex /\ commitIndex' = commitIndex
    BY <1>7 DEF LateRequest, leaderVars
  <2> QED BY <1>2, <1>3, <2>1, <2>2
<1>8. CASE LateRefusal
  BY <1>3, <1>8 DEF LateRefusal
<1>9. ASSUME NEW p \in Others, AcceptedElsewhere(p)
      PROVE  AckBound' /\ CommitIsHighest'
  <2>1. PICK k \in 1..Len(leader) :
          Acknowledged(p, k) /\ leader' = leader /\ settled' = settled
    BY <1>9 DEF AcceptedElsewhere, LastIndex
  <2>2. p \in Known
    BY DEF Known
  <2> QED BY <1>0, <2>1, <2>2, AckStep
<1>10. CASE UNCHANGED vars
  BY <1>3, <1>10 DEF vars, leaderVars
<1> QED BY <1>1, <1>4, <1>5, <1>6, <1>7, <1>8, <1>9, <1>10 DEF Next

-----------------------------------------------------------------------------
(* Theorems *)

\* nextIndex names a slot of the Leader's log or the one after it, whatever
\* answers come late (handleConflictLocked).
THEOREM NextStaysInLog == Spec => []NextInLog
<1>1. RepairInv => NextInLog
  BY DEF RepairInv, BoundsInv
<1> QED BY <1>1, InitRepair, NextRepair, PTL DEF Spec

\* The follower's log is what it was at the start or a part of the Leader's
\* that is new to it, whatever requests arrive late (the truncation in
\* HandleAppendEntries).
THEOREM RepairsAreExact == Spec => []RepairIsExact
<1>1. RepairInv => RepairIsExact
  BY DEF RepairInv
<1> QED BY <1>1, InitRepair, NextRepair, PTL DEF Spec

\* No request takes away an entry the follower shares with the Leader, however
\* late it arrives and however short it is: what has been acknowledged stays
\* (the loop of HandleAppendEntries skips what the log has).
THEOREM SharedIsKept == Spec => SharedStays
<1> DEFINE A == \A i \in 1..Len(follower) :
                  i <= Len(leader) /\ follower[i] = leader[i] =>
                    i <= Len(follower') /\ follower'[i] = follower[i]
<1>1. RepairInv /\ [Next]_vars => [A]_vars
  BY SharedStep
<1> QED BY <1>1, InitRepair, NextRepair, PTL DEF Spec, SharedStays

\* Every refusal makes the Leader probe an earlier slot (the fast rollback of
\* handleConflictLocked).
THEOREM RefusalsBackUp == Spec => RefusalBacksUp
<1>1. RepairInv /\ [Next]_vars => [Refused => next' < next]_vars
  BY RefusalStep
<1> QED BY <1>1, InitRepair, NextRepair, PTL DEF Spec, RefusalBacksUp

\* The commit index is the highest slot with an entry of the Leader's term that
\* more than half of the cluster have, for every size of the cluster
\* (advanceCommitIndexLocked).
THEOREM CommitsAreHighest == Spec => []CommitIsHighest
<1> DEFINE Inv == RepairInv /\ AckBound /\ CommitIsHighest
<1>1. Init => Inv
  BY InitRepair, InitCommit
<1>2. Inv /\ [Next]_vars => Inv'
  BY NextRepair, NextCommit
<1>3. Inv => CommitIsHighest
  OBVIOUS
<1> QED BY <1>1, <1>2, <1>3, PTL DEF Spec
=============================================================================
