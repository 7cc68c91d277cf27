--------------------------- MODULE RaftLogProofs ---------------------------
(***************************************************************************)
(* What the operators of RaftLog return, for logs of any length: the terms *)
(* and slots of a log, what an accepted request leaves of it and adds to   *)
(* it, and the value a Leader takes from its sorted list.                  *)
(***************************************************************************)
EXTENDS RaftLog, FiniteSetTheorems, TLAPS

\* Most leaves are first-order; the ones that need arithmetic cite SMT.
USE ZenonT(30)

-----------------------------------------------------------------------------
(* Numbers *)

\* The larger of two naturals.
LEMMA MaxOfTwo ==
  ASSUME NEW a \in Nat, NEW b \in Nat
  PROVE  /\ Max({a, b}) \in Nat
         /\ Max({a, b}) = IF a >= b THEN a ELSE b
<1> DEFINE P(x) == \A y \in {a, b} : x >= y
<1>1. \E x \in {a, b} : P(x)
  <2>1. CASE a >= b
    BY <2>1, SMT
  <2>2. CASE b >= a
    BY <2>2, SMT
  <2> QED BY <2>1, <2>2, SMT
<1>2. Max({a, b}) \in {a, b} /\ P(Max({a, b}))
  BY <1>1 DEF Max
<1> QED BY <1>2, SMT

\* The smaller of two naturals.
LEMMA MinOfTwo ==
  ASSUME NEW a \in Nat, NEW b \in Nat
  PROVE  /\ Min({a, b}) \in Nat
         /\ Min({a, b}) = IF a <= b THEN a ELSE b
<1> DEFINE P(x) == \A y \in {a, b} : x =< y
<1>1. \E x \in {a, b} : P(x)
  <2>1. CASE a <= b
    BY <2>1, SMT
  <2>2. CASE b <= a
    BY <2>2, SMT
  <2> QED BY <2>1, <2>2, SMT
<1>2. Min({a, b}) \in {a, b} /\ P(Min({a, b}))
  BY <1>1 DEF Min
<1> QED BY <1>2, SMT

\* A nonempty set of naturals has a least element, and Min is it.
LEMMA MinOfNats ==
  ASSUME NEW S, S \subseteq Nat, S # {}
  PROVE  Min(S) \in S /\ \A y \in S : Min(S) <= y
<1> DEFINE R == {ss \in Nat \X Nat : ss[1] < ss[2]}
<1>1. R = OpToRel(<, Nat)
  BY DEF OpToRel
<1>2. IsWellFoundedOn(R, Nat)
  BY <1>1, NatLessThanWellFounded
<1>3. PICK x \in S : \A y \in S : ~(<<y, x>> \in R)
  <2> HIDE DEF R
  <2> QED BY <1>2, WFMin, Zenon
<1>4. \A y \in S : x =< y
  <2> TAKE y \in S
  <2>1. x \in Nat /\ y \in Nat
    OBVIOUS
  <2>2. ~(y < x)
    BY <1>3, <2>1, Zenon
  <2> QED BY <2>1, <2>2, SMT
<1> QED BY <1>4, Zenon DEF Min

\* A nonempty set of slots of a log has a greatest element, and Max is it.
LEMMA MaxOfSlots ==
  ASSUME NEW n \in Nat, NEW S, S \subseteq 1..n, S # {}
  PROVE  Max(S) \in S /\ \A y \in S : Max(S) >= y
<1> DEFINE T == {n - s : s \in S}
<1>1. T \subseteq Nat /\ T # {}
  <2>1. \A s \in S : n - s \in Nat
    BY SMT
  <2>2. PICK s \in S : TRUE
    BY Zenon
  <2>3. n - s \in T
    BY <2>2
  <2> QED BY <2>1, <2>3
<1>2. Min(T) \in T /\ \A y \in T : Min(T) <= y
  BY <1>1, MinOfNats, Zenon
<1>3. PICK x \in S : Min(T) = n - x
  BY <1>2, Zenon
<1>4. \A y \in S : x >= y
  <2> TAKE y \in S
  <2>1. n - x <= n - y
    BY <1>2, <1>3
  <2> QED BY <2>1, SMT
<1> QED BY <1>4, Zenon DEF Max

-----------------------------------------------------------------------------
(* Logs are sequences of entries with some set of commands C. *)

\* TermAt is a term, 0 outside the log.
LEMMA TermAtType ==
  ASSUME NEW C, NEW l \in Seq(Entry(C)), NEW i
  PROVE  /\ TermAt(l, i) \in Nat
         /\ TermAt(l, i) > 0 => i \in 1..Len(l)
<1>1. CASE i \in 1..Len(l)
  <2>1. l[i] \in Entry(C)
    BY <1>1, SMT
  <2> QED BY <1>1, <2>1 DEF TermAt, Entry
<1>2. CASE i \notin 1..Len(l)
  BY <1>2, SMT DEF TermAt
<1> QED BY <1>1, <1>2

\* Any piece of a log is a log.
LEMMA SubSeqType ==
  ASSUME NEW S, NEW s \in Seq(S), NEW m \in Nat \ {0}, NEW n \in Nat, n <= Len(s)
  PROVE  /\ SubSeq(s, m, n) \in Seq(S)
         /\ Len(SubSeq(s, m, n)) = IF m <= n THEN n - m + 1 ELSE 0
         /\ \A i \in 1..(n - m + 1) : SubSeq(s, m, n)[i] = s[m + i - 1]
<1>1. \A i \in m..n : s[i] \in S
  BY SMT
<1> QED BY <1>1, SMT

\* A log after a log is a log.
LEMMA JoinType ==
  ASSUME NEW S, NEW s \in Seq(S), NEW r \in Seq(S)
  PROVE  /\ s \o r \in Seq(S) /\ Len(s \o r) = Len(s) + Len(r)
         /\ \A i \in 1..(Len(s) + Len(r)) :
              (s \o r)[i] = IF i <= Len(s) THEN s[i] ELSE r[i - Len(s)]
BY SMT

\* What HandleAppendEntries appends is a suffix of the request's entries.
LEMMA NewEntriesType ==
  ASSUME NEW C, NEW l \in Seq(Entry(C)), NEW es \in Seq(Entry(C)), NEW prev \in Nat
  PROVE  /\ NewEntries(l, prev, es) \in Seq(Entry(C))
         /\ Len(NewEntries(l, prev, es)) <= Len(es)
<1> DEFINE differs == {i \in 1..Len(es) :
                         \/ ~Contains(l, prev + i)
                         \/ TermAt(l, prev + i) # es[i].term}
<1>1. CASE differs = {}
  BY <1>1, SMT DEF NewEntries
<1>2. CASE differs # {}
  <2>1. NewEntries(l, prev, es) = SubSeq(es, Min(differs), Len(es))
    BY <1>2, Zenon DEF NewEntries
  <2>2. Min(differs) \in 1..Len(es)
    <3>1. differs \subseteq Nat
      BY SMT
    <3>2. Min(differs) \in differs
      BY <3>1, <1>2, MinOfNats, Zenon
    <3> QED BY <3>2
  <2> HIDE DEF differs
  <2> QED BY <2>1, <2>2, SubSeqType, SMT
<1> QED BY <1>1, <1>2

\* The follower's log after an accepted request is a log.
LEMMA AppendNewType ==
  ASSUME NEW C, NEW l \in Seq(Entry(C)), NEW es \in Seq(Entry(C)), NEW prev \in Nat
  PROVE  AppendNew(l, prev, es) \in Seq(Entry(C))
<1> DEFINE new == NewEntries(l, prev, es)
           cut == prev + Len(es) - Len(new)
<1>1. new \in Seq(Entry(C)) /\ cut \in Nat
  BY NewEntriesType, SMT
<1>2. TruncateAfter(l, cut) \in Seq(Entry(C))
  <2> HIDE DEF cut
  <2> QED BY <1>1, SubSeqType, SMT DEF TruncateAfter
<1>3. AppendNew(l, prev, es) \in {l, TruncateAfter(l, cut) \o new}
  BY DEF AppendNew
<1> HIDE DEF new, cut
<1> QED BY <1>1, <1>2, <1>3, JoinType, Zenon

-----------------------------------------------------------------------------
(* Links: an entry, the slot it is at and the term of the entry before it *)

\* The entries l, which follow slot base with an entry of term baseTerm, put
\* e at slot i after an entry of term p.
Link(l, base, baseTerm, i, e, p) ==
  /\ i - base \in 1..Len(l)
  /\ e = l[i - base]
  /\ p = IF i = base + 1 THEN baseTerm ELSE l[i - base - 1].term

\* The slot before a link in a log has the term the link names.
LEMMA LinkInLog ==
  ASSUME NEW C, NEW l \in Seq(Entry(C)), NEW i \in 1..Len(l)
  PROVE  /\ Link(l, 0, 0, i, l[i], TermAt(l, i - 1))
         /\ l[i] \in Entry(C) /\ TermAt(l, i - 1) \in Nat
<1>1. l[i] \in Entry(C) /\ TermAt(l, i - 1) \in Nat
  BY TermAtType, SMT
<1>2. TermAt(l, i - 1) = IF i = 1 THEN 0 ELSE l[i - 1].term
  BY SMT DEF TermAt
<1> QED BY <1>1, <1>2, SMT DEF Link

\* The parts of a link.
LEMMA LinkTypes ==
  ASSUME NEW C, NEW l \in Seq(Entry(C)), NEW base \in Nat, NEW bt \in Nat,
         NEW i \in Nat, NEW e, NEW q, Link(l, base, bt, i, e, q)
  PROVE  e \in Entry(C) /\ e.term \in Nat /\ q \in Nat
<1>1. \A j \in 1..Len(l) : l[j] \in Entry(C)
  BY SMT
<1>2. \A x \in Entry(C) : x.term \in Nat
  BY DEF Entry
<1>3. i # base + 1 => i - base - 1 \in 1..Len(l)
  BY SMT DEF Link
<1> QED BY <1>1, <1>2, <1>3 DEF Link

\* Every entry is part of a link.
LEMMA RequestLink ==
  ASSUME NEW C, NEW es \in Seq(Entry(C)), NEW prev \in Nat, NEW pt \in Nat,
         NEW i \in Nat, i - prev \in 1..Len(es)
  PROVE  \E q \in Nat : Link(es, prev, pt, i, es[i - prev], q)
<1>1. PICK q : Link(es, prev, pt, i, es[i - prev], q)
  BY DEF Link
<1>2. q \in Nat
  BY <1>1, LinkTypes
<1> QED BY <1>1, <1>2

\* The links of a request are links of its sender's log.
LEMMA SentLinks ==
  ASSUME NEW C, NEW l \in Seq(Entry(C)), NEW next \in Nat \ {0},
         NEW i \in Nat, NEW e, NEW p,
         Link(EntriesFrom(l, next), next - 1, TermAt(l, next - 1), i, e, p)
  PROVE  Link(l, 0, 0, i, e, p)
<1> DEFINE es == EntriesFrom(l, next)
<1>1. Len(l) \in Nat
  BY SMT
<1>2. \A j \in next..Len(l) : l[j] \in Entry(C)
  BY <1>1, SMT
<1>3. /\ Len(es) = IF next <= Len(l) THEN Len(l) - next + 1 ELSE 0
      /\ \A j \in 1..Len(es) : es[j] = l[next + j - 1]
  BY <1>1, <1>2, SubSeqType, SMT DEF EntriesFrom
<1>4. /\ i - (next - 1) \in 1..Len(es) /\ e = es[i - (next - 1)]
      /\ p = IF i = (next - 1) + 1 THEN TermAt(l, next - 1)
                                   ELSE es[i - (next - 1) - 1].term
  BY DEF Link
<1> HIDE DEF es
<1>5. /\ i \in 1..Len(l) /\ i >= next /\ next + (i - (next - 1)) - 1 = i
  BY <1>1, <1>3, <1>4, SMT
<1>6. e = l[i]
  BY <1>3, <1>4, <1>5
<1>7. p = IF i = 1 THEN 0 ELSE l[i - 1].term
  <2>1. CASE i = next
    <3>1. p = TermAt(l, i - 1)
      BY <1>4, <2>1, SMT
    <3> QED BY <1>1, <1>5, <3>1, SMT DEF TermAt
  <2>2. CASE i > next
    <3>1. /\ i - (next - 1) - 1 \in 1..Len(es)
          /\ next + (i - (next - 1) - 1) - 1 = i - 1
          /\ i # (next - 1) + 1 /\ i # 1
      BY <1>1, <1>3, <1>4, <1>5, <2>2, SMT
    <3> QED BY <1>3, <1>4, <3>1
  <2> QED BY <1>5, <2>1, <2>2, SMT
<1>8. i - 0 = i /\ 0 + 1 = 1 /\ i - 0 - 1 = i - 1
  BY SMT
<1> QED BY <1>5, <1>6, <1>7, <1>8 DEF Link

\* The links of a log with one more entry.
LEMMA AppendLinks ==
  ASSUME NEW C, NEW l \in Seq(Entry(C)), NEW x \in Entry(C)
  PROVE  /\ Len(Append(l, x)) = Len(l) + 1
         /\ LastTerm(Append(l, x)) = x.term
         /\ \A i \in Nat : \A e, p : Link(Append(l, x), 0, 0, i, e, p) =>
              \/ Link(l, 0, 0, i, e, p)
              \/ i = Len(l) + 1 /\ e = x /\ p = LastTerm(l)
<1> DEFINE r == Append(l, x)
<1>1. /\ Len(l) \in Nat /\ Len(r) = Len(l) + 1 /\ r[Len(l) + 1] = x
      /\ \A i \in 1..Len(l) : r[i] = l[i]
  BY SMT
<1> HIDE DEF r
<1>2. LastTerm(r) = x.term
  BY <1>1, SMT DEF LastTerm, TermAt
<1>3. ASSUME NEW i \in Nat, NEW e, NEW p, Link(r, 0, 0, i, e, p)
      PROVE  \/ Link(l, 0, 0, i, e, p)
             \/ i = Len(l) + 1 /\ e = x /\ p = LastTerm(l)
  <2>1. /\ i \in 1..(Len(l) + 1) /\ e = r[i]
        /\ p = IF i = 1 THEN 0 ELSE r[i - 1].term
    BY <1>1, <1>3, SMT DEF Link
  <2>2. CASE i \in 1..Len(l)
    <3>1. i # 1 => i - 1 \in 1..Len(l)
      BY <1>1, <2>2, SMT
    <3>2. e = l[i] /\ p = IF i = 1 THEN 0 ELSE l[i - 1].term
      BY <1>1, <2>1, <2>2, <3>1
    <3>3. i - 0 = i /\ 0 + 1 = 1 /\ i - 0 - 1 = i - 1
      BY SMT
    <3> QED BY <2>2, <3>2, <3>3 DEF Link
  <2>3. CASE i = Len(l) + 1
    <3>1. e = x
      BY <1>1, <2>1, <2>3
    <3>2. CASE Len(l) = 0
      BY <2>1, <2>3, <3>1, <3>2, SMT DEF LastTerm, TermAt
    <3>3. CASE Len(l) > 0
      <4>1. i # 1 /\ i - 1 = Len(l) /\ Len(l) \in 1..Len(l)
        BY <1>1, <2>3, <3>3, SMT
      <4>2. p = l[Len(l)].term
        BY <1>1, <2>1, <4>1
      <4> QED BY <2>3, <3>1, <4>1, <4>2 DEF LastTerm, TermAt
    <3> QED BY <1>1, <3>2, <3>3, SMT
  <2> QED BY <1>1, <2>1, <2>2, <2>3, SMT
<1> QED BY <1>1, <1>2, <1>3 DEF r

\* Appending keeps links.
LEMMA AppendKeepsLinks ==
  ASSUME NEW C, NEW l \in Seq(Entry(C)), NEW x \in Entry(C),
         NEW i \in Nat, NEW e, NEW p, Link(l, 0, 0, i, e, p)
  PROVE  Link(Append(l, x), 0, 0, i, e, p)
<1> DEFINE r == Append(l, x)
<1>1. /\ Len(l) \in Nat /\ Len(r) = Len(l) + 1
      /\ \A j \in 1..Len(l) : r[j] = l[j]
  BY SMT
<1> HIDE DEF r
<1>2. i - 0 = i /\ 0 + 1 = 1 /\ i - 0 - 1 = i - 1
  BY SMT
<1>3. /\ i \in 1..Len(l) /\ e = l[i]
      /\ p = IF i = 1 THEN 0 ELSE l[i - 1].term
  BY <1>2 DEF Link
<1>4. i \in 1..Len(r) /\ (i # 1 => i - 1 \in 1..Len(l))
  BY <1>1, <1>3, SMT
<1>5. Link(r, 0, 0, i, e, p)
  BY <1>1, <1>2, <1>3, <1>4 DEF Link
<1> QED BY <1>5 DEF r

\* The first entry of a term in a log is a link that starts the term.
LEMMA FirstOfTerm ==
  ASSUME NEW C, NEW l \in Seq(Entry(C)), NEW t \in Nat \ {0},
         FindFirstIndexOfTerm(l, t) > 0
  PROVE  /\ FindFirstIndexOfTerm(l, t) \in 1..Len(l)
         /\ l[FindFirstIndexOfTerm(l, t)].term = t
         /\ TermAt(l, FindFirstIndexOfTerm(l, t) - 1) # t
<1> DEFINE at == {k \in 1..Len(l) : l[k].term = t}
           i == Min(at)
<1>1. at # {} /\ FindFirstIndexOfTerm(l, t) = i
  BY SMT DEF FindFirstIndexOfTerm
<1>2. i \in at /\ \A y \in at : i <= y
  <2>1. at \subseteq Nat
    BY SMT
  <2> HIDE DEF at
  <2> QED BY <1>1, <2>1, MinOfNats, Zenon
<1>3. i \in 1..Len(l) /\ l[i].term = t
  BY <1>2
<1>4. ASSUME i - 1 \in 1..Len(l) PROVE l[i - 1].term # t
  <2>1. i \in Nat /\ ~(i <= i - 1)
    <3> HIDE DEF i
    <3> QED BY <1>3, SMT
  <2>2. i - 1 \notin at
    <3> HIDE DEF at
    <3> QED BY <1>2, <2>1
  <2> HIDE DEF i
  <2> QED BY <1>4, <2>2
<1> HIDE DEF i
<1> QED BY <1>1, <1>3, <1>4 DEF TermAt

\* Slots that are equal make a prefix.
LEMMA PrefixOfSlots ==
  ASSUME NEW C, NEW a \in Seq(Entry(C)), NEW b \in Seq(Entry(C)), NEW k \in Nat,
         k <= Len(a), k <= Len(b), \A j \in 1..k : a[j] = b[j]
  PROVE  IsPrefix(SubSeq(a, 1, k), b)
<1>1. Len(a) \in Nat /\ Len(b) \in Nat
  BY SMT
<1>2. Len(SubSeq(a, 1, k)) = k
  BY <1>1, SubSeqType, SMT
<1>3. SubSeq(a, 1, k) = SubSeq(b, 1, k)
  BY <1>1, SMT
<1> QED BY <1>2, <1>3 DEF IsPrefix

-----------------------------------------------------------------------------
(* What an accepted request leaves of a log, and adds to it *)

\* Where the entries of a request begin to differ from the log of its
\* receiver: the log agrees with it on the term of the slot before.
LEMMA FirstDifference ==
  ASSUME NEW C, NEW l \in Seq(Entry(C)), NEW es \in Seq(Entry(C)),
         NEW prev \in Nat, NEW pt \in Nat,
         PrevMatches(l, prev, pt), NewEntries(l, prev, es) # <<>>
  PROVE  \E d \in 1..Len(es) :
           /\ NewEntries(l, prev, es) = SubSeq(es, d, Len(es))
           /\ prev + d - 1 <= Len(l)
           /\ d > 1 => TermAt(l, prev + d - 1) = es[d - 1].term
           /\ prev + d <= Len(l) => TermAt(l, prev + d) # es[d].term
<1> DEFINE differs == {i \in 1..Len(es) :
                         \/ ~Contains(l, prev + i)
                         \/ TermAt(l, prev + i) # es[i].term}
           d == Min(differs)
<1>1. differs # {} /\ NewEntries(l, prev, es) = SubSeq(es, d, Len(es))
  BY Zenon DEF NewEntries
<1>2. d \in differs /\ \A y \in differs : d <= y
  <2>1. differs \subseteq Nat
    BY SMT
  <2> HIDE DEF differs
  <2> QED BY <1>1, <2>1, MinOfNats, Zenon
<1>3. d \in 1..Len(es) /\ d \in Nat
  BY <1>2, SMT
<1>4. prev + d <= Len(l) => TermAt(l, prev + d) # es[d].term
  <2> HIDE DEF d
  <2> QED BY <1>2, <1>3, SMT DEF Contains
<1>5. CASE d = 1
  <2>1. prev <= Len(l)
    BY SMT DEF PrevMatches, Contains
  <2> HIDE DEF d
  <2> QED BY <1>1, <1>3, <1>5, <1>4, <2>1, SMT
<1>6. CASE d > 1
  <2>1. d - 1 \in 1..Len(es) /\ d - 1 \notin differs
    <3> HIDE DEF d
    <3>1. d - 1 \in 1..Len(es) /\ d - 1 < d
      BY <1>3, <1>6, SMT
    <3> QED BY <3>1, <1>2, <1>3, SMT
  <2> HIDE DEF d
  <2>2. Contains(l, prev + (d - 1)) /\ TermAt(l, prev + (d - 1)) = es[d - 1].term
    BY <2>1
  <2>3. prev + (d - 1) = prev + d - 1
    BY <1>3
  <2> HIDE DEF differs
  <2>4. prev + d - 1 <= Len(l)
    BY <2>2, <2>3, SMT DEF Contains
  <2> QED BY <1>1, <1>3, <1>4, <2>2, <2>3, <2>4
<1> HIDE DEF d
<1> QED BY <1>3, <1>5, <1>6, SMT

\* The log r has the entries es, which follow slot prev, from slot k + 1 on
\* and is l up to slot k, where l and es agree on the term.  At slot k + 1
\* they do not.
Spliced(r, l, prev, es, k) ==
  /\ k \in prev .. (prev + Len(es) - 1) /\ k <= Len(l)
  /\ k > prev => TermAt(l, k) = es[k - prev].term
  /\ k < Len(l) => TermAt(l, k + 1) # es[k + 1 - prev].term
  /\ Len(r) = prev + Len(es)
  /\ \A i \in 1..k : r[i] = l[i]
  /\ \A i \in (k + 1) .. (prev + Len(es)) : r[i] = es[i - prev]

\* This is what HandleAppendEntries makes of its log.
LEMMA AppendNewSlots ==
  ASSUME NEW C, NEW l \in Seq(Entry(C)), NEW es \in Seq(Entry(C)),
         NEW prev \in Nat, NEW pt \in Nat,
         PrevMatches(l, prev, pt), NewEntries(l, prev, es) # <<>>
  PROVE  \E k \in Nat : Spliced(AppendNew(l, prev, es), l, prev, es, k)
<1>1. PICK d \in 1..Len(es) :
         /\ NewEntries(l, prev, es) = SubSeq(es, d, Len(es))
         /\ prev + d - 1 <= Len(l)
         /\ d > 1 => TermAt(l, prev + d - 1) = es[d - 1].term
         /\ prev + d <= Len(l) => TermAt(l, prev + d) # es[d].term
  BY FirstDifference, SMT
<1> DEFINE k == prev + d - 1
           new == SubSeq(es, d, Len(es))
           old == TruncateAfter(l, k)
           r == AppendNew(l, prev, es)
<1>2. /\ d \in Nat /\ k \in Nat /\ Len(es) \in Nat /\ Len(l) \in Nat
      /\ k \in prev .. (prev + Len(es) - 1) /\ k <= Len(l) /\ d = k - prev + 1
  BY <1>1, SMT
<1>3. /\ new \in Seq(Entry(C)) /\ Len(new) = Len(es) - d + 1
      /\ \A i \in 1..Len(new) : new[i] = es[d + i - 1]
  <2>1. \A i \in d..Len(es) : es[i] \in Entry(C)
    BY <1>2, SMT
  <2> QED BY <1>2, <2>1, SubSeqType, SMT
<1>4. /\ old \in Seq(Entry(C)) /\ Len(old) = k
      /\ \A i \in 1..k : old[i] = l[i]
  <2> HIDE DEF k
  <2>1. CASE k < Len(l)
    <3>1. \A i \in 1..k : l[i] \in Entry(C)
      BY <1>2, SMT
    <3>2. /\ SubSeq(l, 1, k) \in Seq(Entry(C)) /\ Len(SubSeq(l, 1, k)) = k
          /\ \A i \in 1..k : SubSeq(l, 1, k)[i] = l[i]
      BY <1>2, <3>1, SubSeqType, SMTT(30)
    <3> QED BY <2>1, <3>2 DEF TruncateAfter
  <2>2. CASE k = Len(l)
    BY <2>2, <1>2, SMT DEF TruncateAfter
  <2> QED BY <1>2, <2>1, <2>2, SMT
<1>5. r = old \o new
  <2>1. prev + Len(es) - Len(new) = k
    BY <1>2, <1>3, SMT
  <2> QED BY <1>1, <2>1, Zenon DEF AppendNew
<1> HIDE DEF old, new, r
<1>6. /\ Len(r) = Len(old) + Len(new)
      /\ \A i \in 1..Len(r) : r[i] = IF i <= Len(old) THEN old[i] ELSE new[i - Len(old)]
  <2>1. \A s, t \in Seq(Entry(C)) :
           /\ Len(s \o t) = Len(s) + Len(t)
           /\ \A i \in 1..Len(s \o t) :
                (s \o t)[i] = IF i <= Len(s) THEN s[i] ELSE t[i - Len(s)]
    BY JoinType
  <2> QED BY <1>3, <1>4, <1>5, <2>1, Zenon
<1> HIDE DEF k
<1>7. Len(r) = prev + Len(es)
  BY <1>2, <1>3, <1>4, <1>6, SMT
<1>8. \A i \in 1..k : r[i] = l[i]
  BY <1>2, <1>4, <1>6, <1>7, SMT
<1>9. ASSUME NEW i \in (k + 1) .. (prev + Len(es)) PROVE r[i] = es[i - prev]
  <2>1. /\ i \in 1..Len(r) /\ ~(i <= Len(old)) /\ i - Len(old) \in 1..Len(new)
        /\ d + (i - Len(old)) - 1 = i - prev
    BY <1>2, <1>3, <1>4, <1>7, SMT
  <2> QED BY <1>3, <1>6, <2>1, Zenon
<1>10. k > prev => TermAt(l, k) = es[k - prev].term
  <2>1. d - 1 = k - prev
    BY <1>2, SMT
  <2> QED BY <1>1, <1>2, <2>1, SMT DEF k
<1>11. k < Len(l) => TermAt(l, k + 1) # es[k + 1 - prev].term
  <2>1. k + 1 = prev + d /\ k + 1 - prev = d
    BY <1>2, SMT
  <2> QED BY <1>1, <1>2, <2>1, SMT
<1>12. Spliced(r, l, prev, es, k)
  BY <1>2, <1>7, <1>8, <1>9, <1>10, <1>11 DEF Spliced
<1> QED BY <1>2, <1>12 DEF r

\* So it has no links but those of the log before and of the request.
LEMMA AppendNewLinks ==
  ASSUME NEW C, NEW l \in Seq(Entry(C)), NEW es \in Seq(Entry(C)),
         NEW prev \in Nat, NEW pt \in Nat, prev = 0 => pt = 0,
         PrevMatches(l, prev, pt),
         NEW i \in Nat, NEW e, NEW p,
         Link(AppendNew(l, prev, es), 0, 0, i, e, p)
  PROVE  Link(l, 0, 0, i, e, p) \/ Link(es, prev, pt, i, e, p)
<1>1. CASE NewEntries(l, prev, es) = <<>>
  BY <1>1 DEF AppendNew
<1>2. CASE NewEntries(l, prev, es) # <<>>
  <2> DEFINE r == AppendNew(l, prev, es)
  <2> HIDE DEF r
  <2>1. PICK k \in Nat : Spliced(r, l, prev, es, k)
    BY <1>2, AppendNewSlots DEF r
  <2> USE DEF Spliced
  <2>2. /\ i \in 1..Len(r) /\ e = r[i]
        /\ p = IF i = 1 THEN 0 ELSE r[i - 1].term
    BY SMT DEF Link, r
  <2>3. k \in Nat /\ Len(es) \in Nat /\ Len(l) \in Nat
    BY <2>1, SMT
  <2>4. CASE i <= k
    <3>1. i \in 1..k /\ i \in 1..Len(l) /\ (i # 1 => i - 1 \in 1..k)
      BY <2>1, <2>2, <2>3, <2>4, SMT
    <3>2. r[i] = l[i] /\ (i # 1 => r[i - 1] = l[i - 1])
      BY <2>1, <3>1
    <3> QED BY <2>2, <3>1, <3>2, SMT DEF Link
  <2>5. CASE i > k
    <3>1. i \in (k + 1) .. (prev + Len(es)) /\ i - prev \in 1..Len(es)
      BY <2>1, <2>2, <2>3, <2>5, SMT
    <3>2. e = es[i - prev]
      BY <2>1, <2>2, <3>1
    <3>3. CASE i - 1 > k
      <4>1. /\ i - 1 \in (k + 1) .. (prev + Len(es))
            /\ i # 1 /\ i # prev + 1 /\ i - 1 - prev = i - prev - 1
        <5>1. k >= prev
          BY <2>1, SMT
        <5> HIDE DEF Spliced
        <5> QED BY <2>3, <3>1, <3>3, <5>1, SMT
      <4>2. p = es[i - prev - 1].term
        BY <2>1, <2>2, <4>1, Zenon
      <4> QED BY <3>1, <3>2, <4>1, <4>2, Zenon DEF Link
    <3>4. CASE i - 1 = k /\ k > prev
      <4>1. /\ k \in 1..k /\ k \in 1..Len(l) /\ i # 1 /\ i # prev + 1
            /\ k - prev = i - prev - 1
        BY <2>1, <2>3, <3>1, <3>4, SMT
      <4>2. p = l[k].term /\ TermAt(l, k) = es[i - prev - 1].term
        BY <2>1, <2>2, <3>4, <4>1
      <4>3. p = es[i - prev - 1].term
        BY <4>1, <4>2 DEF TermAt
      <4> QED BY <3>1, <3>2, <4>1, <4>3 DEF Link
    <3>5. CASE i - 1 = k /\ k = prev
      <4>1. i = prev + 1
        BY <2>3, <3>5, SMT
      <4>2. CASE prev = 0
        BY <2>2, <3>1, <3>2, <4>1, <4>2 DEF Link
      <4>3. CASE prev > 0
        <5>1. k \in 1..k /\ i # 1 /\ prev \in 1..Len(l)
          <6>1. k <= Len(l)
            BY <2>1
          <6> HIDE DEF Spliced
          <6> QED BY <2>3, <3>5, <4>1, <4>3, <6>1, SMT
        <5>2. p = l[prev].term
          BY <2>1, <2>2, <3>5, <5>1
        <5>3. p = pt
          BY <4>3, <5>1, <5>2 DEF PrevMatches, TermAt
        <5> QED BY <3>1, <3>2, <4>1, <5>3, Zenon DEF Link
      <4> QED BY <4>2, <4>3, SMT
    <3> QED BY <2>1, <2>3, <2>5, <3>1, <3>3, <3>4, <3>5, SMT
  <2> QED BY <2>2, <2>3, <2>4, <2>5, SMT
<1> QED BY <1>1, <1>2

\* When no entry of a request is new, the log has them all.
LEMMA NoNewEntries ==
  ASSUME NEW C, NEW l \in Seq(Entry(C)), NEW es \in Seq(Entry(C)),
         NEW prev \in Nat, NewEntries(l, prev, es) = <<>>, NEW j \in 1..Len(es)
  PROVE  prev + j \in 1..Len(l) /\ l[prev + j].term = es[j].term
<1> DEFINE differs == {i \in 1..Len(es) :
                         \/ ~Contains(l, prev + i)
                         \/ TermAt(l, prev + i) # es[i].term}
           d == Min(differs)
<1>1. differs = {}
  <2> SUFFICES ASSUME differs # {} PROVE FALSE
    OBVIOUS
  <2>1. NewEntries(l, prev, es) = SubSeq(es, d, Len(es))
    BY Zenon DEF NewEntries
  <2>2. d \in differs
    <3>1. differs \subseteq Nat
      BY SMT
    <3> HIDE DEF differs
    <3> QED BY <3>1, MinOfNats, Zenon
  <2>3. d \in 1..Len(es) /\ Len(es) \in Nat
    BY <2>2, SMT
  <2> HIDE DEF d
  <2>4. \A i \in d..Len(es) : es[i] \in Entry(C)
    BY <2>3, SMT
  <2>5. Len(SubSeq(es, d, Len(es))) = Len(es) - d + 1
    BY <2>3, <2>4, SubSeqType, SMT
  <2>6. Len(SubSeq(es, d, Len(es))) = 0
    <3>1. SubSeq(es, d, Len(es)) = <<>>
      BY <2>1
    <3> QED BY <3>1, SMT
  <2> HIDE DEF differs
  <2> QED BY <2>3, <2>5, <2>6, SMT
<1>2. Contains(l, prev + j) /\ TermAt(l, prev + j) = es[j].term
  BY <1>1, Zenon
<1> HIDE DEF differs
<1>3. prev + j \in 1..Len(l)
  BY <1>2, SMT DEF Contains
<1> QED BY <1>2, <1>3 DEF TermAt

SameTermAt(l1, l2, k) ==
  k \in 1..Len(l1) /\ k \in 1..Len(l2) /\ l1[k].term = l2[k].term

\* After it accepted a request, a node has the term of its last entry at its
\* last slot.
LEMMA AcceptedEnd ==
  ASSUME NEW C, NEW l \in Seq(Entry(C)), NEW es \in Seq(Entry(C)),
         NEW prev \in Nat, NEW pt \in Nat, PrevMatches(l, prev, pt), es # <<>>
  PROVE  /\ prev + Len(es) \in 1..Len(AppendNew(l, prev, es))
         /\ AppendNew(l, prev, es)[prev + Len(es)].term = es[Len(es)].term
<1> DEFINE z == prev + Len(es)
           r == AppendNew(l, prev, es)
<1>1. Len(es) \in Nat \ {0} /\ z \in Nat \ {0} /\ z - prev = Len(es)
  <2>1. Len(es) \in Nat /\ Len(es) # 0
    BY SMT
  <2> QED BY <2>1, SMT
<1>2. CASE NewEntries(l, prev, es) = <<>>
  <2>1. r = l
    BY <1>2 DEF AppendNew
  <2>2. Len(es) \in 1..Len(es)
    BY <1>1, SMT
  <2>3. z \in 1..Len(l) /\ l[z].term = es[Len(es)].term
    BY <1>2, <2>2, NoNewEntries, SMT DEF z
  <2> QED BY <2>1, <2>3 DEF z
<1>3. CASE NewEntries(l, prev, es) # <<>>
  <2>1. PICK k \in Nat : Spliced(r, l, prev, es, k)
    BY <1>3, AppendNewSlots
  <2> HIDE DEF r
  <2>2. Len(r) = z /\ r[z] = es[z - prev]
    BY <1>1, <2>1, SMTT(30) DEF Spliced, z
  <2>3. z \in 1..Len(r)
    <3> HIDE DEF z
    <3> QED BY <1>1, <2>2, SMT
  <2> QED BY <1>1, <2>2, <2>3 DEF r, z
<1> QED BY <1>2, <1>3

\* After it accepted a request that is part of the log L, a node has L's term
\* at the last slot of the request.
LEMMA AcceptedHas ==
  ASSUME NEW C, NEW l \in Seq(Entry(C)), NEW es \in Seq(Entry(C)),
         NEW L \in Seq(Entry(C)), NEW prev \in Nat, NEW pt \in Nat,
         PrevMatches(l, prev, pt), es # <<>>,
         \A i \in Nat : \A e, q : Link(es, prev, pt, i, e, q) => Link(L, 0, 0, i, e, q)
  PROVE  SameTermAt(L, AppendNew(l, prev, es), prev + Len(es))
<1> DEFINE z == prev + Len(es)
           r == AppendNew(l, prev, es)
<1>1. Len(es) \in Nat \ {0} /\ z \in Nat /\ z - prev \in 1..Len(es) /\ z - prev = Len(es)
  <2>1. Len(es) \in Nat /\ Len(es) # 0
    BY SMT
  <2> QED BY <2>1, SMT
<1>2. PICK q : Link(es, prev, pt, z, es[z - prev], q)
  <2> HIDE DEF z
  <2> QED BY <1>1, RequestLink, Zenon
<1>3. Link(L, 0, 0, z, es[z - prev], q)
  BY <1>1, <1>2
<1> HIDE DEF z
<1>4. z \in 1..Len(L) /\ L[z] = es[z - prev]
  <2>1. z - 0 = z
    BY <1>1, SMT
  <2> QED BY <1>3, <2>1 DEF Link
<1>5. z \in 1..Len(r) /\ r[z].term = es[Len(es)].term
  BY AcceptedEnd DEF z
<1> QED BY <1>1, <1>4, <1>5 DEF SameTermAt, z

\* The entries es, which follow slot prev with an entry of term pt, have no
\* entry of another term than the log l at the slots up to k.
NoConflict(l, k, es, prev, pt) ==
  \A i \in 1..k : \A e, q : Link(es, prev, pt, i, e, q) => e.term = l[i].term

\* A node keeps these slots when it accepts them.
LEMMA AcceptedKeeps ==
  ASSUME NEW C, NEW l \in Seq(Entry(C)), NEW es \in Seq(Entry(C)),
         NEW prev \in Nat, NEW pt \in Nat, PrevMatches(l, prev, pt),
         NEW k \in Nat, k <= Len(l), NoConflict(l, k, es, prev, pt)
  PROVE  /\ k <= Len(AppendNew(l, prev, es))
         /\ \A j \in 1..k : AppendNew(l, prev, es)[j] = l[j]
<1> DEFINE r == AppendNew(l, prev, es)
<1>1. CASE NewEntries(l, prev, es) = <<>>
  BY <1>1 DEF AppendNew
<1>2. CASE NewEntries(l, prev, es) # <<>>
  <2>1. PICK d \in Nat : Spliced(r, l, prev, es, d)
    BY <1>2, AppendNewSlots
  <2> HIDE DEF r
  <2>2. Len(l) \in Nat /\ Len(es) \in Nat
    BY SMT
  <2>3. k <= d
    <3> SUFFICES ASSUME k > d PROVE FALSE
      BY <2>1, SMT
    <3>1. /\ d + 1 \in 1..k /\ d + 1 \in Nat /\ (d + 1) - prev \in 1..Len(es)
          /\ d + 1 - prev = (d + 1) - prev /\ d < Len(l) /\ d + 1 \in 1..Len(l)
      BY <2>1, <2>2, SMT DEF Spliced
    <3>2. PICK q : Link(es, prev, pt, d + 1, es[(d + 1) - prev], q)
      BY <3>1, RequestLink, Zenon
    <3>3. es[(d + 1) - prev].term = l[d + 1].term
      BY <3>1, <3>2 DEF NoConflict
    <3>4. TermAt(l, d + 1) # es[(d + 1) - prev].term
      BY <2>1, <3>1 DEF Spliced
    <3> QED BY <3>1, <3>3, <3>4 DEF TermAt
  <2>4. k <= Len(r)
    BY <2>1, <2>2, <2>3, SMT DEF Spliced
  <2>5. \A j \in 1..k : r[j] = l[j]
    BY <2>1, <2>3, SMT DEF Spliced
  <2> QED BY <2>4, <2>5 DEF r
<1> QED BY <1>1, <1>2

-----------------------------------------------------------------------------
(* The middle of what is acknowledged *)

\* More than half of S have y or more, and no higher value.
IsMiddle(S, f, y) ==
  /\ y \in {f[s] : s \in S}
  /\ Cardinality({s \in S : f[s] > y}) <= Cardinality(S) \div 2
  /\ Cardinality({s \in S : f[s] >= y}) > Cardinality(S) \div 2

\* advanceCommitIndexLocked takes this value from its sorted list.
LEMMA SortedMiddle ==
  ASSUME NEW S, IsFiniteSet(S), S # {}, NEW f \in [S -> Nat],
         NEW B \in Nat, \A s \in S : f[s] <= B
  PROVE  IsMiddle(S, f, SortedDescAt(f, Cardinality(DOMAIN f) \div 2))
<1> DEFINE N == Cardinality(S)
           k == N \div 2
           above(x) == {s \in S : f[s] > x}
           from(x) == {s \in S : f[s] >= x}
           W == {x \in Nat : Cardinality(above(x)) <= k}
           x0 == Min(W)
<1>1. N \in Nat /\ N # 0
  BY FS_CardinalityType, FS_EmptySet
<1>2. k \in Nat /\ k < N
  <2> HIDE DEF N
  <2> QED BY <1>1, SMT
<1>3. \A x : Cardinality(above(x)) \in Nat /\ Cardinality(from(x)) \in Nat
  <2>1. \A x : IsFiniteSet(above(x)) /\ IsFiniteSet(from(x))
    BY FS_Subset
  <2> HIDE DEF above, from
  <2> QED BY <2>1, FS_CardinalityType
<1>4. B \in W
  <2>1. above(B) = {}
    BY SMT
  <2>2. Cardinality({}) = 0
    BY FS_EmptySet
  <2> HIDE DEF k
  <2> QED BY <1>2, <2>1, <2>2, SMT
<1>5. x0 \in W /\ \A w \in W : x0 <= w
  <2>1. W \subseteq Nat /\ W # {}
    BY <1>4
  <2> HIDE DEF W
  <2> QED BY <2>1, MinOfNats, Zenon
<1>6. x0 \in Nat /\ Cardinality(above(x0)) <= k
  BY <1>5, Zenon
<1> HIDE DEF x0
<1>7. Cardinality(from(x0)) > k
  <2>1. CASE x0 = 0
    <3>1. from(x0) = S
      BY <2>1, SMT
    <3> QED BY <1>2, <3>1
  <2>2. CASE x0 # 0
    <3>1. x0 - 1 \in Nat /\ ~(x0 <= x0 - 1)
      BY <1>6, <2>2, SMT
    <3>2. x0 - 1 \notin W
      BY <1>5, <3>1
    <3>3. ~(Cardinality(above(x0 - 1)) <= k)
      BY <3>1, <3>2, Zenon
    <3>4. above(x0 - 1) = from(x0)
      BY <1>6, <2>2, SMT
    <3>5. Cardinality(from(x0)) \in Nat
      BY <1>3, Zenon
    <3> HIDE DEF above, from, k
    <3> QED BY <1>2, <3>3, <3>4, <3>5, SMT
  <2> QED BY <2>1, <2>2
<1>8. x0 \in {f[s] : s \in DOMAIN f}
  <2>1. ASSUME \A s \in S : f[s] # x0 PROVE FALSE
    <3>1. above(x0) = from(x0)
      BY <1>6, <2>1, SMT
    <3>2. Cardinality(from(x0)) \in Nat
      BY <1>3, Zenon
    <3> HIDE DEF above, from, k
    <3> QED BY <1>2, <1>6, <1>7, <3>1, <3>2, SMT
  <2> QED BY <2>1
<1> DEFINE P(x) == Cardinality(above(x)) <= k /\ Cardinality(from(x)) > k
           x1 == CHOOSE x \in {f[s] : s \in DOMAIN f} : P(x)
<1>9. P(x0)
  BY <1>6, <1>7
<1> HIDE DEF P
<1>10. x1 \in {f[s] : s \in DOMAIN f} /\ P(x1)
  BY <1>8, <1>9
<1>11. x1 = SortedDescAt(f, Cardinality(DOMAIN f) \div 2)
  BY Zenon DEF SortedDescAt, P
<1> HIDE DEF x1
<1>12. Cardinality(above(x1)) <= k /\ Cardinality(from(x1)) > k
  BY <1>10, Zenon DEF P
<1>13. x1 \in {f[s] : s \in S}
  BY <1>10
<1> QED BY <1>11, <1>12, <1>13, Zenon DEF IsMiddle
=============================================================================
