------------------------------ MODULE RaftLog ------------------------------
(***************************************************************************)
(* The in-memory log of internal/raft/log.go and the pure computations     *)
(* that node.go and replication.go make on it.  A log is the sequence of   *)
(* its entries 1..LastIndex: the sentinel that the code keeps at slot 0    *)
(* (term 0, index 0) is represented by the value 0 of TermAt at index 0.   *)
(*                                                                         *)
(* An entry carries its own index, as LogEntry does.  The slot it is       *)
(* stored at and that field agree until a log is restored from the WAL.    *)
(***************************************************************************)
EXTENDS Integers, Sequences, FiniteSets, FiniteSetsExt

\* LogEntry, for a set of commands C.
Entry(C) == [term : Nat, index : Nat, command : C]

-----------------------------------------------------------------------------
(* log.go *)

LastIndex(l) == Len(l)

\* An index is unsigned in the code; slot 0, the sentinel, always exists.
Contains(l, idx) == idx \in 0..Len(l)

TermAt(l, idx) == IF idx \in 1..Len(l) THEN l[idx].term ELSE 0

LastTerm(l) == TermAt(l, Len(l))

TruncateAfter(l, idx) == IF idx < Len(l) THEN SubSeq(l, 1, idx) ELSE l

IsPrefix(s, t) == Len(s) <= Len(t) /\ SubSeq(t, 1, Len(s)) = s

\* Entries(startIdx, LastIndex()): empty when startIdx is past the end.
EntriesFrom(l, startIdx) == SubSeq(l, startIdx, Len(l))

FindFirstIndexOfTerm(l, term) ==
  LET at == {i \in 1..Len(l) : l[i].term = term}
  IN  IF at = {} THEN 0 ELSE Min(at)

-----------------------------------------------------------------------------
(* node.go *)

\* isLogUpToDate: is a log that ends in (lastTerm, lastIndex) at least as
\* up-to-date as l?
isLogUpToDate(l, lastTerm, lastIndex) ==
  IF lastTerm # LastTerm(l) THEN lastTerm > LastTerm(l)
                            ELSE lastIndex >= LastIndex(l)

\* Mutant: the log may be too short.
PrevMatchesTerm(l, prevIndex, prevTerm) ==
  Contains(l, prevIndex) => TermAt(l, prevIndex) = prevTerm

\* Mutant: the term at prevLogIndex is not compared.
PrevMatchesLength(l, prevIndex, prevTerm) == Contains(l, prevIndex)

\* The consistency check of HandleAppendEntries at prevLogIndex.
PrevMatches(l, prevIndex, prevTerm) ==
  prevIndex > 0 => /\ Contains(l, prevIndex)
                   /\ TermAt(l, prevIndex) = prevTerm

\* Mutant: a log that is too short is reported one slot too far.
ConflictHintTooFar(l, prevIndex) ==
  IF Contains(l, prevIndex)
  THEN [term  |-> TermAt(l, prevIndex),
        index |-> FindFirstIndexOfTerm(l, TermAt(l, prevIndex))]
  ELSE [term |-> 0, index |-> LastIndex(l) + 2]

\* The hint HandleAppendEntries returns when that check fails.
ConflictHint(l, prevIndex) ==
  IF Contains(l, prevIndex)
  THEN [term  |-> TermAt(l, prevIndex),
        index |-> FindFirstIndexOfTerm(l, TermAt(l, prevIndex))]
  ELSE [term |-> 0, index |-> LastIndex(l) + 1]

\* Mutant: an entry that is present with another term is not a conflict.
NewEntriesPastEnd(l, prevIndex, entries) ==
  SubSeq(entries, LastIndex(l) - prevIndex + 1, Len(entries))

\* The entries of an accepted request from the first one that the log either
\* lacks or holds with another term: the loop of HandleAppendEntries skips
\* the ones before it, and appends and persists all of these.
NewEntries(l, prevIndex, entries) ==
  LET differs == {i \in 1..Len(entries) :
                    \/ ~Contains(l, prevIndex + i)
                    \/ TermAt(l, prevIndex + i) # entries[i].term}
  IN  IF differs = {} THEN <<>> ELSE SubSeq(entries, Min(differs), Len(entries))

\* Mutant: conflicting entries are overwritten, what follows them is kept.
AppendNewKeepingTail(l, prevIndex, entries) ==
  [i \in 1..Max({Len(l), prevIndex + Len(entries)}) |->
     IF i \in prevIndex + 1 .. prevIndex + Len(entries)
     THEN entries[i - prevIndex] ELSE l[i]]

\* Mutant: the log is cut after the slot the request starts from, conflict or
\* not, so a late request takes away what a later one has brought.
AppendNewCut(l, prevIndex, entries) == TruncateAfter(l, prevIndex) \o entries

\* The log after that loop.  Entries past the request's last one survive
\* unless the request conflicts with the log.
AppendNew(l, prevIndex, entries) ==
  LET new == NewEntries(l, prevIndex, entries)
  IN  IF new = <<>>
      THEN l
      ELSE TruncateAfter(l, prevIndex + Len(entries) - Len(new)) \o new

\* The follower's commit index after an accepted request.
FollowerCommit(l, commit, leaderCommit) ==
  IF leaderCommit > commit THEN Min({leaderCommit, LastIndex(l)}) ELSE commit

\* Mutant: without the conflicting term the Leader backs up past its start.
NextIndexBeforeConflict(l, next, conflictTerm, conflictIndex) ==
  LET ofTerm == {i \in 1..Len(l) : l[i].term = conflictTerm}
  IN  IF conflictTerm > 0 /\ ofTerm # {} THEN Max(ofTerm) + 1 ELSE conflictIndex - 1

\* handleConflictLocked: the leader's nextIndex after a failed request.
NextIndexAfterConflict(l, next, conflictTerm, conflictIndex) ==
  LET ofTerm == {i \in 1..Len(l) : l[i].term = conflictTerm}
  IN  IF conflictTerm > 0
      THEN IF ofTerm # {} THEN Max(ofTerm) + 1 ELSE conflictIndex
      ELSE IF conflictIndex > 0 THEN conflictIndex
      ELSE IF next > 1 THEN next - 1 ELSE next

-----------------------------------------------------------------------------
(* replication.go *)

\* Mutant: one position too early.
SortedDescAtPrevious(m, k) ==
  CHOOSE v \in {m[s] : s \in DOMAIN m} :
    /\ Cardinality({s \in DOMAIN m : m[s] > v}) <= k - 1
    /\ Cardinality({s \in DOMAIN m : m[s] >= v}) > k - 1

\* The value at 0-based position k of the values of m sorted in descending
\* order, as sort.Slice leaves them in advanceCommitIndexLocked.
SortedDescAt(m, k) ==
  CHOOSE v \in {m[s] : s \in DOMAIN m} :
    /\ Cardinality({s \in DOMAIN m : m[s] > v}) <= k
    /\ Cardinality({s \in DOMAIN m : m[s] >= v}) > k

\* Mutant: entries of earlier terms are committed by counting replicas.
LeaderCommitAnyTerm(l, term, commit, match) ==
  LET candidate == SortedDescAt(match, Cardinality(DOMAIN match) \div 2)
  IN  IF candidate > commit /\ Contains(l, candidate) THEN candidate ELSE commit

\* advanceCommitIndexLocked: the leader's commit index, from its log, its
\* term and the index each server (itself included) has acknowledged.
LeaderCommitIndex(l, term, commit, match) ==
  LET candidate == SortedDescAt(match, Cardinality(DOMAIN match) \div 2)
  IN  IF /\ candidate > commit
         /\ Contains(l, candidate)
         /\ TermAt(l, candidate) = term
      THEN candidate
      ELSE commit
=============================================================================
