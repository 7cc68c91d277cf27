----------------------------- MODULE LogRepair -----------------------------
(***************************************************************************)
(* The bookkeeping of one Leader: rounds of AppendEntries at nextIndex     *)
(* bring one follower's log in line with its own, and acknowledgements by  *)
(* it and by the other peers advance the commit index.  The follower side  *)
(* is HandleAppendEntries, the Leader's replicateLog, sendHeartbeats,      *)
(* handleConflictLocked and advanceCommitIndexLocked.                      *)
(*                                                                         *)
(* The Leader stays in its term, MaxTerm + 1.  What varies is every pair   *)
(* of logs that LogMatching and TermsStartAlike of module Raft allow, the  *)
(* entries it adds, and what arrives late: a request may be overtaken by   *)
(* others, which have started elsewhere and brought more, and any conflict *)
(* hint may be applied again, at most MaxStale times.                      *)
(***************************************************************************)
EXTENDS RaftLog

CONSTANTS
  Self, Peer,        \* the Leader and the follower
  Others,            \* the other peers
  MaxTerm, MaxLen,   \* bounds on the terms and the length of the old logs
  MaxNew,            \* bound on the Leader's log
  MaxDelayed,        \* bound on the requests under way
  MaxStale           \* bound on late conflict answers

ASSUME RepairAssumption ==
  /\ IsFiniteSet(Others) /\ Self # Peer /\ {Self, Peer} \cap Others = {}
  /\ MaxTerm \in Nat /\ MaxLen \in Nat /\ MaxNew \in Nat
  /\ MaxDelayed \in Nat /\ MaxStale \in Nat

VARIABLES
  leader, follower,  \* the two logs
  before,            \* the follower's log at the start
  settled,           \* the commit index at the start
  next,              \* the Leader's nextIndex for the follower
  matchIndex,        \* of all peers
  commitIndex,
  delayed,           \* requests that are still on their way
  hints,             \* the conflict hints the follower has answered with
  stale              \* late answers so far

leaderVars == <<next, matchIndex, commitIndex>>
vars == <<leader, follower, before, settled, leaderVars, delayed, hints, stale>>

Term == MaxTerm + 1

\* The logs a node can have: terms never fall along a log.
Logs ==
  UNION {{[i \in 1..k |-> [term |-> t[i], index |-> i, command |-> 0]] :
            t \in {t \in [1..k -> 1..MaxTerm] :
                     \A i \in 1..(k - 1) : t[i] <= t[i + 1]}} : k \in 0..MaxLen}

Matching(a, b) ==
  /\ \A i \in 1..Min({Len(a), Len(b)}) :
       a[i].term = b[i].term => SubSeq(a, 1, i) = SubSeq(b, 1, i)
  /\ \A t \in 1..MaxTerm :
       LET i == FindFirstIndexOfTerm(a, t)
           j == FindFirstIndexOfTerm(b, t)
       IN  i > 0 /\ j > 0 => i = j

\* becomeLeaderLocked has just set nextIndex, and nothing is known of the
\* followers; the commit index is what the node had learned before.
Init ==
  /\ leader \in Logs /\ follower \in {l \in Logs : Matching(leader, l)}
  /\ before = follower
  /\ settled \in 0..Len(leader)
  /\ next = LastIndex(leader) + 1
  /\ matchIndex = [p \in Others \cup {Peer} |-> 0]
  /\ commitIndex = settled
  /\ delayed = {}
  /\ hints = {}
  /\ stale = 0

\* SubmitCommand: the commit index is not touched.
Submit ==
  /\ Len(leader) < MaxNew
  /\ leader' = Append(leader, [term |-> Term, index |-> Len(leader) + 1, command |-> 0])
  /\ UNCHANGED <<follower, before, settled, leaderVars, delayed, hints, stale>>

\* Peer p has acknowledged the log up to slot k, maybe long after k was the
\* last one and maybe after it acknowledged more.
Acknowledged(p, k) ==
  LET match == [matchIndex EXCEPT ![p] = Max({@, k})]
      all == [s \in Others \cup {Peer, Self} |->
                IF s = Self THEN LastIndex(leader) ELSE match[s]]
  IN  /\ matchIndex' = match
      /\ commitIndex' = LeaderCommitIndex(leader, Term, commitIndex, all)

\* What replicateLog and sendHeartbeats send: the entries after slot prev, up
\* to the last one of the moment.
Request == [prev |-> next - 1, last |-> LastIndex(leader)]

Accepts(m) == PrevMatches(follower, m.prev, TermAt(leader, m.prev))
Entries(m) == SubSeq(leader, m.prev + 1, m.last)

\* The Leader hears that entries up to slot k were accepted.
Success(k) ==
  /\ next' = Max({next, k + 1})
  /\ Acknowledged(Peer, k)

\* A request the follower accepts at once; only entries move nextIndex.
Accepted ==
  /\ Accepts(Request) /\ Entries(Request) # <<>>
  /\ follower' = AppendNew(follower, Request.prev, Entries(Request))
  /\ Success(Request.last)
  /\ UNCHANGED <<leader, before, settled, delayed, hints, stale>>

\* A request the follower refuses, and the Leader's reaction to the hint.
Refused ==
  LET hint == ConflictHint(follower, Request.prev)
  IN  /\ ~Accepts(Request)
      /\ next' = NextIndexAfterConflict(leader, next, hint.term, hint.index)
      /\ hints' = hints \cup {hint}
      /\ UNCHANGED <<leader, follower, before, settled, matchIndex, commitIndex, delayed, stale>>

\* A request leaves, and the Leader gives up waiting for the answer.
Delay ==
  /\ Cardinality(delayed) < MaxDelayed
  /\ delayed' = delayed \cup {Request}
  /\ UNCHANGED <<leader, follower, before, settled, leaderVars, hints, stale>>

\* It arrives after all.  The answer may be lost, or, if it is a refusal, be
\* late as well.
LateRequest(m) ==
  /\ m \in delayed /\ delayed' = delayed \ {m}
  /\ \/ /\ Accepts(m)
        /\ follower' = AppendNew(follower, m.prev, Entries(m))
        /\ \/ Entries(m) # <<>> /\ Success(m.last)
           \/ UNCHANGED leaderVars
        /\ UNCHANGED hints
     \/ /\ ~Accepts(m)
        /\ hints' = hints \cup {ConflictHint(follower, m.prev)}
        /\ UNCHANGED <<follower, leaderVars>>
  /\ UNCHANGED <<leader, before, settled, stale>>

\* The answer to an earlier request arrives only now.
LateRefusal ==
  /\ stale < MaxStale /\ stale' = stale + 1
  /\ \E hint \in hints :
       next' = NextIndexAfterConflict(leader, next, hint.term, hint.index)
  /\ UNCHANGED <<leader, follower, before, settled, matchIndex, commitIndex, delayed, hints>>

\* A request to one of the other peers is accepted.
AcceptedElsewhere(p) ==
  /\ \E k \in 1..LastIndex(leader) : Acknowledged(p, k)
  /\ UNCHANGED <<leader, follower, before, settled, next, delayed, hints, stale>>

Next ==
  \/ Submit
  \/ Accepted \/ Refused
  \/ Delay \/ LateRefusal
  \/ \E m \in delayed : LateRequest(m)
  \/ \E p \in Others : AcceptedElsewhere(p)

\* While there is something to send, replicateLog sends it every 10 ms until
\* the Leader is deposed, and an RPC that is repeated for ever is answered some
\* time.  Without entries to send only heartbeats probe the follower, and a
\* Leader may fail to send them (see RunLoop): they may happen, no more.
Spec ==
  /\ Init /\ [][Next]_vars
  /\ WF_vars(next <= LastIndex(leader) /\ (Accepted \/ Refused))

-----------------------------------------------------------------------------
\* nextIndex - 1 never wraps around zero, and no request starts past the end
\* of the Leader's log, whatever answers come late (handleConflictLocked).
NextInLog == next \in 1..(LastIndex(leader) + 1)

\* A refusal makes the Leader back up: the same probe is never sent twice in
\* a row (the fast rollback of handleConflictLocked makes progress).
RefusalBacksUp == [][Refused => next' < next]_vars

\* The follower's log is either untouched or a prefix of the Leader's that is
\* new to it: nothing of the old log is left behind what was repaired (the
\* truncation in HandleAppendEntries).
RepairIsExact ==
  \/ follower = before
  \/ IsPrefix(follower, leader) /\ ~IsPrefix(follower, before)

\* No request takes an entry away that the follower shares with the Leader: a
\* late one that ends before the log does cuts nothing off, so what was
\* acknowledged stays (the loop of HandleAppendEntries skips what it has).
SharedStays ==
  [][\A i \in 1..Len(follower) :
       i <= Len(leader) /\ follower[i] = leader[i] =>
         i <= Len(follower') /\ follower'[i] = follower[i]]_vars

\* Once there is something to send, the follower's log ends up holding the
\* Leader's, and the Leader knows it.
EventuallyRepaired ==
  (next <= LastIndex(leader)) ~>
    (IsPrefix(leader, follower) /\ next = LastIndex(leader) + 1)

Holders(i) == {p \in Others \cup {Peer} : matchIndex[p] >= i} \cup {Self}

Committable(i) ==
  /\ leader[i].term = Term
  /\ 2 * Cardinality(Holders(i)) > Cardinality(Others \cup {Peer, Self})

\* The commit index is the highest slot that holds an entry of the Leader's
\* own term and is acknowledged by more than half of the cluster; while there
\* is none it is what the node knew before it was elected.  The sorted list,
\* indexed by (len(peers)+1)/2, neither skips nor anticipates a majority, for
\* odd and for even clusters.
CommitIsHighest ==
  LET slots == {i \in 1..LastIndex(leader) : Committable(i)}
  IN  commitIndex = IF slots = {} THEN settled ELSE Max(slots)
=============================================================================
