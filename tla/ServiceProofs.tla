--------------------------- MODULE ServiceProofs ---------------------------
(***************************************************************************)
(* For any requests, any channel capacity and any behaviour of the rest of *)
(* the cluster: what the store shows, what a 200 means and how far behind  *)
(* a ready node can be.                                                    *)
(*                                                                         *)
(* The inductive invariant has one part per concern: what the node knows   *)
(* to be committed is agreed (Known); the places an entry can be in on its *)
(* way to the store (Queue, and Hand for the last of them); a request that *)
(* waits while its term lasts still has its entry in the log (Waits).  It  *)
(* is kept as long as every restart brings the log back as it was.         *)
(***************************************************************************)
EXTENDS Service, SequenceTheorems, TLAPS

\* Most leaves are first-order; the ones that need arithmetic cite SMT.
USE ZenonT(30)

\* s is t, or t continues it.
Starts(s, t) == Len(s) <= Len(t) /\ \A i \in 1..Len(s) : t[i] = s[i]

Known ==
  /\ commitIndex <= Len(log) /\ commitIndex <= Len(agreed)
  /\ \A i \in 1..commitIndex : log[i] = agreed[i]

\* How many entries the consumer has taken from applyCh.
Received == consumed + Len(inHand)

Hand ==
  /\ Len(inHand) <= 1
  /\ \A j \in 1..Len(inHand) : inHand[j] = agreed[consumed + j]

Queue ==
  /\ Len(applyCh) <= Capacity
  /\ lastApplied <= commitIndex
  /\ lastApplied <= Received + Len(applyCh)
  /\ Received + Len(applyCh) <= commitIndex
  /\ \A j \in 1..Len(applyCh) : applyCh[j] = agreed[Received + j]
  /\ applyPc = "tick" => batch = <<>> /\ Received + Len(applyCh) = lastApplied
  /\ applyPc = "push" =>
       /\ newLastApplied <= commitIndex
       /\ lastApplied + Len(batch) <= newLastApplied
       /\ Received + Len(applyCh) + Len(batch) = newLastApplied
       /\ \A j \in 1..Len(batch) : batch[j] = agreed[Received + Len(applyCh) + j]

Waits ==
  /\ led <= currentTerm
  /\ state = "Candidate" => led < currentTerm
  /\ state = "Leader" => led = currentTerm
  /\ \A r \in Write :
       pc[r] = "waiting" =>
         /\ term[r] <= led
         /\ state = "Leader" /\ currentTerm = term[r] =>
              /\ index[r] \in 1..Len(log)
              /\ log[index[r]] = [term |-> term[r], command |-> r]

-----------------------------------------------------------------------------
(* Sequences *)

\* IsPrefix, position by position.
LEMMA PrefixStarts ==
  ASSUME NEW S, NEW s \in Seq(S), NEW t \in Seq(S), IsPrefix(s, t)
  PROVE  Starts(s, t)
  <1>1. Len(s) \in Nat /\ Len(t) \in Nat /\ Len(s) <= Len(t)
    BY SMT DEF IsPrefix
  <1>2. \A i \in 1..Len(s) : SubSeq(s, 1, Len(s))[i] = s[i]
    BY <1>1, SMT
  <1>3. \A i \in 1..Len(s) : SubSeq(t, 1, Len(s))[i] = t[i]
    BY <1>1, SMT
  <1>4. SubSeq(s, 1, Len(s)) = SubSeq(t, 1, Len(s))
    BY DEF IsPrefix
  <1> QED
    BY <1>1, <1>2, <1>3, <1>4 DEF Starts

\* A beginning of a sequence.
LEMMA Beginning ==
  ASSUME NEW S, NEW s \in Seq(S), NEW n \in 0..Len(s)
  PROVE  /\ SubSeq(s, 1, n) \in Seq(S) /\ Len(SubSeq(s, 1, n)) = n
         /\ \A i \in 1..n : SubSeq(s, 1, n)[i] = s[i]
  <1>1. Len(s) \in Nat /\ n \in Nat
    BY SMT
  <1> QED
    BY <1>1, SMT

\* A beginning continued by one element.
LEMMA BeginningAppend ==
  ASSUME NEW S, NEW s \in Seq(S), NEW n \in 0..Len(s), NEW e \in S
  PROVE  /\ Append(SubSeq(s, 1, n), e) \in Seq(S)
         /\ Len(Append(SubSeq(s, 1, n), e)) = n + 1
         /\ \A i \in 1..n : Append(SubSeq(s, 1, n), e)[i] = s[i]
  <1> DEFINE b == SubSeq(s, 1, n)
  <1>1. b \in Seq(S) /\ Len(b) = n /\ \A i \in 1..n : b[i] = s[i]
    BY Beginning
  <1> HIDE DEF b
  <1>2. n \in Nat
    BY SMT
  <1>3. Append(b, e) \in Seq(S) /\ Len(Append(b, e)) = n + 1
    BY <1>1, <1>2, SMT
  <1>4. \A i \in 1..n : Append(b, e)[i] = b[i]
    BY <1>1, <1>2, SMT
  <1> QED
    BY <1>1, <1>3, <1>4 DEF b

\* The smaller of two numbers.
LEMMA MinOfTwo ==
  ASSUME NEW a \in Nat, NEW b \in Nat
  PROVE  Min({a, b}) = IF a <= b THEN a ELSE b
  <1> DEFINE P(x) == \A y \in {a, b} : x =< y
  <1>1. \E x \in {a, b} : P(x)
    <2>1. CASE a <= b
      BY <2>1, SMT
    <2>2. CASE b <= a
      BY <2>2, SMT
    <2> QED
      BY <2>1, <2>2, SMT
  <1>2. Min({a, b}) \in {a, b} /\ P(Min({a, b}))
    BY <1>1 DEF Min
  <1> QED
    BY <1>2, SMT

-----------------------------------------------------------------------------
(* What the cluster does *)

\* The agreed log only grows, and stays a log.
LEMMA AgreedGrows ==
  ASSUME TypeOK, AdvanceCommit \/ AgreeElsewhere
  PROVE  agreed' \in Seq(Entry) /\ Starts(agreed, agreed')
  <1>1. agreed \in Seq(Entry) /\ log \in Seq(Entry) /\ Len(log) \in Nat /\ commitIndex \in Nat
    BY SMT DEF TypeOK
  <1>2. CASE AdvanceCommit
    <2>1. PICK i \in commitIndex + 1 .. Len(log) :
            \/ agreed' = agreed
            \/ IsPrefix(agreed, SubSeq(log, 1, i)) /\ agreed' = SubSeq(log, 1, i)
      BY <1>2 DEF AdvanceCommit
    <2>2. SubSeq(log, 1, i) \in Seq(Entry)
      BY <1>1, Beginning, SMTT(30)
    <2>3. CASE agreed' = agreed
      BY <1>1, <2>3, SMTT(30) DEF Starts
    <2>4. CASE IsPrefix(agreed, SubSeq(log, 1, i)) /\ agreed' = SubSeq(log, 1, i)
      BY <1>1, <2>2, <2>4, PrefixStarts
    <2> QED
      BY <2>1, <2>3, <2>4
  <1>3. CASE AgreeElsewhere
    <2>0. PICK t \in led + 1 .. MaxTerm, k \in 0..Len(log) :
            \E e \in ForeignEntry(t) :
              agreed' = Append(IF IsPrefix(agreed, SubSeq(log, 1, k))
                               THEN SubSeq(log, 1, k) ELSE agreed, e)
      BY <1>3 DEF AgreeElsewhere
    <2>1. PICK e \in ForeignEntry(t) :
            agreed' = Append(IF IsPrefix(agreed, SubSeq(log, 1, k))
                             THEN SubSeq(log, 1, k) ELSE agreed, e)
      BY <2>0
    <2>2. e \in Entry
      <3>1. t \in Nat
        BY ServiceAssumption, SMT DEF TypeOK
      <3> QED
        BY <3>1 DEF ForeignEntry, Entry, Command
    <2> DEFINE base == IF IsPrefix(agreed, SubSeq(log, 1, k))
                       THEN SubSeq(log, 1, k) ELSE agreed
    <2>3. base \in Seq(Entry) /\ Starts(agreed, base)
      <3>1. SubSeq(log, 1, k) \in Seq(Entry)
        BY <1>1, Beginning
      <3>2. CASE IsPrefix(agreed, SubSeq(log, 1, k))
        BY <1>1, <3>1, <3>2, PrefixStarts
      <3>3. CASE ~IsPrefix(agreed, SubSeq(log, 1, k))
        BY <1>1, <3>3, SMTT(30) DEF Starts
      <3> QED
        BY <3>2, <3>3
    <2>4. agreed' = Append(base, e)
      BY <2>1
    <2> HIDE DEF base
    <2>5. Len(base) \in Nat /\ Len(agreed) \in Nat
      BY <1>1, <2>3, SMTT(30)
    <2>6. /\ agreed' \in Seq(Entry) /\ Len(agreed') = Len(base) + 1
          /\ \A i \in 1..Len(base) : agreed'[i] = base[i]
      BY <2>2, <2>3, <2>4, <2>5, SMTT(30)
    <2> QED
      BY <2>3, <2>5, <2>6, SMTT(30) DEF Starts
  <1> QED
    BY <1>2, <1>3

\* An accepted AppendEntries keeps what is known to be committed.
LEMMA LogAfterAppend ==
  ASSUME TypeOK, Known, intact, NEW t \in Nat, NEW l \in LogsAfterAppend(t)
  PROVE  /\ l \in Seq(Entry) /\ commitIndex <= Len(l)
         /\ \A i \in 1..commitIndex : l[i] = log[i]
  <1>1. /\ agreed \in Seq(Entry) /\ log \in Seq(Entry) /\ commitIndex \in Nat
        /\ Len(log) \in Nat /\ Len(agreed) \in Nat
    BY SMT DEF TypeOK
  <1>2. /\ commitIndex <= Len(log) /\ commitIndex <= Len(agreed)
        /\ \A i \in 1..commitIndex : log[i] = agreed[i]
    BY DEF Known
  <1>3. CASE l = log
    BY <1>1, <1>2, <1>3
  <1>4. ASSUME NEW k \in commitIndex..Len(log), NEW e \in ForeignEntry(t),
               l = Append(SubSeq(log, 1, k), e)
        PROVE  /\ l \in Seq(Entry) /\ commitIndex <= Len(l)
               /\ \A i \in 1..commitIndex : l[i] = log[i]
    <2>1. e \in Entry
      BY DEF ForeignEntry, Entry, Command
    <2>2. k \in 0..Len(log)
      BY <1>1, SMTT(30)
    <2>3. l \in Seq(Entry) /\ Len(l) = k + 1 /\ \A i \in 1..k : l[i] = log[i]
      BY <1>1, <1>4, <2>1, <2>2, BeginningAppend
    <2> QED
      BY <1>1, <2>2, <2>3, SMTT(30)
  <1>5. ASSUME NEW k \in commitIndex..Len(agreed), l = SubSeq(agreed, 1, k)
        PROVE  /\ l \in Seq(Entry) /\ commitIndex <= Len(l)
               /\ \A i \in 1..commitIndex : l[i] = log[i]
    <2>1. k \in 0..Len(agreed)
      BY <1>1, SMTT(30)
    <2>2. l \in Seq(Entry) /\ Len(l) = k /\ \A i \in 1..k : l[i] = agreed[i]
      BY <1>1, <1>5, <2>1, Beginning
    <2> QED
      BY <1>1, <1>2, <2>1, <2>2, SMT
  <1>6. \/ l = log
        \/ \E k \in commitIndex..Len(log), e \in ForeignEntry(t) : l = Append(SubSeq(log, 1, k), e)
        \/ \E k \in commitIndex..Len(agreed) : l = SubSeq(agreed, 1, k)
    <2>1. Kept = commitIndex
      BY DEF Kept
    <2>2. CASE l \in {Append(SubSeq(log, 1, k), e) :
                       k \in {j \in commitIndex..Len(log) : j < MaxLog}, e \in ForeignEntry(t)}
      BY <2>2, SMTT(30)
    <2>3. CASE l \in {SubSeq(agreed, 1, k) :
                       k \in {j \in commitIndex..Len(agreed) : ~IsPrefix(SubSeq(agreed, 1, j), log)}}
      BY <2>3
    <2> QED
      BY <2>1, <2>2, <2>3, SMTT(30) DEF LogsAfterAppend
  <1> QED
    BY <1>3, <1>4, <1>5, <1>6

\* It commits no more than the log then holds and the cluster has agreed on.
LEMMA CommitAfterAppend ==
  ASSUME TypeOK, Known, intact, NEW t \in Nat, HandleAppendEntries(t)
  PROVE  /\ log' \in Seq(Entry) /\ Len(log') \in Nat
         /\ commitIndex' \in commitIndex..Len(log')
         /\ IsPrefix(SubSeq(log', 1, commitIndex'), agreed)
  <1>1. commitIndex \in Nat /\ Len(agreed) \in Nat
    BY SMT DEF TypeOK
  <1>2. log' \in Seq(Entry) /\ commitIndex <= Len(log')
    BY LogAfterAppend DEF HandleAppendEntries
  <1>3. Len(log') \in Nat
    BY <1>2, SMT
  <1>4. PICK c \in 0..Len(agreed) :
          commitIndex' = IF c > commitIndex THEN Min({c, Len(log')}) ELSE commitIndex
    BY DEF HandleAppendEntries
  <1>5. c \in Nat
    BY <1>1, <1>4, SMT
  <1>6. Min({c, Len(log')}) = IF c <= Len(log') THEN c ELSE Len(log')
    BY <1>3, <1>5, MinOfTwo
  <1>7. commitIndex' \in commitIndex..Len(log')
    BY <1>1, <1>2, <1>3, <1>4, <1>5, <1>6, SMT
  <1>8. IsPrefix(SubSeq(log', 1, commitIndex'), agreed)
    BY DEF HandleAppendEntries
  <1> QED
    BY <1>2, <1>3, <1>7, <1>8

-----------------------------------------------------------------------------
(* Types *)

\* SubSeq of a log within its bounds.
LEMMA Slice ==
  ASSUME NEW S, NEW s \in Seq(S), NEW a \in Nat, NEW b \in Nat, a <= b, b <= Len(s)
  PROVE  /\ SubSeq(s, a + 1, b) \in Seq(S)
         /\ Len(SubSeq(s, a + 1, b)) = b - a
         /\ \A j \in 1..(b - a) : SubSeq(s, a + 1, b)[j] = s[a + j]
  BY SMT

\* applyLoop takes the entries up to commitIndex.
LEMMA Collected ==
  ASSUME TypeOK, Known, lastApplied <= commitIndex
  PROVE  EntriesUpTo(commitIndex) = SubSeq(log, lastApplied + 1, commitIndex)
  <1>1. commitIndex \in Nat /\ Len(log) \in Nat /\ commitIndex <= Len(log)
    BY SMT DEF TypeOK, Known
  <1>2. Min({commitIndex, Len(log)}) = commitIndex
    BY <1>1, MinOfTwo
  <1> QED
    BY <1>2 DEF EntriesUpTo

\* The variables have their types at first.
LEMMA InitTypes == Init => TypeOK
  BY SMT DEF Init, TypeOK, Place, EmptyStore

\* Only a restart can fail to bring the log back.
LEMMA IntactBefore ==
  ASSUME [Next]_vars, intact'
  PROVE  intact /\ (Restart => log' = log)
  <1>1. CASE Restart
    BY <1>1 DEF Restart
  <1>2. CASE ~Restart
    <2>1. intact' = intact
      <3> USE DEF elsewhere, clusterVars, diskVars, nodeVars
      <3>1. CASE \E r \in Request : Handle(r)
        BY <3>1 DEF Handle, CheckLeader, RedirectToLeader, HandleGet, RejectBody, SubmitCommand,
                    AwaitApplied, Timeout
      <3>2. CASE ApplyLoop \/ Consumer
        BY <3>2 DEF ApplyLoop, CollectEntries, PushEntry, FinishBatch, EndApplyLoop,
                    Consumer, ReceiveEntry, ApplyEntry, EndConsumer
      <3>3. CASE Cluster
        BY <3>3 DEF Cluster, StartElection, BecomeLeader, AdvanceCommit, AgreeElsewhere,
                    BecomeFollower, HandleAppendEntries
      <3>4. CASE Shutdown \/ Stop \/ UNCHANGED vars
        BY <3>4 DEF Shutdown, Stop, StopServers, StopNode, vars
      <3> QED
        BY <1>2, <3>1, <3>2, <3>3, <3>4 DEF Next
    <2> QED
      BY <1>2, <2>1
  <1> QED
    BY <1>1, <1>2

\* Every step keeps the types.
LEMMA NextTypes ==
  ASSUME TypeOK, Known, Queue, intact, [Next]_vars, intact'
  PROVE  TypeOK'
  <1> USE DEF TypeOK
  <1>1. ASSUME NEW r \in Request, Handle(r)
        PROVE  TypeOK'
    <2> USE DEF Goto, Place, Answers, elsewhere, clusterVars, nodeVars, loopVars, storeVars, mainVars
    <2>1. CASE CheckLeader(r)
      BY <2>1 DEF CheckLeader
    <2>2. CASE RedirectToLeader(r)
      BY <2>2 DEF RedirectToLeader
    <2>3. CASE HandleGet(r)
      BY <2>3 DEF HandleGet
    <2>4. CASE RejectBody(r)
      BY <2>4 DEF RejectBody
    <2>5. CASE SubmitCommand(r)
      <3>1. [term |-> currentTerm, command |-> r] \in Entry
        BY <2>5 DEF SubmitCommand, Entry, Command, Write
      <3>2. Append(log, [term |-> currentTerm, command |-> r]) \in Seq(Entry)
        BY <3>1, SMT
      <3>3. log' \in Seq(Entry)
        BY <2>5, <3>2 DEF SubmitCommand
      <3>4. /\ index' = index \/ index' = [index EXCEPT ![r] = Len(log')]
            /\ term' = term \/ term' = [term EXCEPT ![r] = currentTerm]
            /\ \E place \in {"notLeader", "failed", "waiting"} : pc' = [pc EXCEPT ![r] = place]
        BY <2>5 DEF SubmitCommand
      <3>5. Len(log') \in Nat
        BY <3>3, SMT
      <3>6. index' \in [Request -> Nat] /\ term' \in [Request -> Nat]
        BY <3>4, <3>5
      <3>7. pc' \in [Request -> Place]
        BY <3>4
      <3> QED
        BY <2>5, <3>3, <3>6, <3>7 DEF SubmitCommand
    <2>6. CASE AwaitApplied(r)
      BY <2>6 DEF AwaitApplied
    <2>7. CASE Timeout(r)
      BY <2>7 DEF Timeout
    <2> QED
      BY <1>1, <2>1, <2>2, <2>3, <2>4, <2>5, <2>6, <2>7 DEF Handle
  <1>2. CASE ApplyLoop
    <2> USE DEF clusterVars, nodeVars, storeVars, requestVars, mainVars
    <2>1. CASE CollectEntries
      <3>1. lastApplied <= commitIndex
        BY <2>1, SMT DEF CollectEntries
      <3>2. SubSeq(log, lastApplied + 1, commitIndex) \in Seq(Entry)
        BY <3>1, Slice, SMTT(30) DEF Known
      <3>3. batch' \in Seq(Entry)
        BY <2>1, <3>1, <3>2, Collected DEF CollectEntries
      <3> QED
        BY <2>1, <3>3 DEF CollectEntries
    <2>2. CASE PushEntry
      <3>1. Append(applyCh, Head(batch)) \in Seq(Entry) /\ Tail(batch) \in Seq(Entry)
        BY <2>2, SMT DEF PushEntry
      <3> QED
        BY <2>2, <3>1 DEF PushEntry
    <2>3. CASE FinishBatch
      BY <2>3 DEF FinishBatch
    <2>4. CASE EndApplyLoop
      BY <2>4 DEF EndApplyLoop
    <2> QED
      BY <1>2, <2>1, <2>2, <2>3, <2>4 DEF ApplyLoop
  <1>3. CASE Consumer
    <2> USE DEF clusterVars, nodeVars, loopVars, requestVars, mainVars
    <2>1. CASE ReceiveEntry
      <3>1. Tail(applyCh) \in Seq(Entry) /\ Head(applyCh) \in Entry
        BY <2>1, SMT DEF ReceiveEntry
      <3>2. <<Head(applyCh)>> \in Seq(Entry)
        BY <3>1, SMT
      <3> QED
        BY <2>1, <3>1, <3>2 DEF ReceiveEntry
    <2>2. CASE ApplyEntry
      <3>1. Head(inHand) \in Entry /\ <<>> \in Seq(Entry) /\ consumed + 1 \in Nat
        BY <2>2, SMT DEF ApplyEntry
      <3> DEFINE c == Head(inHand).command  v == IF Op[c] = "put" THEN c ELSE Nil
      <3>2. v \in Command \cup {Nil}
        BY <3>1 DEF Entry
      <3>3. store' = [store EXCEPT ![KeyOf[c]] = v]
        BY <2>2 DEF ApplyEntry, Apply
      <3> HIDE DEF v, c
      <3>4. store' \in [Key -> Command \cup {Nil}]
        BY <3>2, <3>3
      <3> QED
        BY <2>2, <3>1, <3>4 DEF ApplyEntry
    <2>3. CASE EndConsumer
      BY <2>3 DEF EndConsumer
    <2> QED
      BY <1>3, <2>1, <2>2, <2>3 DEF Consumer
  <1>4. CASE Cluster
    <2> USE DEF outside, clusterVars, nodeVars, loopVars, storeVars, requestVars, mainVars
    <2>1. CASE StartElection
      BY <2>1, SMT DEF StartElection
    <2>2. CASE BecomeLeader
      BY <2>2 DEF BecomeLeader
    <2>3. CASE AdvanceCommit
      <3>1. agreed' \in Seq(Entry)
        BY <2>3, AgreedGrows
      <3>2. commitIndex' \in Nat
        BY <2>3, SMT DEF AdvanceCommit
      <3> QED
        BY <2>3, <3>1, <3>2 DEF AdvanceCommit
    <2>4. CASE AgreeElsewhere
      <3>1. agreed' \in Seq(Entry)
        BY <2>4, AgreedGrows
      <3> QED
        BY <2>4, <3>1 DEF AgreeElsewhere
    <2>5. ASSUME NEW t \in 1..MaxTerm, BecomeFollower(t)
          PROVE  TypeOK'
      BY <2>5, ServiceAssumption, SMTT(30) DEF BecomeFollower
    <2>6. ASSUME NEW t \in 1..MaxTerm, HandleAppendEntries(t)
          PROVE  TypeOK'
      <3>1. t \in Nat
        BY ServiceAssumption, SMT
      <3>2. log' \in Seq(Entry) /\ Len(log') \in Nat /\ commitIndex' \in commitIndex..Len(log')
        BY <2>6, <3>1, CommitAfterAppend
      <3>3. commitIndex' \in Nat
        BY <3>2, SMT
      <3> QED
        BY <2>6, <3>1, <3>2, <3>3 DEF HandleAppendEntries
    <2> QED
      BY <1>4, <2>1, <2>2, <2>3, <2>4, <2>5, <2>6 DEF Cluster
  <1>5. CASE Shutdown \/ Stop
    BY <1>5 DEF Shutdown, Stop, StopServers, StopNode, clusterVars, nodeVars,
                loopVars, storeVars, requestVars
  <1>6. CASE Restart
    <2>1. pc' \in [Request -> Place]
      BY <1>6 DEF Restart, Place, Answers
    <2>2. store' \in [Key -> Command \cup {Nil}]
      BY <1>6 DEF Restart, EmptyStore
    <2>3. <<>> \in Seq(Entry)
      BY SMT
    <2>4. log' \in Seq(Entry)
      BY <1>6, IntactBefore
    <2> QED
      BY <1>6, <2>1, <2>2, <2>3, <2>4, SMT DEF Restart, clusterVars
  <1>7. CASE UNCHANGED vars
    BY <1>7 DEF vars, clusterVars, nodeVars, loopVars, storeVars, requestVars, mainVars
  <1> QED
    BY <1>1, <1>2, <1>3, <1>4, <1>5, <1>6, <1>7 DEF Next

-----------------------------------------------------------------------------
(* What is known to be committed *)

\* Nothing at first.
LEMMA InitKnown == Init => Known /\ Queue /\ Hand
  BY ServiceAssumption, SMT DEF Init, Known, Queue, Hand, Received

\* What the cluster's steps, and a new entry of the Leader, do to the logs.
LEMMA LogsMove ==
  ASSUME TypeOK, Known, intact, Cluster \/ \E r \in Request : SubmitCommand(r)
  PROVE  Known' /\ Starts(agreed, agreed') /\ commitIndex' \in Nat /\ commitIndex <= commitIndex'
  <1>1. /\ agreed \in Seq(Entry) /\ log \in Seq(Entry) /\ commitIndex \in Nat
        /\ Len(log) \in Nat /\ Len(agreed) \in Nat
    BY SMT DEF TypeOK
  <1>2. /\ commitIndex <= Len(log) /\ commitIndex <= Len(agreed)
        /\ \A i \in 1..commitIndex : log[i] = agreed[i]
    BY DEF Known
  <1>3. Starts(agreed, agreed)
    BY <1>1, SMT DEF Starts
  <1>4. ASSUME UNCHANGED <<agreed, log, commitIndex>>
        PROVE  Known' /\ Starts(agreed, agreed') /\ commitIndex' \in Nat /\ commitIndex <= commitIndex'
    BY <1>1, <1>3, <1>4, SMTT(30) DEF Known
  <1>5. ASSUME NEW r \in Request, SubmitCommand(r)
        PROVE  Known' /\ Starts(agreed, agreed') /\ commitIndex' \in Nat /\ commitIndex <= commitIndex'
    <2> DEFINE e == [term |-> currentTerm, command |-> r]
    <2>1. /\ agreed' = agreed /\ commitIndex' = commitIndex
          /\ log' = log \/ log' = Append(log, e)
      BY <1>5 DEF SubmitCommand, clusterVars
    <2>2. CASE log' = log
      BY <1>4, <2>1, <2>2
    <2>3. CASE log' = Append(log, e)
      <3> HIDE DEF e
      <3>1. Len(log') = Len(log) + 1 /\ \A i \in 1..Len(log) : log'[i] = log[i]
        BY <1>1, <2>3, SMTT(30)
      <3>2. Known'
        BY <1>1, <1>2, <2>1, <3>1, SMTT(30) DEF Known
      <3> QED
        BY <1>1, <1>3, <2>1, <3>2, SMTT(30)
    <2> QED
      BY <2>1, <2>2, <2>3
  <1>6. CASE AdvanceCommit
    <2>1. PICK i \in commitIndex + 1 .. Len(log) :
            /\ commitIndex' = i
            /\ \/ IsPrefix(SubSeq(log, 1, i), agreed) /\ agreed' = agreed
               \/ agreed' = SubSeq(log, 1, i)
      BY <1>6 DEF AdvanceCommit
    <2>2. log' = log
      BY <1>6 DEF AdvanceCommit
    <2> DEFINE u == SubSeq(log, 1, i)
    <2>3. u \in Seq(Entry) /\ Len(u) = i /\ \A j \in 1..i : u[j] = log[j]
      BY <1>1, Beginning, SMTT(30)
    <2>4. i \in Nat /\ commitIndex <= i /\ i <= Len(log)
      BY <1>1, SMTT(30)
    <2> HIDE DEF u
    <2>5. i <= Len(agreed') /\ \A j \in 1..i : agreed'[j] = u[j]
      <3>1. CASE agreed' = u
        BY <2>3, <2>4, <3>1, SMTT(30)
      <3>2. CASE IsPrefix(u, agreed) /\ agreed' = agreed
        BY <1>1, <2>3, <3>2, PrefixStarts DEF Starts
      <3> QED
        BY <2>1, <3>1, <3>2 DEF u
    <2>6. Known'
      BY <2>1, <2>2, <2>3, <2>4, <2>5 DEF Known
    <2>7. Starts(agreed, agreed')
      BY <1>6, AgreedGrows
    <2> QED
      BY <2>1, <2>4, <2>6, <2>7
  <1>7. CASE AgreeElsewhere
    <2>1. log' = log /\ commitIndex' = commitIndex
      BY <1>7 DEF AgreeElsewhere, nodeVars
    <2>2. agreed' \in Seq(Entry) /\ Starts(agreed, agreed')
      BY <1>7, AgreedGrows
    <2>3. Len(agreed') \in Nat
      BY <2>2, SMT
    <2>4. Known'
      BY <1>1, <1>2, <2>1, <2>2, <2>3, SMTT(30) DEF Known, Starts
    <2> QED
      BY <1>1, <2>1, <2>2, <2>4, SMTT(30)
  <1>8. ASSUME NEW t \in 1..MaxTerm, HandleAppendEntries(t)
        PROVE  Known' /\ Starts(agreed, agreed') /\ commitIndex' \in Nat /\ commitIndex <= commitIndex'
    <2> DEFINE i == commitIndex'
    <2>1. t \in Nat
      BY ServiceAssumption, SMT
    <2>2. agreed' = agreed
      BY <1>8 DEF HandleAppendEntries, clusterVars
    <2>3. /\ log' \in Seq(Entry) /\ Len(log') \in Nat /\ i \in commitIndex..Len(log')
          /\ IsPrefix(SubSeq(log', 1, i), agreed)
      BY <1>8, <2>1, CommitAfterAppend
    <2>5. i \in 0..Len(log')
      BY <1>1, <2>3, SMTT(30)
    <2> DEFINE u == SubSeq(log', 1, i)
    <2>6. u \in Seq(Entry) /\ Len(u) = i /\ \A j \in 1..i : u[j] = log'[j]
      BY <2>3, <2>5, Beginning
    <2>7. IsPrefix(u, agreed)
      BY <2>3
    <2> HIDE DEF u
    <2>8. Starts(u, agreed)
      BY <1>1, <2>6, <2>7, PrefixStarts
    <2>9. Known'
      BY <1>1, <2>2, <2>5, <2>6, <2>8, SMTT(30) DEF Known, Starts
    <2> QED
      BY <1>1, <1>3, <2>2, <2>3, <2>5, <2>9, SMTT(30)
  <1>9. ASSUME StartElection \/ BecomeLeader \/ \E t \in 1..MaxTerm : BecomeFollower(t)
        PROVE  UNCHANGED <<agreed, log, commitIndex>>
    BY <1>9 DEF StartElection, BecomeLeader, BecomeFollower, clusterVars
  <1> QED
    BY <1>4, <1>5, <1>6, <1>7, <1>8, <1>9 DEF Cluster

\* Steps that do not touch the pipeline leave it in order.
LEMMA QueueStays ==
  ASSUME TypeOK, Known, Queue, UNCHANGED <<loopVars, applyCh, Received>>,
         Starts(agreed, agreed'), commitIndex' \in Nat, commitIndex <= commitIndex'
  PROVE  Queue'
  <1>1. UNCHANGED <<lastApplied, applyPc, batch, newLastApplied, applyCh, Received>>
    BY DEF loopVars
  <1>2. /\ Len(applyCh) \in Nat /\ Len(batch) \in Nat /\ Received \in Nat
        /\ lastApplied \in Nat /\ newLastApplied \in Nat /\ commitIndex \in Nat
        /\ Len(agreed) \in Nat
    BY SMT DEF TypeOK, Received
  <1>3. \A j \in 1..Len(applyCh) : agreed'[Received + j] = agreed[Received + j]
    BY <1>2, SMTT(30) DEF Queue, Known, Starts
  <1>4. applyPc = "push" => \A j \in 1..Len(batch) :
          agreed'[Received + Len(applyCh) + j] = agreed[Received + Len(applyCh) + j]
    BY <1>2, SMTT(30) DEF Queue, Known, Starts
  <1>5. lastApplied <= commitIndex' /\ Received + Len(applyCh) <= commitIndex'
    BY <1>2, SMT DEF Queue
  <1>6. applyPc = "push" => newLastApplied <= commitIndex'
    BY <1>2, SMTT(30) DEF Queue
  <1> QED
    BY <1>1, <1>3, <1>4, <1>5, <1>6 DEF Queue

\* Handlers other than SubmitCommand, and main, touch neither the logs nor
\* the pipeline.
LEMMA Bystanders ==
  ASSUME \/ \E r \in Request : Handle(r) /\ ~SubmitCommand(r)
         \/ Shutdown \/ Stop \/ UNCHANGED vars
  PROVE  UNCHANGED <<clusterVars, nodeVars, loopVars, applyCh, storeVars>>
  <1>1. ASSUME NEW r \in Request, Handle(r), ~SubmitCommand(r)
        PROVE  UNCHANGED elsewhere
    BY <1>1 DEF Handle, CheckLeader, RedirectToLeader, HandleGet, RejectBody, AwaitApplied, Timeout
  <1>2. CASE Shutdown \/ Stop
    BY <1>2 DEF Shutdown, Stop, StopServers, StopNode
  <1>3. CASE UNCHANGED vars
    BY <1>3 DEF vars
  <1> QED
    BY <1>1, <1>2, <1>3 DEF elsewhere

\* Every step keeps the pipeline in order.
LEMMA NextQueue ==
  ASSUME TypeOK, Known, Queue, Hand, intact, [Next]_vars, intact'
  PROVE  Known' /\ Queue'
  <1>0. /\ agreed \in Seq(Entry) /\ log \in Seq(Entry) /\ batch \in Seq(Entry)
        /\ applyCh \in Seq(Entry) /\ commitIndex \in Nat /\ lastApplied \in Nat
        /\ newLastApplied \in Nat /\ Received \in Nat /\ Len(agreed) \in Nat
        /\ Len(log) \in Nat /\ Len(batch) \in Nat /\ Len(applyCh) \in Nat
    BY SMT DEF TypeOK, Received
  <1>1. ASSUME UNCHANGED <<clusterVars, nodeVars, loopVars, applyCh, storeVars>>
        PROVE  Known' /\ Queue'
    BY <1>1 DEF Known, Queue, Received, clusterVars, nodeVars, loopVars, storeVars
  <1>2. CASE Cluster \/ \E r \in Request : SubmitCommand(r)
    <2>1. Known' /\ Starts(agreed, agreed') /\ commitIndex' \in Nat /\ commitIndex <= commitIndex'
      BY <1>2, LogsMove
    <2>2. UNCHANGED <<loopVars, applyCh, Received>>
      BY <1>2 DEF Cluster, SubmitCommand, StartElection, BecomeLeader, AdvanceCommit,
                  AgreeElsewhere, BecomeFollower, HandleAppendEntries, outside, storeVars, Received
    <2> QED
      BY <2>1, <2>2, QueueStays
  <1>3. CASE CollectEntries
    <2>1. /\ applyPc = "tick" /\ lastApplied < commitIndex /\ applyPc' = "push"
          /\ batch' = EntriesUpTo(commitIndex) /\ newLastApplied' = commitIndex
          /\ UNCHANGED <<agreed, log, commitIndex, lastApplied, applyCh, Received>>
      BY <1>3 DEF CollectEntries, clusterVars, nodeVars, storeVars, Received
    <2>2. /\ Len(batch') = commitIndex - lastApplied
          /\ \A j \in 1..(commitIndex - lastApplied) : batch'[j] = log[lastApplied + j]
      <3>1. lastApplied <= commitIndex
        BY <1>0, <2>1, SMTT(30)
      <3>2. batch' = SubSeq(log, lastApplied + 1, commitIndex)
        BY <2>1, <3>1, Collected
      <3> QED
        BY <1>0, <3>1, <3>2, Slice, SMTT(30) DEF Known
    <2>3. \A j \in 1..Len(batch') : batch'[j] = agreed[lastApplied + j]
      BY <1>0, <2>1, <2>2, SMTT(30) DEF Known
    <2>4. Received + Len(applyCh) = lastApplied
      BY <2>1 DEF Queue
    <2>5. Known'
      BY <2>1 DEF Known
    <2>6. \A j \in 1..Len(batch') : batch'[j] = agreed'[Received' + Len(applyCh') + j]
      BY <2>1, <2>3, <2>4
    <2>7. /\ newLastApplied' <= commitIndex'
          /\ lastApplied' + Len(batch') <= newLastApplied'
          /\ Received' + Len(applyCh') + Len(batch') = newLastApplied'
      <3>1. commitIndex \in Nat /\ lastApplied \in Nat
        BY <1>0
      <3>2. Len(batch') = commitIndex - lastApplied /\ newLastApplied' = commitIndex
        BY <2>1, <2>2
      <3>3. lastApplied + Len(batch') = commitIndex
        BY <3>1, <3>2, SMTT(30)
      <3>4. /\ commitIndex' = commitIndex /\ lastApplied' = lastApplied
            /\ Received' + Len(applyCh') = lastApplied
        BY <2>1, <2>4
      <3> QED
        BY <3>1, <3>2, <3>3, <3>4, SMTT(30)
    <2>8. /\ Len(applyCh') <= Capacity /\ lastApplied' <= commitIndex'
          /\ lastApplied' <= Received' + Len(applyCh')
          /\ Received' + Len(applyCh') <= commitIndex'
          /\ \A j \in 1..Len(applyCh') : applyCh'[j] = agreed'[Received' + j]
      BY <2>1 DEF Queue
    <2> QED
      BY <2>1, <2>5, <2>6, <2>7, <2>8 DEF Queue
  <1>4. CASE PushEntry
    <2>1. /\ applyPc = "push" /\ batch # <<>> /\ Len(applyCh) < Capacity
          /\ applyCh' = Append(applyCh, Head(batch)) /\ batch' = Tail(batch)
          /\ UNCHANGED <<agreed, log, commitIndex, lastApplied, newLastApplied, applyPc, Received>>
      BY <1>4 DEF PushEntry, clusterVars, nodeVars, storeVars, Received
    <2>2. Head(batch) = batch[1] /\ Head(batch) \in Entry /\ Len(batch) >= 1
      BY <1>0, <2>1, SMTT(30)
    <2>3. /\ Len(applyCh') = Len(applyCh) + 1
          /\ \A j \in 1..Len(applyCh) : applyCh'[j] = applyCh[j]
          /\ applyCh'[Len(applyCh) + 1] = batch[1]
      BY <1>0, <2>1, <2>2, SMTT(30)
    <2>4. /\ Len(batch') = Len(batch) - 1
          /\ \A j \in 1..(Len(batch) - 1) : batch'[j] = batch[j + 1]
      BY <1>0, <2>1, SMTT(30)
    <2>5. \A j \in 1..Len(applyCh') : applyCh'[j] = agreed[Received + j]
      <3> SUFFICES ASSUME NEW j \in 1..Len(applyCh')
                   PROVE  applyCh'[j] = agreed[Received + j]
        OBVIOUS
      <3>1. CASE j \in 1..Len(applyCh)
        BY <2>3, <3>1 DEF Queue
      <3>2. CASE j = Len(applyCh) + 1
        <4>1. batch[1] = agreed[Received + Len(applyCh) + 1]
          BY <2>1, <2>2, SMTT(30) DEF Queue
        <4>2. Received + Len(applyCh) + 1 = Received + j
          BY <1>0, <3>2, SMTT(30)
        <4> QED
          BY <2>3, <3>2, <4>1, <4>2
      <3> QED
        BY <1>0, <2>3, <3>1, <3>2, SMTT(30)
    <2>6. \A j \in 1..Len(batch') : batch'[j] = agreed[Received + Len(applyCh') + j]
      <3> SUFFICES ASSUME NEW j \in 1..Len(batch')
                   PROVE  batch'[j] = agreed[Received + Len(applyCh') + j]
        OBVIOUS
      <3>1. j \in 1..(Len(batch) - 1) /\ j + 1 \in 1..Len(batch)
        BY <1>0, <2>4, SMTT(30)
      <3>2. batch[j + 1] = agreed[Received + Len(applyCh) + (j + 1)]
        BY <2>1, <3>1 DEF Queue
      <3>3. Received + Len(applyCh) + (j + 1) = Received + Len(applyCh') + j
        BY <1>0, <2>3, SMTT(30)
      <3> QED
        BY <2>4, <3>1, <3>2, <3>3
    <2>7. /\ Len(applyCh') <= Capacity
          /\ lastApplied <= Received + Len(applyCh')
          /\ Received + Len(applyCh') <= commitIndex
          /\ lastApplied + Len(batch') <= newLastApplied
          /\ Received + Len(applyCh') + Len(batch') = newLastApplied
      <3>1. /\ lastApplied <= Received + Len(applyCh) /\ newLastApplied <= commitIndex
            /\ lastApplied + Len(batch) <= newLastApplied
            /\ Received + Len(applyCh) + Len(batch) = newLastApplied
        BY <2>1 DEF Queue
      <3>2. Len(applyCh') = Len(applyCh) + 1 /\ Len(batch') = Len(batch) - 1 /\ Len(batch) >= 1
        BY <2>2, <2>3, <2>4
      <3>3. Capacity \in Nat /\ Len(applyCh) < Capacity
        BY <2>1, ServiceAssumption
      <3>4. /\ Len(applyCh) \in Nat /\ Len(batch) \in Nat /\ Received \in Nat
            /\ lastApplied \in Nat /\ newLastApplied \in Nat /\ commitIndex \in Nat
        BY <1>0
      <3>5. /\ Len(applyCh') <= Capacity
            /\ lastApplied <= Received + Len(applyCh')
            /\ Received + Len(applyCh') <= commitIndex
        BY <3>1, <3>2, <3>3, <3>4, SMTT(30)
      <3>6. /\ lastApplied + Len(batch') <= newLastApplied
            /\ Received + Len(applyCh') + Len(batch') = newLastApplied
        BY <3>1, <3>2, <3>4, SMTT(30)
      <3> QED
        BY <3>5, <3>6
    <2>8. Known'
      BY <2>1 DEF Known
    <2> QED
      BY <2>1, <2>5, <2>6, <2>7, <2>8 DEF Queue
  <1>5. CASE FinishBatch
    <2>1. /\ applyPc = "push" /\ batch = <<>> /\ applyPc' = "tick"
          /\ lastApplied' = newLastApplied
          /\ UNCHANGED <<agreed, log, commitIndex, batch, newLastApplied, applyCh, Received>>
      BY <1>5 DEF FinishBatch, clusterVars, nodeVars, storeVars, Received
    <2>2. Received + Len(applyCh) = newLastApplied
      <3>1. Len(batch) = 0
        BY <2>1
      <3> QED
        BY <1>0, <2>1, <3>1, SMTT(30) DEF Queue
    <2>3. Known'
      BY <2>1 DEF Known
    <2> QED
      BY <1>0, <2>1, <2>2, <2>3, SMTT(30) DEF Queue
  <1>6. CASE EndApplyLoop
    <2>1. applyPc' = "ended"
          /\ UNCHANGED <<agreed, log, commitIndex, lastApplied, applyCh, Received>>
      BY <1>6 DEF EndApplyLoop, clusterVars, nodeVars, storeVars, Received
    <2> QED
      BY <2>1 DEF Known, Queue
  <1>7. CASE ReceiveEntry
    <2>1. /\ applyCh # <<>> /\ applyCh' = Tail(applyCh)
          /\ inHand = <<>> /\ inHand' = <<Head(applyCh)>> /\ consumed' = consumed
          /\ UNCHANGED <<agreed, log, commitIndex, lastApplied, newLastApplied, applyPc, batch>>
      BY <1>7 DEF ReceiveEntry, clusterVars, nodeVars, loopVars
    <2>2. /\ Len(applyCh') = Len(applyCh) - 1 /\ Len(applyCh) >= 1
          /\ \A j \in 1..(Len(applyCh) - 1) : applyCh'[j] = applyCh[j + 1]
      BY <1>0, <2>1, SMTT(30)
    <2>3. Received' = Received + 1
      <3>1. Len(inHand) = 0 /\ Len(inHand') = 1
        BY <2>1
      <3> QED
        BY <2>1, <3>1, SMTT(30) DEF Received, TypeOK
    <2>4. Received' + Len(applyCh') = Received + Len(applyCh)
      BY <1>0, <2>2, <2>3, SMTT(30)
    <2>5. ASSUME NEW j \in 1..Len(applyCh')
          PROVE  applyCh'[j] = agreed[Received' + j]
      <3>1. j \in 1..(Len(applyCh) - 1) /\ j + 1 \in 1..Len(applyCh)
        BY <1>0, <2>2, SMTT(30)
      <3>2. applyCh[j + 1] = agreed[Received + (j + 1)]
        BY <3>1 DEF Queue
      <3>3. Received + (j + 1) = Received' + j
        BY <1>0, <2>3, SMTT(30)
      <3> QED
        BY <2>2, <3>1, <3>2, <3>3
    <2>6. Len(applyCh') <= Capacity
      BY <1>0, <2>2, ServiceAssumption, SMTT(30) DEF Queue
    <2>7. Known'
      BY <2>1 DEF Known
    <2> QED
      BY <2>1, <2>4, <2>5, <2>6, <2>7 DEF Queue
  <1>8. CASE ApplyEntry \/ EndConsumer
    <2>1. UNCHANGED <<agreed, log, commitIndex, lastApplied, newLastApplied, applyPc, batch, applyCh>>
      BY <1>8 DEF ApplyEntry, EndConsumer, clusterVars, nodeVars, loopVars
    <2>2. Received' = Received
      <3>1. CASE ApplyEntry
        <4>1. inHand # <<>> /\ inHand' = <<>> /\ consumed' = consumed + 1
          BY <3>1 DEF ApplyEntry
        <4>2. Len(inHand) = 1
          <5>1. inHand \in Seq(Entry) /\ Len(inHand) <= 1
            BY DEF TypeOK, Hand
          <5>2. Len(inHand) \in Nat \ {0}
            BY <4>1, <5>1, EmptySeq
          <5> QED
            BY <5>1, <5>2, SMT
        <4>3. Len(inHand') = 0
          BY <4>1
        <4> QED
          BY <4>1, <4>2, <4>3, SMT DEF Received, TypeOK
      <3>2. CASE EndConsumer
        BY <3>2 DEF EndConsumer, Received
      <3> QED
        BY <1>8, <3>1, <3>2
    <2> QED
      BY <2>1, <2>2 DEF Known, Queue
  <1>9. CASE Restart
    <2>1. /\ UNCHANGED agreed /\ commitIndex' = 0 /\ lastApplied' = 0
          /\ applyPc' = "tick" /\ batch' = <<>> /\ newLastApplied' = 0
          /\ applyCh' = <<>> /\ inHand' = <<>> /\ consumed' = 0
      BY <1>9 DEF Restart, clusterVars
    <2>2. Len(applyCh') = 0 /\ Len(batch') = 0 /\ Len(inHand') = 0
      BY <2>1
    <2>3. log' = log
      BY <1>9, IntactBefore
    <2>4. Received' = 0
      BY <2>1, <2>2, SMT DEF Received
    <2> QED
      BY <1>0, <2>1, <2>2, <2>3, <2>4, ServiceAssumption, SMTT(30) DEF Known, Queue
  <1> QED
    BY <1>1, <1>2, <1>3, <1>4, <1>5, <1>6, <1>7, <1>8, <1>9, Bystanders
       DEF Next, ApplyLoop, Consumer

\* Only the consumer, and a restart, change what it holds and the store.
LEMMA ConsumerOnly ==
  ASSUME [Next]_vars, ~ReceiveEntry, ~ApplyEntry, ~Restart
  PROVE  UNCHANGED <<inHand, store, consumed>>
  <1>1. CASE \E r \in Request : Handle(r)
    BY <1>1, Bystanders DEF SubmitCommand, storeVars
  <1>2. CASE ApplyLoop \/ EndConsumer
    BY <1>2 DEF ApplyLoop, CollectEntries, PushEntry, FinishBatch, EndApplyLoop,
                EndConsumer, storeVars
  <1>3. CASE Cluster
    BY <1>3 DEF Cluster, StartElection, BecomeLeader, AdvanceCommit, AgreeElsewhere,
                BecomeFollower, HandleAppendEntries, outside, storeVars
  <1>4. CASE Shutdown \/ Stop \/ UNCHANGED vars
    BY <1>4, Bystanders DEF storeVars
  <1> QED
    BY <1>1, <1>2, <1>3, <1>4 DEF Next, Consumer

-----------------------------------------------------------------------------
(* Requests *)

\* Nobody waits at first.
LEMMA InitWaits == Init => Waits /\ AckedIsAgreed
  BY SMT DEF Init, Waits, AckedIsAgreed, AckedWrites, Write

\* A write that waits while its term lasts keeps its entry.
LEMMA NextWaits ==
  ASSUME TypeOK, Waits, [Next]_vars
  PROVE  Waits'
  <1>0. /\ log \in Seq(Entry) /\ Len(log) \in Nat /\ currentTerm \in Nat /\ led \in Nat
        /\ pc \in [Request -> Place] /\ index \in [Request -> Nat] /\ term \in [Request -> Nat]
        /\ Write \subseteq Request
    BY SMT DEF TypeOK, Write
  <1>1. ASSUME UNCHANGED <<led, currentTerm, state, log, index, term>>,
               \A r \in Write : pc'[r] = "waiting" => pc[r] = "waiting"
        PROVE  Waits'
    BY <1>1 DEF Waits
  <1>2. ASSUME NEW r \in Request, SubmitCommand(r)
        PROVE  Waits'
    <2>1. UNCHANGED <<led, currentTerm, state>>
      BY <1>2 DEF SubmitCommand, clusterVars
    <2>2. CASE state # "Leader"
      BY <1>0, <1>1, <1>2, <2>1, <2>2 DEF SubmitCommand, Goto
    <2>3. CASE state = "Leader"
      <3> DEFINE e == [term |-> currentTerm, command |-> r]
      <3>1. log' = Append(log, e)
        BY <1>2, <2>3 DEF SubmitCommand
      <3>2. /\ Len(log') = Len(log) + 1 /\ log'[Len(log) + 1] = e
            /\ \A i \in 1..Len(log) : log'[i] = log[i]
        BY <1>0, <3>1, SMTT(30)
      <3>3. \A s \in Request : s # r => pc'[s] = pc[s] /\ index'[s] = index[s] /\ term'[s] = term[s]
        BY <1>0, <1>2 DEF SubmitCommand, Goto
      <3>4. pc'[r] = "waiting" => index'[r] = Len(log) + 1 /\ term'[r] = currentTerm
        BY <1>0, <1>2, <2>3, <3>2 DEF SubmitCommand, Goto
      <3>5. led = currentTerm
        BY <2>3 DEF Waits
      <3>6. ASSUME NEW s \in Write, pc'[s] = "waiting"
            PROVE  /\ term'[s] <= led
                   /\ currentTerm = term'[s] =>
                        /\ index'[s] \in 1..Len(log')
                        /\ log'[index'[s]] = [term |-> term'[s], command |-> s]
        <4>1. CASE s = r
          BY <1>0, <3>2, <3>4, <3>5, <3>6, <4>1, SMTT(30)
        <4>2. CASE s # r
          <5>1. pc[s] = "waiting" /\ index'[s] = index[s] /\ term'[s] = term[s]
            BY <1>0, <3>3, <3>6, <4>2
          <5>2. term[s] <= led /\ (currentTerm = term[s] =>
                   index[s] \in 1..Len(log) /\ log[index[s]] = [term |-> term[s], command |-> s])
            BY <2>3, <5>1 DEF Waits
          <5> QED
            BY <1>0, <3>2, <5>1, <5>2, SMTT(30)
        <4> QED
          BY <4>1, <4>2
      <3> QED
        BY <2>1, <2>3, <3>5, <3>6 DEF Waits
    <2> QED
      BY <2>2, <2>3
  <1>3. ASSUME NEW r \in Request, Handle(r), ~SubmitCommand(r)
        PROVE  Waits'
    <2>1. UNCHANGED <<led, currentTerm, state, log>>
      BY <1>3, Bystanders DEF clusterVars, nodeVars
    <2>2. UNCHANGED <<index, term>>
      BY <1>3 DEF Handle, CheckLeader, RedirectToLeader, HandleGet, RejectBody, AwaitApplied, Timeout
    <2>3. \E place \in Place \ {"waiting"} : pc' = [pc EXCEPT ![r] = place]
      BY <1>3 DEF Handle, CheckLeader, RedirectToLeader, HandleGet, RejectBody,
                  AwaitApplied, Timeout, Goto, Place, Answers
    <2> QED
      BY <1>0, <1>1, <2>1, <2>2, <2>3
  <1>4. CASE ApplyLoop \/ Consumer \/ Shutdown \/ Stop \/ UNCHANGED vars
    <2>1. UNCHANGED <<led, currentTerm, state, log, index, term, pc>>
      BY <1>4 DEF ApplyLoop, CollectEntries, PushEntry, FinishBatch, EndApplyLoop, Consumer,
                  ReceiveEntry, ApplyEntry, EndConsumer, Shutdown, Stop, StopServers, StopNode, vars,
                  clusterVars, nodeVars, requestVars
    <2> QED
      BY <1>1, <2>1
  <1>5. CASE Cluster
    <2>1. UNCHANGED <<index, term, pc>>
      BY <1>5 DEF Cluster, StartElection, BecomeLeader, AdvanceCommit, AgreeElsewhere,
                  BecomeFollower, HandleAppendEntries, outside, requestVars
    <2>2. CASE StartElection
      <3>1. state' = "Candidate" /\ currentTerm' = currentTerm + 1 /\ led' = led
        BY <2>2 DEF StartElection, clusterVars
      <3>2. led <= currentTerm' /\ led < currentTerm'
        <4>1. led \in Nat /\ currentTerm \in Nat /\ led <= currentTerm
          BY <1>0 DEF Waits
        <4> QED
          BY <3>1, <4>1, SMTT(30)
      <3>3. \A r \in Write : pc'[r] = "waiting" => term'[r] <= led'
        BY <2>1, <3>1 DEF Waits
      <3> QED
        BY <3>1, <3>2, <3>3 DEF Waits
    <2>3. CASE BecomeLeader
      <3>1. \A r \in Write : pc[r] = "waiting" => term[r] <= led /\ led < currentTerm
        BY <2>3 DEF BecomeLeader, Waits
      <3>2. \A r \in Write : pc[r] = "waiting" => term[r] < currentTerm
        BY <1>0, <3>1, SMTT(30)
      <3> QED
        BY <1>0, <2>1, <2>3, <3>2, SMTT(30) DEF BecomeLeader, Waits
    <2>4. CASE AdvanceCommit \/ AgreeElsewhere
      BY <1>1, <2>1, <2>4 DEF AdvanceCommit, AgreeElsewhere, nodeVars
    <2>5. ASSUME NEW t \in 1..MaxTerm, BecomeFollower(t) \/ HandleAppendEntries(t)
          PROVE  Waits'
      <3>1. state' = "Follower" /\ currentTerm' = t /\ led' = led /\ t >= currentTerm
        BY <1>0, <2>5, ServiceAssumption, SMTT(30) DEF BecomeFollower, HandleAppendEntries, clusterVars
      <3>2. t \in Nat /\ led <= currentTerm
        BY ServiceAssumption, SMTT(30) DEF Waits
      <3>3. led' <= currentTerm'
        BY <1>0, <3>1, <3>2, SMTT(30)
      <3>4. \A r \in Write : pc'[r] = "waiting" => term'[r] <= led'
        BY <2>1, <3>1 DEF Waits
      <3> QED
        BY <3>1, <3>3, <3>4 DEF Waits
    <2> QED
      BY <1>5, <2>2, <2>3, <2>4, <2>5 DEF Cluster
  <1>6. CASE Restart
    <2>1. \A r \in Write : pc'[r] # "waiting"
      BY <1>0, <1>6 DEF Restart, Answers
    <2> QED
      BY <1>6, <2>1 DEF Restart, Waits, clusterVars
  <1> QED
    BY <1>2, <1>3, <1>4, <1>5, <1>6 DEF Next

\* Every step continues the agreed log.
LEMMA AgreedStarts ==
  ASSUME TypeOK, Known, intact, [Next]_vars
  PROVE  Starts(agreed, agreed')
  <1>1. ASSUME agreed' = agreed
        PROVE  Starts(agreed, agreed')
    <2>1. Len(agreed) \in Nat
      BY SMT DEF TypeOK
    <2> QED
      BY <1>1, <2>1, SMTT(30) DEF Starts
  <1>2. CASE Cluster \/ \E r \in Request : SubmitCommand(r)
    BY <1>2, LogsMove
  <1>3. CASE \/ \E r \in Request : Handle(r) /\ ~SubmitCommand(r)
             \/ Shutdown \/ Stop \/ UNCHANGED vars
    BY <1>1, <1>3, Bystanders DEF clusterVars
  <1>4. CASE ApplyLoop \/ Consumer \/ Restart
    BY <1>1, <1>4 DEF ApplyLoop, CollectEntries, PushEntry, FinishBatch, EndApplyLoop, Consumer,
                      ReceiveEntry, ApplyEntry, EndConsumer, Restart, clusterVars
  <1> QED
    BY <1>2, <1>3, <1>4 DEF Next

\* The consumer holds the agreed entry that the store lacks next.
LEMMA NextHand ==
  ASSUME TypeOK, Known, Queue, Hand, intact, [Next]_vars
  PROVE  Hand'
  <1>0. /\ Len(agreed) \in Nat /\ consumed \in Nat /\ commitIndex \in Nat
        /\ Len(inHand) \in Nat /\ Len(applyCh) \in Nat /\ applyCh \in Seq(Entry)
    BY SMT DEF TypeOK
  <1>1. CASE ReceiveEntry
    <2>1. /\ inHand = <<>> /\ applyCh # <<>> /\ inHand' = <<Head(applyCh)>>
          /\ UNCHANGED <<agreed, consumed>>
      BY <1>1 DEF ReceiveEntry, clusterVars
    <2>2. Head(applyCh) = applyCh[1] /\ 1 \in 1..Len(applyCh)
      BY <1>0, <2>1, SMTT(30)
    <2>3. Received = consumed
      <3>1. Len(inHand) = 0
        BY <2>1
      <3> QED
        BY <1>0, <3>1, SMT DEF Received
    <2>4. Head(applyCh) = agreed[consumed + 1]
      BY <2>2, <2>3 DEF Queue
    <2>5. Len(inHand') = 1 /\ inHand'[1] = Head(applyCh)
      BY <2>1
    <2>6. 1..1 = {1}
      BY SMT
    <2> QED
      BY <2>1, <2>4, <2>5, <2>6, SMT DEF Hand
  <1>2. CASE ApplyEntry \/ Restart
    <2>1. inHand' = <<>>
      BY <1>2 DEF ApplyEntry, Restart
    <2>2. Len(inHand') = 0
      BY <2>1
    <2> QED
      BY <2>2, SMT DEF Hand
  <1>3. CASE ~ReceiveEntry /\ ~ApplyEntry /\ ~Restart
    <2>1. UNCHANGED <<inHand, consumed>>
      BY <1>3, ConsumerOnly
    <2>2. consumed + Len(inHand) + Len(applyCh) <= commitIndex /\ commitIndex <= Len(agreed)
      BY DEF Queue, Known, Received
    <2>3. \A i \in 1..Len(agreed) : agreed'[i] = agreed[i]
      BY AgreedStarts DEF Starts
    <2>4. \A j \in 1..Len(inHand) : agreed'[consumed + j] = agreed[consumed + j]
      <3> TAKE j \in 1..Len(inHand)
      <3>1. consumed + j \in 1..Len(agreed)
        BY <1>0, <2>2, SMTT(30)
      <3> QED
        BY <2>3, <3>1
    <2> QED
      BY <2>1, <2>4 DEF Hand
  <1> QED
    BY <1>1, <1>2, <1>3

\* A write that is answered 200 was so before, or its wait has just ended.
LEMMA NewlyAcked ==
  ASSUME TypeOK, [Next]_vars, NEW r \in Write, pc'[r] = "ok"
  PROVE  /\ index'[r] = index[r] /\ term'[r] = term[r]
         /\ \/ pc[r] = "ok"
            \/ /\ pc[r] = "waiting" /\ state = "Leader" /\ currentTerm = term[r]
               /\ lastApplied >= index[r] /\ agreed' = agreed
  <1>0. /\ pc \in [Request -> Place] /\ index \in [Request -> Nat] /\ term \in [Request -> Nat]
        /\ r \in Request /\ Op[r] # "get"
    BY DEF TypeOK, Write
  <1>1. ASSUME NEW s \in Request, SubmitCommand(s)
        PROVE  s # r /\ pc'[r] = pc[r] /\ index'[r] = index[r] /\ term'[r] = term[r]
    BY <1>0, <1>1 DEF SubmitCommand, Goto
  <1>2. ASSUME NEW s \in Request, Handle(s), ~SubmitCommand(s)
        PROVE  /\ index'[r] = index[r] /\ term'[r] = term[r]
               /\ \/ pc[r] = "ok"
                  \/ /\ pc[r] = "waiting" /\ state = "Leader" /\ currentTerm = term[r]
                     /\ lastApplied >= index[r] /\ agreed' = agreed
    <2>1. UNCHANGED <<index, term>>
      BY <1>2 DEF Handle, CheckLeader, RedirectToLeader, HandleGet, RejectBody, AwaitApplied, Timeout
    <2>2. CASE s # r
      BY <1>0, <1>2, <2>1, <2>2 DEF Handle, CheckLeader, RedirectToLeader, HandleGet, RejectBody,
                                    AwaitApplied, Timeout, Goto
    <2>3. CASE s = r
      <3>1. AwaitApplied(r)
        BY <1>0, <1>2, <2>3 DEF Handle, CheckLeader, RedirectToLeader, HandleGet, RejectBody,
                                Timeout, Goto
      <3> QED
        BY <1>0, <2>1, <3>1 DEF AwaitApplied, Goto, elsewhere, clusterVars
    <2> QED
      BY <2>2, <2>3
  <1>3. CASE ApplyLoop \/ Consumer \/ Cluster \/ Shutdown \/ Stop \/ UNCHANGED vars
    <2>1. UNCHANGED <<index, term, pc>>
      BY <1>3 DEF ApplyLoop, CollectEntries, PushEntry, FinishBatch, EndApplyLoop, Consumer,
                  ReceiveEntry, ApplyEntry, EndConsumer, Cluster, StartElection, BecomeLeader, AdvanceCommit,
                  AgreeElsewhere, BecomeFollower, HandleAppendEntries, outside, Shutdown, Stop,
                  StopServers, StopNode, vars, requestVars
    <2> QED
      BY <2>1
  <1>4. CASE Restart
    BY <1>0, <1>4 DEF Restart, Answers
  <1> QED
    BY <1>1, <1>2, <1>3, <1>4 DEF Next

\* An acknowledged write stays agreed, and one that is acknowledged now is.
LEMMA NextAcked ==
  ASSUME TypeOK, Known, Queue, Waits, AckedIsAgreed, intact, [Next]_vars, TypeOK'
  PROVE  AckedIsAgreed'
  <1>0. /\ Len(agreed) \in Nat /\ Len(agreed') \in Nat /\ commitIndex \in Nat /\ lastApplied \in Nat
        /\ index \in [Request -> Nat]
    BY SMTT(30) DEF TypeOK
  <1>1. Len(agreed) <= Len(agreed') /\ \A i \in 1..Len(agreed) : agreed'[i] = agreed[i]
    BY AgreedStarts DEF Starts
  <1>2. ASSUME NEW r \in Write, pc'[r] = "ok"
        PROVE  /\ index'[r] \in 1..Len(agreed')
               /\ agreed'[index'[r]] = [term |-> term'[r], command |-> r]
    <2>1. /\ index'[r] = index[r] /\ term'[r] = term[r]
          /\ \/ pc[r] = "ok"
             \/ /\ pc[r] = "waiting" /\ state = "Leader" /\ currentTerm = term[r]
                /\ lastApplied >= index[r] /\ agreed' = agreed
      BY <1>2, NewlyAcked
    <2>2. index[r] \in 1..Len(agreed) /\ agreed[index[r]] = [term |-> term[r], command |-> r]
      <3>1. CASE pc[r] = "ok"
        BY <3>1 DEF AckedIsAgreed, AckedWrites
      <3>2. CASE /\ pc[r] = "waiting" /\ state = "Leader" /\ currentTerm = term[r]
                 /\ lastApplied >= index[r]
        <4>1. index[r] \in 1..Len(log) /\ log[index[r]] = [term |-> term[r], command |-> r]
          BY <3>2 DEF Waits
        <4>2. index[r] \in 1..commitIndex
          BY <1>0, <3>2, <4>1, SMTT(30) DEF Queue, Write
        <4>3. index[r] \in 1..Len(agreed) /\ log[index[r]] = agreed[index[r]]
          BY <1>0, <4>2, SMTT(30) DEF Known
        <4> QED
          BY <4>1, <4>3
      <3> QED
        BY <2>1, <3>1, <3>2
    <2> QED
      BY <1>0, <1>1, <2>1, <2>2, SMTT(30)
  <1> QED
    BY <1>2 DEF AckedIsAgreed, AckedWrites

-----------------------------------------------------------------------------
(* The store *)

\* Among the first n entries of a, those that write k.
Writes(a, n, k) == {i \in 1..n : KeyOf[a[i].command] = k}

\* v is what the last of them leaves.
Shows(a, n, k, v) ==
  \/ Writes(a, n, k) = {} /\ v = Nil
  \/ \E i \in Writes(a, n, k) :
       /\ \A j \in Writes(a, n, k) : j <= i
       /\ v = IF Op[a[i].command] = "put" THEN a[i].command ELSE Nil

\* StoreFollowsAgreed in these words.
LEMMA StoreShows ==
  intact => (StoreFollowsAgreed <=> \A k \in Key : Shows(agreed, consumed, k, store[k]))
  BY DEF StoreFollowsAgreed, Shows, Writes

\* A longer log shows the same.
LEMMA ShowsGrows ==
  ASSUME NEW a, NEW b, NEW n \in Nat, NEW k, NEW v, Shows(a, n, k, v),
         \A i \in 1..n : b[i] = a[i]
  PROVE  Shows(b, n, k, v)
  <1>1. Writes(b, n, k) = Writes(a, n, k)
    BY DEF Writes
  <1>2. \A i \in Writes(a, n, k) : b[i] = a[i]
    BY DEF Writes
  <1> QED
    BY <1>1, <1>2 DEF Shows

\* One more entry.
LEMMA ShowsNext ==
  ASSUME NEW a, NEW n \in Nat, NEW k, NEW v, NEW w, Shows(a, n, k, v),
         w = IF KeyOf[a[n + 1].command] = k
             THEN IF Op[a[n + 1].command] = "put" THEN a[n + 1].command ELSE Nil
             ELSE v
  PROVE  Shows(a, n + 1, k, w)
  <1>1. CASE KeyOf[a[n + 1].command] = k
    <2>1. n + 1 \in Writes(a, n + 1, k) /\ \A j \in Writes(a, n + 1, k) : j <= n + 1
      <3>1. n + 1 \in 1..(n + 1) /\ \A j \in 1..(n + 1) : j <= n + 1
        BY SMT
      <3> QED
        BY <1>1, <3>1, Zenon DEF Writes
    <2>2. w = IF Op[a[n + 1].command] = "put" THEN a[n + 1].command ELSE Nil
      BY <1>1
    <2> QED
      BY <2>1, <2>2 DEF Shows
  <1>2. CASE KeyOf[a[n + 1].command] # k
    <2>1. Writes(a, n + 1, k) = Writes(a, n, k)
      <3>1. 1..(n + 1) = 1..n \cup {n + 1}
        BY SMT
      <3> QED
        BY <1>2, <3>1, Zenon DEF Writes
    <2>2. w = v
      BY <1>2
    <2> QED
      BY <2>1, <2>2 DEF Shows
  <1> QED
    BY <1>1, <1>2

\* The empty store shows nothing.
LEMMA InitStore == Init => StoreFollowsAgreed
  BY SMT DEF Init, StoreFollowsAgreed, EmptyStore

\* Every step keeps the store in line with the agreed log.
LEMMA NextStore ==
  ASSUME TypeOK, Known, Queue, Hand, StoreFollowsAgreed, intact, [Next]_vars
  PROVE  StoreFollowsAgreed'
  <1>0. /\ Len(agreed) \in Nat /\ consumed \in Nat /\ commitIndex \in Nat
        /\ inHand \in Seq(Entry) /\ Len(inHand) \in Nat /\ Len(applyCh) \in Nat /\ store \in [Key -> Command \cup {Nil}]
    BY SMT DEF TypeOK
  <1>1. \A k \in Key : Shows(agreed, consumed, k, store[k])
    BY StoreShows
  <1>2. consumed <= Len(agreed)
    <2>1. consumed + Len(inHand) + Len(applyCh) <= commitIndex /\ commitIndex <= Len(agreed)
      BY DEF Queue, Known, Received
    <2> QED
      BY <1>0, <2>1, SMTT(30)
  <1>3. \A i \in 1..consumed : agreed'[i] = agreed[i]
    <2>1. \A i \in 1..Len(agreed) : agreed'[i] = agreed[i]
      BY AgreedStarts DEF Starts
    <2> QED
      BY <1>0, <1>2, <2>1, SMTT(30)
  <1>4. ASSUME UNCHANGED <<store, consumed>>
        PROVE  StoreFollowsAgreed'
    <2>1. \A k \in Key : Shows(agreed', consumed, k, store[k])
      BY <1>0, <1>1, <1>3, ShowsGrows
    <2> QED
      BY <1>4, <2>1 DEF StoreFollowsAgreed, Shows, Writes
  <1>5. CASE ApplyEntry
    <2> DEFINE c == Head(inHand).command
    <2>1. /\ inHand # <<>> /\ store' = Apply(store, c) /\ consumed' = consumed + 1
          /\ agreed' = agreed
      BY <1>5 DEF ApplyEntry, clusterVars
    <2>2. Head(inHand) = inHand[1] /\ 1 \in 1..Len(inHand)
      BY <1>0, <2>1, SMTT(30)
    <2>3. Head(inHand) = agreed[consumed + 1]
      BY <2>2 DEF Hand
    <2>4. c = agreed[consumed + 1].command
      BY <2>3
    <2> HIDE DEF c
    <2>5. ASSUME NEW k \in Key
          PROVE  Shows(agreed, consumed + 1, k, store'[k])
      <3>1. store'[k] = IF KeyOf[c] = k THEN IF Op[c] = "put" THEN c ELSE Nil ELSE store[k]
        BY <1>0, <2>1 DEF Apply
      <3> QED
        BY <1>0, <1>1, <2>4, <3>1, ShowsNext
    <2> QED
      BY <2>1, <2>5, SMTT(30) DEF StoreFollowsAgreed, Shows, Writes
  <1>6. CASE Restart
    <2>1. consumed' = 0 /\ store' = EmptyStore
      BY <1>6 DEF Restart
    <2> QED
      BY <2>1, SMTT(30) DEF StoreFollowsAgreed, EmptyStore
  <1>7. CASE ~ApplyEntry /\ ~Restart
    <2>1. UNCHANGED <<store, consumed>>
      BY <1>7, ConsumerOnly DEF ReceiveEntry
    <2> QED
      BY <1>4, <2>1
  <1> QED
    BY <1>5, <1>6, <1>7

-----------------------------------------------------------------------------
(* The theorems *)

IInv ==
  intact => TypeOK /\ Known /\ Queue /\ Hand /\ Waits /\ AckedIsAgreed /\ StoreFollowsAgreed

\* The inductive invariant: types, what is known to be committed, the pipeline,
\* the waits and what was acknowledged, until a restart loses the log.
THEOREM Invariant == Safety => []IInv
  <1>1. Init => IInv
    BY InitTypes, InitKnown, InitWaits, InitStore DEF IInv
  <1>2. IInv /\ [Next]_vars => IInv'
    <2> SUFFICES ASSUME IInv, [Next]_vars, intact'
                 PROVE  /\ TypeOK' /\ Known' /\ Queue' /\ Hand' /\ Waits'
                        /\ AckedIsAgreed' /\ StoreFollowsAgreed'
      BY DEF IInv
    <2>1. intact
      BY IntactBefore
    <2>2. TypeOK /\ Known /\ Queue /\ Hand /\ Waits /\ AckedIsAgreed /\ StoreFollowsAgreed
      BY <2>1 DEF IInv
    <2>3. TypeOK'
      BY <2>1, <2>2, NextTypes
    <2> QED
      BY <2>1, <2>2, <2>3, NextQueue, NextHand, NextWaits, NextAcked, NextStore
  <1> QED
    BY <1>1, <1>2, PTL DEF Safety

\* A 200 means agreed: whatever the leadership does while SubmitCommand waits,
\* the entry it acknowledges is in the agreed log for good, as long as every
\* Node.Replay has brought the log back as it was.
THEOREM AcknowledgedWritesAgreed == Safety => []AckedIsAgreed
  <1>1. IInv => AckedIsAgreed
    BY DEF IInv, AckedIsAgreed
  <1> QED
    BY <1>1, Invariant, PTL

\* The store is the agreed log's first consumed entries, applied in order, as
\* long as every Node.Replay has brought the log back as it was.
THEOREM StoreIsAgreedPrefix == Safety => []StoreFollowsAgreed
  <1>1. IInv => StoreFollowsAgreed
    BY DEF IInv, StoreFollowsAgreed
  <1> QED
    BY <1>1, Invariant, PTL

\* The consumer's hand, applyCh and the batch of applyLoop hold the entries that
\* the store lacks, in order, as long as every Node.Replay has brought the log
\* back as it was.
THEOREM PipelineNeverReorders == Safety => []PipelineInOrder
  <1>1. IInv => PipelineInOrder
    <2> SUFFICES ASSUME TypeOK, Known, Queue, Hand, applyPc # "ended"
                 PROVE  inHand \o applyCh \o batch = SubSeq(agreed, consumed + 1, Handed)
      BY DEF IInv, PipelineInOrder
    <2>a. /\ agreed \in Seq(Entry) /\ applyCh \in Seq(Entry) /\ batch \in Seq(Entry)
          /\ inHand \in Seq(Entry) /\ Len(inHand) \in Nat
          /\ Len(agreed) \in Nat /\ Len(applyCh) \in Nat /\ Len(batch) \in Nat
          /\ consumed \in Nat /\ commitIndex \in Nat /\ lastApplied \in Nat /\ newLastApplied \in Nat
      BY SMT DEF TypeOK
    <2> DEFINE h == inHand \o applyCh
    <2>b. /\ h \in Seq(Entry) /\ Len(h) = Len(inHand) + Len(applyCh)
          /\ \A i \in 1..(Len(inHand) + Len(applyCh)) :
               h[i] = IF i <= Len(inHand) THEN inHand[i] ELSE applyCh[i - Len(inHand)]
      BY <2>a, ConcatProperties
    <2> HIDE DEF h
    <2>c. Len(h) \in Nat /\ consumed + Len(h) = Received + Len(applyCh)
      BY <2>a, <2>b, SMT DEF Received
    <2>d. ASSUME NEW i \in 1..Len(h)
          PROVE  h[i] = agreed[consumed + i]
      <3>1. i \in Nat /\ i >= 1 /\ i <= Len(inHand) + Len(applyCh)
        BY <2>a, <2>b, SMT
      <3>2. CASE i <= Len(inHand)
        <4>1. i \in 1..Len(inHand)
          BY <2>a, <3>1, <3>2, SMT
        <4> QED
          BY <2>b, <3>2, <4>1 DEF Hand
      <3>3. CASE ~(i <= Len(inHand))
        <4>1. /\ i - Len(inHand) \in 1..Len(applyCh)
              /\ Received + (i - Len(inHand)) = consumed + i
          BY <2>a, <3>1, <3>3, SMT DEF Received
        <4>2. applyCh[i - Len(inHand)] = agreed[consumed + i]
          BY <4>1 DEF Queue
        <4> QED
          BY <2>b, <3>3, <4>2
      <3> QED
        BY <3>2, <3>3
    <2>0. /\ agreed \in Seq(Entry) /\ h \in Seq(Entry) /\ batch \in Seq(Entry)
          /\ Len(agreed) \in Nat /\ Len(h) \in Nat /\ Len(batch) \in Nat
          /\ consumed \in Nat /\ commitIndex \in Nat /\ lastApplied \in Nat /\ newLastApplied \in Nat
      BY <2>a, <2>b, <2>c
    <2> DEFINE n == Len(h)
    <2>1. /\ consumed + n + Len(batch) = Handed /\ Handed \in Nat /\ Handed <= commitIndex
          /\ \A j \in 1..Len(batch) : batch[j] = agreed[consumed + n + j]
      <3>1. CASE applyPc = "push"
        BY <2>0, <2>c, <3>1 DEF Queue, Handed
      <3>2. CASE applyPc = "tick"
        <4>1. Len(batch) = 0
          BY <3>2, SMTT(30) DEF Queue
        <4> QED
          BY <2>0, <2>c, <3>2, <4>1, SMTT(30) DEF Queue, Handed
      <3> QED
        BY <3>1, <3>2 DEF TypeOK
    <2>2. Handed <= Len(agreed) /\ consumed <= Handed /\ Handed - consumed = n + Len(batch)
      <3>1. commitIndex <= Len(agreed)
        BY DEF Known
      <3> QED
        BY <2>0, <2>1, <3>1, SMTT(30)
    <2> DEFINE u == h \o batch  w == SubSeq(agreed, consumed + 1, Handed)
    <2>3. /\ u \in Seq(Entry) /\ Len(u) = n + Len(batch)
          /\ \A i \in 1..(n + Len(batch)) : u[i] = IF i <= n THEN h[i] ELSE batch[i - n]
      BY <2>0, ConcatProperties
    <2>4. /\ w \in Seq(Entry) /\ Len(w) = n + Len(batch)
          /\ \A i \in 1..(n + Len(batch)) : w[i] = agreed[consumed + i]
      <3>1. /\ agreed \in Seq(Entry) /\ consumed \in Nat /\ Handed \in Nat
            /\ consumed <= Handed /\ Handed <= Len(agreed)
        BY <2>0, <2>1, <2>2
      <3>2. /\ w \in Seq(Entry) /\ Len(w) = Handed - consumed
            /\ \A i \in 1..(Handed - consumed) : w[i] = agreed[consumed + i]
        BY ONLY <3>1, Slice
      <3> QED BY <2>2, <3>2
    <2> HIDE DEF u, w
    <2>5. ASSUME NEW i \in 1..Len(u)
          PROVE  u[i] = w[i]
      <3>1. i \in Nat /\ i \in 1..(n + Len(batch))
        BY <2>0, <2>3, SMT
      <3>2. CASE i <= n
        <4>1. h[i] = agreed[consumed + i]
          BY <2>0, <2>d, <3>1, <3>2, SMT
        <4> QED
          BY <2>3, <2>4, <3>1, <3>2, <4>1
      <3>3. CASE ~(i <= n)
        <4>1. i - n \in 1..Len(batch) /\ consumed + n + (i - n) = consumed + i
          BY <2>0, <3>1, <3>3, SMT
        <4>2. batch[i - n] = agreed[consumed + i]
          BY <2>1, <4>1
        <4> QED
          BY <2>3, <2>4, <3>1, <3>3, <4>2
      <3> QED
        BY <3>2, <3>3
    <2>6. u = w
      BY <2>3, <2>4, <2>5, SeqEqual
    <2> QED
      BY <2>6 DEF u, w, h
  <1> QED
    BY <1>1, Invariant, PTL

\* handleReadyz: a ready node's store is behind by the tolerated lag, one full
\* channel and the entry in the consumer's hand at most, as long as every
\* Node.Replay has brought the log back as it was.
THEOREM ReadyLagBounded == Safety => []ReadyIsNearlyCurrent
  <1>1. IInv => ReadyIsNearlyCurrent
    <2> SUFFICES ASSUME TypeOK, Queue, Hand, commitIndex - lastApplied <= MaxLag
                 PROVE  commitIndex - consumed <= MaxLag + Capacity + 1
      BY DEF IInv, ReadyIsNearlyCurrent, Ready
    <2>1. /\ Len(applyCh) \in Nat /\ consumed \in Nat /\ commitIndex \in Nat /\ lastApplied \in Nat
          /\ Len(inHand) \in Nat /\ MaxLag \in Nat /\ Capacity \in Nat
      BY ServiceAssumption, SMT DEF TypeOK
    <2>2. /\ Len(applyCh) <= Capacity /\ Len(inHand) <= 1
          /\ lastApplied <= consumed + Len(inHand) + Len(applyCh)
      BY DEF Queue, Hand, Received
    <2> QED
      BY <2>1, <2>2, SMT
  <1> QED
    BY <1>1, Invariant, PTL
=============================================================================
