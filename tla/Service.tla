------------------------------ MODULE Service ------------------------------
(***************************************************************************)
(* One server from its HTTP requests to its key-value store: the handlers  *)
(* of internal/api/handler.go, SubmitCommand and applyLoop of              *)
(* replication.go, the apply consumer and the shutdown of cmd/server, and  *)
(* internal/kvstore.                                                       *)
(*                                                                         *)
(* The rest of the cluster is its environment.  It is what modules Raft    *)
(* and AgreedLog establish of it: one agreed log that only grows, of which *)
(* the node's committed entries are a prefix; a Leader's log is only       *)
(* appended to, and holds what was agreed in the terms before.  All this   *)
(* is lost with a restart for which Node.Replay brings another log back    *)
(* than there was: from then on the node may commit anything it has, and   *)
(* intact is FALSE.                                                        *)
(*                                                                         *)
(* The code's 10 ms and 5 ms polls are steps that are taken when there is  *)
(* something to do; the 5 s deadline may pass at any moment of a wait.     *)
(***************************************************************************)
EXTENDS Integers, Sequences, SequencesExt

CONSTANTS
  Nil,
  Request,       \* the requests that clients send to this server
  Foreign,       \* commands that other servers' clients submit
  Key,
  Op,            \* Op[c] is "put", "delete" or, for a request only, "get"
  KeyOf,         \* the key of a request or command
  Capacity,      \* of applyCh: 256 in the code
  MaxLag,        \* of handleReadyz: 10 in the code
  DiskMayFail,   \* may PersistEntry return an error?
  MaxTerm,       \* bound: the terms
  MaxLog,        \* bound: other servers add entries to logs shorter than this
  MaxWritten,    \* bound: their entries are accepted into a WAL of up to this many
  MaxRestarts    \* bound: crashes

Write   == {r \in Request : Op[r] # "get"}
Command == Write \cup Foreign
Entry   == [term : Nat, command : Command]

ASSUME ServiceAssumption ==
  /\ Nil \notin Request \cup Foreign
  /\ Op \in [Request \cup Foreign -> {"put", "delete", "get"}]
  /\ KeyOf \in [Request \cup Foreign -> Key]
  /\ \A c \in Foreign : Op[c] # "get"
  /\ Capacity \in Nat \ {0} /\ MaxLag \in Nat
  /\ MaxTerm \in Nat /\ MaxLog \in Nat /\ MaxWritten \in Nat /\ MaxRestarts \in Nat
  /\ DiskMayFail \in BOOLEAN

VARIABLES
  agreed,        \* the cluster's agreed log
  led,           \* the last term in which this node was Leader
  state, currentTerm, log, commitIndex,
  written,       \* the entries in the WAL, overwritten ones included
  intact,        \* has every restart brought the log back as it was?
  lastApplied,
  applyPc,       \* applyLoop: "tick", "push" or "ended"
  batch,         \* entries that it has yet to push
  newLastApplied,
  applyCh,
  consumerPc,    \* the apply consumer: "running" or "ended"
  inHand,        \* what it has received and not applied yet
  store,
  consumed,      \* how many entries the store has applied
  pc,            \* each request's place in its handler, or its answer
  index, term,   \* what SubmitCommand remembers for a request
  acked,         \* for a "get": the highest index acknowledged when it began
  seen,          \* for a "get": consumed, when it read the store
  server,        \* main: "up", "draining", "deaf" or "stopped"
  restarts

clusterVars == <<agreed, led>>
diskVars    == <<written, intact>>
nodeVars    == <<state, currentTerm, log, commitIndex, diskVars>>
loopVars    == <<lastApplied, applyPc, batch, newLastApplied>>
storeVars   == <<consumerPc, inHand, store, consumed>>
requestVars == <<pc, index, term, acked, seen>>
mainVars    == <<server, restarts>>
vars == <<clusterVars, nodeVars, loopVars, applyCh, storeVars, requestVars, mainVars>>

\* What an HTTP handler leaves alone.
elsewhere == <<clusterVars, nodeVars, loopVars, applyCh, storeVars, mainVars>>

EmptyStore == [k \in Key |-> Nil]

Init ==
  /\ agreed = <<>> /\ led = 0
  /\ state = "Follower" /\ currentTerm = 0
  /\ log = <<>> /\ commitIndex = 0
  /\ written = <<>> /\ intact = TRUE
  /\ lastApplied = 0 /\ applyPc = "tick" /\ batch = <<>> /\ newLastApplied = 0
  /\ applyCh = <<>>
  /\ consumerPc = "running" /\ inHand = <<>> /\ store = EmptyStore /\ consumed = 0
  /\ pc = [r \in Request |-> "new"]
  /\ index = [r \in Request |-> 0] /\ term = [r \in Request |-> 0]
  /\ acked = [r \in Request |-> 0] /\ seen = [r \in Request |-> 0]
  /\ server = "up" /\ restarts = 0

Running == server # "stopped"

-----------------------------------------------------------------------------
(* handler.go and SubmitCommand *)

Goto(r, place) == pc' = [pc EXCEPT ![r] = place]

\* 200; any other status; no answer, for the process has died.
Answers == {"ok", "failed", "lost"}
AckedWrites == {r \in Write : pc[r] = "ok"}
LastAcked == IF AckedWrites = {} THEN 0 ELSE Max({index[r] : r \in AckedWrites})

\* A handler begins: IsLeader.
CheckLeader(r) ==
  /\ server = "up" /\ pc[r] = "new"
  /\ Goto(r, IF state = "Leader" THEN "leader" ELSE "notLeader")
  /\ acked' = [acked EXCEPT ![r] = IF Op[r] = "get" THEN LastAcked ELSE @]
  /\ UNCHANGED <<elsewhere, index, term, seen>>

\* redirectToLeader: 307, or 503 when no Leader or no address of it is known.
RedirectToLeader(r) ==
  /\ pc[r] = "notLeader"
  /\ Goto(r, "failed")
  /\ UNCHANGED <<elsewhere, index, term, acked, seen>>

\* handleGet reads the store; IsLeader may have ceased to hold.
HandleGet(r) ==
  /\ pc[r] = "leader" /\ Op[r] = "get"
  /\ Goto(r, "ok")
  /\ seen' = [seen EXCEPT ![r] = consumed]
  /\ UNCHANGED <<elsewhere, index, term, acked>>

\* handlePut cannot read or parse the body.
RejectBody(r) ==
  /\ pc[r] = "leader" /\ Op[r] = "put"
  /\ Goto(r, "failed")
  /\ UNCHANGED <<elsewhere, index, term, acked, seen>>

\* What the WAL may hold after PersistEntry of each of these entries: of those
\* that fail some may be there all the same.
Persisted(entries) ==
  {LET at == SetToSortSeq(D, <) IN written \o [i \in 1..Len(at) |-> entries[at[i]]] :
     D \in IF DiskMayFail THEN SUBSET (1..Len(entries)) ELSE {1..Len(entries)}}

\* SubmitCommand up to its wait.  An entry that could not be persisted stays
\* in the log, although the request fails.
SubmitCommand(r) ==
  /\ pc[r] = "leader" /\ Op[r] # "get"
  /\ \/ /\ state # "Leader"
        /\ Goto(r, "notLeader")
        /\ UNCHANGED <<log, written, index, term>>
     \/ /\ state = "Leader"
        /\ log' = Append(log, [term |-> currentTerm, command |-> r])
        /\ \/ /\ DiskMayFail /\ Goto(r, "failed") /\ UNCHANGED <<index, term>>
              /\ written' \in Persisted(<<log'[Len(log')]>>)
           \/ /\ Goto(r, "waiting")
              /\ written' = Append(written, log'[Len(log')])
              /\ index' = [index EXCEPT ![r] = Len(log')]
              /\ term' = [term EXCEPT ![r] = currentTerm]
  /\ UNCHANGED <<clusterVars, state, currentTerm, commitIndex, intact, loopVars, applyCh,
                 storeVars, acked, seen, mainVars>>

\* Mutant: leadership regained in a later term counts too.
AwaitAppliedAnyTerm(r) ==
  /\ pc[r] = "waiting"
  /\ \/ state # "Leader" /\ Goto(r, "notLeader")
     \/ state = "Leader" /\ lastApplied >= index[r] /\ Goto(r, "ok")
  /\ UNCHANGED <<elsewhere, index, term, acked, seen>>

\* A round of SubmitCommand's wait that ends it.
AwaitApplied(r) ==
  /\ pc[r] = "waiting"
  /\ \/ (state # "Leader" \/ currentTerm # term[r]) /\ Goto(r, "notLeader")
     \/ /\ state = "Leader" /\ currentTerm = term[r]
        /\ lastApplied >= index[r]
        /\ Goto(r, "ok")
  /\ UNCHANGED <<elsewhere, index, term, acked, seen>>

\* Mutant: the wait has no deadline.
TimeoutNot(r) == FALSE /\ UNCHANGED vars

\* The 5 s are over: ErrTimeout.
Timeout(r) ==
  /\ pc[r] = "waiting"
  /\ Goto(r, "failed")
  /\ UNCHANGED <<elsewhere, index, term, acked, seen>>

-----------------------------------------------------------------------------
(* applyLoop, the consumer and the store *)

\* log.Entries(lastApplied + 1, i), which stops where the log does.
EntriesUpTo(i) == SubSeq(log, lastApplied + 1, Min({i, Len(log)}))

\* Mutant: lastApplied is raised before the entries are handed over.
CollectAndMark ==
  /\ applyPc = "tick" /\ lastApplied < commitIndex
  /\ batch' = EntriesUpTo(commitIndex)
  /\ newLastApplied' = commitIndex /\ lastApplied' = commitIndex
  /\ applyPc' = "push"
  /\ UNCHANGED <<clusterVars, nodeVars, applyCh, storeVars, requestVars, mainVars>>

\* Mutant: the newest committed entry waits for the next one.
CollectEntriesBut ==
  /\ applyPc = "tick" /\ lastApplied + 1 < commitIndex
  /\ batch' = EntriesUpTo(commitIndex - 1)
  /\ newLastApplied' = commitIndex - 1
  /\ applyPc' = "push"
  /\ UNCHANGED <<clusterVars, nodeVars, lastApplied, applyCh,
                 storeVars, requestVars, mainVars>>

\* The first locked section of a round of applyLoop.
CollectEntries ==
  /\ applyPc = "tick" /\ lastApplied < commitIndex
  /\ batch' = EntriesUpTo(commitIndex)
  /\ newLastApplied' = commitIndex
  /\ applyPc' = "push"
  /\ UNCHANGED <<clusterVars, nodeVars, lastApplied, applyCh,
                 storeVars, requestVars, mainVars>>

\* The send on applyCh, which blocks while it is full.
PushEntry ==
  /\ applyPc = "push" /\ batch # <<>> /\ Len(applyCh) < Capacity
  /\ applyCh' = Append(applyCh, Head(batch))
  /\ batch' = Tail(batch)
  /\ UNCHANGED <<clusterVars, nodeVars, lastApplied, applyPc, newLastApplied,
                 storeVars, requestVars, mainVars>>

\* Mutant: commitIndex is read again when the batch has been pushed.
FinishBatchLate ==
  /\ applyPc = "push" /\ batch = <<>>
  /\ lastApplied' = commitIndex
  /\ applyPc' = "tick"
  /\ UNCHANGED <<clusterVars, nodeVars, batch, newLastApplied, applyCh,
                 storeVars, requestVars, mainVars>>

\* The second locked section.
FinishBatch ==
  /\ applyPc = "push" /\ batch = <<>>
  /\ lastApplied' = newLastApplied
  /\ applyPc' = "tick"
  /\ UNCHANGED <<clusterVars, nodeVars, batch, newLastApplied, applyCh,
                 storeVars, requestVars, mainVars>>

\* Mutant: the send on applyCh does not watch stopCh.
EndApplyLoopAtTick ==
  /\ server = "stopped" /\ applyPc = "tick"
  /\ applyPc' = "ended"
  /\ UNCHANGED <<clusterVars, nodeVars, lastApplied, batch, newLastApplied, applyCh,
                 storeVars, requestVars, mainVars>>

\* stopCh is closed, seen at the tick or while sending.
EndApplyLoop ==
  /\ server = "stopped"
  /\ \/ applyPc = "tick"
     \/ applyPc = "push" /\ batch # <<>>
  /\ applyPc' = "ended"
  /\ UNCHANGED <<clusterVars, nodeVars, lastApplied, batch, newLastApplied, applyCh,
                 storeVars, requestVars, mainVars>>

\* Mutant: a delete finds nothing to do.
ApplyPuts(s, c) == IF Op[c] = "put" THEN [s EXCEPT ![KeyOf[c]] = c] ELSE s

\* KVStore.Apply of a deserialized command: Put or Delete.
Apply(s, c) == [s EXCEPT ![KeyOf[c]] = IF Op[c] = "put" THEN c ELSE Nil]

\* The consumer of main.go receives an entry.  Once its context is cancelled it
\* may still do so: select chooses among what is ready.
ReceiveEntry ==
  /\ consumerPc = "running" /\ inHand = <<>> /\ applyCh # <<>>
  /\ inHand' = <<Head(applyCh)>>
  /\ applyCh' = Tail(applyCh)
  /\ UNCHANGED <<clusterVars, nodeVars, loopVars, consumerPc, store, consumed,
                 requestVars, mainVars>>

\* It applies the entry to the store, while applyCh may fill up again.
ApplyEntry ==
  /\ inHand # <<>>
  /\ store' = Apply(store, Head(inHand).command)
  /\ consumed' = consumed + 1
  /\ inHand' = <<>>
  /\ UNCHANGED <<clusterVars, nodeVars, loopVars, applyCh, consumerPc, requestVars, mainVars>>

EndConsumer ==
  /\ server # "up" /\ consumerPc = "running" /\ inHand = <<>>
  /\ consumerPc' = "ended"
  /\ UNCHANGED <<clusterVars, nodeVars, loopVars, applyCh, inHand, store, consumed,
                 requestVars, mainVars>>

-----------------------------------------------------------------------------
(* The rest of the cluster, and this node's part in it *)

outside == <<loopVars, applyCh, storeVars, requestVars, mainVars>>

\* startElection.
StartElection ==
  /\ Running /\ currentTerm < MaxTerm
  /\ currentTerm' = currentTerm + 1
  /\ state' = "Candidate"
  /\ UNCHANGED <<clusterVars, log, commitIndex, diskVars, outside>>

\* becomeLeaderLocked: the log holds whatever was agreed in earlier terms.
BecomeLeader ==
  /\ Running /\ state = "Candidate"
  /\ intact => \A i \in 1..Len(agreed) :
       agreed[i].term <= currentTerm => i <= Len(log) /\ log[i] = agreed[i]
  /\ state' = "Leader"
  /\ led' = currentTerm
  /\ UNCHANGED <<agreed, currentTerm, log, commitIndex, diskVars, outside>>

\* becomeFollowerLocked.
BecomeFollower(t) ==
  /\ Running /\ t > currentTerm
  /\ currentTerm' = t
  /\ state' = "Follower"
  /\ UNCHANGED <<clusterVars, log, commitIndex, diskVars, outside>>

\* advanceCommitIndexLocked, up to an entry of the Leader's own term.
AdvanceCommit ==
  /\ Running /\ state = "Leader"
  /\ \E i \in commitIndex + 1 .. Len(log) :
       LET upTo == SubSeq(log, 1, i)
       IN  /\ log[i].term = currentTerm
           /\ commitIndex' = i
           /\ \/ IsPrefix(upTo, agreed) /\ UNCHANGED agreed
              \/ IsPrefix(agreed, upTo) /\ agreed' = upTo
              \/ ~intact /\ UNCHANGED agreed
  /\ UNCHANGED <<led, state, currentTerm, log, diskVars, outside>>

\* An entry of the Leader of a term that is not this node's.
ForeignEntry(t) == [term : {t}, command : Foreign]

\* Another Leader commits an entry of its own, perhaps behind entries that
\* this node has too.
AgreeElsewhere ==
  /\ \E t \in led + 1 .. MaxTerm, k \in 0..Len(log) :
       LET base == IF IsPrefix(agreed, SubSeq(log, 1, k)) THEN SubSeq(log, 1, k) ELSE agreed
       IN  /\ t >= currentTerm /\ Len(base) < MaxLog
           /\ \A i \in 1..Len(base) : base[i].term <= t
           /\ \E e \in ForeignEntry(t) : agreed' = Append(base, e)
  /\ UNCHANGED <<led, nodeVars, outside>>

\* What a Leader never makes this node replace.
Kept == IF intact THEN commitIndex ELSE 0

\* What an accepted AppendEntries of the Leader of term t can make of the
\* log: entries known to be committed stay, later ones may be replaced.
LogsAfterAppend(t) ==
  {log}
  \cup {Append(SubSeq(log, 1, k), e) :
          k \in {j \in Kept..Len(log) : j < MaxLog}, e \in ForeignEntry(t)}
  \cup {SubSeq(agreed, 1, k) : k \in
          {j \in Kept..Len(agreed) : ~IsPrefix(SubSeq(agreed, 1, j), log)}}

\* The entries of log l from the first one that the log lacks.
NewIn(l) ==
  LET same == LongestCommonPrefix({log, l}) IN SubSeq(l, Len(same) + 1, Len(l))

\* HandleAppendEntries, accepted.  TruncateAfter leaves no trace in the WAL.
HandleAppendEntries(t) ==
  /\ server \in {"up", "draining"}
  /\ t >= currentTerm /\ t > led
  /\ currentTerm' = t /\ state' = "Follower"
  /\ log' \in LogsAfterAppend(t)
  /\ written' \in Persisted(NewIn(log'))
  /\ Len(written') <= MaxWritten \/ written' = written
  /\ \E leaderCommit \in 0..Len(agreed) :
       commitIndex' = IF leaderCommit > commitIndex
                      THEN Min({leaderCommit, Len(log')}) ELSE commitIndex
  /\ intact => IsPrefix(SubSeq(log', 1, commitIndex'), agreed)
  /\ UNCHANGED <<clusterVars, intact, outside>>

-----------------------------------------------------------------------------
(* main.go *)

\* A signal: the consumer's context is cancelled, the listener is closed.
Shutdown ==
  /\ server = "up"
  /\ server' = "draining"
  /\ UNCHANGED <<clusterVars, nodeVars, loopVars, applyCh, storeVars, requestVars, restarts>>

\* httpServer.Shutdown returns once every handler has; the gRPC server stops.
StopServers ==
  /\ server = "draining" /\ \A r \in Request : pc[r] \in Answers \cup {"new"}
  /\ server' = "deaf"
  /\ UNCHANGED <<clusterVars, nodeVars, loopVars, applyCh, storeVars, requestVars, restarts>>

\* node.Stop closes stopCh.
StopNode ==
  /\ server = "deaf"
  /\ server' = "stopped"
  /\ UNCHANGED <<clusterVars, nodeVars, loopVars, applyCh, storeVars, requestVars, restarts>>

\* The process dies or has been stopped, and starts again: everything but the
\* WAL is gone, and so are the requests under way.  Node.Replay makes every
\* entry ever written a slot of the log, in the order they were written.
Restart ==
  /\ restarts < MaxRestarts /\ restarts' = restarts + 1
  /\ state' = "Follower" /\ commitIndex' = 0
  /\ lastApplied' = 0 /\ applyPc' = "tick" /\ batch' = <<>> /\ newLastApplied' = 0
  /\ applyCh' = <<>>
  /\ consumerPc' = "running" /\ inHand' = <<>> /\ store' = EmptyStore /\ consumed' = 0
  /\ pc' = [r \in Request |-> IF pc[r] \in Answers \cup {"new"} THEN pc[r] ELSE "lost"]
  /\ server' = "up"
  /\ log' = written
  /\ intact' = (intact /\ written = log)
  /\ UNCHANGED <<clusterVars, currentTerm, written, index, term, acked, seen>>

-----------------------------------------------------------------------------
Handle(r) ==
  \/ CheckLeader(r) \/ RedirectToLeader(r) \/ HandleGet(r) \/ RejectBody(r)
  \/ SubmitCommand(r) \/ AwaitApplied(r) \/ Timeout(r)

ApplyLoop == CollectEntries \/ PushEntry \/ FinishBatch \/ EndApplyLoop
Consumer  == ReceiveEntry \/ ApplyEntry \/ EndConsumer
Stop      == StopServers \/ StopNode

Cluster ==
  \/ StartElection \/ BecomeLeader \/ AdvanceCommit \/ AgreeElsewhere
  \/ \E t \in 1..MaxTerm : BecomeFollower(t) \/ HandleAppendEntries(t)

Next ==
  \/ \E r \in Request : Handle(r)
  \/ ApplyLoop \/ Consumer
  \/ Cluster
  \/ Shutdown \/ Stop \/ Restart

Safety == Init /\ [][Next]_vars

\* Goroutines that can run do run, and deadlines pass.  Nothing is assumed of
\* clients (CheckLeader), of the cluster or of signals.
Spec ==
  /\ Safety
  /\ WF_vars(ApplyLoop) /\ WF_vars(Consumer) /\ WF_vars(Stop)
  /\ \A r \in Request : WF_vars(Handle(r) /\ pc[r] # "new")

-----------------------------------------------------------------------------
(* Properties *)

Place == {"new", "leader", "notLeader", "waiting"} \cup Answers

\* The WAL is left out: a log that has come back from it as it was is typed.
TypeOK ==
  /\ agreed \in Seq(Entry) /\ log \in Seq(Entry)
  /\ state \in {"Follower", "Candidate", "Leader"}
  /\ currentTerm \in Nat /\ led \in Nat /\ commitIndex \in Nat
  /\ lastApplied \in Nat /\ newLastApplied \in Nat /\ consumed \in Nat
  /\ applyPc \in {"tick", "push", "ended"} /\ consumerPc \in {"running", "ended"}
  /\ batch \in Seq(Entry) /\ applyCh \in Seq(Entry) /\ inHand \in Seq(Entry)
  /\ store \in [Key -> Command \cup {Nil}]
  /\ pc \in [Request -> Place]
  /\ index \in [Request -> Nat] /\ term \in [Request -> Nat]
  /\ server \in {"up", "draining", "deaf", "stopped"} /\ restarts \in Nat

Handed == IF applyPc = "push" THEN newLastApplied ELSE lastApplied

\* Entries reach the store in the agreed order, none twice and none left out:
\* the consumer's hand, the channel and the batch of applyLoop hold exactly the
\* agreed entries that follow those the store has applied.  This must survive
\* leadership changes that replace uncommitted entries while applyLoop has
\* released the lock.  It does not survive a replay that misplaces entries.
PipelineInOrder ==
  intact /\ applyPc # "ended" =>
    inHand \o applyCh \o batch = SubSeq(agreed, consumed + 1, Handed)

\* The store shows the last agreed write to each key among those it has
\* applied: the value of a put, nothing after a delete or without a write.
\* Again the log must have come back as it was from every restart.
StoreFollowsAgreed ==
  intact => \A k \in Key :
    LET writes == {i \in 1..consumed : KeyOf[agreed[i].command] = k}
    IN  \/ writes = {} /\ store[k] = Nil
        \/ \E i \in writes :
             /\ \A j \in writes : j <= i
             /\ store[k] = IF Op[agreed[i].command] = "put" THEN agreed[i].command ELSE Nil

\* A write that has been answered 200 is agreed: its entry, of the term in
\* which it was submitted, is at the index SubmitCommand returned, for good
\* (SubmitCommand looks only at lastApplied, the state and the term).
AckedIsAgreed ==
  intact => \A r \in AckedWrites :
    /\ index[r] \in 1..Len(agreed)
    /\ agreed[index[r]] = [term |-> term[r], command |-> r]

\* handleReadyz.
Ready == commitIndex - lastApplied <= MaxLag

\* A node that calls itself ready is behind by at most the lag it tolerates, a
\* full applyCh and the entry in the consumer's hand: lastApplied counts
\* entries as soon as they are pushed.
ReadyIsNearlyCurrent ==
  intact /\ Ready => commitIndex - consumed <= MaxLag + Capacity + 1

\* Whatever is committed reaches the store of a node that stays up, unless its
\* replay has misplaced entries.
CommittedReachesStore ==
  \A i \in 1..MaxLog + Cardinality(Write) :
    (intact /\ commitIndex >= i) ~>
      (consumed >= i \/ commitIndex < i \/ server # "up" \/ ~intact)

\* Every request is answered, or its connection is lost in a crash, whatever
\* becomes of the leadership, of the disk and of the consumer.
RequestsAnswered ==
  \A r \in Request : (pc[r] # "new") ~> (pc[r] \in Answers)

\* A shutdown comes to its end and with it applyLoop, although the consumer
\* has gone first and applyCh may be full.
ShutdownEnds ==
  (server = "draining") ~> \/ server = "stopped" /\ applyPc = "ended"
                           \/ server = "up"

\* replication.go:180: SubmitCommand "Blocks until the entry is committed and
\* applied".
AckedIsApplied == [][\A r \in Write : pc[r] = "waiting" /\ pc'[r] = "ok" =>
                       consumed >= index[r]]_vars

\* README.md:128: "Reads are linearizable".  A read sees every write that was
\* acknowledged before the read began.
ReadsSeeAckedWrites ==
  \A r \in Request \ Write : pc[r] = "ok" => seen[r] >= acked[r]
=============================================================================
