-------------------------------- MODULE Raft --------------------------------
(***************************************************************************)
(* A cluster of the nodes of internal/raft (node.go, replication.go): one  *)
(* action per section of code that runs under Node.mu, so the actions      *)
(* interleave exactly where the code releases the lock.                    *)
(*                                                                         *)
(* The network is the set of the messages sent so far: delivering is       *)
(* reading from it, so a message may be lost, delayed, reordered or        *)
(* delivered twice.  A reply carries what the goroutine that waits for it  *)
(* remembers of its request (reqTerm, and reqLast: the index of the last   *)
(* entry sent, 0 if none).                                                 *)
(*                                                                         *)
(* wal[n] is what WAL.Replay would return on node n's files: the summary   *)
(* of the records written so far (module WALRecords).  A node that crashes *)
(* restarts from it.                                                       *)
(***************************************************************************)
EXTENDS RaftLog, WALRecords

CONSTANTS
  Server,        \* the cluster; a node's peers are all the others
  Command,       \* the commands clients submit
  Faulty,        \* nodes whose disk may stop accepting writes
  MaxTerm,       \* bound: no election is started beyond this term
  MaxLogLen,     \* bound: MaxLogLen[t], the log length up to which the leader
                 \* of term t accepts commands
  TickTerms,     \* bound: the terms whose leader's heartbeat timer fires
  MaxRestarts,   \* bound: crashes in a behaviour
  MayElect       \* bound: MayElect[t], the nodes that may start term t

ASSUME ServerAssumption  == IsFiniteSet(Server) /\ Nil \notin Server
ASSUME BoundsAssumption  ==
  /\ MaxTerm \in Nat /\ MaxRestarts \in Nat
  /\ MaxLogLen \in [1..MaxTerm -> Nat]
  /\ TickTerms \subseteq Nat
  /\ Faulty \subseteq Server
  /\ MayElect \in [1..MaxTerm -> SUBSET Server]

VARIABLES
  state, currentTerm, votedFor, leaderID, votes, votesReceived,
  log, commitIndex, nextIndex, matchIndex,
  ticks,         \* the (term, commitIndex) snapshots of sendHeartbeats whose
                 \* per-peer goroutines may still be about to send
  msgs,
  wal,
  diskOK,        \* does the WAL accept writes?
  restarts

electionVars == <<state, currentTerm, votedFor, leaderID, votes, votesReceived>>
logVars      == <<log, commitIndex>>
leaderVars   == <<nextIndex, matchIndex, ticks>>
diskVars     == <<diskOK, restarts>>
vars == <<electionVars, logVars, leaderVars, msgs, wal, diskVars>>

Peers(n) == Server \ {n}
Majority == Cardinality(Server) \div 2 + 1

-----------------------------------------------------------------------------
(* NewNode, on every node of the cluster; there is nothing to replay. *)

Init ==
  /\ state = [n \in Server |-> "Follower"]
  /\ currentTerm = [n \in Server |-> 0]
  /\ votedFor = [n \in Server |-> Nil]
  /\ leaderID = [n \in Server |-> Nil]
  /\ votes = [n \in Server |-> 0]
  /\ votesReceived = [n \in Server |-> {}]
  /\ log = [n \in Server |-> <<>>]
  /\ commitIndex = [n \in Server |-> 0]
  /\ nextIndex = [n \in Server |-> [p \in Server |-> 0]]
  /\ matchIndex = [n \in Server |-> [p \in Server |-> 0]]
  /\ ticks = [n \in Server |-> {}]
  /\ msgs = {}
  /\ wal = [n \in Server |-> EmptyWAL]
  /\ diskOK = [n \in Server |-> TRUE]
  /\ restarts = 0

-----------------------------------------------------------------------------
(* Persistence and messages *)

\* A failed write changes nothing else: the handlers log the error and go on,
\* SubmitCommand returns it but leaves the entry in the log.
Save(n, w) == wal' = IF diskOK[n] THEN [wal EXCEPT ![n] = w] ELSE wal

\* Will some handler still act on m?  A reply matters while the goroutine
\* that waits for it has the state it checks for.  A request of an old term
\* matters while its sender is still in that term, to be told a newer one.
Matters(m, term, st) ==
  CASE m.type = "VoteReply"   -> term[m.dst] = m.reqTerm /\ st[m.dst] = "Candidate"
    [] m.type = "AppendReply" -> term[m.dst] = m.reqTerm /\ st[m.dst] = "Leader"
    [] OTHER                  -> term[m.dst] <= m.term \/ term[m.src] <= m.term

\* Messages that have ceased to matter never matter again (terms only grow,
\* and a node is Candidate and then Leader at most once per term), so they
\* are dropped.  To be used after state' and currentTerm' are determined.
Send(ms) == msgs' = {m \in msgs \cup ms : Matters(m, currentTerm', state')}

\* A reply that its receiver ignores in every state is left out of msgs: a
\* vote refused in the term of the request, a heartbeat without entries that
\* was accepted.
Ignored(r) ==
  /\ r.term = r.reqTerm
  /\ \/ r.type = "VoteReply" /\ ~r.granted
     \/ r.type = "AppendReply" /\ r.success /\ r.reqLast = 0

Respond(r) == Send(IF Ignored(r) THEN {} ELSE {r})

-----------------------------------------------------------------------------
(* Elections *)

\* startElection, called by run() after its timer fired and it saw a node
\* that was not Leader.  The lock is released in between and startElection
\* does not look at the state again, so it may also demote a node that has
\* become Leader meanwhile, provided run() has not yet ticked in that term.
StartElection(n) ==
  LET term == currentTerm[n] + 1
  IN  /\ term <= MaxTerm /\ n \in MayElect[term]
      /\ state[n] = "Leader" => \A h \in ticks[n] : h.term # currentTerm[n]
      /\ currentTerm' = [currentTerm EXCEPT ![n] = term]
      /\ state' = [state EXCEPT ![n] = "Candidate"]
      /\ votedFor' = [votedFor EXCEPT ![n] = n]
      /\ leaderID' = [leaderID EXCEPT ![n] = Nil]
      /\ votes' = [votes EXCEPT ![n] = 1]
      /\ votesReceived' = [votesReceived EXCEPT ![n] = {n}]
      /\ Save(n, PersistVote(PersistTerm(wal[n], term), n, term))
      /\ Send({[type |-> "RequestVote", src |-> n, dst |-> p, term |-> term,
                lastLogIndex |-> LastIndex(log[n]),
                lastLogTerm |-> LastTerm(log[n])] : p \in Peers(n)})
      /\ UNCHANGED <<logVars, leaderVars, diskVars>>

\* becomeFollowerLocked(term): every caller passes a term above currentTerm.
\* What it does to the term, the vote and the WAL is left to the caller,
\* which may go on to change them.
StepDown(n) ==
  /\ state' = [state EXCEPT ![n] = "Follower"]
  /\ votes' = [votes EXCEPT ![n] = 0]
  /\ votesReceived' = [votesReceived EXCEPT ![n] = {}]

BecomeFollower(n, term) ==
  /\ StepDown(n)
  /\ currentTerm' = [currentTerm EXCEPT ![n] = term]
  /\ votedFor' = [votedFor EXCEPT ![n] = Nil]
  /\ Save(n, PersistTerm(wal[n], term))
  /\ UNCHANGED leaderID

\* Mutant: a second candidate of the term gets a vote too.
CanVoteAlways(voted, candidate) == TRUE

CanVote(voted, candidate) == voted \in {Nil, candidate}

\* HandleRequestVote.  When the term rises the vote is forgotten in memory;
\* the WAL still holds it, and a restart in the new term brings it back.
HandleRequestVote(m) ==
  LET n == m.dst
      newer == m.term > currentTerm[n]
      term == Max({m.term, currentTerm[n]})
      voted == IF newer THEN Nil ELSE votedFor[n]
      granted == /\ m.term >= currentTerm[n]
                 /\ CanVote(voted, m.src)
                 /\ isLogUpToDate(log[n], m.lastLogTerm, m.lastLogIndex)
      stepped == IF newer THEN PersistTerm(wal[n], term) ELSE wal[n]
  IN  /\ m \in msgs /\ m.type = "RequestVote"
      /\ currentTerm' = [currentTerm EXCEPT ![n] = term]
      /\ votedFor' = [votedFor EXCEPT ![n] = IF granted THEN m.src ELSE voted]
      /\ IF newer THEN StepDown(n) ELSE UNCHANGED <<state, votes, votesReceived>>
      /\ Save(n, IF granted THEN PersistVote(stepped, m.src, term) ELSE stepped)
      /\ Respond([type |-> "VoteReply", src |-> n, dst |-> m.src,
                  reqTerm |-> m.term, term |-> term, granted |-> granted])
      /\ UNCHANGED <<leaderID, logVars, leaderVars, diskVars>>

\* A reply to RequestVote that carries a higher term.
StepDownOnVoteReply(m) ==
  LET n == m.dst
  IN  /\ m \in msgs /\ m.type = "VoteReply"
      /\ currentTerm[n] = m.reqTerm /\ state[n] = "Candidate"
      /\ m.term > currentTerm[n]
      /\ BecomeFollower(n, m.term)
      /\ Send({})
      /\ UNCHANGED <<logVars, leaderVars, diskVars>>

\* Mutant: nextIndex keeps the values of an earlier leadership, or none.
BecomeLeaderStaleNext(n) ==
  /\ state' = [state EXCEPT ![n] = "Leader"]
  /\ leaderID' = [leaderID EXCEPT ![n] = n]
  /\ matchIndex' = [matchIndex EXCEPT ![n] = [p \in Server |-> 0]]
  /\ UNCHANGED nextIndex

BecomeLeader(n) ==
  /\ state' = [state EXCEPT ![n] = "Leader"]
  /\ leaderID' = [leaderID EXCEPT ![n] = n]
  /\ nextIndex' = [nextIndex EXCEPT ![n] =
                     [p \in Server |-> IF p = n THEN @[p] ELSE LastIndex(log[n]) + 1]]
  /\ matchIndex' = [matchIndex EXCEPT ![n] = [p \in Server |-> 0]]

\* A granted vote, counted once per peer; becomeLeaderLocked at a majority.
CountVote(m) ==
  LET n == m.dst
      count == votes[n] + 1
  IN  /\ m \in msgs /\ m.type = "VoteReply"
      /\ currentTerm[n] = m.reqTerm /\ state[n] = "Candidate"
      /\ m.term <= currentTerm[n]
      /\ m.granted
      /\ m.src \notin votesReceived[n]
      /\ votesReceived' = [votesReceived EXCEPT ![n] = @ \cup {m.src}]
      /\ votes' = [votes EXCEPT ![n] = count]
      /\ IF count >= Majority
         THEN BecomeLeader(n)
         ELSE UNCHANGED <<state, leaderID, nextIndex, matchIndex>>
      /\ UNCHANGED <<currentTerm, votedFor, logVars, ticks, wal, diskVars>>
      /\ Send({})

-----------------------------------------------------------------------------
(* Replication *)

\* SubmitCommand up to its first unlock.
SubmitCommand(n, c) ==
  LET entry == [term |-> currentTerm[n], index |-> LastIndex(log[n]) + 1,
                command |-> c]
  IN  /\ state[n] = "Leader"
      /\ Len(log[n]) < MaxLogLen[currentTerm[n]]
      /\ log' = [log EXCEPT ![n] = Append(@, entry)]
      /\ Save(n, PersistEntries(wal[n], <<entry>>))
      /\ UNCHANGED <<electionVars, commitIndex, leaderVars, msgs, diskVars>>

\* The request for peer p, with the term and the commit index given and
\* everything else from the log and nextIndex as they are now.
AppendEntries(n, p, term, commit) ==
  LET prev == nextIndex[n][p] - 1
  IN  [type |-> "AppendEntries", src |-> n, dst |-> p, term |-> term,
       prevLogIndex |-> prev, prevLogTerm |-> TermAt(log[n], prev),
       entries |-> EntriesFrom(log[n], nextIndex[n][p]),
       leaderCommit |-> commit]

\* One round of replicateLog for peer p, up to its RPC.
ReplicateLog(n, p) ==
  /\ p \in Peers(n) /\ state[n] = "Leader"
  /\ EntriesFrom(log[n], nextIndex[n][p]) # <<>>
  /\ UNCHANGED <<electionVars, logVars, leaderVars, wal, diskVars>>
  /\ Send({AppendEntries(n, p, currentTerm[n], commitIndex[n])})

\* The first locked section of sendHeartbeats.
SendHeartbeats(n) ==
  /\ state[n] = "Leader" /\ currentTerm[n] \in TickTerms
  /\ ticks' = [ticks EXCEPT ![n] =
                 @ \cup {[term |-> currentTerm[n], commitIndex |-> commitIndex[n]]}]
  /\ UNCHANGED <<electionVars, logVars, nextIndex, matchIndex, msgs, wal, diskVars>>

\* The goroutine of sendHeartbeats for peer p.  It takes the lock again and
\* reads the log and nextIndex without looking at the state or the term, so
\* it may run after this node lost its leadership, and after the log changed.
SendHeartbeatTo(n, p, h) ==
  /\ p \in Peers(n) /\ h \in ticks[n]
  /\ UNCHANGED <<electionVars, logVars, leaderVars, wal, diskVars>>
  /\ Send({AppendEntries(n, p, h.term, h.commitIndex)})

\* The reply to request m, sent by m.dst in the given term.
AppendReply(m, term, success, hint) ==
  [type |-> "AppendReply", src |-> m.dst, dst |-> m.src, reqTerm |-> m.term,
   reqLast |-> IF m.entries = <<>> THEN 0 ELSE m.entries[Len(m.entries)].index,
   term |-> term, success |-> success,
   conflictTerm |-> hint.term, conflictIndex |-> hint.index]

NoHint == [term |-> 0, index |-> 0]

\* HandleAppendEntries, the early return on a stale term.
RejectStaleAppend(m) ==
  /\ m \in msgs /\ m.type = "AppendEntries"
  /\ m.term < currentTerm[m.dst]
  /\ UNCHANGED <<electionVars, logVars, leaderVars, wal, diskVars>>
  /\ Respond(AppendReply(m, currentTerm[m.dst], FALSE, NoHint))

\* HandleAppendEntries on a current term.  A Candidate of the same term
\* becomes Follower but keeps its vote count; a lower term is given up with
\* becomeFollowerLocked.
HandleAppendEntries(m) ==
  LET n == m.dst
      newer == m.term > currentTerm[n]
      ok == PrevMatches(log[n], m.prevLogIndex, m.prevLogTerm)
      newLog == IF ok THEN AppendNew(log[n], m.prevLogIndex, m.entries)
                      ELSE log[n]
      new == IF ok THEN NewEntries(log[n], m.prevLogIndex, m.entries) ELSE <<>>
      stepped == IF newer THEN PersistTerm(wal[n], m.term) ELSE wal[n]
  IN  /\ m \in msgs /\ m.type = "AppendEntries"
      /\ m.term >= currentTerm[n]
      /\ currentTerm' = [currentTerm EXCEPT ![n] = m.term]
      /\ state' = [state EXCEPT ![n] = "Follower"]
      /\ leaderID' = [leaderID EXCEPT ![n] = m.src]
      /\ IF newer
         THEN /\ votedFor' = [votedFor EXCEPT ![n] = Nil]
              /\ votes' = [votes EXCEPT ![n] = 0]
              /\ votesReceived' = [votesReceived EXCEPT ![n] = {}]
         ELSE UNCHANGED <<votedFor, votes, votesReceived>>
      /\ log' = [log EXCEPT ![n] = newLog]
      /\ commitIndex' = [commitIndex EXCEPT ![n] =
                           IF ok THEN FollowerCommit(newLog, @, m.leaderCommit)
                                 ELSE @]
      /\ Save(n, PersistEntries(stepped, new))
      /\ Respond(AppendReply(m, m.term, ok,
                   IF ok THEN NoHint ELSE ConflictHint(log[n], m.prevLogIndex)))
      /\ UNCHANGED <<leaderVars, diskVars>>

\* The replies to replicateLog and sendHeartbeats are handled alike: ignored
\* unless the sender is still Leader of the term it sent in.
LeaderOfRequest(m) ==
  /\ m \in msgs /\ m.type = "AppendReply"
  /\ state[m.dst] = "Leader" /\ currentTerm[m.dst] = m.reqTerm

StepDownOnAppendReply(m) ==
  /\ LeaderOfRequest(m)
  /\ m.term > currentTerm[m.dst]
  /\ BecomeFollower(m.dst, m.term)
  /\ Send({})
  /\ UNCHANGED <<logVars, leaderVars, diskVars>>

\* A success: nextIndex and matchIndex only rise, then the leader tries to
\* advance commitIndex.  A heartbeat that carried no entries changes nothing.
HandleAppendSuccess(m) ==
  LET n == m.dst
      p == m.src
      match == [matchIndex[n] EXCEPT ![p] = Max({@, m.reqLast})]
      acked == [match EXCEPT ![n] = LastIndex(log[n])]
  IN  /\ LeaderOfRequest(m)
      /\ m.term <= currentTerm[n] /\ m.success /\ m.reqLast > 0
      /\ nextIndex' = [nextIndex EXCEPT ![n][p] = Max({@, m.reqLast + 1})]
      /\ matchIndex' = [matchIndex EXCEPT ![n] = match]
      /\ commitIndex' = [commitIndex EXCEPT ![n] =
                           LeaderCommitIndex(log[n], currentTerm[n], @, acked)]
      /\ UNCHANGED <<electionVars, log, ticks, msgs, wal, diskVars>>

\* A failure: handleConflictLocked.
HandleAppendConflict(m) ==
  LET n == m.dst
  IN  /\ LeaderOfRequest(m)
      /\ m.term <= currentTerm[n] /\ ~m.success
      /\ nextIndex' = [nextIndex EXCEPT ![n][m.src] =
                         NextIndexAfterConflict(log[n], @, m.conflictTerm,
                                                m.conflictIndex)]
      /\ UNCHANGED <<electionVars, logVars, matchIndex, ticks, msgs, wal,
                     diskVars>>

-----------------------------------------------------------------------------
(* Crashes, restarts and disk failures *)

\* What a crash of n can leave in its WAL: everything its completed handlers
\* wrote or, when it dies inside a handler that writes several records, the
\* records of that handler up to some point.  (A crash after the last record
\* but before the messages go out is the handler followed by their loss.)
CrashPoints(n) ==
  {wal[n]} \cup
  (IF diskOK[n]
   THEN {PersistTerm(wal[n], t) : t \in
           {currentTerm[n] + 1} \cap {t \in 1..MaxTerm : n \in MayElect[t]}}
        \cup
        {PersistTerm(wal[n], m.term) : m \in
           {m \in msgs : /\ m.type = "RequestVote" /\ m.dst = n
                         /\ m.term > currentTerm[n]}}
        \cup
        UNION {LET w == IF m.term > currentTerm[n]
                        THEN PersistTerm(wal[n], m.term) ELSE wal[n]
                   new == NewEntries(log[n], m.prevLogIndex, m.entries)
               IN  {PersistEntries(w, SubSeq(new, 1, k)) : k \in 0..Len(new)}
                 : m \in {m \in msgs :
                            /\ m.type = "AppendEntries" /\ m.dst = n
                            /\ m.term >= currentTerm[n]
                            /\ PrevMatches(log[n], m.prevLogIndex,
                                           m.prevLogTerm)}}
   ELSE {})

\* A crash, then NewNode and Node.Replay: RestoreEntries puts the WAL's
\* entries at slots 1, 2, ... whatever index they carry.
Restart(n) ==
  \E w \in CrashPoints(n) :
    /\ restarts < MaxRestarts
    /\ restarts' = restarts + 1
    /\ wal' = [wal EXCEPT ![n] = w]
    /\ currentTerm' = [currentTerm EXCEPT ![n] = w.term]
    /\ votedFor' = [votedFor EXCEPT ![n] = w.votedFor]
    /\ log' = [log EXCEPT ![n] = w.entries]
    /\ StepDown(n)
    /\ leaderID' = [leaderID EXCEPT ![n] = Nil]
    /\ commitIndex' = [commitIndex EXCEPT ![n] = 0]
    /\ nextIndex' = [nextIndex EXCEPT ![n] = [p \in Server |-> 0]]
    /\ matchIndex' = [matchIndex EXCEPT ![n] = [p \in Server |-> 0]]
    /\ ticks' = [ticks EXCEPT ![n] = {}]
    /\ diskOK' = [diskOK EXCEPT ![n] = TRUE]
    /\ Send({})

\* The disk fills up, or WAL.rotate closes the file and cannot open the next:
\* from here on WAL.Append returns an error.  Failures that pass, and what they
\* leave in the file, are in module WAL.
DiskFail(n) ==
  /\ n \in Faulty /\ diskOK[n]
  /\ diskOK' = [diskOK EXCEPT ![n] = FALSE]
  /\ UNCHANGED <<electionVars, logVars, leaderVars, msgs, wal, restarts>>

-----------------------------------------------------------------------------
Receive(m) ==
  \/ HandleRequestVote(m)
  \/ StepDownOnVoteReply(m)
  \/ CountVote(m)
  \/ RejectStaleAppend(m)
  \/ HandleAppendEntries(m)
  \/ StepDownOnAppendReply(m)
  \/ HandleAppendSuccess(m)
  \/ HandleAppendConflict(m)

\* The steps of running nodes.
Step ==
  \/ \E n \in Server : StartElection(n)
  \/ \E n \in Server, c \in Command : SubmitCommand(n, c)
  \/ \E n \in Server, p \in Server : ReplicateLog(n, p)
  \/ \E n \in Server : SendHeartbeats(n)
  \/ \E n \in Server, p \in Server : \E h \in ticks[n] : SendHeartbeatTo(n, p, h)
  \/ \E m \in msgs : Receive(m)

Next ==
  \/ Step
  \/ \E n \in Server : Restart(n)
  \/ \E n \in Server : DiskFail(n)

\* Nodes may crash, restart and lose their disk.
Spec == Init /\ [][Next]_vars

\* No node ever crashes.
StableSpec == Init /\ [][Step]_vars

-----------------------------------------------------------------------------
(* Types *)

WALState == [term : Nat, votedFor : Server \cup {Nil}, entries : Seq(Entry(Command))]

Message ==
  [type : {"RequestVote"}, src : Server, dst : Server, term : Nat,
   lastLogIndex : Nat, lastLogTerm : Nat]
  \cup
  [type : {"VoteReply"}, src : Server, dst : Server, reqTerm : Nat, term : Nat,
   granted : BOOLEAN]
  \cup
  [type : {"AppendEntries"}, src : Server, dst : Server, term : Nat,
   prevLogIndex : Nat, prevLogTerm : Nat, entries : Seq(Entry(Command)),
   leaderCommit : Nat]
  \cup
  [type : {"AppendReply"}, src : Server, dst : Server, reqTerm : Nat,
   reqLast : Nat, term : Nat, success : BOOLEAN, conflictTerm : Nat,
   conflictIndex : Nat]

\* Every variable has its type.  nextIndex is at least 1 for every peer of a
\* node that has been Leader since it started, so nextIndex - 1, an unsigned
\* subtraction in the code, never wraps around.
TypeOK ==
  /\ state \in [Server -> {"Follower", "Candidate", "Leader"}]
  /\ currentTerm \in [Server -> Nat]
  /\ votedFor \in [Server -> Server \cup {Nil}]
  /\ leaderID \in [Server -> Server \cup {Nil}]
  /\ votes \in [Server -> Nat]
  /\ votesReceived \in [Server -> SUBSET Server]
  /\ log \in [Server -> Seq(Entry(Command))]
  /\ commitIndex \in [Server -> Nat]
  /\ nextIndex \in [Server -> [Server -> Nat]]
  /\ matchIndex \in [Server -> [Server -> Nat]]
  /\ ticks \in [Server -> SUBSET [term : Nat, commitIndex : Nat]]
  /\ msgs \subseteq Message
  /\ wal \in [Server -> WALState]
  /\ diskOK \in [Server -> BOOLEAN]
  /\ restarts \in Nat
  /\ \A n \in Server : state[n] = "Leader" \/ ticks[n] # {} =>
       \A p \in Peers(n) : nextIndex[n][p] >= 1

-----------------------------------------------------------------------------
(* Elections *)

\* At most one Leader per term (node.go becomeLeaderLocked), whatever votes
\* are lost, duplicated or late and whichever nodes crash and come back.
ElectionSafety ==
  \A a, b \in Server :
    (state[a] = "Leader" /\ state[b] = "Leader" /\ currentTerm[a] = currentTerm[b])
      => a = b

\* INVARIANT 2 of node.go: a vote that has been announced, by a VoteReply or
\* by the candidate's own RequestVote, is in the voter's WAL or superseded
\* there by a later term.
VotePersisted(v, candidate, term) ==
  \/ wal[v].term > term
  \/ wal[v].term = term /\ wal[v].votedFor = candidate

AnnouncedVotesPersisted ==
  \A m \in msgs :
    /\ m.type = "VoteReply" /\ m.granted => VotePersisted(m.src, m.dst, m.term)
    /\ m.type = "RequestVote" => VotePersisted(m.src, m.src, m.term)

\* INVARIANT 1 of node.go, and what INVARIANT 2 is for: no step, a crash and
\* replay of the WAL included, lowers a node's term or changes a vote it has
\* cast in its current term.
TermsAndVotesStand ==
  [][\A n \in Server :
       /\ currentTerm'[n] >= currentTerm[n]
       /\ currentTerm'[n] = currentTerm[n] /\ votedFor[n] # Nil
            => votedFor'[n] = votedFor[n]]_vars

\* LeaderID (node.go) promises the current leader or nothing.  A node that is
\* not Leader therefore never names itself.
FollowerNamesAnotherLeader ==
  \A n \in Server : state[n] # "Leader" => leaderID[n] # n

-----------------------------------------------------------------------------
(* Logs *)

\* Two logs that hold an entry of the same term at the same slot are equal up
\* to that slot (the consistency check and the truncation of
\* HandleAppendEntries).
LogMatching ==
  \A a, b \in Server : \A i \in 1..Min({Len(log[a]), Len(log[b])}) :
    log[a][i].term = log[b][i].term => SubSeq(log[a], 1, i) = SubSeq(log[b], 1, i)

\* The entries of a term start at the same slot in every log that has any,
\* for they all come from the one Leader of that term.  handleConflictLocked
\* needs this to make progress when it skips a whole term.
TermsStartAlike ==
  \A a, b \in Server : \A t \in 1..MaxTerm :
    LET i == FindFirstIndexOfTerm(log[a], t)
        j == FindFirstIndexOfTerm(log[b], t)
    IN  i > 0 /\ j > 0 => i = j

Committed(n) == SubSeq(log[n], 1, commitIndex[n])

\* A Leader holds every entry that any node whose term is not higher knows to
\* be committed (isLogUpToDate and INVARIANT 4 of replication.go).
LeaderCompleteness ==
  \A n, m \in Server :
    state[n] = "Leader" /\ currentTerm[n] >= currentTerm[m]
      => IsPrefix(Committed(m), log[n])

\* README.md:128, "Reads are linearizable — only the leader serves reads": a
\* Leader, which serves reads as soon as IsLeader holds, knows every entry to
\* be committed that any node knows, and may have acknowledged.
LeaderServesLatest ==
  \A n, m \in Server : state[n] = "Leader" => commitIndex[n] >= commitIndex[m]

\* Whatever a node takes for committed is, now and for good, in the logs of a
\* majority (advanceCommitIndexLocked and the commit rule of
\* HandleAppendEntries).
CommittedOnMajority ==
  \A n \in Server :
    /\ commitIndex[n] <= Len(log[n])
    /\ Cardinality({m \in Server : IsPrefix(Committed(n), log[m])}) >= Majority

\* What a Leader believes of a follower in its term is true: the follower's
\* log agrees with the Leader's up to matchIndex.
MatchIndexSound ==
  \A n, p \in Server :
    state[n] = "Leader" /\ currentTerm[p] = currentTerm[n] /\ p # n
      => IsPrefix(SubSeq(log[n], 1, matchIndex[n][p]), log[p])

\* INVARIANT 3 of node.go: no step deletes or replaces an entry its node
\* knows to be committed.
CommittedEntriesKept ==
  [][\A n \in Server : IsPrefix(Committed(n), log'[n])]_vars

\* The longest committed log any node knows.
Agreed ==
  Committed(CHOOSE n \in Server : \A m \in Server : commitIndex[n] >= commitIndex[m])

\* Without crashes the cluster implements one agreed log: what the nodes know
\* to be committed are prefixes of a single sequence, and neither it nor what
\* a node knows of it is ever taken back (commitIndex in node.go and
\* replication.go).
Abstract == INSTANCE AgreedLog WITH
  agreed <- Agreed, view <- [n \in Server |-> Committed(n)]
ImplementsAgreedLog == Abstract!Spec

=============================================================================
