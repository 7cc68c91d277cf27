# A verification of RaftKV

TLA+ models of RaftKV (`src/`), from its write-ahead log to its HTTP requests,
the TLC configurations that check them on small instances, and proofs checked
by TLAPS. Every definition is taken from the Go code; paths below are relative
to `src/`.

## The system and its parts

| Part | Code | Modelled in |
|---|---|---|
| Elections: candidates, votes, terms | `internal/raft/node.go` | `Raft` |
| Replication: commands, AppendEntries, heartbeats, conflict hints, commit index | `internal/raft/node.go`, `replication.go` | `Raft`, `LogRepair` |
| The in-memory log | `internal/raft/log.go` | `RaftLog` |
| Restart from the WAL | `Node.Replay`, `WAL.Replay` | `Raft` (`Restart`), `WALRecords` |
| WAL files: records, CRC, torn writes, rotation, replay | `internal/storage/wal.go` | `WAL`, `DurableState` |
| The run loop and its timers | `Node.run`, `Start`, `Stop`, `resetElectionTimerLocked` | `RunLoop` |
| Apply pipeline: `applyLoop`, the channel, the consumer | `replication.go`, `cmd/server/main.go` | `Service` |
| Key-value store | `internal/kvstore/store.go` | `Service` |
| HTTP API: leader check, redirect, waiting for the commit, readiness | `internal/api/handler.go` | `Service` |
| Shutdown | `cmd/server/main.go` | `Service`, `RunLoop` |
| gRPC client and server | `internal/transport` | `Transport` (connections), `Raft` (an unreliable network) |
| Configuration, protocol buffers, chaos tests, dashboard | `internal/config`, `pkg/proto`, `tests/chaos`, `dashboard` | not modelled |

A node keeps all its state behind one mutex. `run()` waits for a timer and
starts an election or a round of heartbeats; each sends RPCs from goroutines
of its own and takes the lock again to handle the reply. A Leader also runs
one `replicateLog` goroutine per peer. RPCs from other nodes are handled under
the same lock. Terms, votes and entries are written to the WAL inside these
locked sections; after a crash `Node.Replay` restores them. Committed entries
go from `applyLoop` through a channel to the store, and the HTTP API submits
commands, waits for `lastApplied`, and redirects clients to the Leader.

What is hard to test in it: messages that are late or repeated; state read
before an unlock and used after it; a crash between two WAL records; a write
that fails and is only logged; leaderships that alternate several times before
an entry is committed; the boundaries of unsigned indexes and of majorities;
a loop that waits for a timer another goroutine has just stopped; a fragment
of a record on disk that is met two restarts later; an answer that overtakes
the channel it depends on. `PROJECT.json` lists these hazards line by line
with the properties that cover them.

## The modules

**`RaftLog`** holds the pure computations: the operations of `log.go`, the
consistency check, the conflict hint and the append loop of
`HandleAppendEntries`, `handleConflictLocked`, `isLogUpToDate`, and the commit
rule of `advanceCommitIndexLocked`. A log is the sequence of its entries; the
sentinel at slot 0 is the value 0 of `TermAt` at index 0.

**`Raft`** is a cluster. Its variables are the fields of `Node` under the same
names, the messages in flight (`msgs`), the heartbeat rounds that have been
started (`ticks`), and per node what `WAL.Replay` would return (`wal`, changed
record by record by the operators of **`WALRecords`**). There
is one action per locked section, so actions interleave exactly where the code
gives up its lock:

| Action | Code |
|---|---|
| `StartElection` | `startElection` up to its RPCs |
| `HandleRequestVote` | the handler, the `becomeFollowerLocked` inside it and its WAL records included |
| `CountVote`, `StepDownOnVoteReply` | the end of the vote goroutine; `becomeLeaderLocked` is part of `CountVote` |
| `SubmitCommand` | the first locked section; a WAL error leaves the entry in the log, as in the code |
| `ReplicateLog` | one round of `replicateLog` up to its RPC |
| `SendHeartbeats`, `SendHeartbeatTo` | the two locked sections before a heartbeat's RPC |
| `RejectStaleAppend`, `HandleAppendEntries` | the handler, by its first early return |
| `StepDownOnAppendReply`, `HandleAppendSuccess`, `HandleAppendConflict` | the reply handlers of `replicateLog` and `sendHeartbeats`, which are alike |
| `Restart` | a crash anywhere between two WAL records, then `NewNode` and `Replay` |
| `DiskFail` | from here on `WAL.Append` returns an error |

Time is left out: an election timer may fire whenever `run()` could see a node
that is not Leader. Since `run()` gives up the lock before it calls
`startElection`, `StartElection` may also hit a node that has just become
Leader.

The network is a set of messages that are read and not removed, so every
message may be lost, delayed, repeated and overtaken. Two reductions keep it
small and change nothing that can happen: a reply its receiver ignores in every
state is not recorded (`Ignored`), and a message is dropped once no handler can
act on it any more (`Matters`; for a node is Candidate and Leader at most once
per term, and terms only grow). The index of a request's last entry and its
term travel with the reply, for the goroutine that waits remembers them.

**`AgreedLog`** is the abstract specification: one sequence of agreed entries
that only grows and of which every node knows a growing prefix. `Raft` without
crashes implements it, with `agreed` the longest committed prefix any node
knows (`ImplementsAgreedLog`).

**`LogRepair`** is the bookkeeping of one Leader in its term. It follows
nextIndex for one follower through the fast rollback, from every pair of logs
that can occur, with requests that others overtake (`Delay`, `LateRequest`) and
conflict answers that arrive late, while commands are submitted and the other
peers acknowledge them; the commit index, which starts at whatever the node had
learned before it was elected and which is computed by sorting, is compared
with what the comment of `advanceCommitIndexLocked` says it is. The pairs are
those that `LogMatching` and `TermsStartAlike` allow, both checked for `Raft`;
the second one is needed: without it the Leader could repeat a refused probe
for ever.

**`RunLoop`** is one node's `run()` with a program counter, the two timers, and
what the vote goroutines, the RPC handlers and `Stop` do to role and timers
while `run()` is anywhere between two locks. `ChooseTimer` is the locked
section that picks a channel, `Tick` the receive from it, `LookAtState` the
second locked section, then `StartElection`, or `SendHeartbeats` and `Rearm`.
Terms are left out; which RPCs can arrive in which role is in the guards.

**`WAL`** is the directory of WAL files of one node. A file is a sequence of
records and fragments; a fragment is shorter than a record's header
(`"header"`) or longer (`"body"`), because `replayFile` treats these two
differently. `AppendRecord` and `AppendFails` are `Append` with its rotation,
`CrashInAppend` a crash in the middle of it, `NewWAL`, `ReplayFile`,
`ReadFails` and `ReplayGivesUp` the restart, file by file. `Faults` says which
of its steps may fail. `harm` records whether something has gone wrong that
leaves a trace `Replay` does not cope with; it is read by properties only:

* a crash left 1 to 7 bytes, which `replayFile` takes for the clean end of the
  file (`wal.go:230`), so that the next records are written behind them;
* a Write failed part-way and left a fragment (`wal.go:161`), with the same
  effect;
* `replayFile` did not cut off what it could not read, because truncating
  failed (`wal.go:245`) or several such fragments looked like a clean end;
* a file could not be opened or a header not be read, and `Replay` returned
  what it had (`wal.go:203`);
* a record's payload could not be read: whatever the error is, `replayFile`
  takes the record for an incomplete one and truncates the file before it
  (`wal.go:242`).

**`DurableState`** is what `Raft` assumes of the WAL, a summary to which each
record is applied or not; `WAL` implements it until harm is done
(`ImplementsDurableState`).

**`Service`** is one server from its requests to its store:

| Action | Code |
|---|---|
| `CheckLeader`, `RedirectToLeader`, `HandleGet`, `RejectBody` | the handlers, one action per access to the node or the store |
| `SubmitCommand`, `AwaitApplied`, `Timeout` | `SubmitCommand`: its first locked section, the poll that ends the wait, the 5 s deadline |
| `CollectEntries`, `PushEntry`, `FinishBatch`, `EndApplyLoop` | `applyLoop`: two locked sections and the blocking sends between them |
| `ReceiveEntry`, `ApplyEntry`, `EndConsumer` | the consumer goroutine of `main`, which holds one entry between the two (`inHand`) |
| `StartElection`, `BecomeLeader`, `BecomeFollower`, `AdvanceCommit`, `HandleAppendEntries` | what the Raft side does to the fields that the service reads |
| `Shutdown`, `StopServers`, `StopNode`, `Restart` | `main`; `Restart` includes `Node.Replay` |

The rest of the cluster is an environment with one agreed log (as in
`AgreedLog`) that only grows: `AgreeElsewhere` adds to it; a node becomes
Leader only if its log holds what was agreed in terms up to its own; a Leader's
log is only appended to by itself; an accepted AppendEntries keeps committed
entries and brings entries of the term's Leader. These are
`LeaderCompleteness`, `ElectionSafety` and `ImplementsAgreedLog`, which are
checked for `Raft` without crashes.

`Service` has restarts too, with the replay of the code: `written` is the list
of entries that `PersistEntry` has put into the WAL, entries that were
overwritten since included, and after a restart it is the log. `intact` records
whether every restart so far has brought the log back as it was. Once one has
not (the case that `replay` below is about, or a failed `PersistEntry`),
nothing that `Raft` establishes holds of this node: it may be elected, and
commit, with what it has. The safety properties are therefore conditioned on
`intact`, and TLC indeed refutes `PipelineInOrder` and `StoreFollowsAgreed`
without it. The other nodes are taken to keep their promises throughout.
Answers are told apart only as far as properties do: 200 (`"ok"`), any other
status (`"failed"`), and none, since the process died (`"lost"`).

**`Transport`** is the connection cache of `grpc.go`: goroutines that look up a
connection under the read lock, then take the write lock, look again and
connect with retries, while others wait; and `Close`.

**`MCRaft`** and **`MCService`** instantiate `Raft` and `Service` for TLC; the
other modules are instantiated by their configurations.

The proofs are in **`RaftLogProofs`** (lemmas about the operators on logs),
**`RaftProofs`** (types, elections, matching logs), **`RaftQuorumProofs`** and
**`RaftCommitProofs`**, each of which extends the one before; in
**`LogRepairProofs`**, which extends `RaftLogProofs` too; in **`WALProofs`**
and **`ServiceProofs`**; and in **`NodeProofs`** (`Transport`, and `RunLoop` as
the instance `Loop`).

Operators marked `Mutant:` are wrong variants of the definition that follows
them. No specification uses them; put in place of that definition, each makes
a named property fail, which shows that the property depends on the code it is
about.

## The runs

| Run | Instance | Checks | States |
|---|---|---|---|
| `elections` | 3 nodes, 3 terms, any node stands in any, 1 entry, 1 crash | `ElectionSafety`, `AnnouncedVotesPersisted`, `TermsAndVotesStand` | 366,807 |
| `replication` | 3 nodes, 3 terms led in turn, up to 2 entries, heartbeats of term 1 | `TypeOK`, `LogMatching`, `TermsStartAlike`, `MatchIndexSound`, `CommittedOnMajority`, `ImplementsAgreedLog` | 126,643 |
| `figure8` | 3 nodes, 4 terms led in turn, 1 entry per log, heartbeats in term 3, n2's disk may fail | `LeaderCompleteness` | 151,878 |
| `log_repair` | 4 nodes, all matching pairs of logs of 3 entries in 2 terms, a Leader's log of up to 3, 1 request under way, 1 late answer | `NextInLog`, `RepairIsExact`, `CommitIsHighest`, `RefusalBacksUp`, `SharedStays`, `EventuallyRepaired` | 181,566 |
| `run_loop` | a node with 4 peers | `ElectionTimerRuns`, `CandidateWatchesElection`, `CandidateRetries`, `LeaderBeats`, `StopEndsRun` | 843 |
| `wal` | 2 records per file, 4 records, 2 crashes, every fault | `AckedReadable`, `ImplementsDurableState`, `ReplayIsComplete`, `ReadableStays` | 443,899 |
| `service_pipeline` | a put and a delete, 3 terms, a crash, a WAL of up to 2 foreign entries, a channel of 1 | `PipelineInOrder`, `StoreFollowsAgreed`, `AckedIsAgreed`, `ReadyIsNearlyCurrent` | 1,781,606 |
| `service_progress` | a put and a read, 2 terms, failing writes to the WAL, a crash, a channel of 1 | `CommittedReachesStore`, `RequestsAnswered`, `ShutdownEnds` | 249,135 |
| `transport` | 3 goroutines, 3 peers, one without address, 3 connections | `OpenIsCached`, `CallsOnOpen`, `SendsReturn` | 22,416 |
| `replay` | 3 nodes, 2 terms led in turn, 1 crash | `CommittedEntriesKept` is violated | |
| `roles` | a node with 2 peers | `LoopServesRole` is violated | |
| `service_reads` | a put and a read, 1 term, no crash | `ReadsSeeAckedWrites` is violated | |

The bounds. Three nodes are the smallest cluster in which a majority is neither
one node nor all, and two majorities may share a single node. `LogRepair` adds
a cluster of even size. Three terms let a deposed Leader come back and meet
what happened meanwhile; the fourth in `figure8` lets an old entry be
overwritten after a Leader of the third term has spread it, and TLC indeed
finds the loss as soon as the term check is left out. In the runs with leaders
in turn only n1 and n3 stand, as in the paper's figure; n2 is the voter both
need. One command is enough, since entries of different leaders differ in their
term. `MaxLogLen` grows with the term so that a later Leader has something to
append behind what it inherited. `replication` and `figure8`, which have no
restarts, identify states that differ only in what no later step reads (`VIEW
Memory`): the contents of the WALs, the votes of a node that is not Candidate,
nextIndex and matchIndex of one that neither leads nor has heartbeats to send
that anybody would receive. The runs for `Raft` end in states without
successors only because these bounds are used up; deadlock is therefore not
checked in them.

In `wal` two records fill a file, so that four records rotate, and two crashes
are the least that shows what the second replay makes of what the first one
left behind. A channel of one entry is full whenever the code's 256 are: only
"full" and "not full" matter. Three terms let a node lead, be replaced and lead
again while a request of its first leadership still waits, which is what
`AckedIsAgreed` is about. An entry that is overwritten and the one that
replaces it make two in the WAL (`MaxWritten`), which is the least that a
replay can misplace. Writes to the WAL fail in `service_progress` and not in
`service_pipeline`, where the crash already separates the WAL from the log.
Deadlock is not checked in `wal`, where all calls are used up, and in those of
`Service`, where a server that has been shut down really stops. In
`log_repair`, `run_loop` and `transport` it is checked.

Fairness. `LogRepair`: while there is something to send, some round completes
again and again (weak fairness of `Accepted \/ Refused` with nextIndex inside
the log). `replicateLog` retries every 10 ms as long as its node leads, and an
RPC that is repeated for ever is assumed to be answered at some point. Without
entries to send it sends nothing, and only heartbeats probe the follower;
`roles` shows a Leader that does not send them, so none are assumed. Late
requests and answers get no fairness. `RunLoop`: the goroutine of `run()` is
scheduled, and a running timer that it waits for expires (weak fairness of
`Run` and `Tick`); nothing is assumed of other nodes or of `Stop`. `Service`:
the goroutines of `applyLoop`, of the consumer, of `main` and of each request
that has begun are scheduled, and deadlines pass; nothing is assumed of
clients, of the cluster or of signals. `Transport`: `sync.RWMutex` lets nobody
starve (strong fairness of `getConn`), and an RPC returns, for each has a
deadline.

### What the violations show

* `replay`: `HandleAppendEntries` removes a conflicting suffix from memory but
  not from the WAL, and `WAL.Replay` returns every entry ever written. A node
  that restarts has the overwritten entry back in its slot, and the committed
  one behind it (`node.go:160`, against invariant 3 of `ARCHITECTURE.md:118`).
* `roles`: `run()` picks a timer's channel under the lock and waits for it
  without. In the trace the votes that make a Candidate Leader arrive while
  `run()` waits for the election timer, which `becomeLeaderLocked` stops
  (`node.go:337`), so the heartbeats that `replicateLog` relies on ("heartbeats
  handle keepalive", `replication.go:35`) are not sent. The reverse has the
  same cause: a Leader whose `run()` waits for the heartbeat timer is deposed,
  the timer stopped; the election timer is reset as `README.md:42` demands
  (`ElectionTimerRuns` holds), and its tick is never received. `run_loop` shows
  what remains: a Leader that `run()` has noticed keeps beating
  (`LeaderBeats`), and a Candidate is never left waiting for the wrong timer.
* `service_reads`: `lastApplied` counts what has been put into the channel, so
  `SubmitCommand` returns before the store has the write, and a read that
  follows can miss it, on a Leader nothing ever disturbs (against
  `handler.go:77` and `README.md:128`).

Because of the first, the runs about logs (`replication`, `figure8`) have no
crashes: with a crash those properties fail for that one reason. The runs and
proofs about elections do include crashes.

Seven more configurations each reproduce a smaller disagreement. TLC reports
the violation within seconds.

| Configuration | Property | What happens |
|---|---|---|
| `MCRaft_disk.cfg` | `AnnouncedVotesPersisted` | A failed `PersistVote` is logged and the vote granted all the same (`node.go:421`, against invariant 2 two lines above). `figure8` shows the other side: without a restart nothing is lost by it. |
| `MCRaft_hint.cfg` | `FollowerNamesAnotherLeader` | A Leader that steps down on a higher term keeps its own ID as `leaderID` (`node.go:374`, against `node.go:712`). |
| `MCRaft_reads.cfg` | `LeaderServesLatest` | A new Leader has not committed what it inherited, and a replaced one may not know that it has been; `handleGet` asks for nothing but `IsLeader` (against `README.md:128`). |
| `RunLoop_single.cfg` | `NodeLeads` | The own vote is a majority of one, but the count is compared only when a peer's reply arrives (`node.go:316`); `README.md:169` offers a single node. Here every vote that is asked for is assumed to arrive. |
| `WAL_header.cfg` | `AckedKept` | A crash leaves fewer bytes than a header, which `replayFile` does not cut off (`wal.go:230`); the record acknowledged next is behind them and lost at the second restart (against `ARCHITECTURE.md:106`). |
| `WAL_read.cfg` | `AckedKept` | Nothing is torn, but reading a payload fails once: `replayFile` truncates the file there (`wal.go:242`, against `ARCHITECTURE.md:106`). |
| `MCService_applied.cfg` | `AckedIsApplied` | `SubmitCommand` returns while the entry is still in the channel (against `replication.go:180`). |

`AckedKept`, which is `AckedReadable` without its condition on `harm`, is the
claim of `ARCHITECTURE.md:106`.

## The proofs

All for any cluster, any number of terms, entries, requests, goroutines and
crashes, any bounds. The assumptions on the constants are `ServerAssumption`
(the cluster is finite and `Nil` is not in it), `BoundsAssumption`,
`RepairAssumption` (the Leader, the follower and the other peers are different
and finitely many), `ServiceAssumption` and `TransportAssumption` (the
constants have their types).

* `TypeCorrect`: `Spec => []TypeOK`. `TypeOK` includes that nextIndex is at
  least 1 for the peers of a Leader and of a node with heartbeats still to
  send, so the unsigned `nextIndex - 1` never wraps. It is not inductive: a
  refusal with a conflicting term but no index would set nextIndex to 0.
  `HintsNameSlots` excludes it; it holds because a term found in the log has a
  first slot (`ConflictHintType`).
* `ElectionsAreSafe`, `VotesArePersisted`, `TermsAndVotesAreKept`:
  `ElectionSafety`, `AnnouncedVotesPersisted` and `TermsAndVotesStand` for
  `Spec` with crashes, under `Faulty = {}` (no write fails; `MCRaft_disk.cfg`
  shows that the second one needs this).

The argument for elections: `VoteFor(v, c, t)` collects all evidence of a vote,
a request, a reply in flight or a vote counted. The invariant `VoteInv` says
that a node remembers every vote for which there is evidence until it leaves
the term (`VotesRemembered`), that there is never evidence of two votes of one
node in one term (`OneVotePerTerm`), that the WAL holds the current term and
vote (`WALCurrent`), and that `votes` counts `votesReceived` (`VotesCounted`).
`VotesRemembered` alone does not carry over to a later state, for it says
nothing of terms the voter has left; that is what `OneVotePerTerm` is for. For
each action it is shown that new evidence comes only from a vote cast in that
very step (`OnlyCastVotes`) and that terms and votes stand (`VotesStandStep`);
`VotesInduct` concludes. Two Leaders of one term would share a voter.

What a restart finds is the summary of the complete records written before the
crash: that is `DurableState`. That the files implement it until harm is done
is checked by `wal`.

### Logs and commitment

* `LogsMatch`, `TermsStartTogether`, `MatchIsSound` (`RaftProofs`):
  `LogMatching`, `TermsStartAlike` and `MatchIndexSound`.
* `CommitsOnMajority`, `LeadersAreComplete`, `CommittedEntriesAreKept`,
  `ClusterAgrees` (`RaftCommitProofs`): `CommittedOnMajority`,
  `LeaderCompleteness`, the action property `CommittedEntriesKept`, and the
  refinement `ImplementsAgreedLog`.

All seven are about `StableSpec`, in which no node crashes and messages may be
lost, repeated, delayed and reordered. They are false with a crash, because of
what `replay` finds. `ClusterAgrees` also assumes that there is a node, for
`Agreed` is the view of one. What follows is the inductive invariant,
`SafeInv`, in the order in which it is built.

*Links* (`MatchInv`). A log is taken apart into links: a slot, the entry there
and the term of the entry before it. The same is done with the requests on
their way, since an accepted request puts its links into a log. A slot and a
term determine the link (`LinksUnique`), and only one link of a term has a
predecessor of another term (`StartsUnique`). `LogMatching` goes from slot to
slot along the links, and `TermsStartAlike` is `StartsUnique` for logs. Both
need that a link is made by the one Leader of its term. That is not visible any
more when the Leader has stepped down, so `Elected(c, t)` says it from the
votes: a majority chose `c` in term `t` and cannot choose another. Links come
from elected nodes that are no longer Candidates (`LinksElected`), and as long
as the Leader of their term leads, they are in its log (`LeaderAhead`).

*Acknowledgements* (`AckInv`). A reply that is on its way counts as much as
`matchIndex`: `AckedUpTo`. It is true as long as the follower is in the term
(`AcksTrue`): requests are part of the log of their sender while it leads
(`OwnRequests`), and the follower accepts from no one else in that term
(`SendersIssued`).

*Order* (`OrderInv`). Terms ascend along links. The code lets a late
AppendEntries, with the term of an old Leader, bring entries of a later term
than the one the sender led in, for a heartbeat reads the log when it is sent
and the term when it was started. So a Candidate may have entries of a later
term than its own; `LateLogsLose` says that it has then lost the election.

*Majorities* (`RaftQuorumProofs`). `Clear(Q, k, t)` says that the nodes of `Q`
hold the entry of term `t` at slot `k`, that every entry of a later term comes
after it, and that the requests, Candidates and Leaders of later terms do not
contradict it. It stays until someone is elected without a vote from `Q`
(`ClearStays`), so with a majority `Q` it stays for good: `Anchored`.

*Commitment* (`PendingInv`, `CommitInv`). An entry of a Leader's own term is
`Clear` for those who acknowledged it, or a majority has gone on to a later
term without doing so (`Blocked`) and the Leader will not commit it. Here the
rule of `advanceCommitIndexLocked` is used that only entries of the Leader's
own term are counted. When a majority has acknowledged the entry, it is
`Anchored`. A commit index, in a node, a heartbeat or a request, is backed by
an anchored entry (`CommitsBacked`, `TicksBacked`, `RequestsBacked`), and the
node's log agrees up to that index with those that hold the entry. For requests
this takes care of `leaderCommit` with a stale `nextIndex`: who accepts the
request has the anchored entry afterwards, since the request ends at it or
later (`Reaches`).

`ImplementsAgreedLog` follows: views are prefixes of each other, since any two
anchored entries agree, and the longest one (`Top`) only grows.

### Log repair

`NextStaysInLog`, `RepairsAreExact`, `RefusalsBackUp`, `SharedIsKept`,
`CommitsAreHighest` (`LogRepairProofs`): `NextInLog`, `RepairIsExact`, the
action properties `RefusalBacksUp` and `SharedStays`, and `CommitIsHighest`,
for any two logs that `LogMatching` and `TermsStartAlike` allow (which
`LogsMatch` and `TermsStartTogether` prove of the cluster) and any number of
late requests and answers.

The invariant, `RepairInv`: each hint the follower has given names a slot of
the Leader's log, which only grows, so a late one still leads into it
(`HintLeadsIntoLog`); the Leader's log and the follower's first one agree up to
each slot at which their terms agree; and the follower's log is that first one
or a prefix of the Leader's (`RepairIsExact`). A request, however late, is a
stretch of the Leader's log (`InLog`). So an accepted one starts where
everything before is equal, and either nothing in it is new or the follower
then has the Leader's log up to its end (`AcceptedIsExact`); what the two logs
shared is still there (`SharedStep`). A refusal names a slot no later than the
probed one, and a term; the Leader's last entry of that term lies before the
probed slot, because terms ascend along its log and the term at the probed slot
is another one (`RefusalStep`).

For the commit index it has to be known that nobody acknowledges more than the
Leader has, nor was more committed at the start (`AckBound`). The value
`advanceCommitIndexLocked` takes from its sorted list is the highest that more
than half of the cluster have, for an odd and for an even number
(`SortedMiddle`, `MiddleIsHighest`). If it holds an entry of an earlier term,
so does every slot before it, and the commit index stays where it is.

### The other parts

* `TimerRuns`, `WatchedTimerIsCurrent` (`NodeProofs`): `ElectionTimerRuns`
  and `CandidateWatchesElection`, which together with the types are inductive.
* `AckedNeverLost` (`WALProofs`): `Spec => []AckedReadable`, whatever may fail.
  `AckedReadable` is not inductive, for a fragment in front of the next record
  would hide it. `TornAtEnd` says where fragments are as long as no harm is
  done: at the end of the last file, with a whole header, and gone when the
  node runs again. No step undoes harm (`HarmStays`), and each that does none
  keeps this.
* `ReadableIsKept` (`WALProofs`): the action property `ReadableStays`, harm or
  not. The readable part of a file ends at its first fragment (`ValidLenIs`);
  what is written comes after it, and so does what `replayFile` cuts off. Only
  a payload that cannot be read makes it cut off more, and then it spares the
  other files and what comes before (`ReadFailsSpares`).
* `AcknowledgedWritesAgreed`, `StoreIsAgreedPrefix`, `PipelineNeverReorders`,
  `ReadyLagBounded` (`ServiceProofs`), in the environment described above and
  as long as every restart has brought the log back as it was: the invariant is
  conditioned on `intact`, which no step makes true again (`IntactBefore`).
  What the node takes for committed is agreed (`Known`); the entries on their
  way to the store are the stretch of the agreed log behind what the store has,
  and `lastApplied` lies within it (`Queue`, and `Hand` for the entry that the
  consumer holds); a request that waits in the term it was submitted in still
  has its entry in the log (`Waits`). The last is what makes the comparison of
  terms in `SubmitCommand` necessary: a node that has led, followed and leads
  again may hold another entry there.
* `CacheIsExact`, `CallsAreOnOpen` (`NodeProofs`): the goroutine that
  connects holds the lock and its peer has no connection yet, which the second
  look under the lock establishes.

Only model-checked: the refinement of `DurableState` and `ReplayIsComplete` of
`WAL` (what Replay returns is a fold over the records, so they need induction
over data), and liveness. Liveness under fairness, ENABLED,
induction over data and RECURSIVE operators are out of the prover's reach.

## Not modelled

* `internal/config`: parsing of flags and address lists. Its results are
  constants of the models.
* `pkg/proto`: generated. The conversions in `grpc.go` and `server.go` copy
  field by field; messages keep their fields in `Raft`.
* `tests/chaos` and `dashboard`: tests and a front end. The network of the
  chaos tests is a special case of the one of `Raft`.
* Time. Neither the lengths of timeouts nor their ratio are modelled, so
  nothing is said about how long an election takes or how likely a split vote
  is; nor is anything said about a whole cluster electing a Leader eventually,
  which `roles` rules out as the code is.
* `/status`, `/healthz`, metrics and logging: they read state and change none.
* Disks that fail and recover: in `Raft` a disk that has failed stays so until
  the node restarts (`DiskFail`); single failing writes are in `WAL` and
  `Service`.
* What `grpc.NewClient` does. It connects lazily, so it hardly ever fails;
  `Transport` lets it fail whenever it is called, as the code's retries do.
* Payloads: JSON bodies and commands are opaque, a record's CRC detects every
  fragment, and a command that was serialized is the command that is applied.
* What a client does after a redirect or a timeout. Commands carry no identity,
  so a repeated write is a second write; the code promises nothing else.
