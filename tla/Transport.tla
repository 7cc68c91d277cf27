----------------------------- MODULE Transport -----------------------------
(***************************************************************************)
(* GRPCTransport of internal/transport/grpc.go: goroutines of one node     *)
(* send RPCs over connections that are made on first use and cached per    *)
(* peer, under a lock that is held while a connection is being made.       *)
(*                                                                         *)
(* The section under RLock is one step that needs the lock free; the one   *)
(* under Lock takes a step per attempt, and excludes everybody else.       *)
(* grpc.NewClient, ClientConn and the RPCs are external.                   *)
(***************************************************************************)
EXTENDS Naturals, FiniteSets

CONSTANTS
  Nil,
  Caller,        \* goroutines that send, one RPC at a time
  Peer,          \* the targets that Raft knows of
  Addrs,         \* the peers whose address is configured
  Retries,       \* attempts to make a connection: 3 in the code
  MaxConns       \* bound: connections ever made

ASSUME TransportAssumption ==
  /\ Addrs \subseteq Peer
  /\ Nil \notin Caller \cup Peer
  /\ Retries \in Nat \ {0} /\ MaxConns \in Nat

VARIABLES
  conns,         \* the cache: conns[p] is a connection's number, 0 for none
  open,          \* the connections that are open: [peer, id]
  dialled,       \* how many were ever made
  mu,            \* who holds the lock for writing, or Nil
  pc,            \* "idle", "lookUp", "lock", "dial" or "call"
  target,
  attempt,
  conn,          \* the connection getConn returned
  closed         \* has Close been called?

vars == <<conns, open, dialled, mu, pc, target, attempt, conn, closed>>

Init ==
  /\ conns = [p \in Peer |-> 0]
  /\ open = {}
  /\ dialled = 0
  /\ mu = Nil
  /\ pc = [g \in Caller |-> "idle"]
  /\ target = [g \in Caller |-> Nil]
  /\ attempt = [g \in Caller |-> 0]
  /\ conn = [g \in Caller |-> 0]
  /\ closed = FALSE

Goto(g, place) == pc' = [pc EXCEPT ![g] = place]

\* getConn returns connection id or, for 0, an error, which Send* returns.
Got(g, id) ==
  /\ conn' = [conn EXCEPT ![g] = id]
  /\ attempt' = [attempt EXCEPT ![g] = 0]
  /\ IF id = 0
     THEN Goto(g, "idle") /\ target' = [target EXCEPT ![g] = Nil]
     ELSE Goto(g, "call") /\ UNCHANGED target

-----------------------------------------------------------------------------
(* SendRequestVote and SendAppendEntries *)

Send(g, p) ==
  /\ pc[g] = "idle"
  /\ Goto(g, "lookUp")
  /\ target' = [target EXCEPT ![g] = p]
  /\ UNCHANGED <<conns, open, dialled, mu, attempt, conn, closed>>

\* Mutant: a failed RPC closes its connection and drops it from the cache.
ReturnEvicts(g) ==
  /\ pc[g] = "call"
  /\ Goto(g, "idle")
  /\ open' = open \ {[peer |-> target[g], id |-> conn[g]]}
  /\ conns' = [conns EXCEPT ![target[g]] = IF @ = conn[g] THEN 0 ELSE @]
  /\ target' = [target EXCEPT ![g] = Nil]
  /\ conn' = [conn EXCEPT ![g] = 0]
  /\ UNCHANGED <<dialled, mu, attempt, closed>>

\* The RPC is made on the connection and returns a reply, or an error (also
\* because Close has closed the connection, or the context has expired).
Return(g) ==
  /\ pc[g] = "call"
  /\ Goto(g, "idle")
  /\ target' = [target EXCEPT ![g] = Nil]
  /\ conn' = [conn EXCEPT ![g] = 0]
  /\ UNCHANGED <<conns, open, dialled, mu, attempt, closed>>

-----------------------------------------------------------------------------
(* getConn *)

\* Under RLock.
LookUp(g) ==
  /\ pc[g] = "lookUp" /\ mu = Nil
  /\ IF conns[target[g]] # 0
     THEN Got(g, conns[target[g]])
     ELSE Goto(g, "lock") /\ UNCHANGED <<target, attempt, conn>>
  /\ UNCHANGED <<conns, open, dialled, mu, closed>>

\* Mutant: the cache is not looked at again under the write lock.
LockOnly(g) ==
  /\ pc[g] = "lock" /\ mu = Nil
  /\ IF target[g] \notin Addrs
     THEN Got(g, 0) /\ UNCHANGED mu
     ELSE Goto(g, "dial") /\ mu' = g /\ UNCHANGED <<target, attempt, conn>>
  /\ UNCHANGED <<conns, open, dialled, closed>>

\* Lock, the double check and the address.
Lock(g) ==
  /\ pc[g] = "lock" /\ mu = Nil
  /\ IF conns[target[g]] # 0 \/ target[g] \notin Addrs
     THEN Got(g, conns[target[g]]) /\ UNCHANGED mu
     ELSE Goto(g, "dial") /\ mu' = g /\ UNCHANGED <<target, attempt, conn>>
  /\ UNCHANGED <<conns, open, dialled, closed>>

\* grpc.NewClient succeeds.
Connect(g) ==
  /\ pc[g] = "dial" /\ dialled < MaxConns
  /\ dialled' = dialled + 1
  /\ conns' = [conns EXCEPT ![target[g]] = dialled']
  /\ open' = open \cup {[peer |-> target[g], id |-> dialled']}
  /\ mu' = Nil
  /\ Got(g, dialled')
  /\ UNCHANGED closed

\* Mutant: the attempts are not counted.
ConnectFailsAgain(g) ==
  /\ pc[g] = "dial"
  /\ attempt' = [attempt EXCEPT ![g] = 1 - @]
  /\ UNCHANGED <<conns, open, dialled, mu, pc, target, conn, closed>>

\* It fails, which grpc.NewClient may do only for a target or an option it does
\* not like, for it does no I/O; the code does not rely on that.  Another attempt
\* after 100 ms, with the lock held, or the error.
ConnectFails(g) ==
  /\ pc[g] = "dial"
  /\ IF attempt[g] + 1 < Retries
     THEN attempt' = [attempt EXCEPT ![g] = @ + 1] /\ UNCHANGED <<pc, target, conn, mu>>
     ELSE Got(g, 0) /\ mu' = Nil
  /\ UNCHANGED <<conns, open, dialled, closed>>

\* Close, called once by main, while goroutines may still be sending.
Close ==
  /\ mu = Nil /\ ~closed
  /\ open' = {c \in open : conns[c.peer] # c.id}
  /\ conns' = [p \in Peer |-> 0]
  /\ closed' = TRUE
  /\ UNCHANGED <<dialled, mu, pc, target, attempt, conn>>

-----------------------------------------------------------------------------
getConn(g) == LookUp(g) \/ Lock(g) \/ Connect(g) \/ ConnectFails(g)

Next ==
  \/ \E g \in Caller : (\E p \in Peer : Send(g, p)) \/ getConn(g) \/ Return(g)
  \/ Close

\* sync.RWMutex starves nobody, NewClient and the RPCs return.
Spec ==
  /\ Init /\ [][Next]_vars
  /\ \A g \in Caller : SF_vars(getConn(g)) /\ WF_vars(Return(g))

-----------------------------------------------------------------------------
(* Properties *)

TypeOK ==
  /\ conns \in [Peer -> Nat]
  /\ open \subseteq [peer : Peer, id : Nat \ {0}]
  /\ dialled \in Nat
  /\ mu \in Caller \cup {Nil}
  /\ pc \in [Caller -> {"idle", "lookUp", "lock", "dial", "call"}]
  /\ target \in [Caller -> Peer \cup {Nil}]
  /\ attempt \in [Caller -> Nat]
  /\ conn \in [Caller -> Nat]
  /\ closed \in BOOLEAN

\* grpc.go:19: connections are cached per peer.  The open connections are
\* exactly the cached ones: goroutines that find none at the same time make
\* one between them, and none is left open that Close would not find.
OpenIsCached ==
  open = {[peer |-> p, id |-> conns[p]] : p \in {q \in Peer : conns[q] # 0}}

\* Before Close, an RPC is made on a connection that is open.
CallsOnOpen ==
  ~closed => \A g \in Caller :
               pc[g] = "call" => [peer |-> target[g], id |-> conn[g]] \in open

\* getConn comes to an end, with a connection or an error, whoever else is
\* connecting to whatever unreachable peer: no path keeps the lock.
SendsReturn == \A g \in Caller : (pc[g] # "idle") ~> (pc[g] = "idle")
=============================================================================
