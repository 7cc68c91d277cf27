----------------------------- MODULE AgreedLog -----------------------------
(***************************************************************************)
(* What the replicated log promises to the applications above it, with no  *)
(* terms, messages or votes: there is one sequence of agreed entries, it   *)
(* only grows, and each node knows a prefix of it that only grows.         *)
(***************************************************************************)
EXTENDS Integers, Sequences

CONSTANTS Server

VARIABLES
  agreed,   \* the agreed entries
  view      \* view[n]: the agreed entries node n knows of

Init ==
  /\ agreed = <<>>
  /\ view = [n \in Server |-> <<>>]

\* Node n finds out that more entries are agreed: agreement is reached where
\* it is first known.
Agree(n) ==
  /\ Len(agreed') > Len(agreed)
  /\ SubSeq(agreed', 1, Len(agreed)) = agreed
  /\ view' = [view EXCEPT ![n] = agreed']

\* Node n learns entries that are already agreed.
Learn(n) ==
  /\ Len(view[n]) < Len(agreed)
  /\ \E k \in Len(view[n]) + 1 .. Len(agreed) :
       view' = [view EXCEPT ![n] = SubSeq(agreed, 1, k)]
  /\ UNCHANGED agreed

Next == \E n \in Server : Agree(n) \/ Learn(n)

Spec == Init /\ [][Next]_<<agreed, view>>

=============================================================================
