---------------------------- MODULE WALRecords ----------------------------
(***************************************************************************)
(* What Replay makes of the records of the write-ahead log: the term, the  *)
(* vote and the entries it returns, as a summary that each kind of record  *)
(* changes.  Module Raft persists to such a summary; module WAL shows that *)
(* the files on disk amount to one.                                        *)
(***************************************************************************)
EXTENDS Integers, Sequences, FiniteSetsExt

CONSTANT Nil     \* the empty NodeID

EmptyWAL == [term |-> 0, votedFor |-> Nil, entries |-> <<>>]

\* Mutant: the term is not written.
PersistTermNot(w, term) == w

PersistTerm(w, term) == [w EXCEPT !.term = term]

\* Mutant: the term is written, the vote is not.
PersistVoteTermOnly(w, candidate, term) == [w EXCEPT !.term = Max({@, term})]

\* A vote stays when the term rises: Replay returns the last of each.
PersistVote(w, candidate, term) ==
  [w EXCEPT !.votedFor = candidate, !.term = Max({@, term})]

PersistEntries(w, entries) == [w EXCEPT !.entries = @ \o entries]

\* One record of a file: replayFile's switch on the record's type.
ApplyRecord(w, r) ==
  CASE r.type = "term"  -> PersistTerm(w, r.term)
    [] r.type = "vote"  -> PersistVote(w, r.value, r.term)
    [] r.type = "entry" -> PersistEntries(w, <<r.value>>)
=============================================================================
