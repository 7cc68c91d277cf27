--------------------------- MODULE DurableState ---------------------------
(***************************************************************************)
(* What the write-ahead log promises the node: a summary of its records    *)
(* that survives crashes.  A record whose Append has returned nil is in    *)
(* it, a record whose Append failed or was cut off by a crash may or may   *)
(* not be, and nothing else ever changes it.                               *)
(***************************************************************************)
EXTENDS WALRecords

CONSTANT Record         \* the records the node may write

VARIABLES
  summary,              \* what Replay would return
  answer                \* what the last Append returned, and for which record

Init ==
  /\ summary = EmptyWAL
  /\ answer = [status |-> "none", rec |-> Nil]

Written(r) ==
  /\ answer' = [status |-> "ok", rec |-> r]
  /\ summary' = ApplyRecord(summary, r)

Refused(r) ==
  /\ answer' = [status |-> "error", rec |-> r]
  /\ summary' \in {summary, ApplyRecord(summary, r)}

CutOff(r) ==
  /\ answer' = [status |-> "none", rec |-> Nil]
  /\ summary' \in {summary, ApplyRecord(summary, r)}

Next == \E r \in Record : Written(r) \/ Refused(r) \/ CutOff(r)

Step == [Next]_<<summary, answer>>

Spec == Init /\ [][Step]_<<summary, answer>>
=============================================================================
