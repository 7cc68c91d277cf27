-------------------------------- MODULE WAL --------------------------------
(***************************************************************************)
(* The files of internal/storage/wal.go: appending with rotation, crashes  *)
(* that tear a record, and Replay, which reads the files in order and      *)
(* truncates what it cannot read.                                          *)
(*                                                                         *)
(* A file is a sequence of chunks.  A chunk is a complete record or the    *)
(* fragment that an interrupted write leaves: fewer bytes than a header    *)
(* has ("header"), or a header and not all of what it announces ("body").  *)
(* The file is opened for appending, so later records follow a fragment    *)
(* that nobody has removed; Replay then takes some of their bytes for the  *)
(* fragment's missing ones, and the CRC does not match.                    *)
(***************************************************************************)
EXTENDS WALRecords, SequencesExt

CONSTANTS
  Candidate,     \* the nodes that may be voted for
  MaxSize,       \* maxWALSize: a record counts 2, a fragment 1
  Faults,        \* what may go wrong, see Fault
  MaxRecords,    \* bound: calls of Append
  MaxTerm,       \* bound: the node's term
  MaxCrashes     \* bound: crashes

\* "header", "body": a crash may leave such a fragment.  "short": Write may
\* fail and leave one.  "sync": Sync may fail after Write has succeeded.
\* "rotate": the next file cannot be opened.  "truncate": truncateFile fails.
\* "read": Replay cannot open a file, or gets an error from reading it.
Fault == {"header", "body", "short", "sync", "rotate", "truncate", "read"}

ASSUME WALAssumption ==
  /\ MaxSize \in Nat /\ MaxRecords \in Nat /\ MaxTerm \in Nat /\ MaxCrashes \in Nat
  /\ Faults \subseteq Fault

VARIABLES
  files,         \* the WAL files in the order of their ids
  fileSize,      \* the size that w believes its current file has
  open,          \* is w.file open?
  pc,            \* "running", "down" or "replaying"
  next,          \* the file that Replay reads next
  replayed,      \* what Replay has gathered from the files before that
  term,          \* the node's currentTerm: what it writes never falls behind
  answer,        \* what the last Append returned
  acked,         \* where the acknowledged records are: [file, pos, rec]
  harm,          \* "done" once something has gone wrong that leaves a trace
                 \* Replay does not cope with, else "none"
  calls, crashes \* bounds

vars == <<files, fileSize, open, pc, next, replayed, term, answer, acked, harm, calls, crashes>>

Record ==
  [type : {"term"}, term : 1..MaxTerm, value : {Nil}]
  \cup [type : {"vote"}, term : 1..MaxTerm, value : Candidate]
  \cup [type : {"entry"}, term : 1..MaxTerm, value : 1..MaxRecords]

Fragment == [type : {"header", "body"}, term : {0}, value : {Nil}]
Torn(kind) == [type |-> kind, term |-> 0, value |-> Nil]

\* NewWAL in an empty directory, and a Replay of nothing.
Init ==
  /\ files = <<<<>>>>
  /\ fileSize = 0
  /\ open = TRUE
  /\ pc = "running"
  /\ next = 1
  /\ replayed = EmptyWAL
  /\ term = 0
  /\ answer = [status |-> "none", rec |-> Nil]
  /\ acked = {}
  /\ harm = "none"
  /\ calls = 0
  /\ crashes = 0

-----------------------------------------------------------------------------
(* Append *)

Size(chunk) == IF chunk \in Fragment THEN 1 ELSE 2

FileSize(f) == FoldLeft(LAMBDA sum, chunk : sum + Size(chunk), 0, f)

\* What the node may write next.  PersistTerm is called with a higher term,
\* PersistVote with the current one, and entries are numbered to tell them
\* apart.
MayWrite(r) ==
  /\ r \in Record
  /\ \/ r.type = "term" /\ r.term = term + 1
     \/ r.type = "vote" /\ r.term = term
     \/ r.type = "entry" /\ r.term = term /\ r.value = calls + 1

Called(r) ==
  /\ pc = "running"
  /\ MayWrite(r)
  /\ calls < MaxRecords
  /\ calls' = calls + 1
  /\ UNCHANGED <<pc, next, replayed, crashes>>

NeedsRotation == fileSize + 2 > MaxSize

\* The files and the current file's size after rotate, if it is called for.
Rotated == IF NeedsRotation THEN Append(files, <<>>) ELSE files
RotatedSize == IF NeedsRotation THEN 0 ELSE fileSize

\* fs with a chunk written at the end of its last file.
Write(fs, chunk) == [fs EXCEPT ![Len(fs)] = Append(@, chunk)]

\* Mutant: the file is not opened for appending.
AppendRecordOver(r) ==
  /\ Called(r) /\ open
  /\ files' = [files EXCEPT ![Len(files)] = <<r>>]
  /\ fileSize' = RotatedSize + 2
  /\ acked' = acked \cup {[file |-> Len(files'), pos |-> Len(files'[Len(files')]), rec |-> r]}
  /\ answer' = [status |-> "ok", rec |-> r]
  /\ term' = r.term
  /\ UNCHANGED <<open, harm>>

\* Append returns nil.
AppendRecord(r) ==
  /\ Called(r) /\ open
  /\ files' = Write(Rotated, r)
  /\ fileSize' = RotatedSize + 2
  /\ acked' = acked \cup {[file |-> Len(files'), pos |-> Len(files'[Len(files')]), rec |-> r]}
  /\ answer' = [status |-> "ok", rec |-> r]
  /\ term' = r.term
  /\ UNCHANGED <<open, harm>>

\* Append returns an error; the node logs it and goes on.  Nothing reaches
\* the file (always so once rotate has left w.file closed), a fragment does,
\* or the record does and Sync fails: fileSize is not told.
AppendFails(r) ==
  /\ Called(r)
  /\ answer' = [status |-> "error", rec |-> r]
  /\ term' = r.term
  /\ UNCHANGED acked
  /\ \/ /\ ~open
        /\ UNCHANGED <<files, fileSize, open, harm>>
     \/ /\ open /\ NeedsRotation /\ "rotate" \in Faults
        /\ open' = FALSE
        /\ UNCHANGED <<files, fileSize, harm>>
     \/ /\ open
        /\ \/ /\ \E chunk \in Fragment : "short" \in Faults /\ files' = Write(Rotated, chunk)
              /\ harm' = "done"
           \/ /\ "sync" \in Faults /\ files' = Write(Rotated, r)
              /\ UNCHANGED harm
        /\ fileSize' = RotatedSize
        /\ UNCHANGED open

-----------------------------------------------------------------------------
(* Crashes and Replay *)

Crashed ==
  /\ crashes < MaxCrashes
  /\ crashes' = crashes + 1
  /\ pc' = "down"
  /\ answer' = [status |-> "none", rec |-> Nil]
  /\ UNCHANGED <<fileSize, open, next, replayed, term, acked>>

\* The process dies between two calls of Append, or during Replay.
Crash == Crashed /\ pc # "down" /\ UNCHANGED <<files, harm, calls>>

\* The process dies in Append: the record is torn, or complete on disk but
\* not acknowledged.
CrashInAppend(r) ==
  /\ Crashed /\ pc = "running"
  /\ MayWrite(r) /\ calls < MaxRecords /\ calls' = calls + 1
  /\ open
  /\ \/ \E kind \in {"header", "body"} \cap Faults :
          /\ files' = Write(Rotated, Torn(kind))
          /\ harm' = IF kind = "header" THEN "done" ELSE harm
     \/ files' = Write(Rotated, r) /\ UNCHANGED harm

\* NewWAL opens the file with the highest id and asks for its size, before
\* Replay has had a chance to truncate it.
NewWAL ==
  /\ pc = "down"
  /\ pc' = "replaying"
  /\ next' = 1
  /\ replayed' = EmptyWAL
  /\ open' = TRUE
  /\ fileSize' = FileSize(files[Len(files)])
  /\ UNCHANGED <<files, term, answer, acked, harm, calls, crashes>>

\* The number of records before the first fragment: as far as f is readable.
ValidLen(f) ==
  LET torn == {i \in 1..Len(f) : f[i] \in Fragment}
  IN  IF torn = {} THEN Len(f) ELSE Min(torn) - 1

\* Mutant: replayFile truncates one record too many.
AfterReplayTooShort(f) ==
  IF ValidLen(f) = Len(f) THEN f ELSE SubSeq(f, 1, ValidLen(f) - 1)

\* What replayFile leaves of f.  Fewer bytes than a header at the end of the
\* file count as its clean end, so that fragment stays.
AfterReplay(f) ==
  IF ValidLen(f) = Len(f) - 1 /\ f[Len(f)].type = "header"
  THEN f
  ELSE SubSeq(f, 1, ValidLen(f))

\* Several such fragments in a row may together still be too short for a
\* header, or may be long enough to be read as one.
MayLookClean(f) ==
  /\ ValidLen(f) < Len(f) - 1
  /\ \A i \in ValidLen(f) + 1 .. Len(f) : f[i].type = "header"

\* What replayFile returns for f.
replayFile(f) == FoldLeft(ApplyRecord, EmptyWAL, SubSeq(f, 1, ValidLen(f)))

\* Mutant: a file without a term record sets the term back.
MergeLast(w, r) ==
  [term |-> r.term, votedFor |-> r.votedFor, entries |-> w.entries \o r.entries]

\* Replay: last term and last vote win, entries accumulate.
Merge(w, r) ==
  [term     |-> IF r.term > 0 THEN r.term ELSE w.term,
   votedFor |-> IF r.votedFor # Nil THEN r.votedFor ELSE w.votedFor,
   entries  |-> w.entries \o r.entries]

\* Replay's loop goes on; after the last file the node starts in the term it
\* has found.
NextFile ==
  /\ IF next < Len(files)
     THEN next' = next + 1 /\ UNCHANGED <<pc, term>>
     ELSE pc' = "running" /\ term' = replayed'.term /\ UNCHANGED next
  /\ UNCHANGED <<fileSize, open, answer, acked, calls, crashes>>

\* One round of Replay's loop.
ReplayFile ==
  /\ pc = "replaying"
  /\ replayed' = Merge(replayed, replayFile(files[next]))
  /\ \/ files' = [files EXCEPT ![next] = AfterReplay(@)]
     \/ ("truncate" \in Faults \/ MayLookClean(files[next])) /\ UNCHANGED files
  /\ harm' = IF files'[next] = AfterReplay(files[next]) THEN harm ELSE "done"
  /\ NextFile

\* The payload of record k + 1 cannot be read.  Whatever the error is,
\* replayFile takes the record for an incomplete one, truncates the file
\* before it and reports no error.
ReadFails ==
  /\ pc = "replaying" /\ "read" \in Faults
  /\ \E k \in 0 .. ValidLen(files[next]) - 1 :
       LET rest == SubSeq(files[next], 1, k)
       IN  /\ replayed' = Merge(replayed, replayFile(rest))
           /\ \/ files' = [files EXCEPT ![next] = rest]
              \/ "truncate" \in Faults /\ UNCHANGED files
  /\ harm' = "done"
  /\ NextFile

\* A file cannot be opened, or a header cannot be read: Replay breaks off, and
\* returns what it has.
ReplayGivesUp ==
  /\ pc = "replaying" /\ "read" \in Faults
  /\ pc' = "running"
  /\ term' = replayed.term
  /\ harm' = "done"
  /\ UNCHANGED <<files, fileSize, open, next, replayed, answer, acked, calls, crashes>>

Next ==
  \/ \E r \in Record : AppendRecord(r) \/ AppendFails(r) \/ CrashInAppend(r)
  \/ Crash \/ NewWAL \/ ReplayFile \/ ReadFails \/ ReplayGivesUp

Spec == Init /\ [][Next]_vars

-----------------------------------------------------------------------------
(* Properties *)

Chunk == Record \cup Fragment

TypeOK ==
  /\ files \in Seq(Seq(Chunk)) /\ Len(files) >= 1
  /\ pc \in {"running", "down", "replaying"}
  /\ next \in 1..Len(files)
  /\ acked \subseteq [file : Nat, pos : Nat, rec : Record]

\* A record whose Append has returned nil stays where Replay gets to read it,
\* unless harm was done: a crash left less than a header, a write or a
\* truncation failed part-way, or a file could not be read.
AckedReadable ==
  harm = "none" =>
    \A a \in acked :
      /\ a.file <= Len(files)
      /\ a.pos <= ValidLen(files[a.file])
      /\ files[a.file][a.pos] = a.rec

\* What Replay would return now.
Replay(fs) ==
  FoldLeft(LAMBDA w, f : Merge(w, replayFile(f)), EmptyWAL, fs)

\* As long as no harm is done, the files implement a durable summary of the
\* records: appending, rotating, crashing at any point and replaying add up to
\* ApplyRecord for each record, which is what module Raft takes the WAL for.
Durable == INSTANCE DurableState WITH summary <- Replay(files)
ImplementsDurableState ==
  Durable!Init /\ [][harm' = "none" => Durable!Step]_vars

\* Replay hands the node exactly what the files hold: pausing between files
\* and truncating them on the way changes nothing of the result.
ReplayIsComplete ==
  [][pc = "replaying" /\ pc' = "running" /\ harm' = "none" =>
       replayed' = Replay(files) /\ Replay(files') = Replay(files)]_vars

\* Whatever fails, appending behind fragments and truncating what looks torn
\* never make a record unreadable that was readable before (validOffset in
\* replayFile).  The one exception is an error in reading a record's payload,
\* and that costs no other file and nothing before the record.
ReadableStays ==
  [][\A i \in 1..Len(files) :
       \/ /\ i <= Len(files')
          /\ ValidLen(files[i]) <= ValidLen(files'[i])
          /\ \A j \in 1..ValidLen(files[i]) : files'[i][j] = files[i][j]
       \/ ReadFails /\ i = next /\ IsPrefix(files'[i], files[i])]_vars

\* ARCHITECTURE.md:106: "no acknowledged write is ever lost".  AckedReadable
\* without its condition.
AckedKept ==
  \A a \in acked :
    a.pos <= ValidLen(files[a.file]) /\ files[a.file][a.pos] = a.rec
=============================================================================
