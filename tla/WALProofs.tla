----------------------------- MODULE WALProofs -----------------------------
(***************************************************************************)
(* For any size of the files, any number of records and crashes, and       *)
(* whatever may fail: an acknowledged record is lost only after harm was   *)
(* done, and what is readable stays readable unless reading it fails.      *)
(*                                                                         *)
(* AckedReadable is not inductive: it has to be known where fragments can  *)
(* be.  The strengthening says that, as long as no harm is done, the only  *)
(* one is the last chunk of the last file, is there only until Replay has  *)
(* read that file, and is of the kind that Replay truncates.               *)
(***************************************************************************)
EXTENDS WAL, WellFoundedInduction, TLAPS

\* Most leaves are first-order; the ones that need arithmetic cite SMT.
USE ZenonT(30)

TornAtEnd ==
  \A i \in 1..Len(files) : \A j \in 1..Len(files[i]) :
    files[i][j] \in Fragment =>
      /\ i = Len(files) /\ j = Len(files[i])
      /\ files[i][j].type = "body"
      /\ pc # "running"

AckedThere ==
  \A a \in acked :
    /\ a.file \in 1..Len(files)
    /\ a.pos \in 1..Len(files[a.file])
    /\ files[a.file][a.pos] = a.rec

DiskInv == TypeOK /\ TornAtEnd /\ AckedThere

SafeDisk == harm = "none" => DiskInv

\* No record looks like a fragment.
LEMMA RecordsAreWhole == \A r \in Record : r \notin Fragment
  BY DEF Record, Fragment

\* A chunk is written behind everything else in the last file.
LEMMA WriteAtEnd ==
  ASSUME NEW fs \in Seq(Seq(Chunk)), Len(fs) >= 1, NEW c \in Chunk
  PROVE  /\ Write(fs, c) \in Seq(Seq(Chunk))
         /\ Len(Write(fs, c)) = Len(fs)
         /\ \A i \in 1..(Len(fs) - 1) : Write(fs, c)[i] = fs[i]
         /\ Write(fs, c)[Len(fs)] = Append(fs[Len(fs)], c)
  <1>1. fs[Len(fs)] \in Seq(Chunk)
    BY SMTT(30)
  <1>2. Append(fs[Len(fs)], c) \in Seq(Chunk)
    BY <1>1, SMTT(30)
  <1> QED
    BY <1>2, SMTT(30) DEF Write

\* rotate adds an empty file and leaves the others alone.
LEMMA RotatedFiles ==
  ASSUME TypeOK
  PROVE  /\ Rotated \in Seq(Seq(Chunk)) /\ Len(Rotated) >= Len(files)
         /\ Len(Rotated) \in Nat
         /\ \A i \in 1..Len(files) : Rotated[i] = files[i]
         /\ \A i \in 1..Len(Rotated) : i \notin 1..Len(files) => Rotated[i] = <<>>
  <1>1. files \in Seq(Seq(Chunk)) /\ <<>> \in Seq(Chunk)
    BY SMTT(30) DEF TypeOK
  <1>2. CASE NeedsRotation
    BY <1>1, <1>2, SMTT(30) DEF Rotated
  <1>3. CASE ~NeedsRotation
    BY <1>1, <1>3, SMTT(30) DEF Rotated
  <1> QED
    BY <1>2, <1>3

\* fs is what the files are after one chunk has been written: every chunk
\* keeps its place, and the new one is the last of the last file.
Extends(fs, c) ==
  /\ fs \in Seq(Seq(Chunk)) /\ Len(fs) >= 1 /\ Len(fs) >= Len(files)
  /\ \A i \in 1..Len(files) : \A j \in 1..Len(files[i]) :
       j \in 1..Len(fs[i]) /\ fs[i][j] = files[i][j]
  /\ Len(fs[Len(fs)]) >= 1 /\ fs[Len(fs)][Len(fs[Len(fs)])] = c
  /\ \A i \in 1..Len(fs) : \A j \in 1..Len(fs[i]) :
       \/ i = Len(fs) /\ j = Len(fs[i]) /\ fs[i][j] = c
       \/ i \in 1..Len(files) /\ j \in 1..Len(files[i]) /\ fs[i][j] = files[i][j]

\* Writing a chunk behind the (possibly rotated) files extends them.
LEMMA WrittenFiles ==
  ASSUME TypeOK, NEW c \in Chunk
  PROVE  Extends(Write(Rotated, c), c)
  <1> DEFINE R == Rotated  k == Len(R)  fs == Write(R, c)
  <1>1. /\ R \in Seq(Seq(Chunk)) /\ k >= Len(files) /\ k \in Nat
        /\ \A i \in 1..Len(files) : R[i] = files[i]
        /\ \A i \in 1..k : i \notin 1..Len(files) => R[i] = <<>>
    BY RotatedFiles
  <1>2. files \in Seq(Seq(Chunk)) /\ Len(files) >= 1
    BY DEF TypeOK
  <1> HIDE DEF R, fs
  <1>3. /\ fs \in Seq(Seq(Chunk)) /\ Len(fs) = k
        /\ \A i \in 1..(k - 1) : fs[i] = R[i]
        /\ fs[k] = Append(R[k], c)
    <2>1. Len(R) >= 1
      BY <1>1, <1>2, SMTT(30)
    <2>2. fs = Write(R, c)
      BY DEF fs
    <2>3. R \in Seq(Seq(Chunk))
      BY <1>1
    <2>4. /\ Write(R, c) \in Seq(Seq(Chunk)) /\ Len(Write(R, c)) = Len(R)
          /\ \A i \in 1..(Len(R) - 1) : Write(R, c)[i] = R[i]
          /\ Write(R, c)[Len(R)] = Append(R[Len(R)], c)
      BY <2>1, <2>3, WriteAtEnd, Zenon
    <2> QED
      BY <2>2, <2>4
  <1>4. /\ \A i \in 1..k : R[i] \in Seq(Chunk)
        /\ \A i \in 1..Len(files) : files[i] \in Seq(Chunk)
    BY <1>1, <1>2, SMTT(30)
  <1>5. /\ Len(fs[k]) = Len(R[k]) + 1 /\ Len(R[k]) \in Nat
        /\ fs[k][Len(R[k]) + 1] = c
        /\ \A j \in 1..Len(R[k]) : fs[k][j] = R[k][j]
    BY <1>1, <1>2, <1>3, <1>4, SMTT(30)
  <1>6. ASSUME NEW i \in 1..Len(files), NEW j \in 1..Len(files[i])
        PROVE  j \in 1..Len(fs[i]) /\ fs[i][j] = files[i][j]
    <2>0. Len(files) \in Nat /\ Len(R) \in Nat /\ Len(R) >= Len(files)
      BY <1>1, <1>2, SMTT(30)
    <2>1. i \in 1..k /\ R[i] = files[i]
      BY <1>1, <2>0, SMTT(30)
    <2>2. CASE i = k
      BY <1>4, <1>5, <2>1, <2>2, SMTT(30)
    <2>3. CASE i # k
      <3>1. i \in 1..(k - 1)
        BY <1>1, <2>1, <2>3, SMTT(30)
      <3> QED
        BY <1>3, <2>1, <3>1
    <2> QED
      BY <2>2, <2>3
  <1>7. ASSUME NEW i \in 1..k, NEW j \in 1..Len(fs[i])
        PROVE  \/ i = k /\ j = Len(fs[i]) /\ fs[i][j] = c
               \/ i \in 1..Len(files) /\ j \in 1..Len(files[i]) /\ fs[i][j] = files[i][j]
    <2>1. CASE i = k
      <3>1. CASE j = Len(fs[k])
        BY <1>5, <2>1, <3>1
      <3>2. CASE j # Len(fs[k])
        <4>1. j \in 1..Len(R[k])
          BY <1>5, <2>1, <3>2, SMTT(30)
        <4>2. R[k] # <<>>
          BY <4>1, SMTT(30)
        <4>3. k \in 1..Len(files) /\ R[k] = files[k]
          BY <1>1, <1>2, <4>2, SMTT(30)
        <4> QED
          BY <1>5, <2>1, <4>1, <4>3
      <3> QED
        BY <3>1, <3>2
    <2>2. CASE i # k
      <3>1. i \in 1..(k - 1)
        BY <1>1, <2>2, SMTT(30)
      <3>2. fs[i] = R[i]
        BY <1>3, <3>1
      <3>3. R[i] # <<>>
        BY <3>2, SMTT(30)
      <3>4. i \in 1..Len(files) /\ R[i] = files[i]
        BY <1>1, <3>3
      <3> QED
        BY <3>2, <3>4
    <2> QED
      BY <2>1, <2>2
  <1>8. Extends(fs, c)
    BY <1>1, <1>2, <1>3, <1>5, <1>6, <1>7, SMTT(30) DEF Extends
  <1> QED
    BY <1>8 DEF fs, R

\* Fragments at the very end do not hide a record.
LEMMA WholeRecordsReadable ==
  ASSUME TypeOK, TornAtEnd, AckedThere
  PROVE  AckedReadable
  <1> SUFFICES ASSUME NEW a \in acked
               PROVE  /\ a.file <= Len(files)
                      /\ a.pos <= ValidLen(files[a.file])
                      /\ files[a.file][a.pos] = a.rec
    BY DEF AckedReadable
  <1> DEFINE f == files[a.file]
             torn == {i \in 1..Len(f) : f[i] \in Fragment}
  <1>1. a.file \in 1..Len(files) /\ a.pos \in 1..Len(f) /\ f[a.pos] = a.rec
    BY DEF AckedThere
  <1>2. a.rec \notin Fragment
    BY RecordsAreWhole DEF TypeOK
  <1>3. f \in Seq(Chunk)
    BY <1>1, SMTT(30) DEF TypeOK
  <1>4. \A i \in torn : i = Len(f)
    BY <1>1 DEF TornAtEnd
  <1>5. ValidLen(f) = IF torn = {} THEN Len(f) ELSE Min(torn) - 1
    BY DEF ValidLen
  <1> HIDE DEF f
  <1>6. CASE torn = {}
    BY <1>1, <1>3, <1>5, <1>6, SMTT(30) DEF f
  <1>7. CASE torn # {}
    <2>1. torn = {Len(f)}
      BY <1>4, <1>7
    <2>2. Min(torn) = Len(f)
      BY <1>3, <2>1, SMTT(30) DEF Min
    <2>3. a.pos # Len(f)
      BY <1>1, <1>2, <2>1
    <2> QED
      BY <1>1, <1>3, <1>5, <1>7, <2>2, <2>3, SMTT(30) DEF f
  <1> QED
    BY <1>6, <1>7

\* Replay of a file with at most one fragment, at its end and with a whole
\* header, removes that fragment and nothing else.
LEMMA ReplayCleans ==
  ASSUME NEW f \in Seq(Chunk),
         \A j \in 1..Len(f) : f[j] \in Fragment => j = Len(f) /\ f[j].type = "body"
  PROVE  /\ AfterReplay(f) \in Seq(Chunk)
         /\ Len(AfterReplay(f)) <= Len(f)
         /\ \A j \in 1..Len(AfterReplay(f)) :
              AfterReplay(f)[j] = f[j] /\ f[j] \notin Fragment
         /\ \A j \in 1..Len(f) : f[j] \notin Fragment => j \in 1..Len(AfterReplay(f))
         /\ ~MayLookClean(f)
  <1> DEFINE torn == {i \in 1..Len(f) : f[i] \in Fragment}
  <1>1. ValidLen(f) = IF torn = {} THEN Len(f) ELSE Min(torn) - 1
    BY DEF ValidLen
  <1>2. CASE torn = {}
    <2>1. ValidLen(f) = Len(f)
      BY <1>1, <1>2
    <2>2. AfterReplay(f) = SubSeq(f, 1, Len(f))
      BY <2>1, SMTT(30) DEF AfterReplay
    <2>3. AfterReplay(f) = f
      BY <2>2, SMTT(30)
    <2>4. ~MayLookClean(f)
      BY <2>1, SMTT(30) DEF MayLookClean
    <2> QED
      BY <1>2, <2>3, <2>4, SMTT(30)
  <1>3. CASE torn # {}
    <2>1. torn = {Len(f)}
      BY <1>3
    <2>2. Min(torn) = Len(f)
      BY <2>1, SMTT(30) DEF Min
    <2>3. ValidLen(f) = Len(f) - 1 /\ Len(f) \in 1..Len(f)
      BY <1>1, <1>3, <2>1, <2>2
    <2>4. f[Len(f)].type # "header"
      BY <2>1
    <2>5. AfterReplay(f) = SubSeq(f, 1, Len(f) - 1)
      BY <2>3, <2>4 DEF AfterReplay
    <2>6. ~MayLookClean(f)
      BY <2>3, SMTT(30) DEF MayLookClean
    <2> QED
      BY <2>1, <2>3, <2>5, <2>6, SMTT(30)
  <1> QED
    BY <1>2, <1>3

\* The files are empty at first.
LEMMA InitDisk == Init => SafeDisk
  BY SMTT(30) DEF Init, SafeDisk, DiskInv, TypeOK, TornAtEnd, AckedThere

\* A step that writes one chunk keeps the invariant, if a fragment is written
\* only by a crash.
LEMMA WriteKeeps ==
  ASSUME DiskInv, NEW c \in Chunk, files' = Write(Rotated, c),
         pc = "running", pc' \in {"running", "down"}, next' = next,
         c \in Fragment => c.type = "body" /\ pc' = "down",
         \/ acked' = acked
         \/ /\ c \in Record
            /\ acked' = acked \cup {[file |-> Len(files'),
                                     pos |-> Len(files'[Len(files')]), rec |-> c]}
  PROVE  DiskInv'
  <1> DEFINE fs == files'
  <1>1. TypeOK /\ TornAtEnd /\ AckedThere
    BY DEF DiskInv
  <1>2. /\ fs \in Seq(Seq(Chunk)) /\ Len(fs) >= 1 /\ Len(fs) >= Len(files)
        /\ \A i \in 1..Len(files) : \A j \in 1..Len(files[i]) :
             j \in 1..Len(fs[i]) /\ fs[i][j] = files[i][j]
        /\ Len(fs[Len(fs)]) >= 1 /\ fs[Len(fs)][Len(fs[Len(fs)])] = c
        /\ \A i \in 1..Len(fs) : \A j \in 1..Len(fs[i]) :
             \/ i = Len(fs) /\ j = Len(fs[i]) /\ fs[i][j] = c
             \/ i \in 1..Len(files) /\ j \in 1..Len(files[i]) /\ fs[i][j] = files[i][j]
    <2>1. Extends(Write(Rotated, c), c)
      BY <1>1, WrittenFiles
    <2>2. Extends(fs, c)
      BY <2>1
    <2> QED
      BY <2>2 DEF Extends
  <1>3. Len(fs) \in Nat /\ Len(files) \in Nat /\ fs[Len(fs)] \in Seq(Chunk)
    BY <1>1, <1>2, SMTT(30) DEF TypeOK
  <1>4. Len(fs[Len(fs)]) \in Nat
    BY <1>3, SMTT(30)
  <1> HIDE DEF fs
  <1>5. TypeOK'
    <2>1. next' \in 1..Len(fs)
      BY <1>1, <1>2, <1>3, SMTT(30) DEF TypeOK
    <2>2. acked' \subseteq [file : Nat, pos : Nat, rec : Record]
      BY <1>1, <1>3, <1>4, SMTT(30) DEF TypeOK, fs
    <2> QED
      BY <1>2, <2>1, <2>2 DEF TypeOK, fs
  <1>6. TornAtEnd'
    <2>1. \A i \in 1..Len(files) : \A j \in 1..Len(files[i]) : files[i][j] \notin Fragment
      BY <1>1 DEF TornAtEnd
    <2>2. \A i \in 1..Len(fs) : \A j \in 1..Len(fs[i]) :
            fs[i][j] \in Fragment => i = Len(fs) /\ j = Len(fs[i]) /\ fs[i][j] = c
      BY <1>2, <2>1
    <2> QED
      BY <2>2 DEF TornAtEnd, fs
  <1>7. AckedThere'
    <2> SUFFICES ASSUME NEW a \in acked'
                 PROVE  /\ a.file \in 1..Len(fs) /\ a.pos \in 1..Len(fs[a.file])
                        /\ fs[a.file][a.pos] = a.rec
      BY DEF AckedThere, fs
    <2>1. CASE a \in acked
      <3>1. a.file \in 1..Len(files) /\ a.pos \in 1..Len(files[a.file])
            /\ files[a.file][a.pos] = a.rec
        BY <1>1, <2>1 DEF AckedThere
      <3>2. a.file \in 1..Len(fs)
        BY <1>2, <1>3, <3>1, SMTT(30)
      <3> QED
        BY <1>2, <3>1, <3>2
    <2>2. CASE a \notin acked
      <3>1. a = [file |-> Len(fs), pos |-> Len(fs[Len(fs)]), rec |-> c]
        BY <2>2 DEF fs
      <3> QED
        BY <1>2, <1>3, <1>4, <3>1, SMTT(30)
    <2> QED
      BY <2>1, <2>2
  <1> QED
    BY <1>5, <1>6, <1>7 DEF DiskInv

\* Replaying one file keeps the invariant.
LEMMA ReplayKeeps ==
  ASSUME DiskInv, ReplayFile, harm' = "none"
  PROVE  DiskInv'
  <1> DEFINE fs == files'  g == AfterReplay(files[next])
  <1>1. TypeOK /\ TornAtEnd /\ AckedThere
    BY DEF DiskInv
  <1>2. /\ files \in Seq(Seq(Chunk)) /\ Len(files) \in Nat
        /\ next \in 1..Len(files) /\ files[next] \in Seq(Chunk)
    BY <1>1, SMTT(30) DEF TypeOK
  <1>3. \A j \in 1..Len(files[next]) :
          files[next][j] \in Fragment =>
            j = Len(files[next]) /\ files[next][j].type = "body"
    BY <1>1, <1>2 DEF TornAtEnd
  <1>4. /\ g \in Seq(Chunk) /\ Len(g) <= Len(files[next])
        /\ \A j \in 1..Len(g) : g[j] = files[next][j] /\ files[next][j] \notin Fragment
        /\ \A j \in 1..Len(files[next]) :
             files[next][j] \notin Fragment => j \in 1..Len(g)
        /\ ~MayLookClean(files[next])
    BY <1>2, <1>3, ReplayCleans
  <1>5. fs = [files EXCEPT ![next] = g]
    <2>1. CASE files' = [files EXCEPT ![next] = g]
      BY <2>1
    <2>2. CASE files' = files
      <3>1. files'[next] = g
        BY DEF ReplayFile
      <3>2. files[next] = g
        BY <2>2, <3>1
      <3> QED
        BY <1>2, <2>2, <3>2, SMTT(30)
    <2> QED
      BY <2>1, <2>2 DEF ReplayFile
  <1> HIDE DEF g
  <1>6. /\ fs \in Seq(Seq(Chunk)) /\ Len(fs) = Len(files) /\ fs[next] = g
        /\ \A i \in 1..Len(files) : i # next => fs[i] = files[i]
    BY <1>2, <1>4, <1>5, SMTT(30)
  <1> HIDE DEF fs
  <1>7. /\ pc = "replaying" /\ acked' = acked
        /\ IF next < Len(files) THEN next' = next + 1 /\ pc' = pc
                                ELSE next' = next /\ pc' = "running"
    BY DEF ReplayFile, NextFile
  <1>8. TypeOK'
    <2>1. next' \in 1..Len(fs) /\ pc' \in {"running", "down", "replaying"}
      BY <1>2, <1>6, <1>7, SMTT(30)
    <2> QED
      BY <1>1, <1>6, <1>7, <2>1 DEF TypeOK, fs
  <1>9. TornAtEnd'
    <2> SUFFICES ASSUME NEW i \in 1..Len(fs), NEW j \in 1..Len(fs[i]),
                        fs[i][j] \in Fragment
                 PROVE  /\ i = Len(fs) /\ j = Len(fs[i])
                        /\ fs[i][j].type = "body" /\ pc' # "running"
      BY DEF TornAtEnd, fs
    <2>1. i # next
      BY <1>4, <1>6
    <2>2. i \in 1..Len(files) /\ fs[i] = files[i]
      BY <1>6, <2>1
    <2>3. i = Len(files) /\ j = Len(files[i]) /\ files[i][j].type = "body"
      BY <1>1, <2>2 DEF TornAtEnd
    <2>4. next < Len(files)
      BY <1>2, <2>1, <2>3, SMTT(30)
    <2> QED
      BY <1>6, <1>7, <2>2, <2>3, <2>4
  <1>10. AckedThere'
    <2> SUFFICES ASSUME NEW a \in acked
                 PROVE  /\ a.file \in 1..Len(fs) /\ a.pos \in 1..Len(fs[a.file])
                        /\ fs[a.file][a.pos] = a.rec
      BY <1>7 DEF AckedThere, fs
    <2>1. /\ a.file \in 1..Len(files) /\ a.pos \in 1..Len(files[a.file])
          /\ files[a.file][a.pos] = a.rec
      BY <1>1 DEF AckedThere
    <2>2. a.rec \notin Fragment
      BY <1>1, RecordsAreWhole DEF TypeOK
    <2>3. CASE a.file = next
      BY <1>4, <1>6, <2>1, <2>2, <2>3
    <2>4. CASE a.file # next
      BY <1>6, <2>1, <2>4
    <2> QED
      BY <2>3, <2>4
  <1> QED
    BY <1>8, <1>9, <1>10 DEF DiskInv

\* Steps that leave the files alone, and take the node up only from where
\* there are no fragments.
LEMMA FilesAlone ==
  ASSUME DiskInv, UNCHANGED <<files, acked>>, next' \in 1..Len(files),
         pc' \in {"running", "down", "replaying"}, pc' = "running" => pc = "running"
  PROVE  DiskInv'
  <1>1. TypeOK'
    BY DEF DiskInv, TypeOK
  <1>2. TornAtEnd'
    BY DEF DiskInv, TornAtEnd
  <1>3. AckedThere'
    BY DEF DiskInv, AckedThere
  <1> QED
    BY <1>1, <1>2, <1>3 DEF DiskInv

\* No step undoes harm.
LEMMA HarmStays == [Next]_vars /\ harm' = "none" => harm = "none"
  BY DEF Next, vars, AppendRecord, AppendFails, CrashInAppend,
         Crash, NewWAL, ReplayFile, ReadFails, ReplayGivesUp

\* A step that does no harm keeps the invariant.
LEMMA NextDisk ==
  ASSUME DiskInv, [Next]_vars, harm' = "none"
  PROVE  DiskInv'
  <1>0. /\ next \in 1..Len(files) /\ pc \in {"running", "down", "replaying"}
        /\ 1 \in 1..Len(files)
    BY SMTT(30) DEF DiskInv, TypeOK
  <1>1. ASSUME NEW r \in Record, AppendRecord(r)
        PROVE  DiskInv'
    <2>1. r \in Chunk /\ r \notin Fragment
      BY RecordsAreWhole DEF Chunk
    <2>2. /\ files' = Write(Rotated, r)
          /\ pc = "running" /\ pc' = pc /\ next' = next
          /\ acked' = acked \cup {[file |-> Len(files'),
                                   pos |-> Len(files'[Len(files')]), rec |-> r]}
      BY <1>1 DEF AppendRecord, Called
    <2> QED
      BY <2>1, <2>2, WriteKeeps
  <1>2. ASSUME NEW r \in Record, AppendFails(r)
        PROVE  DiskInv'
    <2>1. r \in Chunk /\ r \notin Fragment
      BY RecordsAreWhole DEF Chunk
    <2>2. pc = "running" /\ pc' = pc /\ next' = next /\ acked' = acked
      BY <1>2 DEF AppendFails, Called
    <2>3. files' = files \/ files' = Write(Rotated, r)
      BY <1>2 DEF AppendFails
    <2>4. CASE files' = files
      BY <1>0, <2>2, <2>4, FilesAlone
    <2>5. CASE files' = Write(Rotated, r)
      BY <2>1, <2>2, <2>5, WriteKeeps
    <2> QED
      BY <2>3, <2>4, <2>5
  <1>3. ASSUME NEW r \in Record, CrashInAppend(r)
        PROVE  DiskInv'
    <2>1. /\ pc = "running" /\ pc' = "down" /\ next' = next /\ acked' = acked
          /\ \/ files' = Write(Rotated, Torn("body"))
             \/ files' = Write(Rotated, r)
      BY <1>3 DEF CrashInAppend, Crashed
    <2>2. CASE files' = Write(Rotated, r)
      <3>1. r \in Chunk /\ r \notin Fragment
        BY RecordsAreWhole DEF Chunk
      <3> QED
        BY <2>1, <2>2, <3>1, WriteKeeps
    <2>3. CASE files' = Write(Rotated, Torn("body"))
      <3>1. Torn("body") \in Chunk /\ Torn("body").type = "body"
        BY DEF Torn, Fragment, Chunk
      <3> QED
        BY <2>1, <2>3, <3>1, WriteKeeps
    <2> QED
      BY <2>1, <2>2, <2>3
  <1>4. CASE Crash
    BY <1>0, <1>4, FilesAlone DEF Crash, Crashed
  <1>5. CASE NewWAL
    BY <1>0, <1>5, FilesAlone DEF NewWAL
  <1>6. CASE ReplayFile
    BY <1>6, ReplayKeeps
  <1>7. CASE ReadFails \/ ReplayGivesUp
    BY <1>7 DEF ReadFails, ReplayGivesUp
  <1>8. CASE UNCHANGED vars
    BY <1>0, <1>8, FilesAlone DEF vars
  <1> QED
    BY <1>1, <1>2, <1>3, <1>4, <1>5, <1>6, <1>7, <1>8 DEF Next

\* ARCHITECTURE.md:106 "no acknowledged write is ever lost", for files and
\* logs of any size and any number of crashes: as long as no harm is done, a
\* record whose Append has returned nil can be read by every later Replay.
\* Crashes between and in calls of Append, torn records that keep their header,
\* a Sync and a rotation that fail do no harm.
THEOREM AckedNeverLost == Spec => []AckedReadable
  <1>1. Init => SafeDisk
    BY InitDisk
  <1>2. SafeDisk /\ [Next]_vars => SafeDisk'
    <2> SUFFICES ASSUME SafeDisk, [Next]_vars, harm' = "none"
                 PROVE  DiskInv'
      BY DEF SafeDisk
    <2>1. DiskInv
      BY HarmStays DEF SafeDisk
    <2> QED
      BY <2>1, NextDisk
  <1>3. SafeDisk => AckedReadable
    <2>1. CASE harm = "none"
      BY <2>1, WholeRecordsReadable DEF SafeDisk, DiskInv
    <2>2. CASE harm # "none"
      BY <2>2 DEF AckedReadable
    <2> QED
      BY <2>1, <2>2
  <1> QED
    BY <1>1, <1>2, <1>3, PTL DEF Spec

\* The first of some chunks.
LEMMA FirstOf ==
  ASSUME NEW S, S \subseteq Nat, S # {}
  PROVE  Min(S) \in S /\ \A y \in S : Min(S) <= y
  <1> DEFINE R == {ss \in Nat \X Nat : ss[1] < ss[2]}
  <1>1. R = OpToRel(<, Nat)
    BY DEF OpToRel
  <1>2. IsWellFoundedOn(R, Nat)
    BY <1>1, NatLessThanWellFounded
  <1>3. PICK x \in S : \A y \in S : ~(<<y, x>> \in R)
    <2> HIDE DEF R
    <2> QED
      BY <1>2, WFMin, Zenon
  <1>4. ASSUME NEW y \in S PROVE x <= y
    <2>1. x \in Nat /\ y \in Nat
      OBVIOUS
    <2>2. ~(y < x)
      BY <1>3, <2>1, Zenon
    <2> QED
      BY <2>1, <2>2, SMTT(30)
  <1> QED
    BY <1>4, Zenon DEF Min

\* Where the readable part of a file ends.
LEMMA ValidLenIs ==
  ASSUME NEW f \in Seq(Chunk), NEW v, v = ValidLen(f)
  PROVE  /\ v \in Nat /\ v <= Len(f)
         /\ \A j \in 1..v : f[j] \notin Fragment
         /\ v < Len(f) => f[v + 1] \in Fragment
  <1> DEFINE torn == {i \in 1..Len(f) : f[i] \in Fragment}
  <1>0. Len(f) \in Nat
    BY SMTT(30)
  <1>1. v = IF torn = {} THEN Len(f) ELSE Min(torn) - 1
    BY DEF ValidLen
  <1>2. CASE torn = {}
    <2>1. v = Len(f) /\ \A j \in 1..Len(f) : f[j] \notin Fragment
      BY <1>1, <1>2
    <2> QED
      BY <1>0, <2>1, SMTT(30)
  <1>3. CASE torn # {}
    <2>1. torn \subseteq Nat /\ torn # {}
      BY <1>3, SMTT(30)
    <2>2. PICK m : m = Min(torn)
      OBVIOUS
    <2>3. m \in torn /\ \A y \in torn : m <= y
      <3> HIDE DEF torn
      <3> QED
        BY <2>1, <2>2, FirstOf
    <2>4. v = m - 1 /\ m \in 1..Len(f) /\ f[m] \in Fragment
      BY <1>1, <1>3, <2>2, <2>3
    <2>5. \A j \in 1..v : f[j] \notin Fragment
      <3> SUFFICES ASSUME NEW j \in 1..v, f[j] \in Fragment PROVE FALSE
        OBVIOUS
      <3>1. j \in 1..Len(f) /\ ~(m <= j)
        BY <1>0, <2>4, SMTT(30)
      <3> QED
        BY <2>3, <3>1
    <2>6. v \in Nat /\ v <= Len(f) /\ v + 1 = m
      BY <1>0, <2>4, SMTT(30)
    <2> QED
      BY <2>4, <2>5, <2>6
  <1> QED
    BY <1>2, <1>3

\* A file that keeps what was readable is readable at least as far.
LEMMA ValidGrows ==
  ASSUME NEW f \in Seq(Chunk), NEW g \in Seq(Chunk),
         \A j \in 1..ValidLen(f) : j \in 1..Len(g) /\ g[j] = f[j]
  PROVE  ValidLen(f) <= ValidLen(g)
  <1>1. PICK v, w : v = ValidLen(f) /\ w = ValidLen(g)
    OBVIOUS
  <1>2. /\ v \in Nat /\ \A j \in 1..v : f[j] \notin Fragment
        /\ w \in Nat
        /\ w < Len(g) => g[w + 1] \in Fragment
    BY <1>1, ValidLenIs
  <1>3. \A j \in 1..v : j \in 1..Len(g) /\ g[j] = f[j]
    BY <1>1
  <1>4. ASSUME w < v PROVE FALSE
    <2>1. w + 1 \in 1..v
      BY <1>2, <1>4, SMTT(30)
    <2>2. w + 1 \in 1..Len(g) /\ g[w + 1] \notin Fragment
      BY <1>2, <1>3, <2>1
    <2>3. w < Len(g)
      BY <1>2, <2>2, SMTT(30)
    <2> QED
      BY <1>2, <2>2, <2>3
  <1> QED
    BY <1>1, <1>2, <1>4, SMTT(30)

\* What replayFile leaves of a file holds all that was readable.
LEMMA ReplayLeaves ==
  ASSUME NEW f \in Seq(Chunk)
  PROVE  /\ AfterReplay(f) \in Seq(Chunk)
         /\ \A j \in 1..ValidLen(f) :
              j \in 1..Len(AfterReplay(f)) /\ AfterReplay(f)[j] = f[j]
  <1>1. PICK v : v = ValidLen(f)
    OBVIOUS
  <1>2. v \in Nat /\ v <= Len(f) /\ Len(f) \in Nat
    BY <1>1, ValidLenIs, SMTT(30)
  <1>3. PICK g : g = SubSeq(f, 1, v)
    OBVIOUS
  <1>4. g \in Seq(Chunk) /\ Len(g) = v /\ \A j \in 1..v : g[j] = f[j]
    <2>1. \A j \in 1..v : f[j] \in Chunk
      BY <1>2, SMTT(30)
    <2> QED
      BY <1>2, <1>3, <2>1, SMTT(30)
  <1>5. AfterReplay(f) = f \/ AfterReplay(f) = g
    BY <1>1, <1>3 DEF AfterReplay
  <1>6. \A j \in 1..v : j \in 1..Len(f) /\ j \in 1..Len(g)
    BY <1>2, <1>4, SMTT(30)
  <1> QED
    BY <1>1, <1>4, <1>5, <1>6

\* Nothing readable is lost between two states of the files.
Kept(fs) ==
  \A i \in 1..Len(files) :
    /\ i <= Len(fs)
    /\ ValidLen(files[i]) <= ValidLen(fs[i])
    /\ \A j \in 1..ValidLen(files[i]) : fs[i][j] = files[i][j]

\* Files that keep their readable parts, each in its place.
LEMMA KeptFiles ==
  ASSUME TypeOK, NEW fs \in Seq(Seq(Chunk)), Len(fs) >= Len(files),
         \A i \in 1..Len(files) : \A j \in 1..ValidLen(files[i]) :
           j \in 1..Len(fs[i]) /\ fs[i][j] = files[i][j]
  PROVE  Kept(fs)
  <1> SUFFICES ASSUME NEW i \in 1..Len(files)
               PROVE  /\ i <= Len(fs)
                      /\ ValidLen(files[i]) <= ValidLen(fs[i])
                      /\ \A j \in 1..ValidLen(files[i]) : fs[i][j] = files[i][j]
    BY DEF Kept
  <1>1. Len(files) \in Nat /\ Len(fs) \in Nat /\ files \in Seq(Seq(Chunk))
    BY SMTT(30) DEF TypeOK
  <1>2. i <= Len(fs) /\ i \in 1..Len(fs)
    BY <1>1, SMTT(30)
  <1>3. files[i] \in Seq(Chunk) /\ fs[i] \in Seq(Chunk)
    BY <1>1, <1>2, SMTT(30)
  <1>4. ValidLen(files[i]) <= ValidLen(fs[i])
    BY <1>3, ValidGrows
  <1> QED
    BY <1>2, <1>4

\* A chunk that is written goes behind everything readable.
LEMMA WritingKeeps ==
  ASSUME TypeOK, NEW c \in Chunk, files' = Write(Rotated, c)
  PROVE  /\ files' \in Seq(Seq(Chunk)) /\ Len(files') >= Len(files) /\ Kept(files')
         /\ Len(files'[Len(files')]) \in Nat
  <1>1. Extends(files', c)
    BY WrittenFiles
  <1>2. /\ files' \in Seq(Seq(Chunk)) /\ Len(files') >= Len(files) /\ Len(files') >= 1
        /\ \A i \in 1..Len(files) : \A j \in 1..Len(files[i]) :
             j \in 1..Len(files'[i]) /\ files'[i][j] = files[i][j]
    BY <1>1, Zenon DEF Extends
  <1>3. \A i \in 1..Len(files) : files[i] \in Seq(Chunk)
    BY SMTT(30) DEF TypeOK
  <1>4. ASSUME NEW i \in 1..Len(files), NEW j \in 1..ValidLen(files[i])
        PROVE  j \in 1..Len(files[i])
    <2>1. PICK v : v = ValidLen(files[i])
      OBVIOUS
    <2>2. v \in Nat /\ v <= Len(files[i]) /\ Len(files[i]) \in Nat
      BY <1>3, <2>1, ValidLenIs, SMTT(30)
    <2> QED
      BY <2>1, <2>2, SMTT(30)
  <1>5. Kept(files')
    BY <1>2, <1>4, KeptFiles
  <1>6. Len(files'[Len(files')]) \in Nat
    <2>1. Len(files') \in 1..Len(files')
      BY <1>2, SMT
    <2>2. files'[Len(files')] \in Seq(Chunk)
      BY <1>2, <2>1, SMT
    <2> QED
      BY <2>2, SMT
  <1> QED
    BY <1>2, <1>5, <1>6

\* So is what stays as it is.
LEMMA SameKept ==
  ASSUME TypeOK, files' = files
  PROVE  Kept(files')
  <1>1. \A i \in 1..Len(files) : ValidLen(files[i]) \in Nat /\ i <= Len(files)
    BY ValidLenIs, SMT DEF TypeOK
  <1> QED
    BY <1>1, SMT DEF Kept

\* All is kept but the end of the file in which a read has failed.
Spared(fs) ==
  \A i \in 1..Len(files) :
    \/ /\ i <= Len(fs)
       /\ ValidLen(files[i]) <= ValidLen(fs[i])
       /\ \A j \in 1..ValidLen(files[i]) : fs[i][j] = files[i][j]
    \/ ReadFails /\ i = next /\ IsPrefix(fs[i], files[i])

\* An error in reading a record costs the file from there on, and nothing else.
LEMMA ReadFailsSpares ==
  ASSUME TypeOK, ReadFails
  PROVE  TypeOK' /\ Spared(files')
  <1>0. /\ files \in Seq(Seq(Chunk)) /\ Len(files) \in Nat /\ Len(files) >= 1
        /\ next \in 1..Len(files) /\ files[next] \in Seq(Chunk)
        /\ acked \subseteq [file : Nat, pos : Nat, rec : Record]
    BY SMT DEF TypeOK
  <1>1. /\ acked' = acked /\ pc = "replaying"
        /\ \/ next < Len(files) /\ next' = next + 1 /\ pc' = pc
           \/ next' = next /\ pc' = "running"
    BY DEF ReadFails, NextFile
  <1>2. next' \in 1..Len(files) /\ pc' \in {"running", "down", "replaying"}
    BY <1>0, <1>1, SMT
  <1>3. PICK k \in 0 .. ValidLen(files[next]) - 1 :
          files' = [files EXCEPT ![next] = SubSeq(files[next], 1, k)] \/ files' = files
    BY DEF ReadFails
  <1>4. k \in Nat /\ k <= Len(files[next])
    <2>1. PICK v : v = ValidLen(files[next])
      OBVIOUS
    <2>2. v \in Nat /\ v <= Len(files[next]) /\ Len(files[next]) \in Nat
      BY <1>0, <2>1, ValidLenIs, SMT
    <2> QED
      BY <2>1, <2>2, SMT
  <1>5. CASE files' = files
    <2>1. TypeOK'
      BY <1>0, <1>1, <1>2, <1>5 DEF TypeOK
    <2> QED
      BY <1>5, <2>1, SameKept DEF Kept, Spared
  <1>6. CASE files' = [files EXCEPT ![next] = SubSeq(files[next], 1, k)]
    <2>1. PICK g : g = SubSeq(files[next], 1, k)
      OBVIOUS
    <2>2. g \in Seq(Chunk) /\ Len(g) = k
      <3>1. \A j \in 1..k : files[next][j] \in Chunk
        BY <1>0, <1>4, SMT
      <3> QED
        BY <1>0, <1>4, <2>1, <3>1, SMT
    <2>3. IsPrefix(g, files[next])
      BY <1>0, <1>4, <2>1, <2>2, SMT DEF IsPrefix
    <2>4. /\ files' \in Seq(Seq(Chunk)) /\ Len(files') = Len(files)
          /\ \A i \in 1..Len(files) : files'[i] = IF i = next THEN g ELSE files[i]
      BY <1>0, <1>6, <2>1, <2>2, SMT
    <2>5. TypeOK'
      BY <1>0, <1>1, <1>2, <2>4 DEF TypeOK
    <2>6. \A i \in 1..Len(files) : ValidLen(files[i]) \in Nat /\ i <= Len(files)
      BY <1>0, ValidLenIs, SMT
    <2>7. \A i \in 1..Len(files) : ValidLen(files[i]) <= ValidLen(files[i])
      BY <2>6, SMT
    <2>8. Spared(files')
      BY <2>3, <2>4, <2>6, <2>7 DEF Spared
    <2> QED
      BY <2>5, <2>8
  <1> QED
    BY <1>3, <1>5, <1>6

\* Every step, whatever fails in it, keeps the types and what is readable.
LEMMA NextKept ==
  ASSUME TypeOK, [Next]_vars
  PROVE  TypeOK' /\ Spared(files')
  <1>0. /\ files \in Seq(Seq(Chunk)) /\ Len(files) \in Nat /\ Len(files) >= 1
        /\ next \in 1..Len(files) /\ pc \in {"running", "down", "replaying"}
        /\ acked \subseteq [file : Nat, pos : Nat, rec : Record]
        /\ 1 \in 1..Len(files)
    BY SMT DEF TypeOK
  <1>k. Kept(files') => Spared(files')
    BY DEF Kept, Spared
  <1>1. ASSUME NEW c \in Chunk, files' = Write(Rotated, c), next' = next,
               pc' \in {"running", "down", "replaying"},
               \/ acked' = acked
               \/ \E r \in Record : acked' = acked \cup
                    {[file |-> Len(files'), pos |-> Len(files'[Len(files')]), rec |-> r]}
        PROVE  TypeOK' /\ Spared(files')
    <2>1. /\ files' \in Seq(Seq(Chunk)) /\ Len(files') >= Len(files) /\ Kept(files')
          /\ Len(files'[Len(files')]) \in Nat /\ Len(files') \in Nat
      <3>1. /\ files' \in Seq(Seq(Chunk)) /\ Len(files') >= Len(files) /\ Kept(files')
            /\ Len(files'[Len(files')]) \in Nat
        BY <1>1, WritingKeeps
      <3> QED
        BY <3>1, SMT
    <2>2. acked' \subseteq [file : Nat, pos : Nat, rec : Record]
      BY <1>0, <1>1, <2>1, SMT
    <2>3. next' \in 1..Len(files') /\ Len(files') >= 1
      BY <1>0, <1>1, <2>1, SMT
    <2> QED
      BY <1>1, <1>k, <2>1, <2>2, <2>3 DEF TypeOK
  <1>2. ASSUME files' = files, acked' = acked, next' \in 1..Len(files),
               pc' \in {"running", "down", "replaying"}
        PROVE  TypeOK' /\ Spared(files')
    BY <1>0, <1>2, <1>k, SameKept DEF TypeOK
  <1>3. ASSUME NEW r \in Record, AppendRecord(r)
        PROVE  TypeOK' /\ Spared(files')
    <2>1. r \in Chunk
      BY DEF Chunk
    <2> QED
      BY <1>0, <1>1, <1>3, <2>1 DEF AppendRecord, Called
  <1>4. ASSUME NEW r \in Record, AppendFails(r)
        PROVE  TypeOK' /\ Spared(files')
    <2>1. files' = files \/ \E c \in Chunk : files' = Write(Rotated, c)
      BY <1>4 DEF AppendFails, Chunk
    <2>2. pc' = pc /\ next' = next /\ acked' = acked
      BY <1>4 DEF AppendFails, Called
    <2> QED
      BY <1>0, <1>1, <1>2, <2>1, <2>2
  <1>5. ASSUME NEW r \in Record, CrashInAppend(r)
        PROVE  TypeOK' /\ Spared(files')
    <2>1. \A kind \in {"header", "body"} : Torn(kind) \in Chunk
      BY DEF Torn, Fragment, Chunk
    <2>2. \E c \in Chunk : files' = Write(Rotated, c)
      BY <1>5, <2>1 DEF CrashInAppend, Chunk
    <2>3. pc' = "down" /\ next' = next /\ acked' = acked
      BY <1>5 DEF CrashInAppend, Crashed
    <2> QED
      BY <1>1, <2>2, <2>3
  <1>6. CASE Crash
    BY <1>0, <1>2, <1>6 DEF Crash, Crashed
  <1>7. CASE NewWAL
    BY <1>0, <1>2, <1>7 DEF NewWAL
  <1>8. CASE ReplayFile
    <2>1. /\ files' = [files EXCEPT ![next] = AfterReplay(files[next])] \/ files' = files
          /\ acked' = acked /\ pc' \in {"running", "down", "replaying"}
          /\ next' \in 1..Len(files)
      <3>1. /\ files' = [files EXCEPT ![next] = AfterReplay(files[next])] \/ files' = files
            /\ acked' = acked /\ pc = "replaying"
            /\ \/ next < Len(files) /\ next' = next + 1 /\ pc' = pc
               \/ next' = next /\ pc' = "running"
        BY <1>8 DEF ReplayFile, NextFile
      <3> QED
        BY <1>0, <3>1, SMT
    <2>2. CASE files' = files
      BY <1>2, <2>1, <2>2
    <2>3. CASE files' = [files EXCEPT ![next] = AfterReplay(files[next])]
      <3>1. PICK g : g = AfterReplay(files[next])
        OBVIOUS
      <3>2. files[next] \in Seq(Chunk)
        BY <1>0, SMT
      <3>3. /\ g \in Seq(Chunk)
            /\ \A j \in 1..ValidLen(files[next]) : j \in 1..Len(g) /\ g[j] = files[next][j]
        BY <3>1, <3>2, ReplayLeaves
      <3>4. /\ files' \in Seq(Seq(Chunk)) /\ Len(files') = Len(files)
            /\ \A i \in 1..Len(files) : files'[i] = IF i = next THEN g ELSE files[i]
        BY <1>0, <2>3, <3>1, <3>3, SMT
      <3>5. ASSUME NEW i \in 1..Len(files), NEW j \in 1..ValidLen(files[i])
            PROVE  j \in 1..Len(files'[i]) /\ files'[i][j] = files[i][j]
        <4>1. CASE i = next
          BY <3>3, <3>4, <4>1
        <4>2. CASE i # next
          <5>1. PICK v : v = ValidLen(files[i])
            OBVIOUS
          <5>2. v \in Nat /\ v <= Len(files[i]) /\ Len(files[i]) \in Nat
            <6>1. files[i] \in Seq(Chunk)
              BY <1>0, SMT
            <6> QED
              BY <5>1, <6>1, ValidLenIs, SMT
          <5>3. j \in 1..Len(files[i])
            BY <5>1, <5>2, SMT
          <5> QED
            BY <3>4, <4>2, <5>3
        <4> QED
          BY <4>1, <4>2
      <3>6. Kept(files')
        BY <1>0, <3>4, <3>5, KeptFiles, SMT
      <3> QED
        BY <1>0, <1>k, <2>1, <3>4, <3>6 DEF TypeOK
    <2> QED
      BY <2>1, <2>2, <2>3
  <1>9. CASE ReplayGivesUp
    BY <1>0, <1>2, <1>9 DEF ReplayGivesUp
  <1>10. CASE UNCHANGED vars
    BY <1>0, <1>2, <1>10 DEF vars
  <1>11. CASE ReadFails
    BY <1>11, ReadFailsSpares
  <1> QED
    BY <1>3, <1>4, <1>5, <1>6, <1>7, <1>8, <1>9, <1>10, <1>11 DEF Next

\* Whatever fails, nothing that Append does behind a fragment and nothing that
\* replayFile takes for torn makes a record unreadable that was readable before,
\* except that an error in reading a record costs the rest of its file.
THEOREM ReadableIsKept == Spec => ReadableStays
  <1>1. Init => TypeOK
    <2>1. <<<<>>>> \in Seq(Seq(Chunk)) /\ Len(<<<<>>>>) = 1
      BY SMT
    <2> QED
      BY <2>1, SMT DEF Init, TypeOK
  <1>2. TypeOK /\ [Next]_vars => TypeOK'
    BY NextKept
  <1>3. TypeOK /\ [Next]_vars =>
          [\A i \in 1..Len(files) :
             \/ /\ i <= Len(files')
                /\ ValidLen(files[i]) <= ValidLen(files'[i])
                /\ \A j \in 1..ValidLen(files[i]) : files'[i][j] = files[i][j]
             \/ ReadFails /\ i = next /\ IsPrefix(files'[i], files[i])]_vars
    BY NextKept DEF Spared
  <1> QED
    BY <1>1, <1>2, <1>3, PTL DEF Spec, ReadableStays
=============================================================================
