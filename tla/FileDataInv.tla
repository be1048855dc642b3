----------------------------- MODULE FileDataInv -----------------------------
(***************************************************************************)
(* The invariants from which FileDataProofs derives the properties of       *)
(* FileData.                                                                *)
(***************************************************************************)
EXTENDS FileData

\* A byte of a file: who wrote it where, or a zero of a gap.
Byte == (Nat \X Nat \X Values) \cup {Zero}
Fds == {"aggr", "large"} \X Nat
FileRec == [aggr : [file : Nat, no : 0 .. BlockLimit - 1], st_size : Nat, last : BOOLEAN]

\* What each variable holds; the aggregation file of every file exists.
Typed ==
  /\ cur_aggr_file \in Nat
  /\ cur_aggr_index \in 0 .. BlockLimit
  /\ creating \subseteq Threads
  /\ file \in Seq(FileRec)
  /\ flat \in Seq(Seq(Byte)) /\ Len(flat) = Len(file)
  /\ DOMAIN content \subseteq Fds
  /\ \A fd \in DOMAIN content : content[fd] \in Seq(Byte)
  /\ \A i \in Files : Aggr(file[i].aggr.file) \in DOMAIN content
  /\ creating # {} \/ cur_aggr_index < BlockLimit => Aggr(cur_aggr_file) \in DOMAIN content

\* The number Create gave the block of a file, before it was cut to 16 bits.
Index(f) == IF f.last THEN BlockLimit ELSE f.aggr.no

\* Block n of aggregation file a comes before block m of b.
Before(a, n, b, m) == a < b \/ (a = b /\ n < m)

\* Blocks are given out in order: those of the files there are come before the one
\* the counters are at, unless that is the block of the last file.
InTurn ==
  /\ \A i, j \in Files : i < j =>
       Before(file[i].aggr.file, Index(file[i]), file[j].aggr.file, Index(file[j]))
  /\ \A i \in Files :
       \/ Before(file[i].aggr.file, Index(file[i]), cur_aggr_file, cur_aggr_index)
       \/ creating = {} /\ file[i].aggr.file = cur_aggr_file /\ Index(file[i]) = cur_aggr_index

\* Where byte k of file i belongs: in its block, or in its large file.
Loc(i, k) ==
  IF k < BlockSize THEN <<Aggr(file[i].aggr.file), file[i].aggr.no * BlockSize + k>>
  ELSE <<Large(i), k - BlockSize>>

\* Byte pos of a file, and of a local file in local, counted from 0; what was never
\* written is zero.
ByteOf(bytes, pos) == IF pos < Len(bytes) THEN bytes[pos + 1] ELSE Zero
InFile(local, fd, pos) == IF fd \in DOMAIN local THEN ByteOf(local[fd], pos) ELSE Zero

\* A file alone in its block finds its bytes where they belong.
InPlace ==
  \A i \in Alone : \A k \in 0 .. MaxSize :
    InFile(content, Loc(i, k)[1], Loc(i, k)[2]) = ByteOf(flat[i], k)

\* Bytes are only where they belong to a file, so the block of the next file is empty.
NoStray ==
  \A fd \in DOMAIN content : \A pos \in 0 .. Len(content[fd]) :
    InFile(content, fd, pos) # Zero => \E i \in Files : \E k \in 0 .. MaxSize : Loc(i, k) = <<fd, pos>>

\* The inductive invariants; BlockInv when files are created by one thread.
DataInv == Typed /\ SizeIsEnd
PlaceInv == DataInv /\ InPlace /\ NoStray
BlockInv == Typed /\ InTurn
=============================================================================
