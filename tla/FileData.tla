------------------------------ MODULE FileData ------------------------------
(***************************************************************************)
(* The contents of files (src/file_data.{h,cc}) under the FUSE handlers     *)
(* that create, write, copy and read them (src/file.cc, src/read_write.cc). *)
(*                                                                          *)
(* The first BlockSize bytes of a file are a block of an aggregation file,  *)
(* the rest is a large file of its own, which exists once something was     *)
(* written to it.  Files are numbered in the order of their creation, each  *)
(* has one FileHandle, and the kernel lets one writer at a time into a      *)
(* file.  Nothing calls FileData::Delete, so aggr_free_ stays empty.        *)
(***************************************************************************)
EXTENDS Naturals, Sequences, SequencesExt

CONSTANTS
  Threads,       \* FUSE threads that create files: one with option -s
  BlockSize,     \* aggr_block_size_
  BlockLimit,    \* 0x10000
  Values,        \* what is written
  MaxFiles,      \* bound: files created
  MaxSize,       \* bound: bytes of a file
  MaxGap,        \* bound: a write starts at most this far behind the end
  MaxCalls       \* bound: writes and copies

ASSUME FileDataAssumption ==
  /\ BlockSize \in Nat \ {0}
  /\ BlockLimit \in Nat \ {0}
  /\ MaxFiles \in Nat /\ MaxSize \in Nat /\ MaxGap \in Nat /\ MaxCalls \in Nat

VARIABLES
  cur_aggr_file, cur_aggr_index,
  creating,      \* threads that are in the middle of FileData::Create
  file,          \* File of every file: [aggr, st_size], and whether its block was
                 \* the last one of its aggregation file
  content,       \* content[fd]: bytes of every local file, up to its end
  flat,          \* flat[i]: what writers of file i were told it holds
  calls          \* writes and copies so far

vars == <<cur_aggr_file, cur_aggr_index, creating, file, content, flat, calls>>

Files == DOMAIN file
Aggr(n) == <<"aggr", n>>
Large(i) == <<"large", i>>
Mem == <<"mem", 0>>
Zero == <<"zero">>

Init ==
  /\ cur_aggr_file = 0
  /\ cur_aggr_index = BlockLimit
  /\ creating = {}
  /\ file = <<>>
  /\ content = << >>
  /\ flat = <<>>
  /\ calls = 0

-----------------------------------------------------------------------------
(* FileData::Create, which has no lock: the counters are advanced and then read *)

\* Mutant of Advance: a full aggregation file is started over.
AdvanceSameFile(t) ==
  /\ t \notin creating
  /\ Len(file) + Cardinality(creating) < MaxFiles
  /\ creating' = creating \cup {t}
  /\ cur_aggr_index' = IF cur_aggr_index = BlockLimit THEN 0 ELSE cur_aggr_index + 1
  /\ cur_aggr_file' = 1
  /\ content' = [fd \in DOMAIN content \cup {Aggr(1)} |->
                   IF fd \in DOMAIN content THEN content[fd] ELSE <<>>]
  /\ UNCHANGED <<file, flat, calls>>

Advance(t) ==
  /\ t \notin creating
  /\ Len(file) + Cardinality(creating) < MaxFiles
  /\ creating' = creating \cup {t}
  /\ IF cur_aggr_index = BlockLimit
       THEN /\ cur_aggr_file' = cur_aggr_file + 1
            /\ cur_aggr_index' = 0
            /\ content' = [fd \in DOMAIN content \cup {Aggr(cur_aggr_file + 1)} |->
                             IF fd \in DOMAIN content THEN content[fd] ELSE <<>>]
       ELSE /\ cur_aggr_index' = cur_aggr_index + 1
            /\ UNCHANGED <<cur_aggr_file, content>>
  /\ UNCHANGED <<file, flat, calls>>

\* aggr_t::no has 16 bits.
Take(t) ==
  /\ t \in creating
  /\ creating' = creating \ {t}
  /\ file' = Append(file, [aggr |-> [file |-> cur_aggr_file, no |-> cur_aggr_index % BlockLimit],
                           st_size |-> 0,
                           last |-> cur_aggr_index = BlockLimit])
  /\ flat' = Append(flat, <<>>)
  /\ UNCHANGED <<cur_aggr_file, cur_aggr_index, content, calls>>

-----------------------------------------------------------------------------
(* fuse_bufvec: the parts of local files that hold bytes off .. off + size - 1 *)

Piece(fd, pos, size) == [fd |-> fd, pos |-> pos, size |-> size]

\* Mutant of Split: the part in the large file starts at its offset in the file.
SplitNoShift(i, size, off) ==
  LET block(n) == Piece(Aggr(file[i].aggr.file), file[i].aggr.no * BlockSize + off, n)
  IN  CASE size + off <= BlockSize -> <<block(size)>>
        [] off >= BlockSize -> <<Piece(Large(i), off, size)>>
        [] OTHER -> <<block(BlockSize - off), Piece(Large(i), 0, size - (BlockSize - off))>>

Split(i, size, off) ==
  LET block(n) == Piece(Aggr(file[i].aggr.file), file[i].aggr.no * BlockSize + off, n)
  IN  CASE size + off <= BlockSize -> <<block(size)>>
        [] off >= BlockSize -> <<Piece(Large(i), off - BlockSize, size)>>
        [] OTHER -> <<block(BlockSize - off), Piece(Large(i), 0, size - (BlockSize - off))>>

\* FileData::ReadBuf leaves out a large file that does not exist.
ReadPieces(i, size, off) ==
  IF size + off <= BlockSize \/ Large(i) \in DOMAIN content THEN Split(i, size, off)
  ELSE IF off >= BlockSize THEN <<>>
  ELSE <<Split(i, size, off)[1]>>

\* FileData::WriteBuf creates it.
Opened(pieces) ==
  [fd \in DOMAIN content \cup {p.fd : p \in Range(pieces)} |->
     IF fd \in DOMAIN content THEN content[fd] ELSE <<>>]

Pread(bytes, pos, n) == SubSeq(bytes, pos + 1, IF pos + n < Len(bytes) THEN pos + n ELSE Len(bytes))

\* Bytes between the old end and pos become zero.
Pwrite(bytes, pos, new) ==
  [k \in 1 .. Max({Len(bytes), IF new = <<>> THEN 0 ELSE pos + Len(new)}) |->
     IF k > pos /\ k <= pos + Len(new) THEN new[k - pos]
     ELSE IF k <= Len(bytes) THEN bytes[k]
     ELSE Zero]

\* The piece that holds byte k of a bufvec, and where.
At(pieces, k) ==
  IF k < pieces[1].size THEN <<pieces[1].fd, pieces[1].pos + k>>
  ELSE <<pieces[2].fd, pieces[2].pos + k - pieces[1].size>>
Total(pieces) == IF pieces = <<>> THEN 0 ELSE pieces[1].size + (IF Len(pieces) = 1 THEN 0 ELSE pieces[2].size)

\* Reading a bufvec: a piece that ends early ends the reading.
ReadAll(pieces) ==
  LET got == [n \in DOMAIN pieces |-> Pread(content[pieces[n].fd], pieces[n].pos, pieces[n].size)]
  IN  IF pieces = <<>> THEN <<>>
      ELSE IF Len(pieces) = 1 \/ Len(got[1]) < pieces[1].size THEN got[1]
      ELSE got[1] \o got[2]

\* One chunk of fuse_buf_copy, which ends where a piece of either side does; there
\* is none behind a chunk that was read short.
CopyChunk(src, dst, s) ==
  LET n == Min({Total(src), Total(dst)})
      end == Min({k \in {src[1].size, dst[1].size, n} : k > s.done})
      rd == At(src, s.done)
      wr == At(dst, s.done)
      got == Pread(s.content[rd[1]], rd[2], end - s.done)
  IN  IF s.short \/ s.done = n THEN s
      ELSE [content |-> [s.content EXCEPT ![wr[1]] = Pwrite(@, wr[2], got)],
            done |-> s.done + Len(got),
            short |-> Len(got) < end - s.done]

\* fuse_buf_copy: two pieces on either side make three chunks at most.
FuseBufCopy(from, src, dst) ==
  LET copy(s) == CopyChunk(src, dst, s)
  IN  copy(copy(copy([content |-> from, done |-> 0, short |-> FALSE])))

-----------------------------------------------------------------------------
(* The handlers *)

\* Mutant of Grow: the size is what the last call wrote.
GrowAlways(i, end) == file' = [file EXCEPT ![i].st_size = end]

\* "Update File Size"
Grow(i, end) ==
  file' = IF end > file[i].st_size THEN [file EXCEPT ![i].st_size = end] ELSE file

MayCall == calls < MaxCalls /\ calls' = calls + 1

\* What is written tells its file, its place and its value.
Bytes(i, off, size, v) == [k \in 1 .. size |-> <<i, off + k - 1, v>>]

\* KTableFS::WriteBuf
WriteBuf(i, size, off, v) ==
  /\ MayCall
  /\ off <= file[i].st_size + MaxGap
  /\ LET dst == Split(i, size, off)
         new == Bytes(i, off, size, v)
         from == [fd \in DOMAIN Opened(dst) \cup {Mem} |-> IF fd = Mem THEN new ELSE Opened(dst)[fd]]
         res == FuseBufCopy(from, <<Piece(Mem, 0, size)>>, dst)
     IN  /\ content' = [fd \in DOMAIN Opened(dst) |-> res.content[fd]]
         /\ Grow(i, off + res.done)
         /\ flat' = [flat EXCEPT ![i] = Pwrite(@, off, SubSeq(new, 1, res.done))]
  /\ UNCHANGED <<cur_aggr_file, cur_aggr_index, creating>>

\* A copy that finds nothing behind a gap still moves the end of the file.
Extended(bytes, n) == IF Len(bytes) < n THEN Pwrite(bytes, n - 1, <<Zero>>) ELSE bytes

\* KTableFS::CopyFileRange.  The kernel asks for bytes the file in has, and not
\* for overlapping ranges of one file.
CopyFileRange(in, off_in, out, off_out, size) ==
  /\ MayCall
  /\ off_in + size <= file[in].st_size
  /\ off_out <= file[out].st_size + MaxGap
  /\ in = out => off_in + size <= off_out \/ off_out + size <= off_in
  /\ LET dst == Split(out, size, off_out)
         res == FuseBufCopy(Opened(dst), ReadPieces(in, size, off_in), dst)
     IN  /\ content' = res.content
         /\ Grow(out, off_out + res.done)
         /\ flat' = [flat EXCEPT ![out] =
                       Extended(Pwrite(@, off_out, SubSeq(flat[in], off_in + 1, off_in + res.done)), off_out)]
  /\ UNCHANGED <<cur_aggr_file, cur_aggr_index, creating>>

\* Files that share their block with no other file.
Alone == {i \in Files : \A j \in Files \ {i} : file[j].aggr # file[i].aggr}

\* Parts of a file.
Ranges == {r \in (0 .. MaxSize) \X (1 .. MaxSize) : r[1] + r[2] <= MaxSize}

\* Copies are made of files that hold what was written to them.
Next ==
  \/ \E t \in Threads : Advance(t) \/ Take(t)
  \/ \E i \in Files, r \in Ranges, v \in Values : WriteBuf(i, r[2], r[1], v)
  \/ \E in \in Alone, out \in Files, r \in Ranges, off_out \in 0 .. MaxSize :
       off_out + r[2] <= MaxSize /\ CopyFileRange(in, r[1], out, off_out, r[2])

Spec == Init /\ [][Next]_vars
-----------------------------------------------------------------------------
(* Properties *)

\* When one thread runs the handlers (option -s; main.cc:99 starts several without it),
\* two files have the same block only if one of them got the last block of its
\* aggregation file, whose number 0x10000 does not fit aggr_t::no.
OnlyLastShared ==
  \A i, j \in Files : i # j /\ file[i].aggr = file[j].aggr => file[i].last \/ file[j].last

\* ReadBuf(i, size, off) of a file that is alone in its block gives what the file
\* is supposed to hold, and all of it when there are no gaps in the file.
ReadsBack ==
  \A i \in Alone : \A r \in Ranges :
    r[1] + r[2] <= file[i].st_size =>
      LET want == SubSeq(flat[i], r[1] + 1, r[1] + r[2])
          got == ReadAll(ReadPieces(i, r[2], r[1]))
      IN  /\ IsPrefix(got, want)
          /\ Zero \notin Range(flat[i]) => got = want

\* The size of a file is where the last byte of it ends.
SizeIsEnd == \A i \in Files : file[i].st_size = Len(flat[i])
=============================================================================
