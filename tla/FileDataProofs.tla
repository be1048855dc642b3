--------------------------- MODULE FileDataProofs ----------------------------
(***************************************************************************)
(* Proofs about FileData: blocks given out by one thread are shared only as *)
(* OnlyLastShared says, and sizes are where files end.                      *)
(***************************************************************************)
EXTENDS FileDataInv, SequenceTheorems, MinProofs

-----------------------------------------------------------------------------
(* Reading and writing bytes *)

\* A part of a sequence.
LEMMA SubSeqType ==
  ASSUME NEW T, NEW s \in Seq(T), NEW m \in Nat, m >= 1, NEW n \in Nat, n <= Len(s)
  PROVE  /\ SubSeq(s, m, n) \in Seq(T)
         /\ Len(SubSeq(s, m, n)) = IF m <= n THEN n - m + 1 ELSE 0
         /\ \A k \in 1 .. n - m + 1 : SubSeq(s, m, n)[k] = s[m + k - 1]
  OBVIOUS

\* pread returns at most what it was asked for, and all of it where the file has it.
LEMMA PreadType ==
  ASSUME NEW T, NEW bytes \in Seq(T), NEW pos \in Nat, NEW n \in Nat
  PROVE  /\ Pread(bytes, pos, n) \in Seq(T)
         /\ Len(Pread(bytes, pos, n)) <= n
         /\ pos + n <= Len(bytes) => Len(Pread(bytes, pos, n)) = n
  <1> DEFINE last == IF pos + n < Len(bytes) THEN pos + n ELSE Len(bytes)
  <1>1. Len(bytes) \in Nat /\ last \in Nat /\ last <= Len(bytes) /\ last <= pos + n
        /\ (pos + n <= Len(bytes) => last = pos + n)
    OBVIOUS
  <1>2. Pread(bytes, pos, n) = SubSeq(bytes, pos + 1, last)
    BY DEF Pread
  <1> HIDE DEF last
  <1>3. /\ SubSeq(bytes, pos + 1, last) \in Seq(T)
        /\ Len(SubSeq(bytes, pos + 1, last)) = IF pos + 1 <= last THEN last - (pos + 1) + 1 ELSE 0
    BY <1>1, SubSeqType
  <1> QED
    BY <1>1, <1>2, <1>3

\* pwrite moves the end of a file behind what it wrote.
LEMMA PwriteType ==
  ASSUME NEW bytes \in Seq(Byte), NEW pos \in Nat, NEW new \in Seq(Byte)
  PROVE  /\ Pwrite(bytes, pos, new) \in Seq(Byte)
         /\ Len(Pwrite(bytes, pos, new)) =
              IF new # <<>> /\ pos + Len(new) > Len(bytes) THEN pos + Len(new) ELSE Len(bytes)
  <1> DEFINE end == IF new = <<>> THEN 0 ELSE pos + Len(new)
  <1> DEFINE len == Max({Len(bytes), end})
  <1>1. Len(bytes) \in Nat /\ Len(new) \in Nat /\ end \in Nat
    OBVIOUS
  <1>2. len = IF Len(bytes) <= end THEN end ELSE Len(bytes)
    BY <1>1, MaxOfTwo
  <1>3. len \in Nat
    BY <1>1, <1>2
  <1>4. Pwrite(bytes, pos, new) =
          [k \in 1 .. len |-> IF k > pos /\ k <= pos + Len(new) THEN new[k - pos]
                              ELSE IF k <= Len(bytes) THEN bytes[k]
                              ELSE Zero]
    BY Zenon DEF Pwrite
  <1> HIDE DEF len
  <1>5. \A k \in 1 .. len : (IF k > pos /\ k <= pos + Len(new) THEN new[k - pos]
                             ELSE IF k <= Len(bytes) THEN bytes[k]
                             ELSE Zero) \in Byte
    <2> TAKE k \in 1 .. len
    <2>1. CASE k > pos /\ k <= pos + Len(new)
      <3>1. k - pos \in 1 .. Len(new)
        BY <1>1, <1>3, <2>1
      <3> QED
        BY <2>1, <3>1
    <2>2. CASE ~ (k > pos /\ k <= pos + Len(new)) /\ k <= Len(bytes)
      <3>1. k \in 1 .. Len(bytes)
        BY <1>1, <1>3, <2>2
      <3> QED
        BY <2>2, <3>1
    <2>3. CASE ~ (k > pos /\ k <= pos + Len(new)) /\ ~ (k <= Len(bytes))
      BY <2>3 DEF Byte
    <2> QED
      BY <2>1, <2>2, <2>3
  <1>6. Pwrite(bytes, pos, new) \in Seq(Byte) /\ Len(Pwrite(bytes, pos, new)) = len
    <2> HIDE DEF Byte, Zero, end
    <2> QED
      BY <1>3, <1>4, <1>5
  <1>7. new = <<>> <=> Len(new) = 0
    OBVIOUS
  <1> QED
    BY <1>1, <1>2, <1>6, <1>7

-----------------------------------------------------------------------------
(* Copying *)

\* The pieces of a bufvec, of local files in D.
PieceOf(D) == [fd : D, pos : Nat, size : Nat \ {0}]
IsBufvec(ps, D) == ps \in Seq(PieceOf(D)) /\ Len(ps) \in {0, 1, 2}

\* The bytes of a bufvec.
LEMMA TotalType ==
  ASSUME NEW D, NEW ps, IsBufvec(ps, D)
  PROVE  /\ Total(ps) \in Nat
         /\ Len(ps) = 0 => Total(ps) = 0
         /\ Len(ps) # 0 => ps[1] \in PieceOf(D) /\ ps[1].size \in Nat \ {0} /\ ps[1].size <= Total(ps)
         /\ Len(ps) = 1 => Total(ps) = ps[1].size
         /\ Len(ps) = 2 => ps[2] \in PieceOf(D) /\ ps[2].size \in Nat \ {0} /\ Total(ps) = ps[1].size + ps[2].size
  <1> DEFINE T == PieceOf(D)
  <1>1. ps \in Seq(T) /\ Len(ps) \in {0, 1, 2}
    BY DEF IsBufvec
  <1> HIDE DEF T
  <1>2. (Len(ps) # 0 => ps[1] \in T) /\ (Len(ps) = 2 => ps[2] \in T) /\ (ps = <<>> <=> Len(ps) = 0)
    BY <1>1
  <1>3. (Len(ps) # 0 => ps[1].size \in Nat \ {0}) /\ (Len(ps) = 2 => ps[2].size \in Nat \ {0})
    BY <1>2 DEF T, PieceOf
  <1>4. Total(ps) = IF Len(ps) = 0 THEN 0 ELSE ps[1].size + (IF Len(ps) = 1 THEN 0 ELSE ps[2].size)
    BY <1>2 DEF Total
  <1>5. Len(ps) = 0 \/ Len(ps) = 1 \/ Len(ps) = 2
    BY <1>1
  <1> QED
    BY <1>2, <1>3, <1>4, <1>5 DEF T

\* There is as much to copy as the smaller side holds.
LEMMA LeastTotal ==
  ASSUME NEW D, NEW src, NEW dst, IsBufvec(src, D), IsBufvec(dst, D), NEW n, n = Min({Total(src), Total(dst)})
  PROVE  Total(src) \in Nat /\ Total(dst) \in Nat /\ n \in Nat /\ n <= Total(src) /\ n <= Total(dst)
  <1>1. Total(src) \in Nat /\ Total(dst) \in Nat
    BY TotalType
  <1>2. n = IF Total(src) <= Total(dst) THEN Total(src) ELSE Total(dst)
    BY <1>1, MinOfTwo
  <1> QED
    BY <1>1, <1>2

\* Every byte of a bufvec is in a file of D.
LEMMA AtType ==
  ASSUME NEW D, NEW ps, IsBufvec(ps, D), NEW k \in Nat, k < Total(ps)
  PROVE  At(ps, k)[1] \in D /\ At(ps, k)[2] \in Nat
  <1>1. Len(ps) = 1 \/ Len(ps) = 2
    BY TotalType DEF IsBufvec
  <1>2. CASE k < ps[1].size
    <2>1. ps[1].fd \in D /\ ps[1].pos \in Nat
      BY <1>1, TotalType DEF PieceOf
    <2>2. At(ps, k) = <<ps[1].fd, ps[1].pos + k>>
      BY <1>2 DEF At
    <2> QED
      BY <2>1, <2>2
  <1>3. CASE ~ (k < ps[1].size)
    <2>1. Len(ps) = 2
      BY <1>1, <1>3, TotalType
    <2>2. ps[2].fd \in D /\ ps[2].pos \in Nat
      BY <2>1, TotalType DEF PieceOf
    <2>3. At(ps, k) = <<ps[2].fd, ps[2].pos + k - ps[1].size>>
      BY <1>3 DEF At
    <2>4. ps[1].size \in Nat /\ ps[1].size <= k
      BY <1>1, <1>3, TotalType
    <2>5. ps[2].pos + k - ps[1].size \in Nat
      BY <2>2, <2>4
    <2> QED
      BY <2>2, <2>3, <2>5
  <1> QED
    BY <1>2, <1>3

\* How far a copy is: it has copied done of n bytes between files of D.
Copying(s, D, n) ==
  /\ DOMAIN s.content = D
  /\ \A fd \in D : s.content[fd] \in Seq(Byte)
  /\ s.done \in 0 .. n

\* What a chunk copies: up to an end of a piece behind what is done, unless the
\* copying is over.
Chunk(src, dst, s, r, n, end) ==
  /\ end \in Nat /\ end > s.done /\ end <= n
  /\ s.done < src[1].size => end <= src[1].size
  /\ s.done < dst[1].size => end <= dst[1].size
  /\ r.done = s.done + Len(Pread(s.content[At(src, s.done)[1]], At(src, s.done)[2], end - s.done))
  /\ r.content = [s.content EXCEPT ![At(dst, s.done)[1]] =
                    Pwrite(@, At(dst, s.done)[2],
                           Pread(s.content[At(src, s.done)[1]], At(src, s.done)[2], end - s.done))]

\* A chunk copies at most what is left.
LEMMA CopyChunkCases ==
  ASSUME NEW D, NEW src, NEW dst, IsBufvec(src, D), IsBufvec(dst, D),
         NEW n, n = Min({Total(src), Total(dst)}),
         NEW s, Copying(s, D, n), NEW r, r = CopyChunk(src, dst, s)
  PROVE  /\ Copying(r, D, n) /\ s.done <= r.done
         /\ ~ s.short /\ s.done # n => \E end : Chunk(src, dst, s, r, n, end)
  <1>1. CASE s.short \/ s.done = n
    <2>1. r = s
      BY <1>1 DEF CopyChunk
    <2>2. s.done <= r.done
      BY <2>1, LeastTotal DEF Copying
    <2> QED
      BY <1>1, <2>1, <2>2
  <1>2. CASE ~ s.short /\ s.done # n
    <2> DEFINE S == {k \in {src[1].size, dst[1].size, n} : k > s.done}
    <2> DEFINE end == Min(S)
    <2> DEFINE rd == At(src, s.done)
    <2> DEFINE wr == At(dst, s.done)
    <2> DEFINE got == Pread(s.content[rd[1]], rd[2], end - s.done)
    <2> DEFINE new == Pwrite(s.content[wr[1]], wr[2], got)
    <2>1. Total(src) \in Nat /\ Total(dst) \in Nat /\ n \in Nat /\ n <= Total(src) /\ n <= Total(dst)
      BY LeastTotal
    <2>2. s.done \in Nat /\ s.done < n
      BY <1>2, <2>1 DEF Copying
    <2>3. Len(src) # 0 /\ Len(dst) # 0
      BY <2>1, <2>2, TotalType
    <2>4. src[1].size \in Nat /\ dst[1].size \in Nat
      BY <2>3, TotalType
    <2>5. S \in SUBSET Nat /\ n \in S
      BY <2>1, <2>2, <2>4
    <2>6. end \in S /\ \A k \in S : end <= k
      BY <2>5, MinIsIn
    <2> HIDE DEF end
    <2>7. /\ end \in Nat /\ end > s.done /\ end <= n
          /\ s.done < src[1].size => end <= src[1].size
          /\ s.done < dst[1].size => end <= dst[1].size
      BY <2>2, <2>4, <2>5, <2>6
    <2> HIDE DEF S
    <2>8. rd[1] \in D /\ rd[2] \in Nat /\ wr[1] \in D /\ wr[2] \in Nat
      BY <2>1, <2>2, AtType
    <2> HIDE DEF rd, wr
    <2>9. end - s.done \in Nat
      BY <2>2, <2>7
    <2>10. got \in Seq(Byte) /\ Len(got) <= end - s.done /\ Len(got) \in Nat
      <3>1. s.content[rd[1]] \in Seq(Byte)
        BY <2>8 DEF Copying
      <3>2. got \in Seq(Byte) /\ Len(got) <= end - s.done
        BY <2>8, <2>9, <3>1, PreadType
      <3> QED
        BY <3>2
    <2>11. r = [content |-> [s.content EXCEPT ![wr[1]] = Pwrite(@, wr[2], got)],
                done |-> s.done + Len(got),
                short |-> Len(got) < end - s.done]
      BY <1>2, Zenon DEF CopyChunk, end, S, rd, wr
    <2> HIDE DEF got
    <2>12. new \in Seq(Byte)
      BY <2>8, <2>10, PwriteType DEF Copying
    <2>13. r.content = [s.content EXCEPT ![wr[1]] = new]
      BY <2>11
    <2> HIDE DEF new
    <2>14. DOMAIN r.content = D /\ \A fd \in D : r.content[fd] \in Seq(Byte)
      BY <2>8, <2>12, <2>13 DEF Copying
    <2>15. r.done = s.done + Len(got) /\ r.short = (Len(got) < end - s.done)
      BY <2>11
    <2>16. r.done \in 0 .. n /\ s.done <= r.done
      BY <2>1, <2>2, <2>7, <2>10, <2>15
    <2>17. Copying(r, D, n)
      BY <2>14, <2>16 DEF Copying
    <2>18. Chunk(src, dst, s, r, n, end)
      BY <2>7, <2>13, <2>15 DEF Chunk, got, rd, wr, new
    <2> QED
      BY <2>16, <2>17, <2>18
  <1> QED
    BY <1>1, <1>2

\* The same without what the chunk is.
LEMMA CopyChunkStep ==
  ASSUME NEW D, NEW src, NEW dst, IsBufvec(src, D), IsBufvec(dst, D),
         NEW n, n = Min({Total(src), Total(dst)}),
         NEW s, Copying(s, D, n), NEW r, r = CopyChunk(src, dst, s)
  PROVE  Copying(r, D, n) /\ s.done <= r.done
  BY CopyChunkCases

\* A copy changes no file but those of D, copies no more than there is room for, and
\* at least what its first chunk reads.
LEMMA FuseBufCopyType ==
  ASSUME NEW D, NEW src, NEW dst, IsBufvec(src, D), IsBufvec(dst, D),
         NEW from, DOMAIN from = D, \A fd \in D : from[fd] \in Seq(Byte)
  PROVE  /\ Copying(FuseBufCopy(from, src, dst), D, Min({Total(src), Total(dst)}))
         /\ Min({Total(src), Total(dst)}) # 0 =>
              \E end \in 1 .. Min({Total(src), Total(dst)}) :
                Len(Pread(from[At(src, 0)[1]], At(src, 0)[2], end)) <= FuseBufCopy(from, src, dst).done
  <1> DEFINE n == Min({Total(src), Total(dst)})
  <1> DEFINE s0 == [content |-> from, done |-> 0, short |-> FALSE]
  <1> DEFINE s1 == CopyChunk(src, dst, s0)
  <1> DEFINE s2 == CopyChunk(src, dst, s1)
  <1> DEFINE s3 == CopyChunk(src, dst, s2)
  <1>1. n \in Nat
    BY LeastTotal
  <1>2. s0.content = from /\ s0.done = 0 /\ s0.short = FALSE
    OBVIOUS
  <1>n. n = Min({Total(src), Total(dst)})
    OBVIOUS
  <1>a. s1 = CopyChunk(src, dst, s0)
    OBVIOUS
  <1>b. s2 = CopyChunk(src, dst, s1)
    OBVIOUS
  <1>c. s3 = CopyChunk(src, dst, s2)
    OBVIOUS
  <1> HIDE DEF n, s0, s1, s2, s3
  <1>3. Copying(s0, D, n)
    BY <1>1, <1>2 DEF Copying
  <1>4. Copying(s1, D, n)
    BY <1>n, <1>a, <1>3, CopyChunkStep, Zenon
  <1>5. Copying(s2, D, n) /\ s1.done <= s2.done
    BY <1>n, <1>b, <1>4, CopyChunkStep, Zenon
  <1>6. Copying(s3, D, n) /\ s2.done <= s3.done
    <2>1. Copying(s2, D, n)
      BY <1>5
    <2> QED
      BY <1>n, <1>c, <2>1, CopyChunkStep, Zenon
  <1>7. s1.done <= s3.done
    BY <1>1, <1>4, <1>5, <1>6 DEF Copying
  <1>8. ASSUME n # 0
        PROVE  \E end \in 1 .. n : Len(Pread(from[At(src, 0)[1]], At(src, 0)[2], end)) <= s3.done
    <2>0. \E end : Chunk(src, dst, s0, s1, n, end)
      <3>1. ~ s0.short /\ s0.done # n
        BY <1>2, <1>8
      <3> QED
        BY <1>n, <1>a, <1>3, <3>1, CopyChunkCases, Zenon
    <2>1. PICK end : /\ end \in Nat /\ end > s0.done /\ end <= n
                     /\ s1.done = s0.done + Len(Pread(s0.content[At(src, s0.done)[1]], At(src, s0.done)[2], end - s0.done))
      BY <2>0 DEF Chunk
    <2>2. end \in 1 .. n /\ end - s0.done = end
      BY <1>1, <1>2, <2>1
    <2>3. PICK got : got = Pread(from[At(src, 0)[1]], At(src, 0)[2], end)
      OBVIOUS
    <2>4. s1.done = 0 + Len(got)
      BY <1>2, <2>1, <2>2, <2>3
    <2>5. Len(got) \in Nat
      <3>1. n <= Total(src)
        BY LeastTotal DEF n
      <3>2. 0 < Total(src)
        BY <1>1, <1>8, <3>1, TotalType
      <3>3. At(src, 0)[1] \in D /\ At(src, 0)[2] \in Nat
        BY <3>2, AtType
      <3>4. from[At(src, 0)[1]] \in Seq(Byte)
        BY <3>3
      <3>5. got \in Seq(Byte)
        BY <2>1, <2>3, <3>3, <3>4, PreadType
      <3> QED
        BY <3>5
    <2>6. Len(got) <= s3.done
      BY <1>7, <2>4, <2>5
    <2> QED
      BY <2>2, <2>3, <2>6
  <1>9. FuseBufCopy(from, src, dst) = s3
    BY Zenon DEF FuseBufCopy, s0, s1, s2, s3
  <1> QED
    BY <1>6, <1>8, <1>9 DEF n

-----------------------------------------------------------------------------
(* The parts of files *)

\* What is known of a file.
LEMMA FileType ==
  ASSUME Typed, NEW i \in Files
  PROVE  /\ file[i] \in FileRec /\ i \in Nat \ {0}
         /\ file[i].st_size \in Nat /\ file[i].last \in BOOLEAN
         /\ file[i].aggr.file \in Nat /\ file[i].aggr.no \in 0 .. BlockLimit - 1 /\ file[i].aggr.no \in Nat
         /\ Aggr(file[i].aggr.file) \in Fds /\ Large(i) \in Fds
         /\ Aggr(file[i].aggr.file) \in DOMAIN content
         /\ flat[i] \in Seq(Byte) /\ i \in DOMAIN flat
  <1>1. file[i] \in FileRec /\ i \in Nat \ {0}
    BY DEF Typed, Files
  <1>2. /\ file[i].st_size \in Nat /\ file[i].last \in BOOLEAN
        /\ file[i].aggr \in [file : Nat, no : 0 .. BlockLimit - 1]
    BY <1>1 DEF FileRec
  <1>3. file[i].aggr.file \in Nat /\ file[i].aggr.no \in 0 .. BlockLimit - 1
    BY <1>2
  <1>4. file[i].aggr.no \in Nat
    BY <1>3, FileDataAssumption
  <1>5. Aggr(file[i].aggr.file) \in Fds /\ Large(i) \in Fds
    BY <1>1, <1>3 DEF Fds, Aggr, Large
  <1>6. Aggr(file[i].aggr.file) \in DOMAIN content
    BY DEF Typed
  <1>7. i \in DOMAIN flat
    BY DEF Typed, Files
  <1>8. flat[i] \in Seq(Byte)
    <2> DEFINE T == Seq(Byte)
    <2> HIDE DEF T
    <2>1. flat \in Seq(T)
      BY DEF Typed, T
    <2> QED
      BY <1>7, <2>1 DEF T
  <1> QED
    BY <1>1, <1>2, <1>3, <1>4, <1>5, <1>6, <1>7, <1>8

\* Split makes one piece or two, size bytes together.
LEMMA SplitType ==
  ASSUME Typed, NEW i \in Files, NEW size \in Nat \ {0}, NEW off \in Nat
  PROVE  /\ IsBufvec(Split(i, size, off), Fds)
         /\ Len(Split(i, size, off)) \in {1, 2}
         /\ Total(Split(i, size, off)) = size
         /\ size + off <= BlockSize => Split(i, size, off)[1].fd = Aggr(file[i].aggr.file)
                                       /\ Len(Split(i, size, off)) = 1
         /\ off < BlockSize => Split(i, size, off)[1].fd = Aggr(file[i].aggr.file)
         /\ \A n \in DOMAIN Split(i, size, off) :
              Split(i, size, off)[n].fd \in {Aggr(file[i].aggr.file), Large(i)}
  <1> DEFINE base == file[i].aggr.no * BlockSize + off
  <1> DEFINE a == Aggr(file[i].aggr.file)
  <1>1. BlockSize \in Nat \ {0} /\ a \in Fds /\ Large(i) \in Fds /\ file[i].aggr.no \in Nat
    BY FileDataAssumption, FileType
  <1>2. base \in Nat
    BY <1>1
  <1> HIDE DEF base, a
  <1>3. CASE size + off <= BlockSize
    <2>0. ~ (off >= BlockSize)
      BY <1>1, <1>3
    <2>1. Split(i, size, off) = <<Piece(a, base, size)>>
      BY <1>3, <2>0 DEF Split, a, base
    <2>2. Piece(a, base, size) \in PieceOf(Fds) /\ Piece(a, base, size).size = size /\ Piece(a, base, size).fd = a
      BY <1>1, <1>2 DEF Piece, PieceOf
    <2> QED
      BY <2>1, <2>2 DEF IsBufvec, Total, a
  <1>4. CASE ~ (size + off <= BlockSize) /\ off >= BlockSize
    <2> DEFINE p == Piece(Large(i), off - BlockSize, size)
    <2>1. Split(i, size, off) = <<p>>
      BY <1>4 DEF Split
    <2>2. p \in PieceOf(Fds) /\ p.size = size /\ p.fd = Large(i)
      BY <1>1, <1>4 DEF Piece, PieceOf
    <2> HIDE DEF p
    <2>3. IsBufvec(Split(i, size, off), Fds) /\ Len(Split(i, size, off)) = 1 /\ Total(Split(i, size, off)) = size
      BY <2>1, <2>2 DEF IsBufvec, Total
    <2>4. \A n \in DOMAIN Split(i, size, off) : Split(i, size, off)[n].fd = Large(i)
      BY <2>1, <2>2
    <2> QED
      BY <1>1, <1>4, <2>3, <2>4
  <1>5. CASE ~ (size + off <= BlockSize) /\ ~ (off >= BlockSize)
    <2> DEFINE p == Piece(a, base, BlockSize - off)
    <2> DEFINE q == Piece(Large(i), 0, size - (BlockSize - off))
    <2>1. Split(i, size, off) = <<p, q>>
      BY <1>5 DEF Split, a, base
    <2>2. BlockSize - off \in Nat \ {0} /\ size - (BlockSize - off) \in Nat \ {0}
      BY <1>1, <1>5
    <2>3. /\ p \in PieceOf(Fds) /\ p.size = BlockSize - off /\ p.fd = a
          /\ q \in PieceOf(Fds) /\ q.size = size - (BlockSize - off) /\ q.fd = Large(i)
      BY <1>1, <1>2, <2>2 DEF Piece, PieceOf
    <2> HIDE DEF p, q
    <2>4. /\ Split(i, size, off) \in Seq(PieceOf(Fds)) /\ Len(Split(i, size, off)) = 2
          /\ Split(i, size, off)[1] = p /\ Split(i, size, off)[2] = q
      BY <2>1, <2>3
    <2>5. IsBufvec(Split(i, size, off), Fds)
      BY <2>4 DEF IsBufvec
    <2>6. Total(Split(i, size, off)) = p.size + q.size
      BY <2>4, <2>5, TotalType
    <2>7. \A n \in DOMAIN Split(i, size, off) : Split(i, size, off)[n].fd \in {a, Large(i)}
      BY <2>3, <2>4
    <2> QED
      BY <1>1, <1>5, <2>2, <2>3, <2>4, <2>5, <2>6, <2>7 DEF a
  <1> QED
    BY <1>3, <1>4, <1>5

\* The local file of a piece.
LEMMA BufvecFd ==
  ASSUME NEW D, NEW ps, IsBufvec(ps, D), NEW n \in DOMAIN ps
  PROVE  ps[n].fd \in D
  <1>1. ps[n] \in PieceOf(D)
    BY DEF IsBufvec
  <1> QED
    BY <1>1 DEF PieceOf

\* A bufvec whose files are all in D.
LEMMA BufvecIn ==
  ASSUME NEW C, NEW D, NEW ps, IsBufvec(ps, C), \A n \in DOMAIN ps : ps[n].fd \in D
  PROVE  IsBufvec(ps, D)
  <1> DEFINE S == PieceOf(C)
  <1> DEFINE T == PieceOf(D)
  <1>1. \A p \in S : p.fd \in D => p \in T
    BY DEF PieceOf
  <1>2. ps \in Seq(S) /\ Len(ps) \in {0, 1, 2}
    BY DEF IsBufvec
  <1> HIDE DEF S, T
  <1>3. \A n \in DOMAIN ps : ps[n] \in T
    BY <1>1, <1>2
  <1>4. ps \in Seq(T)
    BY <1>2, <1>3
  <1> QED
    BY <1>2, <1>4 DEF IsBufvec, T

\* What WriteBuf has opened: the local files there were and those it writes to.
LEMMA OpenedType ==
  ASSUME Typed, NEW ps, IsBufvec(ps, Fds), NEW D, D = DOMAIN Opened(ps)
  PROVE  /\ DOMAIN content \subseteq D /\ D \subseteq Fds /\ Mem \notin D
         /\ IsBufvec(ps, D)
         /\ \A fd \in D : Opened(ps)[fd] \in Seq(Byte)
  <1> DEFINE fds == {p.fd : p \in Range(ps)}
  <1>1. Opened(ps) = [fd \in DOMAIN content \cup fds |-> IF fd \in DOMAIN content THEN content[fd] ELSE <<>>]
    BY Zenon DEF Opened
  <1>2. \A n \in DOMAIN ps : ps[n].fd \in fds /\ ps[n].fd \in Fds
    <2> SUFFICES ASSUME NEW n \in DOMAIN ps PROVE ps[n].fd \in fds /\ ps[n].fd \in Fds
      OBVIOUS
    <2>1. ps[n] \in Range(ps)
      BY DEF Range
    <2>2. ps[n] \in PieceOf(Fds)
      BY DEF IsBufvec
    <2> QED
      BY <2>1, <2>2 DEF PieceOf
  <1>3. fds \subseteq Fds
    BY <1>2 DEF Range
  <1> HIDE DEF fds
  <1>4. D = DOMAIN content \cup fds
    BY <1>1
  <1>5. Mem \notin Fds
    BY DEF Mem, Fds
  <1>6. D \subseteq Fds
    BY <1>3, <1>4 DEF Typed
  <1>7. \A fd \in D : Opened(ps)[fd] \in Seq(Byte)
    BY <1>1, <1>4 DEF Typed
  <1>8. IsBufvec(ps, D)
    BY <1>2, <1>4, BufvecIn
  <1> QED
    BY <1>4, <1>5, <1>6, <1>7, <1>8

\* ReadBuf uses files there are.
LEMMA ReadPiecesType ==
  ASSUME Typed, NEW i \in Files, NEW size \in Nat \ {0}, NEW off \in Nat
  PROVE  IsBufvec(ReadPieces(i, size, off), DOMAIN content)
  <1> DEFINE s == Split(i, size, off)
  <1>1. /\ IsBufvec(s, Fds) /\ Len(s) \in {1, 2}
        /\ size + off <= BlockSize => s[1].fd = Aggr(file[i].aggr.file) /\ Len(s) = 1
        /\ off < BlockSize => s[1].fd = Aggr(file[i].aggr.file)
        /\ \A n \in DOMAIN s : s[n].fd \in {Aggr(file[i].aggr.file), Large(i)}
    BY SplitType
  <1>2. Aggr(file[i].aggr.file) \in DOMAIN content
    BY FileType
  <1> HIDE DEF s
  <1>3. CASE size + off <= BlockSize \/ Large(i) \in DOMAIN content
    <2>1. \A n \in DOMAIN s : s[n].fd \in DOMAIN content
      <3>1. DOMAIN s = 1 .. Len(s)
        BY <1>1 DEF IsBufvec
      <3> QED
        BY <1>1, <1>2, <1>3, <3>1
    <2>2. ReadPieces(i, size, off) = s
      BY <1>3 DEF ReadPieces, s
    <2> QED
      BY <1>1, <2>1, <2>2, BufvecIn
  <1>4. CASE ~ (size + off <= BlockSize \/ Large(i) \in DOMAIN content)
    <2>1. CASE off >= BlockSize
      <3>1. ReadPieces(i, size, off) = <<>>
        BY <1>4, <2>1 DEF ReadPieces
      <3> QED
        BY <3>1 DEF IsBufvec
    <2>2. CASE ~ (off >= BlockSize)
      <3>1. ReadPieces(i, size, off) = <<s[1]>>
        BY <1>4, <2>2 DEF ReadPieces, s
      <3>2. s[1] \in PieceOf(Fds) /\ s[1].fd \in DOMAIN content
        BY <1>1, <1>2, <2>2, TotalType, FileDataAssumption
      <3>3. s[1] \in PieceOf(DOMAIN content)
        BY <3>2 DEF PieceOf
      <3> QED
        BY <3>1, <3>3 DEF IsBufvec
    <2> QED
      BY <2>1, <2>2
  <1> QED
    BY <1>3, <1>4

\* Setting the size of a file changes nothing else.
LEMMA GrowStep ==
  ASSUME Typed, NEW i \in Files, NEW end \in Nat, Grow(i, end)
  PROVE  /\ file' \in Seq(FileRec) /\ Len(file') = Len(file) /\ Files' = Files
         /\ \A j \in Files : file'[j].aggr = file[j].aggr /\ file'[j].last = file[j].last
         /\ \A j \in Files : j # i => file'[j] = file[j]
         /\ file'[i].st_size = IF end > file[i].st_size THEN end ELSE file[i].st_size
  <1>1. CASE end > file[i].st_size
    <2>1. file' = [file EXCEPT ![i].st_size = end]
      BY <1>1 DEF Grow
    <2>2. PICK f : f = [file[i] EXCEPT !.st_size = end]
      OBVIOUS
    <2>3. f \in FileRec /\ f.aggr = file[i].aggr /\ f.last = file[i].last /\ f.st_size = end
      BY <2>2, FileType DEF FileRec
    <2>4. file' = [file EXCEPT ![i] = f]
      BY <2>1, <2>2
    <2>5. file \in Seq(FileRec) /\ i \in 1 .. Len(file)
      BY DEF Typed, Files
    <2>6. /\ file' \in Seq(FileRec) /\ Len(file') = Len(file)
          /\ \A j \in 1 .. Len(file) : file'[j] = IF j = i THEN f ELSE file[j]
      BY <2>3, <2>4, <2>5, ExceptSeq
    <2>7. Files = 1 .. Len(file) /\ Files' = 1 .. Len(file)
      BY <2>5, <2>6 DEF Files
    <2> QED
      BY <1>1, <2>3, <2>6, <2>7
  <1>2. CASE ~ (end > file[i].st_size)
    BY <1>2 DEF Grow, Typed, Files
  <1> QED
    BY <1>1, <1>2

-----------------------------------------------------------------------------
(* Where the bytes of files are *)

\* pread gives the bytes of a file, up to the file's end.
LEMMA PreadBytes ==
  ASSUME NEW T, NEW bytes \in Seq(T), NEW pos \in Nat, NEW n \in Nat
  PROVE  /\ \A k \in 0 .. Len(Pread(bytes, pos, n)) - 1 :
              Pread(bytes, pos, n)[k + 1] = ByteOf(bytes, pos + k) /\ pos + k < Len(bytes)
         /\ Len(Pread(bytes, pos, n)) < n => Len(bytes) <= pos + Len(Pread(bytes, pos, n))
  <1> DEFINE last == IF pos + n < Len(bytes) THEN pos + n ELSE Len(bytes)
  <1> DEFINE got == SubSeq(bytes, pos + 1, last)
  <1>1. Len(bytes) \in Nat /\ last \in Nat /\ last <= Len(bytes) /\ (last = pos + n \/ last = Len(bytes))
    OBVIOUS
  <1>2. Pread(bytes, pos, n) = got
    BY DEF Pread
  <1> HIDE DEF last
  <1>3. /\ Len(got) = IF pos + 1 <= last THEN last - (pos + 1) + 1 ELSE 0
        /\ \A k \in 1 .. last - (pos + 1) + 1 : got[k] = bytes[pos + 1 + k - 1]
    BY <1>1, SubSeqType
  <1> HIDE DEF got
  <1>4. Len(got) < n => Len(bytes) <= pos + Len(got)
    BY <1>1, <1>3
  <1>5. ASSUME NEW k \in 0 .. Len(got) - 1
        PROVE  got[k + 1] = ByteOf(bytes, pos + k) /\ pos + k < Len(bytes)
    <2>1. k + 1 \in 1 .. last - (pos + 1) + 1 /\ pos + k < Len(bytes) /\ k \in Nat
      BY <1>1, <1>3
    <2>2. got[k + 1] = bytes[pos + 1 + (k + 1) - 1]
      BY <1>3, <2>1
    <2>3. pos + 1 + (k + 1) - 1 = pos + k + 1
      BY <2>1
    <2> QED
      BY <2>1, <2>2, <2>3 DEF ByteOf
  <1> QED
    BY <1>2, <1>4, <1>5

\* pwrite changes the bytes it writes and no other.
LEMMA PwriteBytes ==
  ASSUME NEW bytes \in Seq(Byte), NEW pos \in Nat, NEW new \in Seq(Byte), NEW k \in Nat
  PROVE  ByteOf(Pwrite(bytes, pos, new), k) =
           IF pos <= k /\ k < pos + Len(new) THEN new[k - pos + 1] ELSE ByteOf(bytes, k)
  <1> DEFINE p == Pwrite(bytes, pos, new)
  <1> DEFINE len == Max({Len(bytes), IF new = <<>> THEN 0 ELSE pos + Len(new)})
  <1>1. /\ p \in Seq(Byte)
        /\ Len(p) = IF new # <<>> /\ pos + Len(new) > Len(bytes) THEN pos + Len(new) ELSE Len(bytes)
    BY PwriteType
  <1>2. p = [j \in 1 .. len |-> IF j > pos /\ j <= pos + Len(new) THEN new[j - pos]
                                ELSE IF j <= Len(bytes) THEN bytes[j]
                                ELSE Zero]
    BY Zenon DEF Pwrite
  <1> HIDE DEF p, len
  <1>3. \A j \in DOMAIN p : p[j] = IF j > pos /\ j <= pos + Len(new) THEN new[j - pos]
                                ELSE IF j <= Len(bytes) THEN bytes[j]
                                ELSE Zero
    BY <1>2
  <1>4. DOMAIN p = 1 .. Len(p) /\ Len(p) \in Nat /\ Len(bytes) \in Nat /\ Len(new) \in Nat
        /\ (new = <<>> <=> Len(new) = 0)
    BY <1>1
  <1>5. CASE k < Len(p)
    <2>1. k + 1 \in DOMAIN p
      BY <1>4, <1>5
    <2>2. p[k + 1] = IF k + 1 > pos /\ k + 1 <= pos + Len(new) THEN new[k + 1 - pos]
                     ELSE IF k + 1 <= Len(bytes) THEN bytes[k + 1] ELSE Zero
      BY <1>3, <2>1
    <2>3. k + 1 - pos = k - pos + 1
      OBVIOUS
    <2> HIDE DEF Zero
    <2> QED
      BY <1>4, <1>5, <2>2, <2>3 DEF ByteOf, p
  <1>6. CASE ~ (k < Len(p))
    <2>1. ~ (k < Len(bytes)) /\ ~ (pos <= k /\ k < pos + Len(new))
      BY <1>1, <1>4, <1>6
    <2> QED
      BY <1>6, <2>1 DEF ByteOf, p
  <1> QED
    BY <1>5, <1>6

\* The bytes of a bufvec up to the end of a piece are one behind the other.
LEMMA AtPiece ==
  ASSUME NEW D, NEW ps, IsBufvec(ps, D), NEW done \in Nat, NEW end \in Nat, end <= Total(ps), done < end,
         done < ps[1].size => end <= ps[1].size, NEW k \in done .. end - 1
  PROVE  At(ps, k) = <<At(ps, done)[1], At(ps, done)[2] + (k - done)>>
  <1>1. Len(ps) = 1 \/ Len(ps) = 2
    BY TotalType DEF IsBufvec
  <1>2. ps[1].size \in Nat /\ ps[1].pos \in Nat
    BY <1>1, TotalType DEF PieceOf
  <1>3. CASE done < ps[1].size
    <2>1. k < ps[1].size
      BY <1>2, <1>3
    <2>2. At(ps, k) = <<ps[1].fd, ps[1].pos + k>> /\ At(ps, done) = <<ps[1].fd, ps[1].pos + done>>
      BY <1>3, <2>1 DEF At
    <2>3. ps[1].pos + k = ps[1].pos + done + (k - done)
      BY <1>2
    <2> QED
      BY <2>2, <2>3
  <1>4. CASE ~ (done < ps[1].size)
    <2>1. ~ (k < ps[1].size) /\ Len(ps) = 2
      BY <1>1, <1>2, <1>4, TotalType
    <2>2. At(ps, k) = <<ps[2].fd, ps[2].pos + k - ps[1].size>>
          /\ At(ps, done) = <<ps[2].fd, ps[2].pos + done - ps[1].size>>
      BY <1>4, <2>1 DEF At
    <2>3. ps[2].pos \in Nat
      BY <2>1, TotalType DEF PieceOf
    <2>4. ps[2].pos + k - ps[1].size = ps[2].pos + done - ps[1].size + (k - done)
      BY <1>2, <2>3
    <2> QED
      BY <2>2, <2>4
  <1> QED
    BY <1>3, <1>4

\* Bytes m .. n - 1 of the source are in their places in the destination, and nothing
\* else of the files in D changed.
Moved(old, new, src, dst, D, m, n) ==
  /\ \A k \in m .. n - 1 :
       InFile(new, At(dst, k)[1], At(dst, k)[2]) = InFile(old, At(src, k)[1], At(src, k)[2])
  /\ \A fd \in D, pos \in Nat :
       (\A k \in m .. n - 1 : At(dst, k) # <<fd, pos>>) => InFile(new, fd, pos) = InFile(old, fd, pos)

\* No byte is written twice, or read after it was written.
Distinct(src, dst, n) ==
  \A k, l \in 0 .. n - 1 : (k # l => At(dst, k) # At(dst, l)) /\ At(src, k) # At(dst, l)

\* A chunk moves the bytes it copies.
LEMMA CopyChunkMoves ==
  ASSUME NEW D, NEW src, NEW dst, IsBufvec(src, D), IsBufvec(dst, D),
         NEW n, n = Min({Total(src), Total(dst)}),
         NEW s, Copying(s, D, n), NEW r, r = CopyChunk(src, dst, s)
  PROVE  Moved(s.content, r.content, src, dst, D, s.done, r.done)
  <1>1. n \in Nat /\ n <= Total(src) /\ n <= Total(dst) /\ s.done \in Nat /\ s.done <= n
    BY LeastTotal DEF Copying
  <1>2. CASE s.short \/ s.done = n
    <2>1. r = s
      BY <1>2 DEF CopyChunk
    <2>2. s.done .. s.done - 1 = {}
      BY <1>1
    <2> QED
      BY <2>1, <2>2 DEF Moved
  <1>3. CASE ~ s.short /\ s.done # n
    <2>1. PICK end : Chunk(src, dst, s, r, n, end)
      BY <1>3, CopyChunkCases, Zenon
    <2>2. PICK rd : rd = At(src, s.done)
      OBVIOUS
    <2>3. PICK wr : wr = At(dst, s.done)
      OBVIOUS
    <2>4. PICK got : got = Pread(s.content[rd[1]], rd[2], end - s.done)
      OBVIOUS
    <2>5. /\ end \in Nat /\ s.done < end /\ end <= n
          /\ s.done < src[1].size => end <= src[1].size
          /\ s.done < dst[1].size => end <= dst[1].size
          /\ r.done = s.done + Len(got)
          /\ r.content = [s.content EXCEPT ![wr[1]] = Pwrite(@, wr[2], got)]
      BY <2>1, <2>2, <2>3, <2>4 DEF Chunk
    <2>6. s.done < Total(src) /\ s.done < Total(dst) /\ end <= Total(src) /\ end <= Total(dst)
          /\ Total(src) \in Nat /\ Total(dst) \in Nat
      BY <1>1, <2>5, LeastTotal
    <2>7. rd[1] \in D /\ rd[2] \in Nat /\ wr[1] \in D /\ wr[2] \in Nat
      BY <1>1, <2>2, <2>3, <2>6, AtType
    <2>8. s.content[rd[1]] \in Seq(Byte) /\ s.content[wr[1]] \in Seq(Byte) /\ DOMAIN s.content = D
      BY <2>7 DEF Copying
    <2>9. end - s.done \in Nat
      BY <1>1, <2>5
    <2>10. got \in Seq(Byte) /\ Len(got) <= end - s.done /\ Len(got) \in Nat
      <3>1. got \in Seq(Byte) /\ Len(got) <= end - s.done
        BY <2>4, <2>7, <2>8, <2>9, PreadType
      <3> QED
        BY <3>1
    <2>11. \A k \in 0 .. Len(got) - 1 : got[k + 1] = ByteOf(s.content[rd[1]], rd[2] + k)
      BY <2>4, <2>7, <2>8, <2>9, PreadBytes
    <2>12. PICK b : b = Pwrite(s.content[wr[1]], wr[2], got)
      OBVIOUS
    <2>13. \A k \in Nat : ByteOf(b, k) = IF wr[2] <= k /\ k < wr[2] + Len(got) THEN got[k - wr[2] + 1]
                                         ELSE ByteOf(s.content[wr[1]], k)
      BY <2>7, <2>8, <2>10, <2>12, PwriteBytes
    <2>14. r.content = [s.content EXCEPT ![wr[1]] = b]
      BY <2>5, <2>12
    <2>15. DOMAIN r.content = D /\ r.content[wr[1]] = b
           /\ \A fd \in D : fd # wr[1] => r.content[fd] = s.content[fd]
      BY <2>7, <2>8, <2>14
    <2>16. \A k \in s.done .. end - 1 : At(src, k) = <<rd[1], rd[2] + (k - s.done)>>
      BY <1>1, <2>2, <2>5, <2>6, AtPiece
    <2>17. \A k \in s.done .. end - 1 : At(dst, k) = <<wr[1], wr[2] + (k - s.done)>>
      BY <1>1, <2>3, <2>5, <2>6, AtPiece
    <2>18. s.done .. r.done - 1 \subseteq s.done .. end - 1
      BY <1>1, <2>5, <2>10
    <2>19. ASSUME NEW k \in s.done .. r.done - 1
           PROVE  InFile(r.content, At(dst, k)[1], At(dst, k)[2]) = InFile(s.content, At(src, k)[1], At(src, k)[2])
      <3>1. PICK j : j = k - s.done
        OBVIOUS
      <3>2. j \in 0 .. Len(got) - 1 /\ j \in Nat
        BY <1>1, <2>5, <2>10, <3>1
      <3>3. At(src, k)[1] = rd[1] /\ At(src, k)[2] = rd[2] + j /\ At(dst, k)[1] = wr[1] /\ At(dst, k)[2] = wr[2] + j
        BY <2>16, <2>17, <2>18, <3>1
      <3>4. got[j + 1] = ByteOf(s.content[rd[1]], rd[2] + j)
        BY <2>11, <3>2
      <3>5. wr[2] + j \in Nat /\ wr[2] <= wr[2] + j /\ wr[2] + j < wr[2] + Len(got) /\ wr[2] + j - wr[2] + 1 = j + 1
        BY <2>7, <2>10, <3>2
      <3>6. ByteOf(b, wr[2] + j) = got[j + 1]
        <4>1. PICK q : q = wr[2] + j
          OBVIOUS
        <4>2. q \in Nat /\ wr[2] <= q /\ q < wr[2] + Len(got) /\ q - wr[2] + 1 = j + 1
          <5>1. PICK w : w = wr[2]
            OBVIOUS
          <5>2. w \in Nat /\ j \in Nat /\ q = w + j /\ j < Len(got)
            BY <2>7, <2>10, <3>2, <4>1, <5>1
          <5>3. q \in Nat /\ w <= q /\ q < w + Len(got) /\ q - w + 1 = j + 1
            BY <2>10, <5>2
          <5> QED
            BY <5>1, <5>3
        <4>3. ByteOf(b, q) = got[q - wr[2] + 1]
          BY <2>13, <4>2
        <4> QED
          BY <4>1, <4>2, <4>3
      <3> QED
        BY <2>7, <2>8, <2>15, <3>3, <3>4, <3>6 DEF InFile
    <2>20. ASSUME NEW fd \in D, NEW pos \in Nat, \A k \in s.done .. r.done - 1 : At(dst, k) # <<fd, pos>>
           PROVE  InFile(r.content, fd, pos) = InFile(s.content, fd, pos)
      <3>1. CASE fd # wr[1]
        BY <2>8, <2>15, <3>1 DEF InFile
      <3>2. CASE fd = wr[1]
        <4>1. ASSUME wr[2] <= pos, pos < wr[2] + Len(got) PROVE FALSE
          <5>1. PICK k : k = s.done + (pos - wr[2])
            OBVIOUS
          <5>2. k \in s.done .. r.done - 1 /\ wr[2] + (k - s.done) = pos
            <6>1. PICK w : w = wr[2]
              OBVIOUS
            <6>2. PICK d : d = s.done
              OBVIOUS
            <6>3. PICK e : e = r.done
              OBVIOUS
            <6>4. w \in Nat /\ d \in Nat /\ e = d + Len(got) /\ w <= pos /\ pos < w + Len(got) /\ k = d + (pos - w)
              BY <1>1, <2>5, <2>7, <4>1, <5>1, <6>1, <6>2, <6>3
            <6>5. k \in d .. e - 1 /\ w + (k - d) = pos
              BY <2>10, <6>4
            <6> QED
              BY <6>1, <6>2, <6>3, <6>5
          <5>3. At(dst, k) = <<fd, pos>>
            BY <2>17, <2>18, <3>2, <5>2
          <5> QED
            BY <2>20, <5>2, <5>3
        <4>2. ByteOf(b, pos) = ByteOf(s.content[wr[1]], pos)
          BY <2>13, <4>1
        <4> QED
          BY <2>8, <2>15, <3>2, <4>2 DEF InFile
      <3> QED
        BY <3>1, <3>2
    <2> QED
      BY <2>19, <2>20 DEF Moved
  <1> QED
    BY <1>2, <1>3

\* Two parts of a copy, one behind the other.
LEMMA MovedTwice ==
  ASSUME NEW D, NEW src, NEW dst, IsBufvec(src, D), IsBufvec(dst, D), NEW total \in Nat,
         total <= Total(src), total <= Total(dst), Distinct(src, dst, total),
         NEW a, NEW b, NEW c, NEW m \in Nat, NEW n \in Nat, m <= n, n <= total,
         Moved(a, b, src, dst, D, 0, m), Moved(b, c, src, dst, D, m, n)
  PROVE  Moved(a, c, src, dst, D, 0, n)
  <1>0. Total(src) \in Nat /\ Total(dst) \in Nat
    BY TotalType
  <1>1. \A k \in 0 .. n - 1 : /\ At(dst, k)[1] \in D /\ At(dst, k)[2] \in Nat /\ At(src, k)[1] \in D /\ At(src, k)[2] \in Nat
    BY <1>0, AtType
  <1>2. \A k \in 0 .. n - 1 : /\ At(dst, k) = <<At(dst, k)[1], At(dst, k)[2]>>
                              /\ At(src, k) = <<At(src, k)[1], At(src, k)[2]>>
    BY DEF At
  <1>3. ASSUME NEW k \in 0 .. n - 1
        PROVE  InFile(c, At(dst, k)[1], At(dst, k)[2]) = InFile(a, At(src, k)[1], At(src, k)[2])
    <2>0. k \in 0 .. total - 1 /\ k \in Nat /\ \A l \in m .. n - 1 : l \in 0 .. total - 1
      OBVIOUS
    <2>1. CASE k < m
      <3>1. k \in 0 .. m - 1
        BY <2>1
      <3>2. InFile(b, At(dst, k)[1], At(dst, k)[2]) = InFile(a, At(src, k)[1], At(src, k)[2])
        BY <3>1 DEF Moved
      <3>3. \A l \in m .. n - 1 : At(dst, l) # <<At(dst, k)[1], At(dst, k)[2]>>
        <4>1. \A l \in m .. n - 1 : l # k
          BY <2>1
        <4>2. \A l \in m .. n - 1 : At(dst, l) # At(dst, k)
          BY <2>0, <4>1 DEF Distinct
        <4> QED
          BY <1>2, <4>2
      <3>4. InFile(c, At(dst, k)[1], At(dst, k)[2]) = InFile(b, At(dst, k)[1], At(dst, k)[2])
        BY <1>1, <3>3 DEF Moved
      <3> QED
        BY <3>2, <3>4
    <2>2. CASE ~ (k < m)
      <3>1. k \in m .. n - 1 /\ \A l \in 0 .. m - 1 : l \in 0 .. total - 1
        BY <2>2
      <3>2. InFile(c, At(dst, k)[1], At(dst, k)[2]) = InFile(b, At(src, k)[1], At(src, k)[2])
        BY <3>1 DEF Moved
      <3>3. \A l \in 0 .. m - 1 : At(dst, l) # <<At(src, k)[1], At(src, k)[2]>>
        BY <1>2, <2>0, <3>1 DEF Distinct
      <3>4. InFile(b, At(src, k)[1], At(src, k)[2]) = InFile(a, At(src, k)[1], At(src, k)[2])
        BY <1>1, <3>3 DEF Moved
      <3> QED
        BY <3>2, <3>4
    <2> QED
      BY <2>1, <2>2
  <1>4. ASSUME NEW fd \in D, NEW pos \in Nat, \A k \in 0 .. n - 1 : At(dst, k) # <<fd, pos>>
        PROVE  InFile(c, fd, pos) = InFile(a, fd, pos)
    <2>1. 0 .. m - 1 \subseteq 0 .. n - 1 /\ m .. n - 1 \subseteq 0 .. n - 1
      OBVIOUS
    <2>2. InFile(b, fd, pos) = InFile(a, fd, pos)
      BY <1>4, <2>1 DEF Moved
    <2>3. InFile(c, fd, pos) = InFile(b, fd, pos)
      BY <1>4, <2>1 DEF Moved
    <2> QED
      BY <2>2, <2>3
  <1> QED
    BY <1>3, <1>4 DEF Moved

\* fuse_buf_copy moves all the bytes it reports.
LEMMA FuseBufCopyMoves ==
  ASSUME NEW D, NEW src, NEW dst, IsBufvec(src, D), IsBufvec(dst, D),
         NEW from, DOMAIN from = D, \A fd \in D : from[fd] \in Seq(Byte),
         Distinct(src, dst, Min({Total(src), Total(dst)}))
  PROVE  Moved(from, FuseBufCopy(from, src, dst).content, src, dst, D, 0, FuseBufCopy(from, src, dst).done)
  <1> DEFINE n == Min({Total(src), Total(dst)})
  <1> DEFINE s0 == [content |-> from, done |-> 0, short |-> FALSE]
  <1> DEFINE s1 == CopyChunk(src, dst, s0)
  <1> DEFINE s2 == CopyChunk(src, dst, s1)
  <1> DEFINE s3 == CopyChunk(src, dst, s2)
  <1>1. n \in Nat /\ n <= Total(src) /\ n <= Total(dst)
    BY LeastTotal
  <1>2. s0.content = from /\ s0.done = 0
    OBVIOUS
  <1>n. n = Min({Total(src), Total(dst)})
    OBVIOUS
  <1>a. s1 = CopyChunk(src, dst, s0)
    OBVIOUS
  <1>b. s2 = CopyChunk(src, dst, s1)
    OBVIOUS
  <1>c. s3 = CopyChunk(src, dst, s2)
    OBVIOUS
  <1>d. Distinct(src, dst, n)
    OBVIOUS
  <1>9. FuseBufCopy(from, src, dst) = s3
    BY Zenon DEF FuseBufCopy
  <1> HIDE DEF n, s0, s1, s2, s3
  <1>3. Copying(s0, D, n)
    BY <1>1, <1>2 DEF Copying
  <1>4. Copying(s1, D, n) /\ Moved(s0.content, s1.content, src, dst, D, s0.done, s1.done)
    <2>1. Copying(s1, D, n)
      BY <1>n, <1>a, <1>3, CopyChunkStep, Zenon
    <2>2. Moved(s0.content, s1.content, src, dst, D, s0.done, s1.done)
      BY <1>n, <1>a, <1>3, CopyChunkMoves, Zenon
    <2> QED
      BY <2>1, <2>2
  <1>5. Copying(s2, D, n) /\ s1.done <= s2.done /\ Moved(s1.content, s2.content, src, dst, D, s1.done, s2.done)
    <2>0. Copying(s1, D, n)
      BY <1>4
    <2>1. Copying(s2, D, n) /\ s1.done <= s2.done
      BY <1>n, <1>b, <2>0, CopyChunkStep, Zenon
    <2>2. Moved(s1.content, s2.content, src, dst, D, s1.done, s2.done)
      BY <1>n, <1>b, <2>0, CopyChunkMoves, Zenon
    <2> QED
      BY <2>1, <2>2
  <1>6. Copying(s3, D, n) /\ s2.done <= s3.done /\ Moved(s2.content, s3.content, src, dst, D, s2.done, s3.done)
    <2>0. Copying(s2, D, n)
      BY <1>5
    <2>1. Copying(s3, D, n) /\ s2.done <= s3.done
      BY <1>n, <1>c, <2>0, CopyChunkStep, Zenon
    <2>2. Moved(s2.content, s3.content, src, dst, D, s2.done, s3.done)
      BY <1>n, <1>c, <2>0, CopyChunkMoves, Zenon
    <2> QED
      BY <2>1, <2>2
  <1>7. /\ s1.done \in Nat /\ s2.done \in Nat /\ s3.done \in Nat
        /\ s1.done <= n /\ s2.done <= n /\ s3.done <= n
    BY <1>1, <1>4, <1>5, <1>6 DEF Copying
  <1>8. Moved(from, s1.content, src, dst, D, 0, s1.done)
    BY <1>2, <1>4
  <1>10. Moved(from, s2.content, src, dst, D, 0, s2.done)
    BY <1>1, <1>d, <1>5, <1>7, <1>8, MovedTwice, Zenon
  <1>11. Moved(from, s3.content, src, dst, D, 0, s3.done)
    BY <1>1, <1>d, <1>6, <1>7, <1>10, MovedTwice, Zenon
  <1> QED
    BY <1>9, <1>11

\* Byte k of a file's part is byte off + k of the file.
LEMMA SplitAt ==
  ASSUME Typed, NEW i \in Files, NEW size \in Nat \ {0}, NEW off \in Nat, NEW k \in 0 .. size - 1
  PROVE  At(Split(i, size, off), k) = Loc(i, off + k)
  <1> DEFINE a == Aggr(file[i].aggr.file)
  <1> DEFINE no == file[i].aggr.no * BlockSize
  <1>1. BlockSize \in Nat \ {0} /\ file[i].aggr.no \in Nat
    BY FileDataAssumption, FileType
  <1>2. no \in Nat
    BY <1>1
  <1>3. /\ off + k < BlockSize => Loc(i, off + k) = <<a, no + (off + k)>>
        /\ ~ (off + k < BlockSize) => Loc(i, off + k) = <<Large(i), off + k - BlockSize>>
    <2>1. PICK m : m = off + k
      OBVIOUS
    <2>2. Loc(i, m) = IF m < BlockSize THEN <<a, no + m>> ELSE <<Large(i), m - BlockSize>>
      BY Zenon DEF Loc
    <2> HIDE DEF a, no
    <2> QED
      BY <1>1, <1>2, <2>1, <2>2
  <1>4. CASE size + off <= BlockSize
    <2>0. ~ (off >= BlockSize)
      BY <1>1, <1>4
    <2>1. Split(i, size, off) = <<Piece(a, no + off, size)>>
      BY <1>4, <2>0 DEF Split
    <2>2. At(Split(i, size, off), k) = <<a, no + off + k>>
      BY <2>1 DEF At, Piece
    <2>3. off + k < BlockSize /\ no + off + k = no + (off + k)
      BY <1>1, <1>2, <1>4
    <2> QED
      BY <1>3, <2>2, <2>3
  <1>5. CASE ~ (size + off <= BlockSize) /\ off >= BlockSize
    <2>1. Split(i, size, off) = <<Piece(Large(i), off - BlockSize, size)>>
      BY <1>5 DEF Split
    <2>2. At(Split(i, size, off), k) = <<Large(i), off - BlockSize + k>>
      BY <2>1 DEF At, Piece
    <2>3. ~ (off + k < BlockSize) /\ off - BlockSize + k = off + k - BlockSize
      BY <1>1, <1>5
    <2> QED
      BY <1>3, <2>2, <2>3
  <1>6. CASE ~ (size + off <= BlockSize) /\ ~ (off >= BlockSize)
    <2> DEFINE p == Piece(a, no + off, BlockSize - off)
    <2> DEFINE q == Piece(Large(i), 0, size - (BlockSize - off))
    <2>1. Split(i, size, off) = <<p, q>>
      BY <1>6 DEF Split
    <2>2. p.fd = a /\ p.pos = no + off /\ p.size = BlockSize - off /\ q.fd = Large(i) /\ q.pos = 0
      BY DEF Piece
    <2> HIDE DEF p, q, a, no
    <2>3. CASE k < BlockSize - off
      <3>1. At(Split(i, size, off), k) = <<a, no + off + k>>
        BY <2>1, <2>2, <2>3 DEF At
      <3>2. off + k < BlockSize /\ no + off + k = no + (off + k)
        BY <1>1, <1>2, <2>3
      <3> QED
        BY <1>3, <3>1, <3>2
    <2>4. CASE ~ (k < BlockSize - off)
      <3>1. At(Split(i, size, off), k) = <<Large(i), 0 + k - (BlockSize - off)>>
        BY <2>1, <2>2, <2>4 DEF At
      <3>2. ~ (off + k < BlockSize) /\ 0 + k - (BlockSize - off) = off + k - BlockSize
        BY <1>1, <2>4
      <3> QED
        BY <1>3, <3>1, <3>2
    <2> QED
      BY <2>3, <2>4
  <1> QED
    BY <1>4, <1>5, <1>6

\* ReadBuf leaves out bytes of the end only, and only of a large file there is not.
LEMMA ReadPiecesAt ==
  ASSUME Typed, NEW i \in Files, NEW size \in Nat \ {0}, NEW off \in Nat
  PROVE  /\ Total(ReadPieces(i, size, off)) \in 0 .. size
         /\ \A k \in 0 .. Total(ReadPieces(i, size, off)) - 1 : At(ReadPieces(i, size, off), k) = Loc(i, off + k)
         /\ Total(ReadPieces(i, size, off)) < size =>
              /\ Large(i) \notin DOMAIN content
              /\ off + Total(ReadPieces(i, size, off)) >= BlockSize
  <1> DEFINE s == Split(i, size, off)
  <1>0. BlockSize \in Nat \ {0}
    BY FileDataAssumption
  <1>1. Total(s) = size /\ IsBufvec(s, Fds) /\ \A k \in 0 .. size - 1 : At(s, k) = Loc(i, off + k)
    BY SplitType, SplitAt
  <1>2. CASE size + off <= BlockSize \/ Large(i) \in DOMAIN content
    <2>1. ReadPieces(i, size, off) = s
      BY <1>2 DEF ReadPieces
    <2> HIDE DEF s
    <2> QED
      BY <1>1, <2>1
  <1>3. CASE ~ (size + off <= BlockSize \/ Large(i) \in DOMAIN content) /\ off >= BlockSize
    <2>1. ReadPieces(i, size, off) = <<>>
      BY <1>3 DEF ReadPieces
    <2>2. Total(<<>>) = 0
      BY DEF Total
    <2> QED
      BY <1>0, <1>3, <2>1, <2>2
  <1>4. CASE ~ (size + off <= BlockSize \/ Large(i) \in DOMAIN content) /\ ~ (off >= BlockSize)
    <2>1. ReadPieces(i, size, off) = <<s[1]>>
      BY <1>4 DEF ReadPieces
    <2>2. s[1].size = BlockSize - off
      BY <1>4 DEF Split, Piece
    <2> HIDE DEF s
    <2>3. Total(<<s[1]>>) = s[1].size
      <3>1. PICK p : p = s[1]
        OBVIOUS
      <3>2. <<p>> # <<>> /\ Len(<<p>>) = 1 /\ <<p>>[1] = p
        OBVIOUS
      <3>3. p.size \in Nat
        BY <1>1, <3>1, TotalType
      <3>4. Total(<<p>>) = p.size + 0
        BY <3>2 DEF Total
      <3> QED
        BY <3>1, <3>3, <3>4
    <2>4. s[1].size \in 0 .. size /\ s[1].size < size /\ off + s[1].size = BlockSize
      BY <1>0, <1>4, <2>2
    <2>5. \A k \in 0 .. s[1].size - 1 : At(<<s[1]>>, k) = At(s, k)
      BY <2>4 DEF At
    <2>6. \A k \in 0 .. s[1].size - 1 : k \in 0 .. size - 1
      BY <2>4
    <2>7. \A k \in 0 .. s[1].size - 1 : At(<<s[1]>>, k) = Loc(i, off + k)
      BY <1>1, <2>5, <2>6
    <2> QED
      BY <1>0, <1>4, <2>1, <2>3, <2>4, <2>7
  <1> QED
    BY <1>2, <1>3, <1>4

\* Blocks of an aggregation file do not overlap.
LEMMA BlocksApart ==
  ASSUME NEW B \in Nat \ {0}, NEW m \in Nat, NEW n \in Nat, NEW k \in 0 .. B - 1, NEW l \in 0 .. B - 1,
         m * B + k = n * B + l
  PROVE  m = n /\ k = l
  <1>1. ASSUME NEW x \in Nat, NEW y \in Nat, x < y, NEW p \in 0 .. B - 1, NEW q \in 0 .. B - 1, x * B + p = y * B + q
        PROVE  FALSE
    <2>1. PICK d \in Nat \ {0} : y = x + d
      BY <1>1, y - x \in Nat \ {0}, y = x + (y - x)
    <2>2. y * B = x * B + d * B
      BY <2>1
    <2>3. d * B >= B
      <3>1. PICK e \in Nat : d = e + 1
        BY d - 1 \in Nat, d = (d - 1) + 1
      <3>2. d * B = e * B + B /\ e * B \in Nat
        BY <3>1
      <3> QED
        BY <3>2
    <2>4. x * B \in Nat /\ y * B \in Nat /\ d * B \in Nat
      OBVIOUS
    <2>5. PICK xb, yb, db : xb = x * B /\ yb = y * B /\ db = d * B
      OBVIOUS
    <2>6. xb \in Nat /\ yb \in Nat /\ db \in Nat /\ yb = xb + db /\ db >= B /\ xb + p = yb + q
      BY <1>1, <2>2, <2>3, <2>4, <2>5
    <2> QED
      BY <2>6
  <1>2. m = n
    BY <1>1
  <1>3. m * B \in Nat
    OBVIOUS
  <1>4. PICK x : x = m * B
    OBVIOUS
  <1>5. x \in Nat /\ x + k = x + l
    BY <1>2, <1>3, <1>4
  <1> QED
    BY <1>2, <1>5

\* A byte of a file that is alone in its block belongs to no other file.
LEMMA LocApart ==
  Typed => \A i \in Files, j \in Files, k \in Nat, l \in Nat :
             (i \in Alone \/ i = j) /\ Loc(i, k) = Loc(j, l) => i = j /\ k = l
  <1> SUFFICES ASSUME Typed, NEW i \in Files, NEW j \in Files, NEW k \in Nat, NEW l \in Nat,
                      i \in Alone \/ i = j, Loc(i, k) = Loc(j, l)
               PROVE  i = j /\ k = l
    OBVIOUS
  <1>1. BlockSize \in Nat \ {0} /\ file[i].aggr.no \in Nat /\ file[j].aggr.no \in Nat
    BY FileDataAssumption, FileType
  <1>2. CASE k < BlockSize
    <2>1. Loc(i, k) = <<Aggr(file[i].aggr.file), file[i].aggr.no * BlockSize + k>>
      BY <1>2 DEF Loc
    <2>2. l < BlockSize
      <3>1. ASSUME ~ (l < BlockSize) PROVE FALSE
        BY <2>1, <3>1 DEF Loc, Aggr, Large
      <3> QED
        BY <3>1
    <2>3. Loc(j, l) = <<Aggr(file[j].aggr.file), file[j].aggr.no * BlockSize + l>>
      BY <2>2 DEF Loc
    <2>4. /\ file[i].aggr.file = file[j].aggr.file
          /\ file[i].aggr.no * BlockSize + k = file[j].aggr.no * BlockSize + l
      <3>1. PICK x : x = file[i].aggr.no * BlockSize + k
        OBVIOUS
      <3>2. PICK y : y = file[j].aggr.no * BlockSize + l
        OBVIOUS
      <3>3. <<Aggr(file[i].aggr.file), x>> = <<Aggr(file[j].aggr.file), y>>
        BY <2>1, <2>3, <3>1, <3>2
      <3> QED
        BY <3>1, <3>2, <3>3 DEF Aggr
    <2>5. k \in 0 .. BlockSize - 1 /\ l \in 0 .. BlockSize - 1
      BY <1>1, <1>2, <2>2
    <2>6. file[i].aggr.no = file[j].aggr.no /\ k = l
      <3>1. PICK m, n : m = file[i].aggr.no /\ n = file[j].aggr.no
        OBVIOUS
      <3>2. m \in Nat /\ n \in Nat /\ m * BlockSize + k = n * BlockSize + l
        BY <1>1, <2>4, <3>1
      <3>3. m = n /\ k = l
        BY <1>1, <2>5, <3>2, BlocksApart
      <3> QED
        BY <3>1, <3>3
    <2>7. file[i].aggr = file[j].aggr
      <3>1. file[i].aggr \in [file : Nat, no : 0 .. BlockLimit - 1] /\ file[j].aggr \in [file : Nat, no : 0 .. BlockLimit - 1]
        BY FileType DEF FileRec
      <3> QED
        BY <2>4, <2>6, <3>1
    <2> QED
      BY <2>6, <2>7 DEF Alone
  <1>3. CASE ~ (k < BlockSize)
    <2>1. Loc(i, k) = <<Large(i), k - BlockSize>>
      BY <1>3 DEF Loc
    <2>2. ~ (l < BlockSize)
      BY <2>1 DEF Loc, Aggr, Large
    <2>3. Loc(j, l) = <<Large(j), l - BlockSize>>
      BY <2>2 DEF Loc
    <2>4. <<Large(i), k - BlockSize>> = <<Large(j), l - BlockSize>>
      BY <2>1, <2>3
    <2>5. i = j /\ k - BlockSize = l - BlockSize
      BY <2>4 DEF Large
    <2> QED
      BY <1>1, <2>5
  <1> QED
    BY <1>2, <1>3

\* The same after a step.
LEMMA LocApartNext ==
  (Typed => \A i \in Files, j \in Files, k \in Nat, l \in Nat :
              (i \in Alone \/ i = j) /\ Loc(i, k) = Loc(j, l) => i = j /\ k = l)'
  BY LocApart, PTL

\* Where a byte belongs, as a pair.
LEMMA LocType ==
  ASSUME Typed, NEW i \in Files, NEW k \in Nat
  PROVE  /\ Loc(i, k) = <<Loc(i, k)[1], Loc(i, k)[2]>>
         /\ Loc(i, k)[1] \in Fds /\ Loc(i, k)[2] \in Nat
  <1>1. BlockSize \in Nat \ {0} /\ file[i].aggr.no \in Nat /\ Aggr(file[i].aggr.file) \in Fds /\ Large(i) \in Fds
    BY FileDataAssumption, FileType
  <1>2. CASE k < BlockSize
    <2>1. Loc(i, k) = <<Aggr(file[i].aggr.file), file[i].aggr.no * BlockSize + k>>
      BY <1>2 DEF Loc
    <2>2. file[i].aggr.no * BlockSize + k \in Nat
      BY <1>1
    <2> QED
      BY <1>1, <2>1, <2>2
  <1>3. CASE ~ (k < BlockSize)
    <2>1. Loc(i, k) = <<Large(i), k - BlockSize>> /\ k - BlockSize \in Nat
      BY <1>1, <1>3 DEF Loc
    <2> QED
      BY <1>1, <2>1
  <1> QED
    BY <1>2, <1>3

\* The same for every byte of every file.
LEMMA LocTypes ==
  Typed => \A i \in Files, l \in Nat : Loc(i, l) = <<Loc(i, l)[1], Loc(i, l)[2]>> /\ Loc(i, l)[2] \in Nat
  BY LocType

\* A file that was only opened has no bytes.
LEMMA OpenedBytes ==
  ASSUME NEW ps, NEW fd \in DOMAIN Opened(ps), NEW pos \in Nat
  PROVE  InFile(Opened(ps), fd, pos) = InFile(content, fd, pos)
  <1> DEFINE fds == {p.fd : p \in Range(ps)}
  <1>1. Opened(ps) = [f \in DOMAIN content \cup fds |-> IF f \in DOMAIN content THEN content[f] ELSE <<>>]
    BY Zenon DEF Opened
  <1> HIDE DEF fds
  <1>2. CASE fd \in DOMAIN content
    BY <1>1, <1>2 DEF InFile
  <1>3. CASE fd \notin DOMAIN content
    <2>1. Opened(ps)[fd] = <<>>
      BY <1>1, <1>3
    <2>2. ByteOf(<<>>, pos) = Zero
      BY DEF ByteOf
    <2> QED
      BY <1>3, <2>1, <2>2 DEF InFile
  <1> QED
    BY <1>2, <1>3

\* A call wrote the bytes new at off of file i, and nothing else.
Wrote(i, off, new) ==
  /\ \A k \in 0 .. Len(new) - 1 :
       InFile(content', Loc(i, off + k)[1], Loc(i, off + k)[2]) = new[k + 1]
  /\ \A fd \in DOMAIN content', pos \in Nat :
       (\A k \in 0 .. Len(new) - 1 : Loc(i, off + k) # <<fd, pos>>) =>
         InFile(content', fd, pos) = InFile(content, fd, pos)

\* A call copied n bytes of file in to file out, and changed nothing else.
Copied(in, off_in, out, off_out, n) ==
  /\ \A k \in 0 .. n - 1 :
       InFile(content', Loc(out, off_out + k)[1], Loc(out, off_out + k)[2]) =
       InFile(content, Loc(in, off_in + k)[1], Loc(in, off_in + k)[2])
  /\ \A fd \in DOMAIN content', pos \in Nat :
       (\A k \in 0 .. n - 1 : Loc(out, off_out + k) # <<fd, pos>>) =>
         InFile(content', fd, pos) = InFile(content, fd, pos)

-----------------------------------------------------------------------------
(* Steps of writers *)

\* A copy from memory that holds all the bytes copies some of them.
LEMMA CopyFromMem ==
  ASSUME NEW D, Mem \in D, NEW size \in Nat \ {0}, NEW dst, IsBufvec(dst, D), Total(dst) = size,
         NEW from, DOMAIN from = D, \A fd \in D : from[fd] \in Seq(Byte), Len(from[Mem]) = size,
         NEW src, src = <<Piece(Mem, 0, size)>>
  PROVE  FuseBufCopy(from, src, dst).done \in 1 .. size
  <1>1. IsBufvec(src, D)
    BY DEF IsBufvec, PieceOf, Piece
  <1>2. src[1].size = size /\ src[1].fd = Mem /\ src[1].pos = 0 /\ Len(src) = 1
    BY DEF Piece
  <1>3. At(src, 0) = <<Mem, 0>>
    BY <1>2 DEF At
  <1>4. Total(src) = size
    BY <1>1, <1>2, TotalType
  <1>6. Min({size, size}) = size
    BY MinOfTwo
  <1>7. PICK done : done = FuseBufCopy(from, src, dst).done
    OBVIOUS
  <1>8. /\ Copying(FuseBufCopy(from, src, dst), D, Min({size, size}))
        /\ Min({size, size}) # 0 =>
             \E end \in 1 .. Min({size, size}) :
               Len(Pread(from[At(src, 0)[1]], At(src, 0)[2], end)) <= FuseBufCopy(from, src, dst).done
    BY <1>1, <1>4, FuseBufCopyType
  <1>9. PICK end \in 1 .. size : Len(Pread(from[Mem], 0, end)) <= done
    <2>1. PICK end \in 1 .. size :
                    Len(Pread(from[At(src, 0)[1]], At(src, 0)[2], end)) <= FuseBufCopy(from, src, dst).done
      BY <1>6, <1>8
    <2>2. At(src, 0)[1] = Mem /\ At(src, 0)[2] = 0
      BY <1>3
    <2> QED
      BY <1>7, <2>1, <2>2
  <1>10. Len(Pread(from[Mem], 0, end)) = end
    BY PreadType
  <1>11. done \in 0 .. size
    BY <1>6, <1>7, <1>8 DEF Copying
  <1> QED
    BY <1>7, <1>9, <1>10, <1>11

\* The local files after a step: those there were, and no other kind of file.
Stored(old, new) ==
  /\ DOMAIN old \subseteq DOMAIN new /\ DOMAIN new \subseteq Fds
  /\ \A fd \in DOMAIN new : new[fd] \in Seq(Byte)

\* What a writer hands over.
LEMMA BytesType ==
  ASSUME NEW i \in Nat, NEW off \in Nat, NEW size \in Nat, NEW v \in Values
  PROVE  Bytes(i, off, size, v) \in Seq(Byte) /\ Len(Bytes(i, off, size, v)) = size
  <1>1. \A k \in 1 .. size : <<i, off + k - 1, v>> \in Byte
    BY DEF Byte
  <1>2. PICK f : f = [k \in 1 .. size |-> <<i, off + k - 1, v>>]
    OBVIOUS
  <1>3. DOMAIN f = 1 .. size /\ \A k \in 1 .. size : f[k] \in Byte
    BY <1>1, <1>2
  <1>4. f = [k \in 1 .. size |-> f[k]]
    BY <1>2
  <1>5. f \in Seq(Byte) /\ Len(f) = size
    BY <1>3, <1>4
  <1> QED
    BY <1>2, <1>5 DEF Bytes

\* KTableFS::WriteBuf writes some of its bytes and reports as many.
LEMMA WriteBufStep ==
  ASSUME Typed, NEW i \in Files, NEW size \in Nat \ {0}, NEW off \in Nat, NEW v \in Values,
         WriteBuf(i, size, off, v)
  PROVE  /\ Stored(content, content')
         /\ \E done \in 1 .. size :
              /\ Grow(i, off + done)
              /\ flat' = [flat EXCEPT ![i] = Pwrite(@, off, SubSeq(Bytes(i, off, size, v), 1, done))]
              /\ Wrote(i, off, SubSeq(Bytes(i, off, size, v), 1, done))
         /\ UNCHANGED <<cur_aggr_file, cur_aggr_index, creating>>
  <1> DEFINE dst == Split(i, size, off)
  <1> DEFINE new == Bytes(i, off, size, v)
  <1> DEFINE opened == Opened(dst)
  <1> DEFINE O == DOMAIN opened
  <1> DEFINE D == O \cup {Mem}
  <1> DEFINE from == [fd \in D |-> IF fd = Mem THEN new ELSE opened[fd]]
  <1> DEFINE src == <<Piece(Mem, 0, size)>>
  <1> DEFINE res == FuseBufCopy(from, src, dst)
  <1>1. /\ content' = [fd \in O |-> res.content[fd]]
        /\ Grow(i, off + res.done)
        /\ flat' = [flat EXCEPT ![i] = Pwrite(@, off, SubSeq(new, 1, res.done))]
        /\ UNCHANGED <<cur_aggr_file, cur_aggr_index, creating>>
    BY Zenon DEF WriteBuf
  <1>2. IsBufvec(dst, Fds) /\ Total(dst) = size /\ \A k \in 0 .. size - 1 : At(dst, k) = Loc(i, off + k)
    BY SplitType, SplitAt
  <1>3. new \in Seq(Byte) /\ Len(new) = size
    BY FileType, BytesType
  <1>o. \A fd \in O, pos \in Nat : InFile(opened, fd, pos) = InFile(content, fd, pos)
    BY OpenedBytes
  <1> HIDE DEF dst, new
  <1>4. DOMAIN content \subseteq O /\ O \subseteq Fds /\ Mem \notin O /\ IsBufvec(dst, O)
        /\ \A fd \in O : opened[fd] \in Seq(Byte)
    BY <1>2, OpenedType
  <1>e. O = DOMAIN opened
    OBVIOUS
  <1> HIDE DEF opened, O
  <1>5. DOMAIN from = D /\ (\A fd \in D : from[fd] \in Seq(Byte)) /\ from[Mem] = new /\ Mem \in D
        /\ \A fd \in O : from[fd] = opened[fd]
    BY <1>3, <1>4
  <1> HIDE DEF from
  <1>6. IsBufvec(dst, D)
    <2>1. \A n \in DOMAIN dst : dst[n].fd \in D
      BY <1>4, BufvecFd
    <2> HIDE DEF D
    <2> QED
      BY <1>4, <2>1, BufvecIn
  <1>7. IsBufvec(src, D)
    BY DEF IsBufvec, PieceOf, Piece
  <1>d. O \subseteq D
    OBVIOUS
  <1> HIDE DEF D
  <1>8. res.done \in 1 .. size
    BY <1>2, <1>3, <1>5, <1>6, CopyFromMem
  <1>s. \A k \in 0 .. size - 1 : At(src, k) = <<Mem, k>>
    BY DEF At, Piece
  <1>t. Total(src) = size
    BY DEF Total, Piece
  <1> HIDE DEF src
  <1>9. Copying(res, D, Min({Total(src), Total(dst)}))
    BY <1>5, <1>6, <1>7, FuseBufCopyType
  <1>m. Moved(from, res.content, src, dst, D, 0, res.done)
    <2>1. Min({Total(src), Total(dst)}) = size
      BY <1>2, <1>t, MinOfTwo
    <2>2. Distinct(src, dst, size)
      <3> SUFFICES ASSUME NEW k \in 0 .. size - 1, NEW l \in 0 .. size - 1
                   PROVE  (k # l => At(dst, k) # At(dst, l)) /\ At(src, k) # At(dst, l)
        BY DEF Distinct
      <3>1. At(dst, k) = Loc(i, off + k) /\ At(dst, l) = Loc(i, off + l) /\ At(src, k) = <<Mem, k>>
        BY <1>2, <1>s
      <3>2. off + k \in Nat /\ off + l \in Nat /\ (off + k = off + l => k = l)
        OBVIOUS
      <3>3. Loc(i, off + k) = Loc(i, off + l) => off + k = off + l
        BY <3>2, LocApart
      <3>4. Loc(i, off + l)[1] \in Fds
        BY <3>2, LocType
      <3>5. Mem \notin Fds
        BY DEF Mem, Fds
      <3> QED
        BY <3>1, <3>2, <3>3, <3>4, <3>5
    <2> QED
      BY <1>5, <1>6, <1>7, <2>1, <2>2, FuseBufCopyMoves
  <1> HIDE DEF res
  <1>10. Stored(content, content')
    BY <1>1, <1>4, <1>9 DEF Stored, Copying, D
  <1>11. Wrote(i, off, SubSeq(new, 1, res.done))
    <2>1. PICK b : b = SubSeq(new, 1, res.done)
      OBVIOUS
    <2>2. Len(b) = res.done /\ \A k \in 0 .. res.done - 1 : b[k + 1] = new[k + 1]
      BY <1>3, <1>8, <2>1
    <2>3. \A fd \in O, pos \in Nat : InFile(content', fd, pos) = InFile(res.content, fd, pos)
      BY <1>1, <1>9, <1>d DEF InFile, Copying
    <2>4. ASSUME NEW k \in 0 .. res.done - 1
          PROVE  InFile(content', Loc(i, off + k)[1], Loc(i, off + k)[2]) = b[k + 1]
      <3>1. k \in 0 .. size - 1 /\ k \in Nat /\ k < Total(dst)
        BY <1>2, <1>8
      <3>2. At(dst, k) = Loc(i, off + k) /\ At(src, k) = <<Mem, k>>
        BY <1>2, <1>s, <3>1
      <3>3. At(dst, k)[1] \in O /\ At(dst, k)[2] \in Nat
        BY <1>4, <3>1, AtType
      <3>4. InFile(res.content, At(dst, k)[1], At(dst, k)[2]) = InFile(from, At(src, k)[1], At(src, k)[2])
        BY <1>m DEF Moved
      <3>5. InFile(from, Mem, k) = new[k + 1]
        BY <1>3, <1>5, <3>1 DEF InFile, ByteOf
      <3> QED
        BY <2>2, <2>3, <3>2, <3>3, <3>4, <3>5
    <2>5. ASSUME NEW fd \in DOMAIN content', NEW pos \in Nat, \A k \in 0 .. res.done - 1 : Loc(i, off + k) # <<fd, pos>>
          PROVE  InFile(content', fd, pos) = InFile(content, fd, pos)
      <3>1. fd \in O
        BY <1>1
      <3>2. \A k \in 0 .. res.done - 1 : k \in 0 .. size - 1
        BY <1>8
      <3>3. \A k \in 0 .. res.done - 1 : At(dst, k) # <<fd, pos>>
        BY <1>2, <2>5, <3>2
      <3>4. InFile(res.content, fd, pos) = InFile(from, fd, pos)
        BY <1>d, <1>m, <3>1, <3>3 DEF Moved
      <3>5. InFile(from, fd, pos) = InFile(opened, fd, pos)
        BY <1>e, <1>d, <1>5, <3>1 DEF InFile
      <3> QED
        BY <1>o, <2>3, <3>1, <3>4, <3>5
    <2> QED
      BY <2>1, <2>2, <2>4, <2>5 DEF Wrote
  <1> QED
    BY <1>1, <1>8, <1>10, <1>11 DEF new

\* KTableFS::CopyFileRange copies at most size bytes, to where they belong in the file
\* out from where they belong in the file in, which is alone in its block.
LEMMA CopyFileRangeStep ==
  ASSUME Typed, NEW in \in Alone, NEW off_in \in Nat, NEW out \in Files, NEW off_out \in Nat,
         NEW size \in Nat \ {0}, CopyFileRange(in, off_in, out, off_out, size)
  PROVE  /\ Stored(content, content')
         /\ off_in + size <= file[in].st_size
         /\ \E done \in 0 .. size :
              /\ Grow(out, off_out + done)
              /\ flat' = [flat EXCEPT ![out] =
                            Extended(Pwrite(@, off_out, SubSeq(flat[in], off_in + 1, off_in + done)), off_out)]
              /\ Copied(in, off_in, out, off_out, done)
         /\ UNCHANGED <<cur_aggr_file, cur_aggr_index, creating>>
  <1> DEFINE dst == Split(out, size, off_out)
  <1> DEFINE src == ReadPieces(in, size, off_in)
  <1> DEFINE opened == Opened(dst)
  <1> DEFINE O == DOMAIN opened
  <1> DEFINE res == FuseBufCopy(opened, src, dst)
  <1>i. in \in Files
    BY DEF Alone
  <1>1. /\ content' = res.content
        /\ off_in + size <= file[in].st_size
        /\ in = out => off_in + size <= off_out \/ off_out + size <= off_in
        /\ Grow(out, off_out + res.done)
        /\ flat' = [flat EXCEPT ![out] =
                      Extended(Pwrite(@, off_out, SubSeq(flat[in], off_in + 1, off_in + res.done)), off_out)]
        /\ UNCHANGED <<cur_aggr_file, cur_aggr_index, creating>>
    BY Zenon DEF CopyFileRange
  <1>2. IsBufvec(dst, Fds) /\ Total(dst) = size /\ \A k \in 0 .. size - 1 : At(dst, k) = Loc(out, off_out + k)
    BY SplitType, SplitAt
  <1>3. IsBufvec(src, DOMAIN content) /\ Total(src) \in 0 .. size
        /\ \A k \in 0 .. Total(src) - 1 : At(src, k) = Loc(in, off_in + k)
    BY <1>i, ReadPiecesType, ReadPiecesAt
  <1>o. \A fd \in O, pos \in Nat : InFile(opened, fd, pos) = InFile(content, fd, pos)
    BY OpenedBytes
  <1> HIDE DEF dst, src
  <1>4. DOMAIN content \subseteq O /\ O \subseteq Fds /\ IsBufvec(dst, O)
        /\ \A fd \in O : opened[fd] \in Seq(Byte)
    BY <1>2, OpenedType
  <1> HIDE DEF opened
  <1>5. IsBufvec(src, O)
    <2>1. \A n \in DOMAIN src : src[n].fd \in O
      BY <1>3, <1>4, BufvecFd
    <2> QED
      BY <1>3, <2>1, BufvecIn
  <1>6. Copying(res, O, Min({Total(src), Total(dst)}))
    BY <1>4, <1>5, FuseBufCopyType
  <1>t. PICK n : n = Min({Total(src), Total(dst)})
    OBVIOUS
  <1>n. n \in Nat /\ n <= size /\ n <= Total(src) /\ n <= Total(dst)
    BY <1>2, <1>4, <1>5, <1>t, LeastTotal
  <1>m. Moved(opened, res.content, src, dst, O, 0, res.done)
    <2>1. Distinct(src, dst, n)
      <3> SUFFICES ASSUME NEW k \in 0 .. n - 1, NEW l \in 0 .. n - 1
                   PROVE  (k # l => At(dst, k) # At(dst, l)) /\ At(src, k) # At(dst, l)
        BY DEF Distinct
      <3>1. /\ k \in 0 .. size - 1 /\ k \in 0 .. Total(src) - 1 /\ l \in 0 .. size - 1
            /\ k \in Nat /\ l \in Nat /\ k < size /\ l < size
        BY <1>3, <1>n
      <3>2. At(dst, k) = Loc(out, off_out + k) /\ At(dst, l) = Loc(out, off_out + l) /\ At(src, k) = Loc(in, off_in + k)
        BY <1>2, <1>3, <3>1
      <3>3. off_out + k \in Nat /\ off_out + l \in Nat /\ off_in + k \in Nat
            /\ (off_out + k = off_out + l => k = l)
        BY <3>1
      <3>4. Loc(out, off_out + k) = Loc(out, off_out + l) => off_out + k = off_out + l
        BY <3>3, LocApart
      <3>5. Loc(in, off_in + k) = Loc(out, off_out + l) => in = out /\ off_in + k = off_out + l
        BY <1>i, <3>3, LocApart
      <3>6. ~ (in = out /\ off_in + k = off_out + l)
        BY <1>1, <3>1
      <3> QED
        BY <3>2, <3>3, <3>4, <3>5, <3>6
    <2> QED
      BY <1>4, <1>5, <1>t, <2>1, FuseBufCopyMoves
  <1> HIDE DEF res
  <1>7. res.done \in 0 .. size /\ res.done <= n
    BY <1>6, <1>t, <1>n DEF Copying
  <1>8. Stored(content, content')
    BY <1>1, <1>4, <1>6 DEF Stored, Copying
  <1>9. Copied(in, off_in, out, off_out, res.done)
    <2>1. DOMAIN content' = O
      BY <1>1, <1>6 DEF Copying
    <2>2. ASSUME NEW k \in 0 .. res.done - 1
          PROVE  InFile(content', Loc(out, off_out + k)[1], Loc(out, off_out + k)[2]) =
                 InFile(content, Loc(in, off_in + k)[1], Loc(in, off_in + k)[2])
      <3>1. k \in 0 .. size - 1 /\ k \in 0 .. Total(src) - 1 /\ k \in Nat /\ k < Total(src)
        BY <1>3, <1>7, <1>n
      <3>2. At(dst, k) = Loc(out, off_out + k) /\ At(src, k) = Loc(in, off_in + k)
        BY <1>2, <1>3, <3>1
      <3>3. InFile(content', At(dst, k)[1], At(dst, k)[2]) = InFile(opened, At(src, k)[1], At(src, k)[2])
        BY <1>1, <1>m DEF Moved
      <3>4. At(src, k)[1] \in O /\ At(src, k)[2] \in Nat
        BY <1>5, <3>1, AtType
      <3>5. InFile(opened, At(src, k)[1], At(src, k)[2]) = InFile(content, At(src, k)[1], At(src, k)[2])
        BY <1>o, <3>4
      <3> QED
        BY <3>2, <3>3, <3>5
    <2>3. ASSUME NEW fd \in DOMAIN content', NEW pos \in Nat, \A k \in 0 .. res.done - 1 : Loc(out, off_out + k) # <<fd, pos>>
          PROVE  InFile(content', fd, pos) = InFile(content, fd, pos)
      <3>1. \A k \in 0 .. res.done - 1 : k \in 0 .. size - 1
        BY <1>7
      <3>2. \A k \in 0 .. res.done - 1 : At(dst, k) # <<fd, pos>>
        BY <1>2, <2>3, <3>1
      <3>3. InFile(content', fd, pos) = InFile(opened, fd, pos)
        BY <1>1, <1>m, <2>1, <3>2 DEF Moved
      <3> QED
        BY <1>o, <2>1, <3>3
    <2> QED
      BY <2>2, <2>3 DEF Copied
  <1> QED
    BY <1>1, <1>7, <1>8, <1>9

-----------------------------------------------------------------------------
(* The invariants *)

\* A call that writes b to file i, ends it at end, and gives out no block.
LEMMA WrittenStep ==
  ASSUME Typed, NEW i \in Files, NEW end \in Nat, Grow(i, end), Stored(content, content'),
         NEW b \in Seq(Byte), flat' = [flat EXCEPT ![i] = b],
         UNCHANGED <<cur_aggr_file, cur_aggr_index, creating>>
  PROVE  /\ Typed'
         /\ InTurn => InTurn'
         /\ SizeIsEnd /\ Len(b) = (IF end > Len(flat[i]) THEN end ELSE Len(flat[i])) => SizeIsEnd'
  <1>1. /\ file' \in Seq(FileRec) /\ Len(file') = Len(file) /\ Files' = Files
        /\ \A j \in Files : file'[j].aggr = file[j].aggr /\ file'[j].last = file[j].last
        /\ \A j \in Files : j # i => file'[j] = file[j]
        /\ file'[i].st_size = IF end > file[i].st_size THEN end ELSE file[i].st_size
    BY GrowStep
  <1>2. /\ flat' \in Seq(Seq(Byte)) /\ Len(flat') = Len(flat)
        /\ \A j \in Files : flat'[j] = IF j = i THEN b ELSE flat[j]
    <2> DEFINE T == Seq(Byte)
    <2>1. b \in T /\ flat \in Seq(T) /\ i \in 1 .. Len(flat) /\ Files = 1 .. Len(flat)
      BY DEF Typed, Files
    <2> HIDE DEF T
    <2>2. flat' \in Seq(T) /\ Len(flat') = Len(flat) /\ \A j \in 1 .. Len(flat) : flat'[j] = IF j = i THEN b ELSE flat[j]
      BY <2>1, ExceptSeq
    <2> QED
      BY <2>1, <2>2 DEF T
  <1>3. Typed'
    <2>1. /\ cur_aggr_file' \in Nat /\ cur_aggr_index' \in 0 .. BlockLimit /\ creating' \subseteq Threads
          /\ Len(flat') = Len(file')
      BY <1>1, <1>2 DEF Typed
    <2>2. DOMAIN content' \subseteq Fds /\ \A fd \in DOMAIN content' : content'[fd] \in Seq(Byte)
      BY DEF Stored
    <2>3. \A j \in Files' : Aggr(file'[j].aggr.file) \in DOMAIN content'
      BY <1>1 DEF Typed, Stored
    <2>4. creating' # {} \/ cur_aggr_index' < BlockLimit => Aggr(cur_aggr_file') \in DOMAIN content'
      BY DEF Typed, Stored
    <2> QED
      BY <1>1, <1>2, <2>1, <2>2, <2>3, <2>4 DEF Typed
  <1>4. ASSUME InTurn PROVE InTurn'
    <2>1. \A j \in Files : Index(file'[j]) = Index(file[j]) /\ file'[j].aggr.file = file[j].aggr.file
      BY <1>1 DEF Index
    <2>2. \A j, k \in Files' : j < k =>
            Before(file'[j].aggr.file, Index(file'[j]), file'[k].aggr.file, Index(file'[k]))
      BY <1>1, <1>4, <2>1 DEF InTurn
    <2>3. \A j \in Files' :
            \/ Before(file'[j].aggr.file, Index(file'[j]), cur_aggr_file', cur_aggr_index')
            \/ creating' = {} /\ file'[j].aggr.file = cur_aggr_file' /\ Index(file'[j]) = cur_aggr_index'
      BY <1>1, <1>4, <2>1 DEF InTurn
    <2> QED
      BY <2>2, <2>3 DEF InTurn
  <1>5. ASSUME SizeIsEnd, Len(b) = (IF end > Len(flat[i]) THEN end ELSE Len(flat[i])) PROVE SizeIsEnd'
    <2> SUFFICES ASSUME NEW j \in Files PROVE file'[j].st_size = Len(flat'[j])
      BY <1>1 DEF SizeIsEnd
    <2>1. CASE j = i
      BY <1>1, <1>2, <1>5, <2>1 DEF SizeIsEnd
    <2>2. CASE j # i
      BY <1>1, <1>2, <1>5, <2>2 DEF SizeIsEnd
    <2> QED
      BY <2>1, <2>2
  <1> QED
    BY <1>3, <1>4, <1>5

\* A write.
LEMMA WriteBufInv ==
  ASSUME Typed, NEW i \in Files, NEW size \in Nat \ {0}, NEW off \in Nat, NEW v \in Values,
         WriteBuf(i, size, off, v)
  PROVE  Typed' /\ (InTurn => InTurn') /\ (SizeIsEnd => SizeIsEnd')
  <1>1. PICK done \in 1 .. size :
              /\ Stored(content, content')
              /\ Grow(i, off + done)
              /\ flat' = [flat EXCEPT ![i] = Pwrite(@, off, SubSeq(Bytes(i, off, size, v), 1, done))]
              /\ UNCHANGED <<cur_aggr_file, cur_aggr_index, creating>>
    BY WriteBufStep
  <1>2. PICK new : new = SubSeq(Bytes(i, off, size, v), 1, done)
    OBVIOUS
  <1>3. new \in Seq(Byte) /\ Len(new) = done
    <2>1. Bytes(i, off, size, v) \in Seq(Byte) /\ Len(Bytes(i, off, size, v)) = size
      BY FileType, BytesType
    <2>2. done \in Nat /\ 1 <= done /\ done <= size
      OBVIOUS
    <2>3. /\ SubSeq(Bytes(i, off, size, v), 1, done) \in Seq(Byte)
          /\ Len(SubSeq(Bytes(i, off, size, v), 1, done)) = IF 1 <= done THEN done - 1 + 1 ELSE 0
      BY <2>1, <2>2, SubSeqType
    <2> QED
      BY <1>2, <2>2, <2>3
  <1>4. flat[i] \in Seq(Byte)
    BY FileType
  <1>5. PICK b : b = Pwrite(flat[i], off, new)
    OBVIOUS
  <1>6. /\ b \in Seq(Byte)
        /\ Len(b) = IF new # <<>> /\ off + Len(new) > Len(flat[i]) THEN off + Len(new) ELSE Len(flat[i])
    BY <1>3, <1>4, <1>5, PwriteType
  <1>7. flat' = [flat EXCEPT ![i] = b]
    BY <1>1, <1>2, <1>5
  <1>8. Len(b) = IF off + done > Len(flat[i]) THEN off + done ELSE Len(flat[i])
    BY <1>3, <1>6
  <1>9. PICK end : end = off + done
    OBVIOUS
  <1>10. end \in Nat /\ Grow(i, end) /\ Len(b) = IF end > Len(flat[i]) THEN end ELSE Len(flat[i])
    BY <1>1, <1>8, <1>9
  <1> QED
    BY <1>1, <1>6, <1>7, <1>10, WrittenStep, Zenon

\* Where a file ends after a copy to off of done bytes.
LEMMA ExtendedType ==
  ASSUME NEW bytes \in Seq(Byte), NEW off \in Nat, NEW new \in Seq(Byte)
  PROVE  /\ Extended(Pwrite(bytes, off, new), off) \in Seq(Byte)
         /\ Len(Extended(Pwrite(bytes, off, new), off)) =
              IF off + Len(new) > Len(bytes) THEN off + Len(new) ELSE Len(bytes)
  <1>1. PICK p : p = Pwrite(bytes, off, new)
    OBVIOUS
  <1>2. /\ p \in Seq(Byte)
        /\ Len(p) = IF new # <<>> /\ off + Len(new) > Len(bytes) THEN off + Len(new) ELSE Len(bytes)
    BY <1>1, PwriteType
  <1>3. Len(bytes) \in Nat /\ Len(new) \in Nat /\ Len(p) \in Nat /\ (new = <<>> <=> Len(new) = 0)
    BY <1>2
  <1>4. CASE Len(p) < off
    <2>1. off - 1 \in Nat /\ <<Zero>> \in Seq(Byte) /\ Len(<<Zero>>) = 1 /\ <<Zero>> # <<>>
      BY <1>3, <1>4 DEF Byte
    <2>2. /\ Pwrite(p, off - 1, <<Zero>>) \in Seq(Byte)
          /\ Len(Pwrite(p, off - 1, <<Zero>>)) =
               IF <<Zero>> # <<>> /\ off - 1 + Len(<<Zero>>) > Len(p) THEN off - 1 + Len(<<Zero>>) ELSE Len(p)
      BY <1>2, <2>1, PwriteType
    <2>3. Len(Pwrite(p, off - 1, <<Zero>>)) = off
      BY <1>3, <1>4, <2>1, <2>2
    <2>4. Len(new) = 0 /\ off > Len(bytes)
      BY <1>2, <1>3, <1>4
    <2>5. Extended(p, off) = Pwrite(p, off - 1, <<Zero>>)
      BY <1>4 DEF Extended
    <2> QED
      BY <1>1, <1>3, <2>2, <2>3, <2>4, <2>5
  <1>5. CASE ~ (Len(p) < off)
    <2>1. Extended(p, off) = p
      BY <1>5 DEF Extended
    <2>2. Len(p) = IF off + Len(new) > Len(bytes) THEN off + Len(new) ELSE Len(bytes)
      BY <1>2, <1>3, <1>5
    <2> QED
      BY <1>1, <1>2, <2>1, <2>2
  <1> QED
    BY <1>4, <1>5

\* A copy: what it reads is where the file it reads from ends, or before.
LEMMA CopyFileRangeInv ==
  ASSUME Typed, SizeIsEnd, NEW in \in Alone, NEW off_in \in Nat, NEW out \in Files, NEW off_out \in Nat,
         NEW size \in Nat \ {0}, CopyFileRange(in, off_in, out, off_out, size)
  PROVE  Typed' /\ (InTurn => InTurn') /\ SizeIsEnd'
  <1>1. PICK done \in 0 .. size :
          /\ Stored(content, content')
          /\ off_in + size <= file[in].st_size
          /\ Grow(out, off_out + done)
          /\ flat' = [flat EXCEPT ![out] =
                        Extended(Pwrite(@, off_out, SubSeq(flat[in], off_in + 1, off_in + done)), off_out)]
          /\ UNCHANGED <<cur_aggr_file, cur_aggr_index, creating>>
    BY CopyFileRangeStep
  <1>2. PICK new : new = SubSeq(flat[in], off_in + 1, off_in + done)
    OBVIOUS
  <1>3. new \in Seq(Byte) /\ Len(new) = done
    <2>1. flat[in] \in Seq(Byte) /\ Len(flat[in]) \in Nat /\ off_in + size <= Len(flat[in])
      <3>1. in \in Files
        BY DEF Alone
      <3> QED
        BY <1>1, <3>1, FileType DEF SizeIsEnd
    <2>2. done \in Nat /\ off_in + done \in Nat /\ off_in + 1 \in Nat /\ off_in + done <= Len(flat[in])
      BY <2>1
    <2>3. /\ SubSeq(flat[in], off_in + 1, off_in + done) \in Seq(Byte)
          /\ Len(SubSeq(flat[in], off_in + 1, off_in + done)) =
               IF off_in + 1 <= off_in + done THEN off_in + done - (off_in + 1) + 1 ELSE 0
      BY <2>1, <2>2, SubSeqType
    <2> QED
      BY <1>2, <2>2, <2>3
  <1>4. flat[out] \in Seq(Byte)
    BY FileType
  <1>5. PICK b : b = Extended(Pwrite(flat[out], off_out, new), off_out)
    OBVIOUS
  <1>6. b \in Seq(Byte) /\ Len(b) = IF off_out + done > Len(flat[out]) THEN off_out + done ELSE Len(flat[out])
    BY <1>3, <1>4, <1>5, ExtendedType
  <1>7. flat' = [flat EXCEPT ![out] = b]
    BY <1>1, <1>2, <1>5
  <1>8. PICK end : end = off_out + done
    OBVIOUS
  <1>9. end \in Nat /\ Grow(out, end) /\ Len(b) = IF end > Len(flat[out]) THEN end ELSE Len(flat[out])
    BY <1>1, <1>6, <1>8
  <1> QED
    BY <1>1, <1>6, <1>7, <1>9, WrittenStep, Zenon

\* FileData::Create, first part: the counters move to a block of a file that exists.
LEMMA AdvanceTyped ==
  ASSUME Typed, NEW t \in Threads, Advance(t)
  PROVE  /\ Typed' /\ (SizeIsEnd => SizeIsEnd')
         /\ Before(cur_aggr_file, cur_aggr_index, cur_aggr_file', cur_aggr_index')
         /\ file' = file
  <1>1. /\ cur_aggr_file \in Nat /\ cur_aggr_index \in 0 .. BlockLimit /\ BlockLimit \in Nat \ {0}
        /\ creating' \subseteq Threads /\ file' = file /\ flat' = flat
    BY FileDataAssumption DEF Typed, Advance
  <1>2. CASE cur_aggr_index = BlockLimit
    <2> DEFINE a == Aggr(cur_aggr_file + 1)
    <2>1. /\ cur_aggr_file' = cur_aggr_file + 1 /\ cur_aggr_index' = 0
          /\ content' = [fd \in DOMAIN content \cup {a} |-> IF fd \in DOMAIN content THEN content[fd] ELSE <<>>]
      BY <1>2 DEF Advance
    <2>2. a \in Fds /\ Aggr(cur_aggr_file') = a
      BY <1>1, <2>1 DEF Fds, Aggr
    <2> HIDE DEF a
    <2>3. DOMAIN content' = DOMAIN content \cup {a}
      BY <2>1
    <2>4. \A fd \in DOMAIN content' : content'[fd] \in Seq(Byte)
      BY <2>1, <2>3 DEF Typed
    <2>5. DOMAIN content' \subseteq Fds /\ Aggr(cur_aggr_file') \in DOMAIN content'
      BY <2>2, <2>3 DEF Typed
    <2>6. \A i \in Files' : Aggr(file'[i].aggr.file) \in DOMAIN content'
      BY <1>1, <2>3 DEF Typed, Files
    <2>7. cur_aggr_file' \in Nat /\ cur_aggr_index' \in 0 .. BlockLimit
      BY <1>1, <2>1
    <2>8. Typed'
      BY <1>1, <2>4, <2>5, <2>6, <2>7 DEF Typed
    <2> QED
      BY <1>1, <2>1, <2>8 DEF SizeIsEnd, Files, Before
  <1>3. CASE cur_aggr_index # BlockLimit
    <2>1. cur_aggr_file' = cur_aggr_file /\ cur_aggr_index' = cur_aggr_index + 1 /\ content' = content
      BY <1>3 DEF Advance
    <2>2. cur_aggr_index < BlockLimit /\ cur_aggr_index' \in 0 .. BlockLimit
      BY <1>1, <1>3, <2>1
    <2>3. Aggr(cur_aggr_file') \in DOMAIN content'
      BY <2>1, <2>2 DEF Typed
    <2>4. Typed'
      BY <1>1, <2>1, <2>2, <2>3 DEF Typed, Files
    <2> QED
      BY <1>1, <2>1, <2>4 DEF SizeIsEnd, Files, Before
  <1> QED
    BY <1>2, <1>3

\* FileData::Create, second part: the number of the block cut to 16 bits.
LEMMA TakeTyped ==
  ASSUME Typed, NEW t \in Threads, Take(t)
  PROVE  /\ Typed' /\ (SizeIsEnd => SizeIsEnd')
         /\ Files' = 1 .. Len(file) + 1 /\ Files = 1 .. Len(file)
         /\ \A i \in Files : file'[i] = file[i]
         /\ file'[Len(file) + 1].aggr.file = cur_aggr_file
         /\ Index(file'[Len(file) + 1]) = cur_aggr_index
  <1>1. /\ cur_aggr_file \in Nat /\ cur_aggr_index \in 0 .. BlockLimit /\ BlockLimit \in Nat \ {0}
        /\ file \in Seq(FileRec) /\ Len(flat) = Len(file)
    BY FileDataAssumption DEF Typed
  <1>2. PICK no : no = cur_aggr_index % BlockLimit
    OBVIOUS
  <1>3. no \in 0 .. BlockLimit - 1 /\ (cur_aggr_index # BlockLimit => no = cur_aggr_index)
    <2>1. CASE cur_aggr_index = BlockLimit
      BY <1>1, <1>2, <2>1
    <2>2. CASE cur_aggr_index # BlockLimit
      BY <1>1, <1>2, <2>2
    <2> QED
      BY <2>1, <2>2
  <1>4. PICK f : f = [aggr |-> [file |-> cur_aggr_file, no |-> no], st_size |-> 0, last |-> cur_aggr_index = BlockLimit]
    OBVIOUS
  <1>5. /\ f \in FileRec /\ f.aggr.file = cur_aggr_file /\ f.aggr.no = no
        /\ f.st_size = 0 /\ f.last = (cur_aggr_index = BlockLimit)
    BY <1>1, <1>3, <1>4 DEF FileRec
  <1>6. file' = Append(file, f) /\ flat' = Append(flat, <<>>)
    BY <1>2, <1>4 DEF Take
  <1>7. /\ file' \in Seq(FileRec) /\ Len(file') = Len(file) + 1
        /\ \A i \in 1 .. Len(file) : file'[i] = file[i]
        /\ file'[Len(file) + 1] = f
    <2> HIDE DEF FileRec
    <2> QED
      BY <1>1, <1>5, <1>6
  <1>8. Files' = 1 .. Len(file) + 1 /\ Files = 1 .. Len(file)
    BY <1>1, <1>7 DEF Files
  <1>9. /\ flat' \in Seq(Seq(Byte)) /\ Len(flat') = Len(flat) + 1
        /\ \A i \in 1 .. Len(file) : flat'[i] = flat[i]
        /\ flat'[Len(file) + 1] = <<>>
    <2> DEFINE T == Seq(Byte)
    <2>1. <<>> \in T /\ flat \in Seq(T)
      BY DEF Typed
    <2> HIDE DEF T
    <2>2. /\ flat' \in Seq(T) /\ Len(flat') = Len(flat) + 1
          /\ \A i \in 1 .. Len(file) : flat'[i] = flat[i]
          /\ flat'[Len(file) + 1] = <<>>
      BY <1>1, <1>6, <2>1
    <2> QED
      BY <2>2 DEF T
  <1>10. Index(f) = cur_aggr_index
    BY <1>3, <1>5 DEF Index
  <1>11. Aggr(cur_aggr_file) \in DOMAIN content /\ UNCHANGED <<cur_aggr_file, cur_aggr_index, content>>
         /\ creating' \subseteq Threads
    BY DEF Take, Typed
  <1>12. \A i \in Files' : Aggr(file'[i].aggr.file) \in DOMAIN content'
    <2> SUFFICES ASSUME NEW i \in Files' PROVE Aggr(file'[i].aggr.file) \in DOMAIN content'
      OBVIOUS
    <2>1. CASE i = Len(file) + 1
      BY <1>5, <1>7, <1>11, <2>1
    <2>2. CASE i # Len(file) + 1
      <3>1. i \in Files
        BY <1>1, <1>8, <2>2
      <3> QED
        BY <1>7, <1>8, <1>11, <3>1 DEF Typed
    <2> QED
      BY <2>1, <2>2
  <1>13. Typed'
    <2>1. Len(flat') = Len(file')
      BY <1>1, <1>7, <1>9
    <2>2. DOMAIN content' \subseteq Fds /\ \A fd \in DOMAIN content' : content'[fd] \in Seq(Byte)
      BY <1>11 DEF Typed
    <2> QED
      BY <1>1, <1>7, <1>9, <1>11, <1>12, <2>1, <2>2 DEF Typed
  <1>14. ASSUME SizeIsEnd PROVE SizeIsEnd'
    <2> SUFFICES ASSUME NEW i \in Files' PROVE file'[i].st_size = Len(flat'[i])
      BY DEF SizeIsEnd
    <2>1. CASE i = Len(file) + 1
      BY <1>5, <1>7, <1>9, <2>1
    <2>2. CASE i # Len(file) + 1
      <3>1. i \in Files
        BY <1>1, <1>8, <2>2
      <3> QED
        BY <1>7, <1>8, <1>9, <1>14, <3>1 DEF SizeIsEnd
    <2> QED
      BY <2>1, <2>2
  <1> QED
    BY <1>5, <1>7, <1>8, <1>10, <1>13, <1>14

\* The inductive invariant for what files hold.
LEMMA DataInvariant == Spec => []DataInv
  <1>1. Init => DataInv
    <2> SUFFICES ASSUME Init PROVE DataInv
      OBVIOUS
    <2>1. Len(file) = 0 /\ Len(flat) = 0 /\ file \in Seq(FileRec) /\ flat \in Seq(Seq(Byte)) /\ Files = {}
      BY DEF Init, Files
    <2>2. DOMAIN content = {}
      BY DEF Init
    <2> QED
      BY <2>1, <2>2, FileDataAssumption DEF Init, DataInv, Typed, SizeIsEnd
  <1>2. DataInv /\ [Next]_vars => DataInv'
    <2> SUFFICES ASSUME DataInv, [Next]_vars PROVE DataInv'
      OBVIOUS
    <2>1. Typed /\ SizeIsEnd
      BY DEF DataInv
    <2>2. \A r \in Ranges : r[1] \in Nat /\ r[2] \in Nat \ {0}
      BY FileDataAssumption DEF Ranges
    <2>3. ASSUME NEW t \in Threads, Advance(t) PROVE DataInv'
      BY <2>1, <2>3, AdvanceTyped DEF DataInv
    <2>4. ASSUME NEW t \in Threads, Take(t) PROVE DataInv'
      BY <2>1, <2>4, TakeTyped DEF DataInv
    <2>5. ASSUME NEW i \in Files, NEW r \in Ranges, NEW v \in Values, WriteBuf(i, r[2], r[1], v) PROVE DataInv'
      BY <2>1, <2>2, <2>5, WriteBufInv DEF DataInv
    <2>6. ASSUME NEW in \in Alone, NEW out \in Files, NEW r \in Ranges, NEW off_out \in 0 .. MaxSize,
                 CopyFileRange(in, r[1], out, off_out, r[2])
          PROVE  DataInv'
      <3>1. in \in Files /\ off_out \in Nat
        BY FileDataAssumption DEF Alone
      <3> QED
        BY <2>1, <2>2, <2>6, <3>1, CopyFileRangeInv DEF DataInv
    <2>7. CASE UNCHANGED vars
      BY <2>1, <2>7 DEF vars, DataInv, Typed, SizeIsEnd, Files
    <2> QED
      BY <2>3, <2>4, <2>5, <2>6, <2>7 DEF Next
  <1> QED
    BY <1>1, <1>2, PTL DEF Spec

\* SizeIsEnd: the size KTableFS::WriteBuf and CopyFileRange store with a file is where
\* the last byte that was written to it ends, for every block size, any number of
\* threads and files, writes that cross from the block to the large file, and copies
\* that come back short.
THEOREM SizesAreEnds == Spec => []SizeIsEnd
  BY DataInvariant, PTL DEF DataInv

\* InPlace and NoStray of the next state, spelled out.
LEMMA PlaceNext ==
  ASSUME Typed, Files' = Files, \A j \in Files : file'[j].aggr = file[j].aggr,
         \A j \in Alone, k \in 0 .. MaxSize : InFile(content', Loc(j, k)[1], Loc(j, k)[2]) = ByteOf(flat'[j], k),
         \A fd \in DOMAIN content', pos \in Nat :
           InFile(content', fd, pos) # Zero => \E j \in Files : \E k \in 0 .. MaxSize : Loc(j, k) = <<fd, pos>>
  PROVE  InPlace' /\ NoStray'
  <1>1. \A j \in Files, k \in Nat : Loc(j, k)' = Loc(j, k)
    BY DEF Loc, Aggr, Large
  <1>2. Alone' = Alone
    BY DEF Alone
  <1>3. InPlace'
    <2> SUFFICES ASSUME NEW j \in Alone, NEW k \in 0 .. MaxSize
                 PROVE  InFile(content', Loc(j, k)'[1], Loc(j, k)'[2]) = ByteOf(flat'[j], k)
      BY <1>2 DEF InPlace, InFile, ByteOf, Zero
    <2>1. j \in Files /\ k \in Nat
      BY FileDataAssumption DEF Alone
    <2>2. Loc(j, k)' = Loc(j, k)
      BY <1>1, <2>1
    <2> QED
      BY <2>2
  <1>4. NoStray'
    <2> SUFFICES ASSUME NEW fd \in DOMAIN content', NEW pos \in 0 .. Len(content'[fd]), InFile(content', fd, pos) # Zero
                 PROVE  \E j \in Files' : \E k \in 0 .. MaxSize : Loc(j, k)' = <<fd, pos>>
      BY DEF NoStray, InFile, ByteOf, Zero
    <2>1. pos \in Nat
      OBVIOUS
    <2>2. PICK j \in Files : \E k \in 0 .. MaxSize : Loc(j, k) = <<fd, pos>>
      BY <2>1
    <2>3. PICK k \in 0 .. MaxSize : Loc(j, k) = <<fd, pos>>
      BY <2>2
    <2>4. k \in Nat
      BY FileDataAssumption
    <2>5. Loc(j, k)' = Loc(j, k)
      BY <1>1, <2>4
    <2> QED
      BY <2>3, <2>5
  <1> QED
    BY <1>3, <1>4

\* Bytes that are not zero are in local files, before the end.
LEMMA NonZero ==
  ASSUME Typed, NoStray, NEW fd, NEW pos \in Nat, InFile(content, fd, pos) # Zero
  PROVE  \E j \in Files : \E k \in 0 .. MaxSize : Loc(j, k) = <<fd, pos>>
  <1>1. fd \in DOMAIN content /\ InFile(content, fd, pos) = ByteOf(content[fd], pos)
    BY DEF InFile
  <1>2. pos < Len(content[fd])
    BY <1>1 DEF ByteOf
  <1>3. Len(content[fd]) \in Nat
    BY <1>1 DEF Typed
  <1>4. pos \in 0 .. Len(content[fd])
    BY <1>2, <1>3
  <1> QED
    BY <1>1, <1>4 DEF NoStray

\* A call that writes a part of a file leaves every byte where it belongs.
LEMMA WrittenPlace ==
  ASSUME Typed, InPlace, NoStray, Stored(content, content'), NEW i \in Files, NEW off \in Nat,
         NEW new \in Seq(Byte), off + Len(new) <= MaxSize, Wrote(i, off, new),
         Files' = Files, \A j \in Files : file'[j].aggr = file[j].aggr,
         \A j \in Files : j # i => flat'[j] = flat[j],
         \A k \in Nat : ByteOf(flat'[i], k) =
                          IF off <= k /\ k < off + Len(new) THEN new[k - off + 1] ELSE ByteOf(flat[i], k)
  PROVE  InPlace' /\ NoStray'
  <1>0. MaxSize \in Nat /\ Len(new) \in Nat
    BY FileDataAssumption
  <1>1. ASSUME NEW j \in Alone, NEW k \in 0 .. MaxSize
        PROVE  InFile(content', Loc(j, k)[1], Loc(j, k)[2]) = ByteOf(flat'[j], k)
    <2>0. j \in Files /\ k \in Nat
      BY <1>0 DEF Alone
    <2>1. CASE j = i /\ off <= k /\ k < off + Len(new)
      <3>1. PICK m : m = k - off
        OBVIOUS
      <3>2. m \in 0 .. Len(new) - 1 /\ off + m = k
        BY <1>0, <2>0, <2>1, <3>1
      <3>3. InFile(content', Loc(i, off + m)[1], Loc(i, off + m)[2]) = new[m + 1]
        BY <3>2 DEF Wrote
      <3>4. ByteOf(flat'[i], k) = new[k - off + 1]
        BY <2>0, <2>1
      <3> QED
        BY <2>1, <3>1, <3>2, <3>3, <3>4
    <2>2. CASE ~ (j = i /\ off <= k /\ k < off + Len(new))
      <3>1. ASSUME NEW m \in 0 .. Len(new) - 1 PROVE Loc(i, off + m) # Loc(j, k)
        <4>1. off + m \in Nat /\ off <= off + m /\ off + m < off + Len(new)
          BY <1>0
        <4>2. Loc(j, k) = Loc(i, off + m) => j = i /\ k = off + m
          BY <2>0, <4>1, LocApart
        <4> QED
          BY <2>2, <4>1, <4>2
      <3>2. /\ Loc(j, k) = <<Loc(j, k)[1], Loc(j, k)[2]>>
            /\ Loc(j, k)[1] \in Fds /\ Loc(j, k)[2] \in Nat
        BY <2>0, LocType
      <3>3. InFile(content', Loc(j, k)[1], Loc(j, k)[2]) = InFile(content, Loc(j, k)[1], Loc(j, k)[2])
        <4>1. CASE Loc(j, k)[1] \in DOMAIN content'
          BY <3>1, <3>2, <4>1 DEF Wrote
        <4>2. CASE Loc(j, k)[1] \notin DOMAIN content'
          BY <4>2 DEF Stored, InFile
        <4> QED
          BY <4>1, <4>2
      <3>4. InFile(content, Loc(j, k)[1], Loc(j, k)[2]) = ByteOf(flat[j], k)
        BY DEF InPlace
      <3>5. ByteOf(flat'[j], k) = ByteOf(flat[j], k)
        BY <2>0, <2>2
      <3> QED
        BY <3>3, <3>4, <3>5
    <2> QED
      BY <2>1, <2>2
  <1>2. ASSUME NEW fd \in DOMAIN content', NEW pos \in Nat, InFile(content', fd, pos) # Zero
        PROVE  \E j \in Files : \E k \in 0 .. MaxSize : Loc(j, k) = <<fd, pos>>
    <2>1. CASE \E m \in 0 .. Len(new) - 1 : Loc(i, off + m) = <<fd, pos>>
      <3>1. PICK m \in 0 .. Len(new) - 1 : Loc(i, off + m) = <<fd, pos>>
        BY <2>1
      <3>2. off + m \in 0 .. MaxSize
        BY <1>0
      <3> QED
        BY <3>1, <3>2
    <2>2. CASE ~ \E m \in 0 .. Len(new) - 1 : Loc(i, off + m) = <<fd, pos>>
      <3>1. InFile(content', fd, pos) = InFile(content, fd, pos)
        BY <2>2 DEF Wrote
      <3>2. InFile(content, fd, pos) # Zero
        BY <1>2, <3>1
      <3> QED
        BY <3>2, NonZero
    <2> QED
      BY <2>1, <2>2
  <1> QED
    BY <1>1, <1>2, PlaceNext

\* A write.
LEMMA WriteBufPlace ==
  ASSUME PlaceInv, NEW i \in Files, NEW size \in Nat \ {0}, NEW off \in Nat, off + size <= MaxSize, NEW v \in Values,
         WriteBuf(i, size, off, v)
  PROVE  InPlace' /\ NoStray'
  <1>0. Typed /\ InPlace /\ NoStray /\ MaxSize \in Nat
    BY FileDataAssumption DEF PlaceInv, DataInv
  <1>1. PICK done \in 1 .. size :
              /\ Stored(content, content')
              /\ Grow(i, off + done)
              /\ flat' = [flat EXCEPT ![i] = Pwrite(@, off, SubSeq(Bytes(i, off, size, v), 1, done))]
              /\ Wrote(i, off, SubSeq(Bytes(i, off, size, v), 1, done))
    BY <1>0, WriteBufStep
  <1>2. PICK new : new = SubSeq(Bytes(i, off, size, v), 1, done)
    OBVIOUS
  <1>3. new \in Seq(Byte) /\ Len(new) = done
    <2>1. Bytes(i, off, size, v) \in Seq(Byte) /\ Len(Bytes(i, off, size, v)) = size
      BY <1>0, FileType, BytesType
    <2>2. done \in Nat /\ 1 <= done /\ done <= size
      OBVIOUS
    <2>3. /\ SubSeq(Bytes(i, off, size, v), 1, done) \in Seq(Byte)
          /\ Len(SubSeq(Bytes(i, off, size, v), 1, done)) = IF 1 <= done THEN done - 1 + 1 ELSE 0
      BY <2>1, <2>2, SubSeqType
    <2> QED
      BY <1>2, <2>2, <2>3
  <1>4. off + done \in Nat /\ off + Len(new) <= MaxSize
    BY <1>0, <1>3
  <1>5. Files' = Files /\ \A j \in Files : file'[j].aggr = file[j].aggr
    BY <1>0, <1>1, <1>4, GrowStep
  <1>6. flat' = [flat EXCEPT ![i] = Pwrite(flat[i], off, new)] /\ Files = DOMAIN flat
    BY <1>0, <1>1, <1>2 DEF Typed, Files
  <1>7. flat[i] \in Seq(Byte)
    BY <1>0, FileType
  <1>8. PICK b : b = Pwrite(flat[i], off, new)
    OBVIOUS
  <1>9. \A k \in Nat : ByteOf(b, k) =
                          IF off <= k /\ k < off + Len(new) THEN new[k - off + 1] ELSE ByteOf(flat[i], k)
    BY <1>3, <1>7, <1>8, PwriteBytes
  <1>10. flat'[i] = b /\ \A j \in Files : j # i => flat'[j] = flat[j]
    BY <1>6, <1>8
  <1>11. \A k \in Nat : ByteOf(flat'[i], k) =
                          IF off <= k /\ k < off + Len(new) THEN new[k - off + 1] ELSE ByteOf(flat[i], k)
    BY <1>9, <1>10
  <1>12. Wrote(i, off, new)
    BY <1>1, <1>2
  <1> QED
    BY <1>0, <1>1, <1>3, <1>4, <1>5, <1>10, <1>11, <1>12, WrittenPlace

\* Zeros up to an offset do not change what a file holds.
LEMMA ExtendedBytes ==
  ASSUME NEW bytes \in Seq(Byte), NEW n \in Nat, NEW k \in Nat
  PROVE  ByteOf(Extended(bytes, n), k) = ByteOf(bytes, k)
  <1>1. CASE Len(bytes) < n
    <2>1. n - 1 \in Nat /\ Len(bytes) \in Nat /\ Len(bytes) <= n - 1
      BY <1>1
    <2>2. <<Zero>> \in Seq(Byte) /\ Len(<<Zero>>) = 1 /\ <<Zero>>[1] = Zero
      BY DEF Byte
    <2>3. PICK m : m = n - 1
      OBVIOUS
    <2>4. Extended(bytes, n) = Pwrite(bytes, m, <<Zero>>)
      BY <1>1, <2>3 DEF Extended
    <2>5. PICK z : z = <<Zero>>
      OBVIOUS
    <2>6. ByteOf(Pwrite(bytes, m, z), k) =
            IF m <= k /\ k < m + Len(z) THEN z[k - m + 1] ELSE ByteOf(bytes, k)
      <3>1. m \in Nat /\ z \in Seq(Byte)
        BY <2>1, <2>2, <2>3, <2>5
      <3> QED
        BY <3>1, PwriteBytes
    <2>7. m \in Nat /\ Len(bytes) <= m /\ Len(z) = 1 /\ z[1] = Zero
      BY <2>1, <2>2, <2>3, <2>5
    <2>8. CASE m <= k /\ k < m + Len(z)
      <3>1. k = m /\ k - m + 1 = 1
        BY <2>7, <2>8
      <3>2. ByteOf(bytes, k) = Zero
        BY <2>1, <2>7, <3>1 DEF ByteOf
      <3> QED
        BY <2>4, <2>5, <2>6, <2>7, <2>8, <3>1, <3>2
    <2>9. CASE ~ (m <= k /\ k < m + Len(z))
      BY <2>4, <2>5, <2>6, <2>9
    <2> QED
      BY <2>8, <2>9
  <1>2. CASE ~ (Len(bytes) < n)
    BY <1>2 DEF Extended
  <1> QED
    BY <1>1, <1>2

\* A copy.
LEMMA CopyFileRangePlace ==
  ASSUME PlaceInv, NEW in \in Alone, NEW off_in \in Nat, NEW out \in Files, NEW off_out \in Nat,
         NEW size \in Nat \ {0}, off_in + size <= MaxSize, off_out + size <= MaxSize,
         CopyFileRange(in, off_in, out, off_out, size)
  PROVE  InPlace' /\ NoStray'
  <1>0. Typed /\ SizeIsEnd /\ InPlace /\ NoStray /\ MaxSize \in Nat /\ in \in Files
    BY FileDataAssumption DEF PlaceInv, DataInv, Alone
  <1>1. PICK done \in 0 .. size :
          /\ Stored(content, content')
          /\ off_in + size <= file[in].st_size
          /\ Grow(out, off_out + done)
          /\ flat' = [flat EXCEPT ![out] =
                        Extended(Pwrite(@, off_out, SubSeq(flat[in], off_in + 1, off_in + done)), off_out)]
          /\ Copied(in, off_in, out, off_out, done)
    BY <1>0, CopyFileRangeStep
  <1>2. PICK new : new = SubSeq(flat[in], off_in + 1, off_in + done)
    OBVIOUS
  <1>f. flat[in] \in Seq(Byte) /\ Len(flat[in]) \in Nat /\ off_in + size <= Len(flat[in])
    BY <1>0, <1>1, FileType DEF SizeIsEnd
  <1>3. new \in Seq(Byte) /\ Len(new) = done /\ \A k \in 1 .. done : new[k] = flat[in][off_in + k]
    <2>2. done \in Nat /\ off_in + done \in Nat /\ off_in + 1 \in Nat /\ off_in + done <= Len(flat[in])
      BY <1>f
    <2>3. /\ SubSeq(flat[in], off_in + 1, off_in + done) \in Seq(Byte)
          /\ Len(SubSeq(flat[in], off_in + 1, off_in + done)) =
               IF off_in + 1 <= off_in + done THEN off_in + done - (off_in + 1) + 1 ELSE 0
          /\ \A k \in 1 .. off_in + done - (off_in + 1) + 1 :
               SubSeq(flat[in], off_in + 1, off_in + done)[k] = flat[in][off_in + 1 + k - 1]
      BY <1>f, <2>2, SubSeqType
    <2>4. \A k \in 1 .. done : k \in 1 .. off_in + done - (off_in + 1) + 1 /\ off_in + 1 + k - 1 = off_in + k
      BY <2>2
    <2>5. \A k \in 1 .. done : SubSeq(flat[in], off_in + 1, off_in + done)[k] = flat[in][off_in + k]
      BY <2>3, <2>4
    <2>6. (IF off_in + 1 <= off_in + done THEN off_in + done - (off_in + 1) + 1 ELSE 0) = done
      BY <2>2
    <2> QED
      BY <1>2, <2>3, <2>5, <2>6, Zenon
  <1>4. ASSUME NEW k \in 0 .. done - 1
        PROVE  InFile(content, Loc(in, off_in + k)[1], Loc(in, off_in + k)[2]) = new[k + 1]
    <2>1. off_in + k \in 0 .. MaxSize /\ off_in + k < Len(flat[in]) /\ k + 1 \in 1 .. done
          /\ off_in + (k + 1) = off_in + k + 1
      BY <1>0, <1>f
    <2>2. InFile(content, Loc(in, off_in + k)[1], Loc(in, off_in + k)[2]) = ByteOf(flat[in], off_in + k)
      BY <1>0, <2>1 DEF InPlace
    <2>3. ByteOf(flat[in], off_in + k) = flat[in][off_in + k + 1]
      BY <2>1 DEF ByteOf
    <2> QED
      BY <1>3, <2>1, <2>2, <2>3
  <1>5. Wrote(out, off_out, new)
    BY <1>1, <1>3, <1>4 DEF Copied, Wrote
  <1>6. off_out + done \in Nat /\ off_out + Len(new) <= MaxSize
    BY <1>0, <1>3
  <1>7. Files' = Files /\ \A j \in Files : file'[j].aggr = file[j].aggr
    BY <1>0, <1>1, <1>6, GrowStep
  <1>8. flat[out] \in Seq(Byte) /\ Files = DOMAIN flat
    BY <1>0, FileType DEF Typed, Files
  <1>9. PICK p : p = Pwrite(flat[out], off_out, new)
    OBVIOUS
  <1>10. PICK b : b = Extended(p, off_out)
    OBVIOUS
  <1>11. p \in Seq(Byte)
    BY <1>3, <1>8, <1>9, PwriteType
  <1>12. \A k \in Nat : ByteOf(p, k) =
                          IF off_out <= k /\ k < off_out + Len(new) THEN new[k - off_out + 1] ELSE ByteOf(flat[out], k)
    BY <1>3, <1>8, <1>9, PwriteBytes
  <1>13. \A k \in Nat : ByteOf(b, k) = ByteOf(p, k)
    BY <1>10, <1>11, ExtendedBytes
  <1>14. flat' = [flat EXCEPT ![out] = b]
    BY <1>1, <1>2, <1>9, <1>10
  <1>15. flat'[out] = b /\ \A j \in Files : j # out => flat'[j] = flat[j]
    BY <1>8, <1>14
  <1>16. \A k \in Nat : ByteOf(flat'[out], k) =
                          IF off_out <= k /\ k < off_out + Len(new) THEN new[k - off_out + 1] ELSE ByteOf(flat[out], k)
    BY <1>12, <1>13, <1>15
  <1> QED
    BY <1>0, <1>1, <1>3, <1>5, <1>6, <1>7, <1>15, <1>16, WrittenPlace

\* FileData::Create, first part: the new aggregation file is empty.
LEMMA AdvancePlace ==
  ASSUME PlaceInv, NEW t \in Threads, Advance(t)
  PROVE  InPlace' /\ NoStray'
  <1>0. Typed /\ InPlace /\ NoStray
    BY DEF PlaceInv, DataInv
  <1>1. file' = file /\ flat' = flat /\ Files' = Files
    BY DEF Advance, Files
  <1>2. \A fd, pos : pos \in Nat => InFile(content', fd, pos) = InFile(content, fd, pos)
    <2> SUFFICES ASSUME NEW fd, NEW pos \in Nat PROVE InFile(content', fd, pos) = InFile(content, fd, pos)
      OBVIOUS
    <2>1. CASE cur_aggr_index # BlockLimit
      <3>1. content' = content
        BY <2>1 DEF Advance
      <3> QED
        BY <3>1
    <2>2. CASE cur_aggr_index = BlockLimit
      <3>1. content' = [f \in DOMAIN content \cup {Aggr(cur_aggr_file + 1)} |->
                          IF f \in DOMAIN content THEN content[f] ELSE <<>>]
        BY <2>2, Zenon DEF Advance
      <3>2. CASE fd \in DOMAIN content
        <4>1. fd \in DOMAIN content' /\ content'[fd] = content[fd]
          BY <3>1, <3>2
        <4> QED
          BY <3>2, <4>1 DEF InFile
      <3>3. CASE fd \notin DOMAIN content
        <4>1. fd \in DOMAIN content' => content'[fd] = <<>>
          BY <3>1, <3>3
        <4>2. ByteOf(<<>>, pos) = Zero
          BY DEF ByteOf
        <4> QED
          BY <3>3, <4>1, <4>2 DEF InFile
      <3> QED
        BY <3>2, <3>3
    <2> QED
      BY <2>1, <2>2
  <1>3. ASSUME NEW j \in Alone, NEW k \in 0 .. MaxSize
        PROVE  InFile(content', Loc(j, k)[1], Loc(j, k)[2]) = ByteOf(flat'[j], k)
    <2>1. j \in Files /\ k \in Nat
      BY FileDataAssumption DEF Alone
    <2>2. Loc(j, k)[2] \in Nat
      BY <1>0, <2>1, LocType
    <2> QED
      BY <1>0, <1>1, <1>2, <2>2 DEF InPlace
  <1>4. ASSUME NEW fd \in DOMAIN content', NEW pos \in Nat, InFile(content', fd, pos) # Zero
        PROVE  \E j \in Files : \E k \in 0 .. MaxSize : Loc(j, k) = <<fd, pos>>
    <2>1. InFile(content, fd, pos) # Zero
      BY <1>2, <1>4
    <2> QED
      BY <1>0, <2>1, NonZero
  <1> QED
    BY <1>0, <1>1, <1>3, <1>4, PlaceNext

\* FileData::Create, second part: the block of a new file is empty, or is shared with
\* another file.
LEMMA TakePlace ==
  ASSUME PlaceInv, NEW t \in Threads, Take(t)
  PROVE  InPlace' /\ NoStray'
  <1>0. Typed /\ InPlace /\ NoStray
    BY DEF PlaceInv, DataInv
  <1>1. /\ Typed' /\ Files' = 1 .. Len(file) + 1 /\ Files = 1 .. Len(file)
        /\ \A i \in Files : file'[i] = file[i]
    BY <1>0, TakeTyped
  <1>n. Len(file) \in Nat /\ Len(flat) = Len(file)
    BY <1>0 DEF Typed
  <1>2. content' = content /\ flat' = Append(flat, <<>>)
    BY DEF Take
  <1>3. (\A i \in Files : flat'[i] = flat[i]) /\ flat'[Len(file) + 1] = <<>>
    <2> DEFINE T == Seq(Byte)
    <2>1. flat \in Seq(T)
      BY <1>0 DEF Typed
    <2> HIDE DEF T
    <2> QED
      BY <1>1, <1>n, <1>2, <2>1
  <1>4. \A j \in Files, k \in Nat : Loc(j, k)' = Loc(j, k)
    BY <1>1 DEF Loc, Aggr, Large
  <1>5. \A j \in Files' : j \in Files \/ j = Len(file) + 1
    BY <1>1, <1>n
  <1>6. Files \subseteq Files' /\ Len(file) + 1 \notin Files
    BY <1>1, <1>n
  <1>m. 0 .. MaxSize \subseteq Nat
    BY FileDataAssumption
  <1>7. ASSUME NEW j \in Alone', NEW k \in 0 .. MaxSize
        PROVE  InFile(content', Loc(j, k)'[1], Loc(j, k)'[2]) = ByteOf(flat'[j], k)
    <2>0. j \in Files' /\ k \in Nat
      BY <1>m DEF Alone
    <2>1. CASE j \in Files
      <3>1. j \in Alone
        BY <1>1, <1>6, <2>1 DEF Alone
      <3>2. InFile(content, Loc(j, k)[1], Loc(j, k)[2]) = ByteOf(flat[j], k)
        BY <1>0, <3>1 DEF InPlace
      <3> QED
        BY <1>2, <1>3, <1>4, <2>0, <2>1, <3>2
    <2>2. CASE j = Len(file) + 1
      <3>1. PICK loc : loc = Loc(j, k)'
        OBVIOUS
      <3>2. loc = <<loc[1], loc[2]>> /\ loc[2] \in Nat
        <4>1. (Typed => \A i \in Files, l \in Nat : Loc(i, l) = <<Loc(i, l)[1], Loc(i, l)[2]>> /\ Loc(i, l)[2] \in Nat)'
          BY LocTypes, PTL
        <4> QED
          BY <1>1, <2>0, <3>1, <4>1
      <3>3. ASSUME InFile(content, loc[1], loc[2]) # Zero PROVE FALSE
        <4>1. PICK i \in Files : \E l \in 0 .. MaxSize : Loc(i, l) = loc
          BY <1>0, <3>2, <3>3, NonZero
        <4>2. PICK l \in 0 .. MaxSize : Loc(i, l) = loc
          BY <4>1
        <4>3. Loc(i, l)' = Loc(j, k)' /\ l \in Nat /\ i \in Files'
          BY <1>4, <1>6, <1>m, <3>1, <4>2
        <4>5. j = i
          BY <1>1, <2>0, <4>3, LocApartNext
        <4> QED
          BY <1>6, <2>2, <4>5
      <3>4. ByteOf(<<>>, k) = Zero
        BY <2>0 DEF ByteOf
      <3> QED
        BY <1>2, <1>3, <2>2, <3>1, <3>3, <3>4
    <2> QED
      BY <1>5, <2>0, <2>1, <2>2
  <1>8. InPlace'
    BY <1>7 DEF InPlace, InFile, ByteOf, Zero
  <1>9. NoStray'
    <2> SUFFICES ASSUME NEW fd \in DOMAIN content', NEW pos \in 0 .. Len(content'[fd]), InFile(content', fd, pos) # Zero
                 PROVE  \E j \in Files' : \E k \in 0 .. MaxSize : Loc(j, k)' = <<fd, pos>>
      BY DEF NoStray, InFile, ByteOf, Zero
    <2>1. PICK j \in Files : \E k \in 0 .. MaxSize : Loc(j, k) = <<fd, pos>>
      BY <1>0, <1>2 DEF NoStray
    <2>2. PICK k \in 0 .. MaxSize : Loc(j, k) = <<fd, pos>>
      BY <2>1
    <2> QED
      BY <1>4, <1>6, <1>m, <2>2
  <1> QED
    BY <1>8, <1>9

\* PlaceInv: every byte of a file that shares its block with no other is where FileData
\* looks for it, and no byte is anywhere else.
THEOREM BytesArePlaced == Spec => []PlaceInv
  <1>1. Init => PlaceInv
    <2> SUFFICES ASSUME Init PROVE PlaceInv
      OBVIOUS
    <2>1. Len(file) = 0 /\ Len(flat) = 0 /\ file \in Seq(FileRec) /\ flat \in Seq(Seq(Byte)) /\ Files = {}
      BY DEF Init, Files
    <2>2. DOMAIN content = {}
      BY DEF Init
    <2>3. DataInv
      BY <2>1, <2>2, FileDataAssumption DEF Init, DataInv, Typed, SizeIsEnd
    <2> QED
      BY <2>1, <2>2, <2>3 DEF PlaceInv, InPlace, NoStray, Alone
  <1>2. PlaceInv /\ DataInv' /\ [Next]_vars => PlaceInv'
    <2> SUFFICES ASSUME PlaceInv, DataInv', [Next]_vars PROVE InPlace' /\ NoStray'
      BY DEF PlaceInv
    <2>1. \A r \in Ranges : r[1] \in Nat /\ r[2] \in Nat \ {0} /\ r[1] + r[2] <= MaxSize
      BY FileDataAssumption DEF Ranges
    <2>2. ASSUME NEW t \in Threads, Advance(t) PROVE InPlace' /\ NoStray'
      BY <2>2, AdvancePlace
    <2>3. ASSUME NEW t \in Threads, Take(t) PROVE InPlace' /\ NoStray'
      BY <2>3, TakePlace
    <2>4. ASSUME NEW i \in Files, NEW r \in Ranges, NEW v \in Values, WriteBuf(i, r[2], r[1], v)
          PROVE  InPlace' /\ NoStray'
      BY <2>1, <2>4, WriteBufPlace
    <2>5. ASSUME NEW in \in Alone, NEW out \in Files, NEW r \in Ranges, NEW off_out \in 0 .. MaxSize,
                 off_out + r[2] <= MaxSize, CopyFileRange(in, r[1], out, off_out, r[2])
          PROVE  InPlace' /\ NoStray'
      <3>1. off_out \in Nat
        BY FileDataAssumption
      <3> QED
        BY <2>1, <2>5, <3>1, CopyFileRangePlace
    <2>6. CASE UNCHANGED vars
      <3>1. Typed /\ InPlace /\ NoStray
        BY DEF PlaceInv, DataInv
      <3>2. file' = file /\ flat' = flat /\ content' = content /\ Files' = Files
        BY <2>6 DEF vars, Files
      <3>3. \A j \in Alone, k \in 0 .. MaxSize : InFile(content', Loc(j, k)[1], Loc(j, k)[2]) = ByteOf(flat'[j], k)
        BY <3>1, <3>2 DEF InPlace
      <3>4. \A fd \in DOMAIN content', pos \in Nat :
              InFile(content', fd, pos) # Zero => \E j \in Files : \E k \in 0 .. MaxSize : Loc(j, k) = <<fd, pos>>
        BY <3>1, <3>2, NonZero
      <3> QED
        BY <3>1, <3>2, <3>3, <3>4, PlaceNext
    <2> QED
      BY <2>2, <2>3, <2>4, <2>5, <2>6 DEF Next
  <1> QED
    BY <1>1, <1>2, DataInvariant, PTL DEF Spec

\* What was got is bytes off .. off + size - 1 of a file from where they belong, up to
\* one that was never written.
ReadFrom(i, off, size, got) ==
  /\ got \in Seq(Byte) /\ Len(got) <= size
  /\ \A k \in 0 .. Len(got) - 1 : got[k + 1] = InFile(content, Loc(i, off + k)[1], Loc(i, off + k)[2])
  /\ Len(got) < size => InFile(content, Loc(i, off + Len(got))[1], Loc(i, off + Len(got))[2]) = Zero

\* What ReadBuf's pieces give.
LEMMA ReadAllBytes ==
  ASSUME Typed, NEW i \in Files, NEW size \in Nat \ {0}, NEW off \in Nat
  PROVE  ReadFrom(i, off, size, ReadAll(ReadPieces(i, size, off)))
  <1>p. PICK got : got = ReadAll(ReadPieces(i, size, off))
    OBVIOUS
  <1> SUFFICES /\ got \in Seq(Byte) /\ Len(got) <= size
               /\ \A k \in 0 .. Len(got) - 1 :
                    got[k + 1] = InFile(content, Loc(i, off + k)[1], Loc(i, off + k)[2])
               /\ Len(got) < size =>
                    InFile(content, Loc(i, off + Len(got))[1], Loc(i, off + Len(got))[2]) = Zero
    BY <1>p DEF ReadFrom
  <1> DEFINE ps == ReadPieces(i, size, off)
  <1> DEFINE g == [n \in DOMAIN ps |-> Pread(content[ps[n].fd], ps[n].pos, ps[n].size)]
  <1>1. IsBufvec(ps, DOMAIN content) /\ Total(ps) \in 0 .. size
        /\ (\A k \in 0 .. Total(ps) - 1 : At(ps, k) = Loc(i, off + k))
        /\ (Total(ps) < size => Large(i) \notin DOMAIN content /\ off + Total(ps) >= BlockSize)
    BY ReadPiecesType, ReadPiecesAt
  <1>2. got = IF ps = <<>> THEN <<>>
              ELSE IF Len(ps) = 1 \/ Len(g[1]) < ps[1].size THEN g[1]
              ELSE g[1] \o g[2]
    BY <1>p, Zenon DEF ReadAll
  <1> HIDE DEF ps
  <1>3. ASSUME NEW n \in DOMAIN ps
        PROVE  /\ ps[n].fd \in DOMAIN content /\ ps[n].pos \in Nat /\ ps[n].size \in Nat
               /\ g[n] \in Seq(Byte) /\ Len(g[n]) \in Nat /\ Len(g[n]) <= ps[n].size
               /\ \A k \in 0 .. Len(g[n]) - 1 : g[n][k + 1] = InFile(content, ps[n].fd, ps[n].pos + k)
               /\ Len(g[n]) < ps[n].size => InFile(content, ps[n].fd, ps[n].pos + Len(g[n])) = Zero
    <2>1. ps[n] \in PieceOf(DOMAIN content)
      BY <1>1 DEF IsBufvec
    <2>2. ps[n].fd \in DOMAIN content /\ ps[n].pos \in Nat /\ ps[n].size \in Nat
      BY <2>1 DEF PieceOf
    <2>3. content[ps[n].fd] \in Seq(Byte)
      BY <2>2 DEF Typed
    <2>4. g[n] = Pread(content[ps[n].fd], ps[n].pos, ps[n].size)
      OBVIOUS
    <2> HIDE DEF g
    <2>5. g[n] \in Seq(Byte) /\ Len(g[n]) <= ps[n].size
      <3>1. PICK bytes, pos, len : bytes = content[ps[n].fd] /\ pos = ps[n].pos /\ len = ps[n].size
        OBVIOUS
      <3>2. bytes \in Seq(Byte) /\ pos \in Nat /\ len \in Nat /\ g[n] = Pread(bytes, pos, len)
        BY <2>2, <2>3, <2>4, <3>1
      <3>3. Pread(bytes, pos, len) \in Seq(Byte) /\ Len(Pread(bytes, pos, len)) <= len
        BY <3>2, PreadType
      <3> QED
        BY <3>1, <3>2, <3>3
    <2>6. /\ \A k \in 0 .. Len(g[n]) - 1 : g[n][k + 1] = ByteOf(content[ps[n].fd], ps[n].pos + k)
          /\ Len(g[n]) < ps[n].size => Len(content[ps[n].fd]) <= ps[n].pos + Len(g[n])
      BY <2>2, <2>3, <2>4, PreadBytes
    <2>7. Len(g[n]) \in Nat /\ Len(content[ps[n].fd]) \in Nat
      BY <2>3, <2>5
    <2>8. Len(g[n]) < ps[n].size => ByteOf(content[ps[n].fd], ps[n].pos + Len(g[n])) = Zero
      BY <2>2, <2>6, <2>7 DEF ByteOf
    <2> QED
      BY <2>2, <2>5, <2>6, <2>7, <2>8 DEF InFile
  <1> HIDE DEF g
  <1>d. DOMAIN ps = 1 .. Len(ps) /\ Len(ps) \in Nat /\ (ps = <<>> <=> Len(ps) = 0) /\ Len(ps) \in {0, 1, 2}
    BY <1>1 DEF IsBufvec
  <1>t. /\ Len(ps) = 0 => Total(ps) = 0
        /\ Len(ps) # 0 => ps[1].size \in Nat \ {0} /\ ps[1].size <= Total(ps)
        /\ Len(ps) = 1 => Total(ps) = ps[1].size
        /\ Len(ps) = 2 => ps[2].size \in Nat \ {0} /\ Total(ps) = ps[1].size + ps[2].size
    BY <1>1, TotalType
  <1>4. ASSUME NEW k \in Nat, k < Total(ps)
        PROVE  /\ Loc(i, off + k)[1] = (IF k < ps[1].size THEN ps[1].fd ELSE ps[2].fd)
               /\ Loc(i, off + k)[2] = (IF k < ps[1].size THEN ps[1].pos + k ELSE ps[2].pos + k - ps[1].size)
    <2>1. k \in 0 .. Total(ps) - 1
      BY <1>1, <1>4
    <2>2. At(ps, k) = Loc(i, off + k)
      BY <1>1, <2>1
    <2>3. CASE k < ps[1].size
      BY <2>2, <2>3 DEF At
    <2>4. CASE ~ (k < ps[1].size)
      BY <2>2, <2>4 DEF At
    <2> QED
      BY <2>3, <2>4
  <1>5. ASSUME Total(ps) < size PROVE InFile(content, Loc(i, off + Total(ps))[1], Loc(i, off + Total(ps))[2]) = Zero
    <2>1. Large(i) \notin DOMAIN content /\ ~ (off + Total(ps) < BlockSize)
      BY <1>1, <1>5, FileDataAssumption
    <2>2. Loc(i, off + Total(ps))[1] = Large(i)
      BY <2>1 DEF Loc
    <2> QED
      BY <2>1, <2>2 DEF InFile
  <1>6. CASE Len(ps) = 0
    <2>1. got = <<>> /\ Total(ps) = 0
      BY <1>2, <1>d, <1>t, <1>6
    <2>2. Len(got) = 0 /\ got \in Seq(Byte)
      BY <2>1
    <2> QED
      BY <1>5, <2>1, <2>2
  <1>7. CASE Len(ps) # 0 /\ (Len(ps) = 1 \/ Len(g[1]) < ps[1].size)
    <2>0. 1 \in DOMAIN ps /\ got = g[1] /\ ps[1].size \in Nat /\ ps[1].size <= Total(ps) /\ Total(ps) \in Nat /\ Total(ps) <= size
      BY <1>1, <1>2, <1>d, <1>t, <1>7
    <2>1. /\ ps[1].fd \in DOMAIN content /\ ps[1].pos \in Nat
          /\ got \in Seq(Byte) /\ Len(got) \in Nat /\ Len(got) <= ps[1].size
          /\ \A k \in 0 .. Len(got) - 1 : got[k + 1] = InFile(content, ps[1].fd, ps[1].pos + k)
          /\ Len(got) < ps[1].size => InFile(content, ps[1].fd, ps[1].pos + Len(got)) = Zero
      BY <1>3, <2>0
    <2>2. ASSUME NEW k \in 0 .. Len(got) - 1
          PROVE  got[k + 1] = InFile(content, Loc(i, off + k)[1], Loc(i, off + k)[2])
      <3>1. k \in Nat /\ k < ps[1].size /\ k < Total(ps)
        BY <2>0, <2>1
      <3>2. Loc(i, off + k)[1] = ps[1].fd /\ Loc(i, off + k)[2] = ps[1].pos + k
        BY <1>4, <3>1
      <3> QED
        BY <2>1, <3>2
    <2>3. ASSUME Len(got) < size
          PROVE  InFile(content, Loc(i, off + Len(got))[1], Loc(i, off + Len(got))[2]) = Zero
      <3>1. CASE Len(got) < ps[1].size
        <4>1. Len(got) < Total(ps)
          BY <2>0, <2>1, <3>1
        <4>2. Loc(i, off + Len(got))[1] = ps[1].fd /\ Loc(i, off + Len(got))[2] = ps[1].pos + Len(got)
          BY <1>4, <2>1, <3>1, <4>1
        <4> QED
          BY <2>1, <3>1, <4>2
      <3>2. CASE ~ (Len(got) < ps[1].size)
        <4>1. Len(got) = Total(ps)
          BY <1>t, <1>7, <2>0, <2>1, <3>2
        <4> QED
          BY <1>5, <2>3, <4>1
      <3> QED
        BY <3>1, <3>2
    <2> QED
      BY <2>0, <2>1, <2>2, <2>3
  <1>8. CASE Len(ps) # 0 /\ ~ (Len(ps) = 1 \/ Len(g[1]) < ps[1].size)
    <2>0. /\ 1 \in DOMAIN ps /\ 2 \in DOMAIN ps /\ Len(ps) = 2 /\ got = g[1] \o g[2]
          /\ ps[1].size \in Nat /\ ps[2].size \in Nat /\ Total(ps) = ps[1].size + ps[2].size /\ Total(ps) <= size
      <3>1. Len(ps) = 2
        BY <1>d, <1>8
      <3>2. got = g[1] \o g[2]
        BY <1>2, <1>d, <1>8, Zenon
      <3>3. 1 \in DOMAIN ps /\ 2 \in DOMAIN ps
        BY <1>d, <3>1
      <3>4. ps[1].size \in Nat /\ ps[2].size \in Nat /\ Total(ps) = ps[1].size + ps[2].size /\ Total(ps) <= size
        BY <1>1, <1>t, <3>1
      <3> QED
        BY <3>1, <3>2, <3>3, <3>4
    <2>a. PICK a, b : a = g[1] /\ b = g[2]
      OBVIOUS
    <2>1. /\ ps[1].fd \in DOMAIN content /\ ps[1].pos \in Nat
          /\ a \in Seq(Byte) /\ Len(a) \in Nat /\ Len(a) <= ps[1].size
          /\ \A k \in 0 .. Len(a) - 1 : a[k + 1] = InFile(content, ps[1].fd, ps[1].pos + k)
      BY <1>3, <2>0, <2>a
    <2>2. /\ ps[2].fd \in DOMAIN content /\ ps[2].pos \in Nat
          /\ b \in Seq(Byte) /\ Len(b) \in Nat /\ Len(b) <= ps[2].size
          /\ \A k \in 0 .. Len(b) - 1 : b[k + 1] = InFile(content, ps[2].fd, ps[2].pos + k)
          /\ Len(b) < ps[2].size => InFile(content, ps[2].fd, ps[2].pos + Len(b)) = Zero
      BY <1>3, <2>0, <2>a
    <2>3. Len(a) = ps[1].size
      BY <1>8, <2>0, <2>1, <2>a
    <2>4. /\ got \in Seq(Byte) /\ Len(got) = Len(a) + Len(b)
          /\ \A k \in 1 .. Len(a) : got[k] = a[k]
          /\ \A k \in 1 .. Len(b) : got[Len(a) + k] = b[k]
      <3>1. got = a \o b
        BY <2>0, <2>a
      <3>2. a \in Seq(Byte) /\ b \in Seq(Byte)
        BY <2>1, <2>2
      <3> QED
        BY <3>1, <3>2
    <2>5. ASSUME NEW k \in 0 .. Len(got) - 1
          PROVE  got[k + 1] = InFile(content, Loc(i, off + k)[1], Loc(i, off + k)[2])
      <3>0. k \in Nat /\ k < Total(ps)
        BY <2>0, <2>1, <2>2, <2>3, <2>4
      <3>1. CASE k < ps[1].size
        <4>1. k \in 0 .. Len(a) - 1 /\ k + 1 \in 1 .. Len(a)
          BY <2>1, <2>3, <3>0, <3>1
        <4>2. Loc(i, off + k)[1] = ps[1].fd /\ Loc(i, off + k)[2] = ps[1].pos + k
          BY <1>4, <3>0, <3>1
        <4> QED
          BY <2>1, <2>4, <4>1, <4>2
      <3>2. CASE ~ (k < ps[1].size)
        <4>1. PICK m : m = k - ps[1].size
          OBVIOUS
        <4>2. m \in 0 .. Len(b) - 1 /\ m + 1 \in 1 .. Len(b) /\ Len(a) + (m + 1) = k + 1
              /\ ps[2].pos + k - ps[1].size = ps[2].pos + m
          <5>1. PICK x, p : x = ps[1].size /\ p = ps[2].pos
            OBVIOUS
          <5>2. x \in Nat /\ p \in Nat /\ m = k - x /\ ~ (k < x) /\ Len(a) = x /\ Len(got) = x + Len(b) /\ k < Len(got) /\ Len(b) \in Nat
            BY <2>0, <2>1, <2>2, <2>3, <2>4, <3>2, <4>1, <5>1
          <5>3. m \in 0 .. Len(b) - 1 /\ m + 1 \in 1 .. Len(b) /\ x + (m + 1) = k + 1 /\ p + k - x = p + m
            BY <3>0, <5>2
          <5> QED
            BY <2>3, <5>1, <5>3
        <4>3. Loc(i, off + k)[1] = ps[2].fd /\ Loc(i, off + k)[2] = ps[2].pos + m
          BY <1>4, <3>0, <3>2, <4>2
        <4>4. got[Len(a) + (m + 1)] = b[m + 1]
          BY <2>4, <4>2
        <4> QED
          BY <2>2, <4>2, <4>3, <4>4
      <3> QED
        BY <3>1, <3>2
    <2>6. ASSUME Len(got) < size
          PROVE  InFile(content, Loc(i, off + Len(got))[1], Loc(i, off + Len(got))[2]) = Zero
      <3>0. Len(got) \in Nat /\ ~ (Len(got) < ps[1].size) /\ ps[2].pos + Len(got) - ps[1].size = ps[2].pos + Len(b)
        <4>1. PICK x, p : x = ps[1].size /\ p = ps[2].pos
          OBVIOUS
        <4>2. x \in Nat /\ p \in Nat /\ Len(got) = x + Len(b) /\ Len(b) \in Nat
          BY <2>0, <2>1, <2>2, <2>3, <2>4, <4>1
        <4>3. Len(got) \in Nat /\ ~ (Len(got) < x) /\ p + Len(got) - x = p + Len(b)
          BY <4>2
        <4> QED
          BY <4>1, <4>3
      <3>1. CASE Len(b) < ps[2].size
        <4>1. Len(got) < Total(ps)
          BY <2>0, <2>1, <2>2, <2>3, <2>4, <3>1
        <4>2. Loc(i, off + Len(got))[1] = ps[2].fd /\ Loc(i, off + Len(got))[2] = ps[2].pos + Len(b)
          BY <1>4, <3>0, <4>1
        <4> QED
          BY <2>2, <3>1, <4>2
      <3>2. CASE ~ (Len(b) < ps[2].size)
        <4>1. Len(got) = Total(ps)
          BY <2>0, <2>2, <2>3, <2>4, <3>2
        <4> QED
          BY <1>5, <2>6, <4>1
      <3> QED
        BY <3>1, <3>2
    <2>7. Len(got) <= size
      BY <2>0, <2>1, <2>2, <2>3, <2>4
    <2> QED
      BY <2>4, <2>5, <2>6, <2>7
  <1> QED
    BY <1>6, <1>7, <1>8

\* A sequence that agrees with a longer one is a prefix of it.
LEMMA PrefixOf ==
  ASSUME NEW T, NEW s \in Seq(T), NEW t \in Seq(T), Len(s) <= Len(t), \A k \in 1 .. Len(s) : s[k] = t[k]
  PROVE  IsPrefix(s, t)
  <1>1. Len(s) \in Nat /\ Len(t) \in Nat
    OBVIOUS
  <1>2. PICK n : n = Len(s)
    OBVIOUS
  <1>3. SubSeq(s, 1, n) = SubSeq(t, 1, n)
    BY <1>1, <1>2
  <1> QED
    BY <1>2, <1>3 DEF IsPrefix

\* ReadsBack: FileData::ReadBuf, which takes the first bytes of a file from its block and
\* the rest from its large file, gives what WriteBuf and CopyFileRange put into the
\* file, for every block size, every part of a file that crosses from the one to the
\* other, any number of files and threads, copies within one file included.  It comes
\* back short only where the file has a gap that was never written.
THEOREM FilesReadBack == Spec => []ReadsBack
  <1>1. PlaceInv => ReadsBack
    <2> SUFFICES ASSUME PlaceInv, NEW i \in Alone, NEW r \in Ranges, r[1] + r[2] <= file[i].st_size
                 PROVE  /\ IsPrefix(ReadAll(ReadPieces(i, r[2], r[1])), SubSeq(flat[i], r[1] + 1, r[1] + r[2]))
                        /\ Zero \notin Range(flat[i]) =>
                             ReadAll(ReadPieces(i, r[2], r[1])) = SubSeq(flat[i], r[1] + 1, r[1] + r[2])
      BY DEF ReadsBack
    <2>0. PICK want, got : want = SubSeq(flat[i], r[1] + 1, r[1] + r[2]) /\ got = ReadAll(ReadPieces(i, r[2], r[1]))
      OBVIOUS
    <2>1. PICK off, size : off = r[1] /\ size = r[2]
      OBVIOUS
    <2>2. off \in Nat /\ size \in Nat \ {0} /\ off + size <= MaxSize /\ MaxSize \in Nat
      <3>1. r[1] \in Nat /\ r[2] \in Nat \ {0} /\ r[1] + r[2] <= MaxSize /\ MaxSize \in Nat
        BY FileDataAssumption DEF Ranges
      <3> QED
        BY <2>1, <3>1
    <2>3. Typed /\ SizeIsEnd /\ InPlace /\ i \in Files
      BY DEF PlaceInv, DataInv, Alone
    <2>4. flat[i] \in Seq(Byte) /\ Len(flat[i]) \in Nat /\ off + size <= Len(flat[i])
      BY <2>1, <2>3, FileType DEF SizeIsEnd
    <2>5. want \in Seq(Byte) /\ Len(want) = size /\ \A k \in 1 .. size : want[k] = flat[i][off + k]
      <3>1. off + 1 \in Nat /\ off + size \in Nat /\ off + 1 >= 1 /\ off + size - (off + 1) + 1 = size /\ off + 1 <= off + size
        BY <2>2
      <3>2. PICK x, y : x = off + 1 /\ y = off + size
        OBVIOUS
      <3>3. /\ SubSeq(flat[i], x, y) \in Seq(Byte)
            /\ Len(SubSeq(flat[i], x, y)) = IF x <= y THEN y - x + 1 ELSE 0
            /\ \A k \in 1 .. y - x + 1 : SubSeq(flat[i], x, y)[k] = flat[i][x + k - 1]
        BY <2>4, <3>1, <3>2, SubSeqType
      <3>4. want = SubSeq(flat[i], x, y) /\ x <= y /\ y - x + 1 = size
        <4>1. want = SubSeq(flat[i], off + 1, off + size)
          BY <2>0, <2>1
        <4>2. want = SubSeq(flat[i], x, y)
          BY <3>2, <4>1, Zenon
        <4>3. x <= y /\ y - x + 1 = size
          BY <2>2, <3>2
        <4> QED
          BY <4>2, <4>3
      <3>5. \A k \in 1 .. size : x + k - 1 = off + k
        BY <2>2, <3>2
      <3> QED
        BY <3>3, <3>4, <3>5
    <2>6. /\ got \in Seq(Byte) /\ Len(got) <= size /\ Len(got) \in Nat
          /\ \A k \in 0 .. Len(got) - 1 : got[k + 1] = InFile(content, Loc(i, off + k)[1], Loc(i, off + k)[2])
          /\ Len(got) < size => InFile(content, Loc(i, off + Len(got))[1], Loc(i, off + Len(got))[2]) = Zero
      <3>1. got = ReadAll(ReadPieces(i, size, off))
        BY <2>0, <2>1
      <3>a. ReadFrom(i, off, size, got)
        BY <2>2, <2>3, <3>1, ReadAllBytes
      <3>2. /\ got \in Seq(Byte) /\ Len(got) <= size
            /\ \A k \in 0 .. Len(got) - 1 : got[k + 1] = InFile(content, Loc(i, off + k)[1], Loc(i, off + k)[2])
            /\ Len(got) < size => InFile(content, Loc(i, off + Len(got))[1], Loc(i, off + Len(got))[2]) = Zero
        BY <3>a DEF ReadFrom
      <3> QED
        BY <3>2
    <2>7. ASSUME NEW k \in Nat, k < size
          PROVE  InFile(content, Loc(i, off + k)[1], Loc(i, off + k)[2]) = want[k + 1]
      <3>1. off + k \in 0 .. MaxSize /\ off + k < Len(flat[i]) /\ k + 1 \in 1 .. size /\ off + (k + 1) = off + k + 1
        BY <2>2, <2>4, <2>7
      <3>2. InFile(content, Loc(i, off + k)[1], Loc(i, off + k)[2]) = ByteOf(flat[i], off + k)
        BY <2>3, <3>1 DEF InPlace
      <3>3. ByteOf(flat[i], off + k) = flat[i][off + k + 1]
        BY <3>1 DEF ByteOf
      <3> QED
        BY <2>5, <3>1, <3>2, <3>3
    <2>8. \A k \in 1 .. Len(got) : got[k] = want[k]
      <3> SUFFICES ASSUME NEW k \in 1 .. Len(got) PROVE got[k] = want[k]
        OBVIOUS
      <3>1. PICK m \in Nat : m = k - 1
        BY <2>6
      <3>2. m \in 0 .. Len(got) - 1 /\ m < size /\ m + 1 = k
        BY <2>2, <2>6, <3>1
      <3> QED
        BY <2>6, <2>7, <3>2
    <2>9. IsPrefix(got, want)
      BY <2>2, <2>5, <2>6, <2>8, PrefixOf
    <2>10. ASSUME Zero \notin Range(flat[i]) PROVE got = want
      <3>1. ~ (Len(got) < size)
        <4>1. ASSUME Len(got) < size PROVE FALSE
          <5>1. want[Len(got) + 1] = Zero
            BY <2>6, <2>7, <4>1
          <5>2. Len(got) + 1 \in 1 .. size /\ off + (Len(got) + 1) \in 1 .. Len(flat[i])
            BY <2>2, <2>4, <2>6, <4>1
          <5>3. flat[i][off + (Len(got) + 1)] = Zero
            BY <2>5, <5>1, <5>2
          <5>4. off + (Len(got) + 1) \in DOMAIN flat[i]
            BY <2>4, <5>2
          <5> QED
            BY <2>10, <5>3, <5>4 DEF Range
        <4> QED
          BY <4>1
      <3>2. Len(got) = Len(want)
        BY <2>2, <2>5, <2>6, <3>1
      <3> QED
        BY <2>5, <2>6, <2>8, <3>2, SeqEqual
    <2> QED
      BY <2>0, <2>9, <2>10, Zenon
  <1> QED
    BY <1>1, BytesArePlaced, PTL

\* BlockInv: when one thread creates files (option -s), the blocks FileData::Create gives
\* out come in order, each after those of all files before it.
THEOREM BlockInvariant ==
  ASSUME \A s, t \in Threads : s = t
  PROVE  Spec => []BlockInv
  <1>1. Init => InTurn
    BY DEF Init, InTurn, Files
  <1>2. InTurn /\ DataInv /\ [Next]_vars => InTurn'
    <2> SUFFICES ASSUME InTurn, DataInv, [Next]_vars PROVE InTurn'
      OBVIOUS
    <2>1. Typed /\ SizeIsEnd
      BY DEF DataInv
    <2>2. \A r \in Ranges : r[1] \in Nat /\ r[2] \in Nat \ {0}
      BY FileDataAssumption DEF Ranges
    <2>c. cur_aggr_file \in Nat /\ cur_aggr_index \in Nat
      BY <2>1, FileDataAssumption DEF Typed
    <2>i. \A i \in Files : i \in Nat /\ file[i].aggr.file \in Nat /\ Index(file[i]) \in Nat
      BY <2>1, FileType, FileDataAssumption DEF Index
    <2>3. ASSUME NEW t \in Threads, Advance(t) PROVE InTurn'
      <3>1. /\ Before(cur_aggr_file, cur_aggr_index, cur_aggr_file', cur_aggr_index') /\ Typed'
            /\ file' = file /\ Files' = Files
        BY <2>1, <2>3, AdvanceTyped DEF Files
      <3>2. cur_aggr_file' \in Nat /\ cur_aggr_index' \in Nat
        BY <3>1, FileDataAssumption DEF Typed
      <3>3. \A i \in Files : Before(file[i].aggr.file, Index(file[i]), cur_aggr_file', cur_aggr_index')
        BY <2>c, <2>i, <3>1, <3>2 DEF InTurn, Before
      <3> QED
        BY <3>1, <3>3 DEF InTurn
    <2>4. ASSUME NEW t \in Threads, Take(t) PROVE InTurn'
      <3> DEFINE new == Len(file) + 1
      <3>1. /\ Files' = 1 .. new /\ Files = 1 .. Len(file)
            /\ \A i \in Files : file'[i] = file[i]
            /\ file'[new].aggr.file = cur_aggr_file /\ Index(file'[new]) = cur_aggr_index
            /\ Len(file) \in Nat
        BY <2>1, <2>4, TakeTyped DEF Typed
      <3>2. creating # {} /\ creating' = {} /\ UNCHANGED <<cur_aggr_file, cur_aggr_index>>
        BY <2>1, <2>4 DEF Take, Typed
      <3>3. \A i \in Files : Before(file[i].aggr.file, Index(file[i]), cur_aggr_file, cur_aggr_index)
        BY <3>2 DEF InTurn
      <3>4. \A i \in Files' : i \in Files \/ i = new
        BY <3>1
      <3>5. \A i \in Files' : \A j \in Files' : i < j => i \in Files
        BY <3>1
      <3> HIDE DEF new
      <3>6. ASSUME NEW i \in Files', NEW j \in Files', i < j
            PROVE  Before(file'[i].aggr.file, Index(file'[i]), file'[j].aggr.file, Index(file'[j]))
        <4>1. i \in Files /\ file'[i] = file[i]
          BY <3>1, <3>5, <3>6
        <4>2. CASE j = new
          BY <3>1, <3>3, <4>1, <4>2
        <4>3. CASE j \in Files
          BY <3>1, <3>6, <4>1, <4>3 DEF InTurn
        <4> QED
          BY <3>4, <4>2, <4>3
      <3>7. ASSUME NEW i \in Files'
            PROVE  \/ Before(file'[i].aggr.file, Index(file'[i]), cur_aggr_file', cur_aggr_index')
                   \/ creating' = {} /\ file'[i].aggr.file = cur_aggr_file' /\ Index(file'[i]) = cur_aggr_index'
        <4>1. CASE i = new
          BY <3>1, <3>2, <4>1
        <4>2. CASE i \in Files
          BY <3>1, <3>2, <3>3, <4>2
        <4> QED
          BY <3>4, <4>1, <4>2
      <3> QED
        BY <3>6, <3>7 DEF InTurn
    <2>5. ASSUME NEW i \in Files, NEW r \in Ranges, NEW v \in Values, WriteBuf(i, r[2], r[1], v) PROVE InTurn'
      BY <2>1, <2>2, <2>5, WriteBufInv
    <2>6. ASSUME NEW in \in Alone, NEW out \in Files, NEW r \in Ranges, NEW off_out \in 0 .. MaxSize,
                 CopyFileRange(in, r[1], out, off_out, r[2])
          PROVE  InTurn'
      <3>1. in \in Files /\ off_out \in Nat
        BY FileDataAssumption DEF Alone
      <3> QED
        BY <2>1, <2>2, <2>6, <3>1, CopyFileRangeInv
    <2>7. CASE UNCHANGED vars
      BY <2>7 DEF vars, InTurn, Files
    <2> QED
      BY <2>3, <2>4, <2>5, <2>6, <2>7 DEF Next
  <1> QED
    BY <1>1, <1>2, DataInvariant, PTL DEF Spec, BlockInv, DataInv

\* OnlyLastShared: with one creating thread (option -s of FUSE), two files are given the
\* same block of an aggregation file only if one of them got number 0x10000, which
\* aggr_t::no cuts to 0, however many files are created and whatever is written.
THEOREM BlocksSharedOnlyLast ==
  ASSUME \A s, t \in Threads : s = t
  PROVE  Spec => []OnlyLastShared
  <1>1. BlockInv => OnlyLastShared
    <2> SUFFICES ASSUME BlockInv, NEW i \in Files, NEW j \in Files, i # j, file[i].aggr = file[j].aggr,
                        ~ file[i].last, ~ file[j].last
                 PROVE  FALSE
      BY DEF OnlyLastShared
    <2>1. Typed /\ InTurn
      BY DEF BlockInv
    <2>2. Index(file[i]) = file[i].aggr.no /\ Index(file[j]) = file[i].aggr.no
      BY DEF Index
    <2>3. i \in Nat /\ j \in Nat /\ file[i].aggr.file \in Nat /\ file[i].aggr.no \in Nat
      BY <2>1, FileType
    <2>4. i < j \/ j < i
      BY <2>3
    <2>5. Before(file[i].aggr.file, file[i].aggr.no, file[i].aggr.file, file[i].aggr.no)
      BY <2>1, <2>2, <2>4 DEF InTurn
    <2> QED
      BY <2>3, <2>5 DEF Before
  <1> QED
    BY <1>1, BlockInvariant, PTL
=============================================================================
