------------------------------ MODULE FileSlab ------------------------------
(***************************************************************************)
(* The slab allocator of one kvengine worker (lib/kvengine/fileslab.{h,cc}) *)
(* together with the part of LocalFileSet that numbers the files.           *)
(*                                                                          *)
(* Sizes are counted in cells; one cell stands for the smallest slab (64    *)
(* bytes in worker.cc).  A worker owns one allocator, so every operation    *)
(* is executed by that worker's thread alone.                               *)
(***************************************************************************)
EXTENDS Naturals, Sequences

CONSTANTS
  SlabSizes,     \* {64, 128, 256, 512, 1024} in worker.cc, here in cells
  SlabPerFile    \* 1 << 16 in worker.cc

ASSUME SlabAssumption ==
  /\ SlabSizes \subseteq Nat \ {0}
  /\ SlabPerFile \in Nat \ {0}

VARIABLES
  free_slab,     \* SingleFileSlab::free_slab_, one FIFO list per slab size
  cur_file,      \* SingleFileSlab::cur_file, 0 before the first file
  cur_slab,      \* SingleFileSlab::cur_slab
  file_set       \* LocalFileSet::file_set_.size(): files created so far

slabVars == <<free_slab, cur_file, cur_slab, file_set>>

\* slab_t
Slab == [size : SlabSizes, file : Nat, index : Nat]

SlabInit ==
  /\ free_slab = [s \in SlabSizes |-> <<>>]
  /\ cur_file = [s \in SlabSizes |-> 0]
  /\ cur_slab = [s \in SlabSizes |-> SlabPerFile]
  /\ file_set = 0

\* slabs_ is in increasing order of size and the first one that fits is used.
Fit(n) == CHOOSE s \in SlabSizes : s >= n /\ \A t \in SlabSizes : t >= n => s <= t

\* The slab FileSlab::Create returns for an item of n cells.
NewSlab(n) ==
  LET s == Fit(n)
  IN  IF free_slab[s] # <<>> THEN Head(free_slab[s])
      ELSE IF cur_slab[s] = SlabPerFile
        THEN [size |-> s, file |-> file_set + 1, index |-> 0]
        ELSE [size |-> s, file |-> cur_file[s], index |-> cur_slab[s] + 1]

\* Mutants of ReuseFree (the slab stays on the free list), of OpenFile (the new file
\* is not counted) and of Free (the slab is forgotten).
ReuseFreeNoPop(s) == free_slab[s] # <<>> /\ UNCHANGED slabVars
OpenFileUncounted(s) ==
  /\ free_slab[s] = <<>>
  /\ cur_slab[s] = SlabPerFile
  /\ cur_file' = [cur_file EXCEPT ![s] = file_set + 1]
  /\ cur_slab' = [cur_slab EXCEPT ![s] = 0]
  /\ UNCHANGED <<free_slab, file_set>>
FreeForgets(slab) == UNCHANGED slabVars

\* The three ways FileSlab::Create finds a slab: the oldest freed one, the
\* first of a new file, the next of the current file.
ReuseFree(s) ==
  /\ free_slab[s] # <<>>
  /\ free_slab' = [free_slab EXCEPT ![s] = Tail(@)]
  /\ UNCHANGED <<cur_file, cur_slab, file_set>>

OpenFile(s) ==
  /\ free_slab[s] = <<>>
  /\ cur_slab[s] = SlabPerFile
  /\ file_set' = file_set + 1
  /\ cur_file' = [cur_file EXCEPT ![s] = file_set + 1]
  /\ cur_slab' = [cur_slab EXCEPT ![s] = 0]
  /\ UNCHANGED free_slab

NextInFile(s) ==
  /\ free_slab[s] = <<>>
  /\ cur_slab[s] # SlabPerFile
  /\ cur_slab' = [cur_slab EXCEPT ![s] = @ + 1]
  /\ UNCHANGED <<free_slab, cur_file, file_set>>

Create(n) == \/ ReuseFree(Fit(n))
             \/ OpenFile(Fit(n))
             \/ NextInFile(Fit(n))

\* FileSlab::Delete puts the slab on the free list at once, before the write
\* that clears its valid flag has been submitted.
Free(slab) ==
  /\ free_slab' = [free_slab EXCEPT ![slab.size] = Append(@, slab)]
  /\ UNCHANGED <<cur_file, cur_slab, file_set>>

\* Two slabs that share bytes on disk: a file holds slabs of one size, and
\* slabs of one file are told apart by their index.
Clash(s, t) == s.file = t.file /\ (s.size # t.size \/ s.index = t.index)
=============================================================================
