------------------------------ MODULE FileKey -------------------------------
(***************************************************************************)
(* The keys under which KTableFS keeps files in the DB (src/file_key.h,     *)
(* file_key.cc) and the order of the DB's keys (kvengine/slice.h).          *)
(*                                                                          *)
(* A slice is a sequence of bytes.  A key is the inode number of the        *)
(* directory, the hash of the name and the name; hashes and names are       *)
(* slices here, given by the instance.                                      *)
(***************************************************************************)
EXTENDS Naturals, Sequences, FiniteSets, FiniteSetsExt

CONSTANTS
  Base,          \* values of a byte: 256
  InoBytes,      \* sizeof(ino_t): 8
  HashBytes,     \* sizeof(uint32_t): 4
  NameHash       \* Slice::hash of every name, in memory order: [names -> slices]

Names == DOMAIN NameHash
Byte == 0 .. Base - 1
Inos == 0 .. Base ^ InoBytes - 1

ASSUME FileKeyAssumption ==
  /\ Base \in Nat \ {0, 1}
  /\ InoBytes \in Nat \ {0}
  /\ HashBytes \in Nat
  /\ \A n \in Names : n \in Seq(Byte) /\ n # <<>> /\ NameHash[n] \in [1 .. HashBytes -> Byte]

\* What a power is, for the provers, which do not know it.
ASSUME PowerAssumption ==
  /\ Base ^ 0 = 1
  /\ \A i \in 0 .. InoBytes : Base ^ i \in Nat \ {0} /\ Base ^ (i + 1) = Base * Base ^ i

\* Slice::operator<: memcmp of the common length, the shorter one first in a tie.
SliceLess(a, b) ==
  LET diff == {i \in DOMAIN a \cap DOMAIN b : a[i] # b[i]}
  IN  IF diff = {} THEN Len(a) < Len(b) ELSE a[Min(diff)] < b[Min(diff)]

\* The keys of S in the order in which a worker's index, a std::map, holds them.
IndexOrder(S) ==
  CHOOSE s \in [1 .. Cardinality(S) -> S] :
    \A i, j \in 1 .. Cardinality(S) : i < j => SliceLess(s[i], s[j])

FileKey(dir, n) == [dir_ino |-> dir, hash |-> NameHash[n], name |-> n]

\* The key FileKey() with the directory set: no name, hash 0.
DirKey(dir) == [dir_ino |-> dir, hash |-> [i \in 1 .. HashBytes |-> 0], name |-> <<>>]

\* Mutant of ToSlice: the directory in memory order, lowest byte first.
ToSliceLE(key) ==
  [i \in 1 .. InoBytes |-> (key.dir_ino \div Base ^ (i - 1)) % Base] \o key.hash \o key.name

\* FileKey::ToSlice puts the highest byte of the directory first.
ToSlice(key) ==
  [i \in 1 .. InoBytes |-> (key.dir_ino \div Base ^ (InoBytes - i)) % Base] \o key.hash \o key.name

\* FileKey::FileKey(const Slice*).
FromSlice(s) ==
  [dir_ino |-> MapThenSumSet(LAMBDA i : s[i] * Base ^ (InoBytes - i), 1 .. InoBytes),
   hash    |-> SubSeq(s, InoBytes + 1, InoBytes + HashBytes),
   name    |-> SubSeq(s, InoBytes + HashBytes + 1, Len(s))]
=============================================================================
