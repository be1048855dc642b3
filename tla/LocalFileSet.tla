---------------------------- MODULE LocalFileSet ----------------------------
(***************************************************************************)
(* The slab files of one worker and the pages of them it has cached         *)
(* (lib/kvengine/local_fileset.cc, and the layout of an item written by     *)
(* FileSlab::Write and read back by FileSlabReadCallback and ReadSync).     *)
(*                                                                          *)
(* The content of a file is a function from cell numbers to cells.  The     *)
(* page cache never fills up here (it has 256K pages); which page is        *)
(* dropped when it does is the subject of module PageCache.                 *)
(***************************************************************************)
EXTENDS Naturals

CONSTANTS
  Keys, Values,
  ItemSize,      \* ItemSize[k]: cells of an item of key k, header included
  PageCells      \* PageCache::PAGE_SIZE in cells

ASSUME FileAssumption ==
  /\ Keys \subseteq Nat
  /\ ItemSize \in [Keys -> Nat \ {0}]
  /\ PageCells \in Nat \ {0}

VARIABLES
  disk,          \* the cells written so far: [<<file, cell>> -> Cell]
  cache          \* PageCache::index_: [<<file, page>> -> [address -> Cell]]

fileVars == <<disk, cache>>

Zero == <<"zero">>   \* a header whose valid flag FileSlab::Delete cleared
Junk == <<"junk">>   \* bytes nobody wrote: past the end of a file, a new frame
ItemCell(k, v, i) == <<"item", k, v, i>>
Cell == {Zero, Junk} \cup ({"item"} \X Keys \X Values \X Nat)

FileInit == disk = << >> /\ cache = << >>

Addr(slab, i) == <<slab.file, slab.size * slab.index + i>>
Page(a) == <<a[1], a[2] \div PageCells>>
PageOf(slab) == Page(Addr(slab, 0))
PageAddrs(p) == {<<p[1], p[2] * PageCells + i>> : i \in 0 .. PageCells - 1}

\* content with the cells of new written over it
Over(content, new) ==
  [a \in DOMAIN content \cup DOMAIN new |->
     IF a \in DOMAIN new THEN new[a] ELSE content[a]]

DiskAt(a) == IF a \in DOMAIN disk THEN disk[a] ELSE Junk

\* PageCache::Lookup
Lookup(p) == p \in DOMAIN cache

\* A frame as NewEntry gives it, and as pread of page p leaves it.
EmptyFrame(p) == [a \in PageAddrs(p) |-> Junk]
PageFrame(p) == [a \in PageAddrs(p) |-> DiskAt(a)]

\* PageCache::NewEntry for those pages of frames that have no frame yet.
NewEntries(frames) == Over(frames, cache)

\* FileSlab::Write lays out valid flag, key and value from the slab's start.
ItemCells(slab, k, v) ==
  [a \in {Addr(slab, i) : i \in 0 .. ItemSize[k] - 1} |->
     ItemCell(k, v, a[2] - slab.size * slab.index)]

\* FileSlab::Delete overwrites the header alone.
ZeroCells(slab) == [a \in {Addr(slab, 0)} |-> Zero]

Invalid == <<"invalid">>

\* The item in a slab of the given content: the key and the value the header
\* describes, or Invalid when Valid() is false of it or the bytes are not those
\* of one item.
ItemIn(content, slab) ==
  LET at(i) == IF Addr(slab, i) \in DOMAIN content THEN content[Addr(slab, i)] ELSE Junk
      h == at(0)
  IN  IF /\ h \notin {Zero, Junk}
         /\ \A i \in 0 .. ItemSize[h[2]] - 1 : at(i) = ItemCell(h[2], h[3], i)
      THEN <<h[2], h[3]>>
      ELSE Invalid
=============================================================================
