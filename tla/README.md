# KTableFS in TLA+

KTableFS is a FUSE file system that keeps the attributes of its files in a
key-value engine, `kvengine`, and their contents in aggregation files.  This
directory holds TLA+ models of the file system and its engine, the TLC
configurations that check them, and TLAPS proofs.  Paths below are those of the repository.

## 1. The system

| part | state | operations | interacts with |
|---|---|---|---|
| `KTableFS` (`src/*.cc`) | root, `FileHandle`s given to the kernel as inode numbers, next inode number | FUSE handlers: Lookup, Mknod, Mkdir, ReadDir, ReadDirPlus, Open, GetAttr, ReadBuf, WriteBuf, CopyFileRange | builds a `Batch`, submits it to the `DB`, answers the kernel in the batch's callback (in a worker thread); calls `FileData` in the FUSE thread |
| `FileKey` | directory, hash and name of a file | encoding, comparison | keys of the engine |
| `FileData` | aggregation files, free blocks, large files | Create, ReadBuf, WriteBuf, Read, Write, Delete | called by the handlers, no lock |
| `DB`, `Batch` | the workers; of a batch its requests, its callback, the worker it is at | Open, Submit; Get, Put, Update, Delete, Scan, AddCallback, FinishRequest | client threads push batches to workers, workers push them to other workers |
| `ThreadsafeQueue` | queue, mutex, condition variable | Push, TryPop, WaitData | between threads |
| `Worker` | `index_`, `batch_queue_`, `io_queue_` | `Main_`, `ProcessRequest_`, callbacks | owns a FileSlab, a LocalFileSet and a PageCache |
| `FileSlab` | free lists and current file of every slab size | Create, Read, ReadSync, Write, Delete | LocalFileSet |
| `LocalFileSet` | the slab files | Create, Read, ReadSync, Write | PageCache, AIO |
| `PageCache` | frames, list, `index_` | Lookup, NewEntry, Update_, callbacks | the I/O of LocalFileSet |
| `AIO` | one iocb with its callbacks | Submit, FakeSubmit, Finish, Success | kernel AIO |
| `util/index/*` | a red-black tree, a B-tree | new, insert, remove, lookup, scan | the engine's index in an earlier version in C, compiled by no target; `std::map` has taken its place |
| `util/*.c` | arena, lists, hash table | | the same version |

A worker is one thread.  A turn of its main loop

1. pops at most `MAX_EVENT` batches and runs `ProcessRequest_` on the first
   request of each.  That answers the request (a miss, a SCAN), or leaves an AIO
   in `io_queue_`;
2. submits all iocbs at once and waits for all events;
3. runs the callbacks of the AIOs in order and finishes their requests: the
   batch goes to the worker of its next request, or its callback runs.

What is hard about it:

- *Requests of one turn overlap.*  The index changes in step 3, the free list in
  step 1, the file in step 2 and the cached page in step 3 (for a write) or in
  step 2 (for a read that missed).  A SCAN does its I/O in step 1.
- *Decisions are taken early and used late*: which slab a request is about and
  whether its page is cached are settled in step 1.
- *Batches have no lock*; they are passed from thread to thread, and an AIO finds
  its worker through a field of the batch that the previous owner wrote.
- *Errors*: a failing write must undo nothing and show nothing.
- *Limits*: `MAX_EVENT`, the last slab of a file, a full cache.
- *Handles*: the kernel's name for a file is a pointer to a `FileHandle`.  Each
  answered Lookup makes one with a copy of the attributes, so a file has several,
  and each write compares itself with the copy it came through.
- *Directories are key ranges*: that a directory is listed completely rests on the
  byte order of keys, on the bounds of the range, and on offsets that count
  entries while others create files.
- *Trees*: removal rebalances through many cases, most of them with a mirror image.

The properties that make it correct: no two owners of a slab; no slab lost; what
a client reads is what a map would give it; cached pages and files agree; every
batch is owned by one thread, carried out completely, in order and once; every
request is answered; a name means one file; a directory read lists what was there;
the size that is stored is the end of the file.  `hazards` in `PROJECT.json` lists where each could fail.

## 2. Modules

| module | models | kind |
|---|---|---|
| `FileSlab` | slab allocator | component |
| `LocalFileSet` | files, cached pages, item layout | operators over `disk`, `cache` |
| `Worker` | a worker with its clients; EXTENDS the two above | composition |
| `WorkerInv` | what is required of it, the inductive invariants | properties |
| `KVStore` | a linearizable map | abstract specification |
| `WorkerKV` | refinement mapping `Worker` to `KVStore` | refinement |
| `WorkerKVInv` | the inductive invariant of the refinement | properties |
| `WorkerAcked` | `Worker` with a history of acknowledged writes | observer |
| `WorkerProofs`, `WorkerCacheProofs`, `WorkerKVProofs` | theorems about `Worker`: types and slabs; its page cache; that it implements `KVStore` | TLAPS |
| `PageCache` | the LRU list pointer by pointer, replacement, contents of frames | component |
| `DB` | batches travelling through several workers | composition |
| `DBInv`, `FileDataInv`, `KTableFSInv` | the inductive invariants of `DB`, `FileData`, `KTableFS` | properties |
| `PageCacheProofs`, `DBProofs`, `FileDataProofs`, `KTableFSProofs` | theorems about them | TLAPS |
| `MinProofs` | lemmas on `Min` and `Max` for these | TLAPS |
| `FileData` | blocks and large files, the handlers that read, write and copy | component |
| `FileKey` | keys as bytes, their order | operators |
| `KTableFS` | the handlers and callbacks over the engine, with the kernel as environment; EXTENDS `FileKey` | composition |
| `RBTree`, `BTree` | the two trees, the first pointer by pointer | operators |
| `Index` | both trees next to the set of keys they stand for | component |
| `MCWorker`, `MCAcked`, `MCPageCache`, `MCDB`, `MCFileData`, `MCKTableFS`, `MCFiles`, `MCIndex` | constants for TLC | |

### Worker

`batch_queue`, `index`, `io_queue` are the members of the class; `cnt` is
the local of `Main_`, `phase` and `pos` its program counter; `free_slab`,
`cur_file`, `cur_slab` belong to `SingleFileSlab`, `file_set` is the number of
files of the `LocalFileSet`.  `req[c]` is the request a client waits for and
`reply` the call of `Batch::FinishRequest` that the last step made.

There is one action per case of `ProcessRequest_` (`GetMiss`, `Get`,
`PutExists`, `Put`, `UpdateMiss`, `Update`, `DeleteMiss`, `Delete`, `Scan`), one
for the end of the draining (`Drained`), one per kind of iocb (`FakeRead`,
`Pread`, `PreadFails`, `Pwrite`, `PwriteFails`), one for `io_getevents`, and one
per kind of AIO that is finished.  Each is a step of the worker thread; only
`Submit`, of a client, can come between two of them, and the only variables both
sides touch are the queue and `req`.

Files are made of *cells*; one cell is the smallest slab (64 bytes).  An item is
a sequence of cells, of which the first carries the header.  A read returns the
key and the value if all cells are those of one item and `Invalid` otherwise;
so overwritten, cleared and never written slabs can be told apart.

The files are opened without `O_DIRECT`, and for such files Linux carries out
each iocb inside `io_submit`; hence I/O happens in the order of the AIOs, and the
events come in that order.  The kernel is outside the repository, and this is
taken from how `Main_` uses it (it matches events and AIOs by position).

The model is of a build without assertions.  With assertions a write that fails while its
page is cached ends the program (`lib/kvengine/pagecache.cc:99`).

`Overlap` is a discipline of the clients: which pairs of operations may be
outstanding together on one key (or together with a SCAN).  It is a parameter
because what the worker guarantees depends on it; see the findings.

A batch has one request in this module.  A frame, once given to a page, stays
with it: the cache has 2^18 frames.  `PageCache` is about what happens otherwise.

### PageCache

`lru` has `newest_`, `oldest_`, and `prev` and `next` of every entry; `Update`,
`Lookup`, `Victim` and `Unlink` do what `Update_`, `Lookup` and `NewEntry` do to
the pointers.  The calls are those of `LocalFileSet`: `Read`, `Write` and
`ReadSync`, each with a hit and a miss.  `Flush` is steps 2 and 3 of a turn.
The content of a page is the number of writes it has seen; `data` says of a frame
which page's content it has, and `stale` collects reads that returned something
else than the page as the writes finished before had left it.  `valid` of an
entry is not kept: it is true of every entry made.  `Stop` is a call that cannot
go on: no victim, a null pointer, a cycle.

### DB

`requests[c]` is the rest of the batch of client `c` and `cur_worker` its member.
`Submit` is `DB::Submit` and `Worker::Submit` up to the `Push`, which is a step
of its own, so that others may run between the assignment of `cur_worker_` and
the push.  A request is answered at once or after an AIO, without a reason: what
decides this is in `Worker`.  When a scan callback returns false the code uses
the batch after it was deleted; the model lets the second `FinishRequest` run the
callback again or not.

### FileData

`cur_aggr_file` and `cur_aggr_index` are members; `content` has the bytes of
every aggregation file and large file up to its end; `file` the attributes that
matter.  `Create` is two steps of a FUSE thread, since it has no lock: the counters
are advanced, then read.  A `fuse_bufvec` is a sequence of one or two pieces:
`Split` is what `WriteBuf` fills in, and `ReadPieces` what `ReadBuf` does, which
leaves a missing large file out.  `FuseBufCopy`, `Pread` and `Pwrite` stand for
libfuse and the kernel: copying goes on chunk by chunk (`CopyChunk`, three times at
most for two pieces on either side) and ends with a chunk that was read short, and a
write behind the end leaves zeros.  `flat` is the file as a
plain sequence of bytes, each of which knows its file, place and value.
`Write` and `Read` of both classes are not registered in `main.cc`, and nothing
calls `FileData::Delete`.

### FileKey and KTableFS

A slice is a sequence of bytes and `SliceLess` is `memcmp` with the length as tie
break; `ToSlice` and `FromSlice` do what `FileKey` does, with `Base`, `InoBytes` and
`HashBytes` in place of 256, 8 and 4.  The hash of a name is in memory order and
can be any bytes.  `IndexOrder` is a set of keys in the order in which the
`std::map` of a worker holds them, which is the order of a SCAN.

`handles` are the `FileHandle`s the kernel was given, the root first; `store` is
what the engine has under each key; `req[c]` is the FUSE request of thread `c` and
how far the engine is with it; `dirs[c]` is a directory being read.  Each handler
(`Lookup`, `Mknod`, `Mkdir`, `WriteBuf`, `OpenDir`, `ReadDir`) and each callback
(`LookupCallback`, `MknodCallback`, `WriteCallback`, `ReadDirCallback`) is an
action; in between the engine acts on the request (`DBGet`, `DBPut` and
`PutCallback`, `DBUpdate`, `DBScan` for one worker after the other).  The I/O of a GET, a
PUT or an UPDATE may fail (`IoErrors`).  `MkdirCallback`
is the same code as `MknodCallback`.  `Open` and `GetAttr` change nothing.

The engine is taken at what it promises: a request takes effect once (`KVStore`)
and a SCAN visits the workers in turn (`DB`).  What it does beyond that (section 6)
is not repeated here, with one exception: a PUT looks for its key when it is
processed and adds it in its callback, so two PUTs of one new key both succeed.
The kernel locks a directory's node during a creation; with `CreateRaces` FALSE
that lock is taken to cover the directory.  One write per node is let through at a
time.

A directory is read in several calls.  `ReadDirScan` is the scan callback, entry by entry: the first
`off` entries of the whole scan are passed over, the others go to the buffer of
`BufSize` bytes until one does not fit; then it returns false, which ends the SCAN for the
workers not visited yet (`ScanLoop`, `DBScan`).  The kernel gets the buffer and asks again,
from the offset that came with the last entry, until it gets an empty one.  In the code a
SCAN that is given up is finished a second time behind the loop (`viol_scan_stop`): the
model takes it that this reaches nobody, as when the kernel drops the answer to
a request it no longer has, or that the process dies of it.

### RBTree, BTree, Index

A red-black node is named by its key, which it never changes, and the tree is modelled
pointer by pointer; a B-tree node has a
name of its own, and its lists of pairs and children are sequences.  Where the code
repeats a case for the other side the operators take the side as a parameter.
Where `btree_node_merge_` moves pairs between siblings and their parent, the pairs are
modelled as linked: `Chain` has the head pointer and the next pointers of a node, and `Join`,
`ShiftLeft` and `ShiftRight` assign to them as the code does.  The code has two branches
there, for the first child and for the others; they differ in the pointer that leads to
the parent's pair, its head or the next pointer of the pair before (`Slot`).
Comparison macros are the order of the keys; values are left out.  `agreed` says
whether both trees returned what they should.  The scans differ in the code: the
red-black tree's leaves its upper bound out, the B-tree's includes it.

## 3. Runs

| run | what it checks | instance |
|---|---|---|
| `worker_linear` | `ImplementsKVStore`, `SlabsExclusive`, `NoSlabLeak`, `CacheCoherent`, `TypeOK`, and the inductive invariants `SlabInv`, `LeakInv`, `KVInv` | 2 clients, 2 keys, 2 values, all operations, turns of 2 |
| `worker_write_err` | `ImplementsKVStore`, `SlabsExclusive`, `CacheCoherent` when writes fail, and the inductive invariants `CacheInv`, `KVInv` | 2 clients, 2 keys of different slab sizes, 2 values, no DELETE |
| `worker_live` | `EveryRequestAnswered` | 3 clients, turns of 2, reads may fail |
| `pagecache_index` | `IndexConsistent`, `LookupFinds`, `PreadsLand` | 4 pages, 3 frames, 2 steps of search, turns of 2 |
| `db_batches` | `OneOwner`, `IoLocal`, `AllCarriedOut`, `InOrder`, `EveryBatchAnswered`, `TypeOK`, the inductive invariant `BatchInv` | 2 clients, 3 workers, batches of 1 and 2 requests |
| `filedata` | `OnlyLastShared`, `ReadsBack`, `SizeIsEnd`, the inductive invariants `PlaceInv`, `BlockInv` | 4 files of up to 4 bytes, blocks of 2 bytes, 2 blocks per aggregation file, 3 writes or copies |
| `ktablefs` | `Identity`, `SizeKept`, `NoCallStuck`, `ListsDirectory`, `TypeOK`, the inductive invariants `SameInv`, `ListInv` | 2 threads, 4 inode numbers, 4 handles, 2 workers, lookups and creations may fail; either 2 names in every directory and writes, or 3 names, directory reads and buffers for 1 or 2 entries |
| `index_trees` | `RBBalanced`, `RBIsSet`, `BTBalanced`, `BTIsSet` | order 3; 9 keys in every order of insertions and removals; 38 keys in 36 orders |
| `viol_*` | disagreements, section 6 | |

What they show:

- `worker_linear`: for clients that overlap only as `SafeOverlap` says, every
  answer is one that a map could have given, each request having taken effect
  once between submission and callback.  `WorkerKV` tells when: an UPDATE or a
  DELETE whose page is not cached takes effect when its iocb is carried out,
  before its callback; everything else when it is answered.  The states also
  have no slab with two owners, no lost slab, and no cached page that differs
  from the file between turns.
- `worker_write_err`: a failing write is reported, and its value shows up nowhere.
- `worker_live`, `db_batches`: nobody waits for ever, although turns stop
  at `MAX_EVENT` and others keep submitting.
- `pagecache_index`: although the list may be damaged (section 6), `index_` never
  leads to a frame that belongs to another page, `Lookup` returns no frame of another
  page, and the preads of a turn find their frames as they were given to them:
  of their page, and each with one pread only.
- `db_batches`: a batch is in one place at a time; the AIO of a request goes to
  the queue of the worker that runs it; SCANs reach each worker once although
  their continuations are put behind other requests.

- `filedata`: a file that is alone in its block reads back what was written or
  copied to it, all of it if it has no gaps and a prefix otherwise; two files get
  the same block only if one of them got number 0x10000, which 16 bits turn into 0.
  With two threads in `Create` they may get the same block in general.

- `ktablefs`: every handle of a name carries the inode number the engine has under
  the name, and no inode number is used twice.  While a file has one
  handle its stored size is the end of what was written.  Whatever the engine
  answers to a lookup, a creation or a scan, the kernel gets an answer.
  Reading a directory to its end, call by call and in each call worker by
  worker while the other thread creates files, misses no name known at its opening and
  lists no other directory's.  Offsets count entries, and an entry created meanwhile
  moves those behind it: names may be listed twice, and new ones be missed, but none of
  those known is passed over before it was returned.
- `index_trees`: whatever the order of insertions and removals, the assertions of
  `rb_valid` hold, B-tree nodes have between order and 2 * order pairs and leaves
  are equally deep; lookups, sizes, results and scans are those of the set of keys.

**Bounds.**  `MaxEvent` is 2 (64 in the code): every ordered pair of requests can
share a turn, and a turn can be cut off with requests left.  Two clients (three
for liveness) are at least as many as a turn takes.
Two cells make a page, so two slabs of one cell share a page and a slab of two
has its own.  `SlabPerFile` is 1 (65536 in the code): with slabs 0 and 1
the last slab of a file and the next file are reached.  `MaxFile` stops PUTs
and so bounds the files; in `worker_linear` it is larger than what is ever
reached, since freed slabs are reused.  `LookupSteps` is 2 (20 in the code),
below the number of frames, so that `Lookup` falls back on `index_`;
`MaxWrite` bounds the writes of a page.  In `filedata` the third
file gets the number that wraps and the fourth starts a new aggregation file;
`MaxGap` is a block, so that a file may consist of its large part alone.
In `ktablefs` bytes are bits and inode numbers have three of them: numbers 1 to 4
include some whose lowest byte orders them differently from their value, directories
are nested, and one name has hash 0, the first of its range.  `MaxHandle` 4 lets a
file be looked up again.  `MCFiles` has two plans for it: writes multiply the states, so they and
directory reads, which do not look at sizes, are in different ones.  A buffer has room for the longest name or for the
two others, so a directory of three takes two or three calls, creations come
between them and inside them, and two of the names have one hash.  In `index_trees` nine keys, in every order, rotate
the red-black tree on both sides and split and merge B-tree leaves; three levels, and merges and
shifts of inner nodes in both directions, need 31 keys or more, for which orders of
insertion and removal are given by strides modulo a prime.
`CHECK_DEADLOCK FALSE` is set for `PageCache`, where a `Stop` ends the worker, and
for `FileData`, `KTableFS` and `Index`, where users need not go on.

**Symmetry** is used for clients, values and pages where only safety is checked.

**Fairness.**  `WF(Main)`: the worker is a thread of its own; `io_getevents` is
called with the number of iocbs submitted as its minimum and every iocb
completes; `WaitData` returns when the queue has a batch (`Push` notifies under
the mutex).  In `DB` the same for each worker, and for the `Push` of a client,
which takes a mutex that is held for a few instructions.  Nothing is assumed of
when clients submit.

## 4. Proofs

Every theorem holds for all constants that satisfy the assumptions of the modules:
any number of clients, keys, sizes, pages, workers, names, any `MAX_EVENT`.  A
proviso is an `ASSUME` of the theorem and named here.  The assumptions say what the
code fixes: slab sizes divide the page size and every item has one that fits
(`PageAssumption`, `WorkerAssumption`), a new SCAN is one for worker 0
(`DBAssumption`: `Batch::Scan` has no key), an empty buffer has room for any entry of a
directory (`BufferAssumption`: it is a page or more, and a name has 1024 bytes at most).  One is about the
callers: the size of an item depends on its key alone (`FileAssumption`).
The engine does not ensure it: `UPDATE` writes a value of any length into the slab the key has
(`worker.cc:104`, `fileslab.cc:69`).  The file system's values have a fixed size
(`file.h:40`), and so have those of `kvengine_test.cc`.  `PowerAssumption` of `FileKey` is a fact of
arithmetic that every `Base` satisfies (the power of 0 is 1, the next one is `Base`
times as large); it is an assumption because the provers do not know what `^` means.

| theorem | property | proviso |
|---|---|---|
| `WorkerProofs!TypeCorrect` | `TypeOK`, `LoopInv` | |
| `WorkerProofs!SlabInvariant`, `SlabsStayExclusive` | `SlabInv`, `SlabsExclusive` | `Careful` |
| `WorkerProofs!LeakInvariant` | `LeakInv` | `Careful`, `OnePut` |
| `WorkerProofs!NoSlabIsLost` | `NoSlabLeak` | `Careful`, `OnePut`, `WritesWork` |
| `WorkerCacheProofs!CacheInvariant`, `CacheStaysCoherent` | `CacheInv`, `CacheCoherent` | `Apart` |
| `WorkerKVProofs!KVInvariant`, `WorkerImplementsKVStore` | `KVInv`, `ImplementsKVStore` (the refinement) | `Linear` |
| `PageCacheProofs!IndexStaysConsistent`, `LookupFindsItsPage` | `IndexConsistent`, `LookupFinds` | |
| `PageCacheProofs!PreadsKeepTheirFrames` | `PreadsLand` | |
| `DBProofs!BatchInvariant`, `TypeCorrect`, `BatchHasOneOwner`, `IoStaysLocal`, `CarriedOutInOrder` | `BatchInv`, `TypeOK`, `OneOwner`, `IoLocal`, `InOrder` | |
| `DBProofs!EverythingCarriedOut` | `AllCarriedOut` | `ScanAnswers` has no FALSE |
| `FileDataProofs!SizesAreEnds` | `SizeIsEnd` | |
| `FileDataProofs!BytesArePlaced`, `FilesReadBack` | `PlaceInv`, `ReadsBack` | |
| `FileDataProofs!BlockInvariant`, `BlocksSharedOnlyLast` | `BlockInv`, `OnlyLastShared` | one thread |
| `KTableFSProofs!FsInvariant`, `TypeCorrect`, `OneHandleKeepsSize` | `FsInv`, `TypeOK`, `SizeKept` | |
| `KTableFSProofs!SameInvariant`, `NamesKeepIdentity` | `SameInv`, `Identity` | `~CreateRaces` |
| `KTableFSProofs!DirectoryRange` | the range of a directory's SCAN has the keys of its names and no others | |
| `KTableFSProofs!ListInvariant`, `ListingIsComplete` | `ListInv`, `ListsDirectory` | |

Each proof has the same shape: an inductive invariant, one lemma per action (or
per kind of action) that says it is preserved, a lemma for `[Next]_vars`, and the
theorem.  TLC checks the inductive invariants in the runs of section 3.

### Worker: slabs

`Careful` says that clients do not have two DELETEs of one key outstanding and
that the write of a DELETE does not fail: where writes may fail (`~WritesWork`) there
are no DELETEs.  Both are needed: each DELETE that is processed puts
the slab on the free list, and the index gives the key up only when the write
succeeded.  Writes of PUTs and UPDATEs may fail.

`SlabsExclusive` is not inductive.  `SlabInv` adds

- `LoopInv`: where `pos` is in each phase, so that the AIOs still to be finished
  (`Pending`) are known;
- `QueueInv`: a client is in one place, so finishing an AIO settles one request;
- `DeletesDiffer` and `DeleteInv`: a pending DELETE is the only one of its key, its
  slab is the one the index has, and its write did not fail; so finishing it
  takes out of the index the key whose slab was freed;
- `AllocInv`: all slabs handed out are at or below the allocator's counters, and
  each size fills a file of its own; so a slab from the counters is new.

That no slab is lost needs `OnePut` besides: when two PUTs of one new key are under way,
`PutCallback` of the second finds the key in the index and forgets its slab.
It also needs `WritesWork`, because `PutCallback` gives the slab of a PUT whose write failed
to nobody; `LeakInv` says the rest for failing writes as well (`LeakFree`).
`LeakInv` adds that pending PUTs have different keys that the index does not have.
Each step then hands every slab from one owner (live key, PUT, free list) to
another, and opening a file (`LeakPut`) makes its first slab owned and takes the
others up to the counter as they come.

### Worker: the page cache

`CacheCoherent` speaks of the states between turns; during a turn the file runs
ahead of the cache, and pages have frames nobody has filled.  `CellInv` says what
holds then of each cell of each page: the page is still to be read (`Unread`), or
no patch is to come and the cell is as on disk, or the *last* patch to come makes it so
(`Hits`).  It is inductive together with

- `HitInv`: whether an AIO patches the page was decided when it was made; none that
  patches comes before the read that fills the frame, and a write that does not
  patch though the page has a frame by now comes before such a read;
- `FitInv` and `HeadInv`: items fit their slabs, so that writes stay in their pages
  (a slab does not cross pages, `SlabInPage`) and an item that begins in a page
  is all in it;
- `ScansApart`, from the proviso.

`Apart` says that reads do not fail and that nobody scans while a write is outstanding.
`viol_scan_put` shows why the second is needed of PUT and UPDATE, and a read that
fails leaves a frame that is never filled.  Writes may fail.  A SCAN during a
DELETE is harmless (the page keeps old bytes of a slab that is free, which
`CellInv` forbids); `worker_linear` allows it and checks `CacheCoherent` there.

### Worker: the map

`Linear` says of the clients what `SafeOverlap` gives TLC: `Careful` and `OnePut`, no
DELETE of a key that somebody reads or updates, no SCAN while others read, put or
update; and reads do not fail.  Section 6 has what goes wrong without each.  The write of a
PUT or UPDATE may fail: the request is then answered with an error, and the map
stays as it was.

The map of `WorkerKV` reads an item from the frame of its page once that is filled and
from the file before (`View`).  `KVInv` says that every key of the map has its whole item
there, and so has a PUT that was written past the cache and waits for its callback
(`ItemInv`).  Three more parts make it inductive:

- which AIO is about what: the keys of GETs and UPDATEs are live and their slabs those of
  the index (`UseInv`, `TogetherInv`); the slab of a pending DELETE, which the index
  still names, is on a free list or has gone to a PUT *behind* it (`FreedInv`);
- which writes have happened: those before `pos` and no others, except the failed ones,
  and nothing but a write fails (`EventInv`);
- which writes patch: `HitInv` for PUT and UPDATE only, since a SCAN beside a DELETE may
  bring in the page that the DELETE does not patch (the map has dropped the key by
  then); and `HitsLast`, by which a write that patches is followed by no
  write to the page that does not.  So when a PUT reuses the slab of a DELETE of the
  same turn, the DELETE has taken effect first, on disk or in the frame alike.

A write is *due* when reads begin to see it: `Pwrite` of an AIO that does not patch, the
callback of one that does.  `DueKeys` and `DuePuts` show that a due write clashes with the
slab of no other key of the map and of no other PUT that was written, `DueItems` that all
those items stay.  `StoreSame`, `StoreSet` and `StoreDrop` turn this into what
happens to the map, and each action of `Worker` is then a `Call`, `Do`, `Return`, `DoReturn`
or `Quiet` step of `KVStore` or leaves it unchanged (`KVStep`).

### PageCache

The list may be damaged, and nothing is assumed of it.  What `Lookup` and the
search for a victim do is walk along it: `Walk` is a recursive function, and that
it has a value for every length is shown by looking at the least length that has none
(`WalkExists`, with `LeastNatural`), since induction is out of reach.  The
entries found are compared with the page asked for, so `index_` and the frames it
leads to stay in step whatever the walk meets.  `PreadsLand` is not inductive: `Landing`
adds that the frame of every pread of the turn waits.  The search for a victim takes
only frames that do not wait and so none of theirs, a miss makes a frame for each pread of its
own, and no step but the end of the turn clears `wait`.

### DB

`BatchInv` says where a batch is (`Owned`: handed, queued or waiting for an AIO, in
one place, until its callback ran), that it is with the worker of its first request,
which is the one `cur_worker_` names (`Routed`), and keeps account of it
(`Accounted`): what was carried out and what the requests left stand for make up
the program without overlap.  A SCAN for worker 0 stands for all workers until
it is fanned out, which happens before it is carried out or waits; hence the
two forms of `Accounts`.  A scan callback that gives up finishes its batch twice
(`viol_scan_stop`); only `EverythingCarriedOut` needs that it does not.

### FileData

`SizesAreEnds` needs what copying writes: `FuseBufCopy` is taken apart chunk by chunk,
and the length of what it copied is compared with the end that `Grow` stores.
`BlockInv` says that blocks are given out in order (`InTurn`), in the order of the
numbers before 16 bits cut them.  It needs that one thread creates files (option
`-s`), because the counters are advanced and read in two steps.

`ReadsBack` compares what a read returns with `flat`, through the two pieces of a
`fuse_bufvec`.  `PlaceInv` states where things are byte by byte, so that no proof has to
follow the pieces: `Loc(i, k)` is the place of byte `k` of file `i`; a file alone in its
block has its bytes there (`InPlace`), and no byte is in a place that is nobody's
(`NoStray`), so that a file just created finds its block empty.  Every write,
and every chunk of a copy, puts byte `k` to `Loc(i, k)` and touches nothing else but the zeros of a gap;
`Loc` of different files is different unless they share a block.  A read then returns byte for byte
what `flat` has, up to where a local file ends early because of a gap.  It holds for any number of threads, since a file that came to share
its block is not `Alone`.

### KTableFS

`FsInv` ties names in handles and requests to the DB (`Known`) and says how the size in
the DB, in the only handle of a file, in a write under way and as acknowledged go
together (`Sized`).  `SameInv` adds that everything told of a name agrees with the DB and
that an inode number given out is in one creation or under one name (`Same`).
Two creations of one name that overlap break it, and `~CreateRaces` rules them out.

`ListsDirectory` rests on the encoding.  `DirectoryRange` says that the keys between `DirKey(d)`
and `DirKey(d + 1)` are those of the names in directory `d`: two inode numbers differ in a first
digit, counted from the left; up to there `ToSlice` writes the same bytes, and
that digit orders them as the numbers.  The first digit is found as the least
place at which the leading digits differ (`Lead`, `FirstDigit`), a least
natural number in place of an induction.  In the same way `IndexOrder` is shown to have a value: the
place of a key is the number of keys before it (`Places`), which needs that
`SliceLess` is a total order.  `ListInv` adds what is known of a reading under way and
of its SCAN.  The place of a name in a scan of its directory is the number of names met up to
it (`UpTo`): those of earlier workers and the ones before it at its own.  As no handler
removes a file, places only grow (`NamesStay`, `ReadingStays`, `ScanningStays`).  `Reading` says that a name
known at the opening whose place is within the offset was returned; `Scanning`
says that the SCAN has not passed more entries than there are, has the known names of the
workers visited, and that of those to come it will pass over only returned ones; when the buffer is full,
each known name that is missing is behind the last entry in it.  The loop of a worker is a
recursive function; that its states keep this (`LoopKeeps`) is shown by looking at
the first that does not.  An empty buffer is never full (`BufferAssumption`), so a
call that returns nothing has been at every worker.

### Only model-checked

- Liveness (`EveryRequestAnswered`, `EveryBatchAnswered`) and `NoCallStuck`, which is
  about ENABLED: the prover has neither.
- Everything about the trees, whose operators are recursive over data.
- `CacheCoherent` for SCANs during DELETEs, as said above.

## 5. What is not modelled

- The bytes of a file that has several handles: `FileData` has one handle per file,
  `KTableFS` several without the bytes.
- The damage that one component's deviation (section 6) does to the next:
  `KTableFS` takes the engine at what it promises.
- Crash and restart: the engine has no recovery.  Slab files are truncated when
  they are created, and the index is in memory.
- A failing DELETE: runs with failing writes leave it out (section 4 says why).
- Short reads and writes as results of their own: an event is a success or not.
- What a SCAN that was given up does to memory: its batch, its buffer and its
  `fuse_req_t` are used after they were freed (`viol_scan_stop`), which may hit another request.
- Values whose size changes with an UPDATE: one that outgrew its slab would be
  written over the slab behind it (section 4).
- The kernel's side of AIO and of FUSE but for its locks, memory management of
  `Slice`, hashing, options of `main.cc`.
- `util/*.c` and `dbg.h`: memory, containers and logging of the version in C.

## 6. Where code and expectations differ

Each is a run that TLC ends with a counterexample; `findings` quotes the lines.

- `viol_scan_put`: a write enqueued while its page is not cached never patches
  the cache; a SCAN of the same turn caches the page as it is before the write.
  From then on GETs return the old value, although the write was acknowledged.
- `viol_page_stale`: `Update_` does not unlink an entry from the middle of the
  list.  Entries drop out of the list, `Lookup` does not find pages that are
  cached, and a page gets a second frame; reads and writes then use different
  ones.  In `pagecache_index`, where the cache gets full, the same damage makes
  `Stop` possible: a null pointer is followed when an entry is taken out or moved.
- `viol_scan_stop`: when a scan callback returns false the batch is finished, and
  deleted, twice.

- `viol_size_lost`: two handles of a file each have a size; a write through the one
  with the smaller size stores that size, and the file ends in the middle of what
  was written through the other.

More that the models show when a constant is changed:

- with <<"SCAN", "GET">> in `Overlap`, a SCAN in the turn of a GET whose page was not
  cached finds the frame of the GET, which is filled only when the turn is
  submitted (assertion at `lib/kvengine/fileslab.cc:56`);
- with <<"DELETE", "GET">>, a GET in the turn of a DELETE finds the key in the index and
  reads after the DELETE has cleared the slab (`fileslab.cc:38`);
- with `read_err` in `Faults`, a read that failed leaves its frame in the cache, and
  the next GET of the page is a hit on a frame nobody filled (`pagecache.cc:104`);
- with `CreateRaces`, two creations of one name both succeed and `Identity` fails:
  one of the creators has a file no name leads to (`worker.cc:88`);
- with "UPDATE" in `IoErrors`, a write whose update fails is never answered, and
  `NoCallStuck` fails (`read_write.cc:50`);
- a copy from a gap that finds nothing to copy still sets the size
  (`read_write.cc:121`).

`SafeOverlap` in `MCWorker` has the pairs that are safe together.  Left out, besides
those above, are two DELETEs of one key (which free its slab twice), two PUTs of one
new key (both are acknowledged, and one slab is lost), and an UPDATE with a DELETE
(the UPDATE may write to a slab that was freed).

## 7. Plan

Done, in this order: `FileSlab`, `LocalFileSet`, `Worker` and its properties;
`KVStore` and the refinement; the proofs about slabs; `PageCache`; `DB`;
`FileData`; `FileKey` and `KTableFS`; the trees.

Then the proofs of section 4: slabs, `PageCache`, `DB`, `KTableFS`, `FileData`, the
page cache of `Worker`, the refinement `Worker => KVStore`; then that refinement when
writes of PUT and UPDATE fail, `ReadsBack`, and `ListsDirectory` with the order of
encoded keys.

To come:

1. `Worker`: short writes, batches of several requests (composition with `DB`).
2. `KTableFS` over `FileData`: several handles of a file together with its bytes.
