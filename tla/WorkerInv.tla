----------------------------- MODULE WorkerInv ------------------------------
(***************************************************************************)
(* What is required of a worker, and the invariant from which WorkerProofs  *)
(* derives that its slabs stay exclusive.                                   *)
(***************************************************************************)
EXTENDS Worker

\* AIOs whose Finish is still to come, all and by operation.
Pending == {i \in DOMAIN io_queue : phase = "finish" => i >= pos}
PendingOps(op) == {i \in Pending : Request(io_queue[i]).op = op}
PendingPuts == {io_queue[i].slab : i \in PendingOps("PUT")}
PendingDeletes == {Request(io_queue[i]).key : i \in PendingOps("DELETE")}

\* Keys whose slab is theirs: the slab of a DELETE is free from the moment the
\* DELETE is processed, though the index drops the key in "finish".
Live == DOMAIN index \ PendingDeletes

\* What each variable holds; io_queue never outgrows the arrays iocbs and
\* io_events of Main_, which have MAX_EVENT elements.
TypeOK ==
  /\ free_slab \in [SlabSizes -> Seq(Slab)]
  /\ cur_file \in [SlabSizes -> Nat]
  /\ cur_slab \in [SlabSizes -> 0 .. SlabPerFile]
  /\ file_set \in Nat
  /\ DOMAIN disk \subseteq Nat \X Nat /\ disk \in [DOMAIN disk -> Cell]
  /\ DOMAIN cache \subseteq Nat \X Nat
  /\ \A p \in DOMAIN cache : cache[p] \in [DOMAIN cache[p] -> Cell]
  /\ req \in [Clients -> Requests \cup {NoReq}]
  /\ batch_queue \in Seq(Clients)
  /\ DOMAIN index \subseteq Keys /\ index \in [DOMAIN index -> Slab]
  /\ io_queue \in Seq(Aio) /\ Len(io_queue) <= cnt
  /\ cnt \in 0 .. MaxEvent
  /\ phase \in {"drain", "submit", "finish"}
  /\ pos \in 0 .. Len(io_queue) + 1

\* Nobody's bytes are anybody else's: the slabs of live keys, the slabs PUTs
\* have been given and the slabs on the free lists (each counted as often as it
\* is listed) do not share cells on disk.  fileslab.cc:91 frees a slab before
\* the index gives it up, which is where this could go wrong.
SlabsExclusive ==
  /\ \A j, k \in Live : j # k => ~Clash(index[j], index[k])
  /\ \A i, j \in PendingOps("PUT") : i # j => ~Clash(io_queue[i].slab, io_queue[j].slab)
  /\ \A s, t \in SlabSizes : \A m \in DOMAIN free_slab[s], n \in DOMAIN free_slab[t] :
       <<s, m>> # <<t, n>> => ~Clash(free_slab[s][m], free_slab[t][n])
  /\ \A k \in Live : \A slab \in PendingPuts : ~Clash(index[k], slab)
  /\ \A s \in SlabSizes : \A m \in DOMAIN free_slab[s] :
       /\ \A k \in Live : ~Clash(index[k], free_slab[s][m])
       /\ \A slab \in PendingPuts : ~Clash(slab, free_slab[s][m])

\* A slab that belongs to a live key, to a PUT that is under way or to a free list.
Owned(slab) ==
  \/ \E k \in Live : index[k] = slab
  \/ slab \in PendingPuts
  \/ \E n \in DOMAIN free_slab[slab.size] : free_slab[slab.size][n] = slab

\* No slab is lost: every slab of every file created so far is owned.
NoSlabLeak ==
  \A f \in 1 .. file_set : \E s \in SlabSizes :
    \A i \in 0 .. (IF cur_file[s] = f THEN cur_slab[s] ELSE SlabPerFile) :
      Owned([size |-> s, file |-> f, index |-> i])

\* Between two turns of the main loop a cached page holds the item of every key
\* as the file does.  (A page loaded while a DELETE was pending may keep the old
\* bytes of a slab that is free by now.)
CacheCoherent ==
  io_queue = <<>> =>
    \A k \in DOMAIN index :
      Lookup(PageOf(index[k])) =>
        ItemIn(cache[PageOf(index[k])], index[k]) = ItemIn(disk, index[k])

\* Every request is answered: the worker does not wait for a full turn, loses
\* no batch and calls back for every AIO.
EveryRequestAnswered == \A c \in Clients : req[c] # NoReq ~> req[c] = NoReq

-----------------------------------------------------------------------------
(* The parts of the inductive invariant *)

\* No write fails.
WritesWork == "write_err" \notin Faults

\* What the clients and the disk must be for slabs to stay exclusive: nobody
\* deletes a key somebody else is deleting, and the write of a DELETE, whose
\* slab is on the free list already, does not fail.
Careful == <<"DELETE", "DELETE">> \notin Overlap /\ ("DELETE" \in Ops => WritesWork)

\* Where pos is in each phase of the loop.
LoopInv ==
  /\ phase = "drain" => pos = 0
  /\ phase = "submit" => pos >= 1
  /\ phase = "finish" => pos \in 1 .. Len(io_queue)

\* A client with no request is in no queue, and one with a request in one place.
QueueInv ==
  /\ \A i \in DOMAIN batch_queue : req[batch_queue[i]] # NoReq
  /\ \A i \in Pending : req[io_queue[i].c] # NoReq
  /\ \A i, j \in DOMAIN batch_queue : i # j => batch_queue[i] # batch_queue[j]
  /\ \A i, j \in Pending : i # j => io_queue[i].c # io_queue[j].c
  /\ \A i \in DOMAIN batch_queue, j \in Pending : batch_queue[i] # io_queue[j].c

\* No two DELETEs of one key are outstanding.
DeletesDiffer ==
  \A c, d \in Clients : c # d /\ req[c].op = "DELETE" /\ req[d].op = "DELETE"
                          => req[c].key # req[d].key

\* A pending DELETE clears the slab the index still has for its key, and its
\* write does not fail.
DeleteInv ==
  \A i \in PendingOps("DELETE") :
    /\ Request(io_queue[i]).key \in DOMAIN index
    /\ io_queue[i].slab = index[Request(io_queue[i]).key]
    /\ io_queue[i].ev # "err"

\* A slab that was handed out, as the allocator's counters see it.
Allocated(slab) ==
  /\ slab.file <= file_set
  /\ \A s \in SlabSizes : slab.file = cur_file[s] => slab.size = s /\ slab.index <= cur_slab[s]

\* Each size fills a file of its own.
CounterInv ==
  /\ \A s \in SlabSizes : cur_file[s] <= file_set
  /\ \A s \in SlabSizes : cur_file[s] = 0 => cur_slab[s] = SlabPerFile
  /\ \A s, t \in SlabSizes : s # t /\ cur_file[s] # 0 => cur_file[s] # cur_file[t]

AllocInv ==
  /\ CounterInv
  /\ \A k \in DOMAIN index : Allocated(index[k])
  /\ \A i \in PendingOps("PUT") : Allocated(io_queue[i].slab)
  /\ \A s \in SlabSizes : \A n \in DOMAIN free_slab[s] : Allocated(free_slab[s][n])

\* SlabsExclusive with what makes it inductive: it names the place of every
\* request (QueueInv), ties the slab a DELETE frees to the index (DeleteInv) and
\* the slabs in use to the allocator's counters (AllocInv).
SlabInv == LoopInv /\ QueueInv /\ DeletesDiffer /\ DeleteInv /\ AllocInv /\ SlabsExclusive

\* What it takes besides for slabs not to be lost: PutCallback drops the slab of a
\* PUT that comes second for its key.
OnePut == <<"PUT", "PUT">> \notin Overlap

\* No two PUTs of one key are outstanding.
PutsDiffer ==
  \A c, d \in Clients : c # d /\ req[c].op = "PUT" /\ req[d].op = "PUT" => req[c].key # req[d].key

\* The key of a pending PUT is not in the index.
PutInv ==
  \A i \in PendingOps("PUT") :
    /\ Request(io_queue[i]).key \notin DOMAIN index
    /\ io_queue[i].ev = "err" => ~WritesWork

\* PutCallback drops the slab of a PUT whose write failed as well.
LeakFree == WritesWork => NoSlabLeak

\* NoSlabLeak with what makes it inductive, next to SlabInv.
LeakInv == PutsDiffer /\ PutInv /\ LeakFree

-----------------------------------------------------------------------------
(* What keeps the cache like the files *)

\* What it takes: reads do not fail, and nobody scans while a write is outstanding.
Apart ==
  /\ "read_err" \notin Faults
  /\ \A w \in Writes \cap Ops : <<"SCAN", w>> \notin Overlap /\ <<w, "SCAN">> \notin Overlap

ScansApart == \A c, d \in Clients : req[c].op = "SCAN" => req[d].op \notin Writes

\* An item fits the slab it has or will be written to, and an item on disk its page.
FitInv ==
  /\ \A s \in SlabSizes : \A n \in DOMAIN free_slab[s] : free_slab[s][n].size = s
  /\ \A k \in DOMAIN index : ItemSize[k] <= index[k].size
  /\ \A i \in PendingOps("PUT") \cup PendingOps("UPDATE") :
       ItemSize[Request(io_queue[i]).key] <= io_queue[i].slab.size

HeadInv ==
  \A a \in DOMAIN disk, k \in Keys, v \in Values :
    disk[a] = ItemCell(k, v, 0) =>
      \A i \in 0 .. ItemSize[k] - 1 : <<a[1], a[2] + i>> \in PageAddrs(Page(a))

PageAt(i) == PageOf(io_queue[i].slab)

\* A GET that got its page a frame.
FirstRead(i) == Request(io_queue[i]).op = "GET" /\ ~io_queue[i].hit

\* Whether the AIO of a write will patch the page was decided when it was made: no AIO
\* before the one that got the page a frame does, and a write, if it is one of ops, that
\* does not comes before the read that fills the frame.
HitInv(ops) ==
  /\ \A i \in DOMAIN io_queue : io_queue[i].hit => Lookup(PageAt(i))
  /\ phase # "finish" =>
       \A i \in DOMAIN io_queue :
         /\ FirstRead(i) => \A j \in DOMAIN io_queue : j < i /\ PageAt(j) = PageAt(i) => ~io_queue[j].hit
         /\ Request(io_queue[i]).op \in ops /\ ~io_queue[i].hit /\ Lookup(PageAt(i)) =>
              \E r \in DOMAIN io_queue : i < r /\ FirstRead(r) /\ PageAt(r) = PageAt(i)

\* The AIOs between their pwrite and their WriteCallback, those that will patch cell a,
\* and the pages whose frame a read is still to fill.
Unpatched == {i \in DOMAIN io_queue : IF phase = "finish" THEN i >= pos ELSE i < pos}
Hits(a) ==
  {i \in Unpatched : /\ Request(io_queue[i]).op \in Writes
                     /\ io_queue[i].hit /\ io_queue[i].ev # "err"
                     /\ a \in DOMAIN Payload(io_queue[i])}
Unread(p) ==
  phase # "finish" /\ \E i \in DOMAIN io_queue : i >= pos /\ FirstRead(i) /\ PageAt(i) = p

CellAt(bytes, a) == IF a \in DOMAIN bytes THEN bytes[a] ELSE Junk

\* A cell of a page that was read is as on disk, or the last patch to come makes it so.
CellInv ==
  \A p \in DOMAIN cache : Unread(p) \/ \A a \in PageAddrs(p) :
    /\ Hits(a) = {} => CellAt(cache[p], a) = DiskAt(a)
    /\ \A m \in Hits(a) : (\A j \in Hits(a) : j <= m) => Payload(io_queue[m])[a] = DiskAt(a)

\* CacheCoherent with what makes it inductive.
CacheInv == ScansApart /\ FitInv /\ HeadInv /\ HitInv(Writes) /\ CellInv
=============================================================================
