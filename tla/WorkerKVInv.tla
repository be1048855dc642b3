----------------------------- MODULE WorkerKVInv ----------------------------
(***************************************************************************)
(* The invariant from which WorkerKVProofs derives that a worker implements *)
(* the map of module KVStore.                                               *)
(***************************************************************************)
EXTENDS WorkerInv, WorkerKV

\* What it takes of the clients besides: nobody deletes a key that is read or updated,
\* and nobody scans while something else than a DELETE is outstanding.
Linear ==
  /\ Careful /\ OnePut
  /\ "read_err" \notin Faults
  /\ \A op \in {"GET", "UPDATE"} : <<op, "DELETE">> \notin Overlap /\ <<"DELETE", op>> \notin Overlap
  /\ \A op \in {"GET", "PUT", "UPDATE"} : <<op, "SCAN">> \notin Overlap /\ <<"SCAN", op>> \notin Overlap

\* The requests that are outstanding, therefore.
TogetherInv ==
  /\ \A c, d \in Clients : req[c].op = "SCAN" => req[d].op \notin {"GET", "PUT", "UPDATE"}
  /\ \A c, d \in Clients : req[c].op \in {"GET", "UPDATE"} /\ req[d].op = "DELETE" => req[c].key # req[d].key

\* A GET or an UPDATE is about the slab its key has, and a GET about a page that has a frame.
UseInv ==
  /\ \A i \in PendingOps("GET") \cup PendingOps("UPDATE") :
       /\ Request(io_queue[i]).key \in DOMAIN index
       /\ io_queue[i].slab = index[Request(io_queue[i]).key]
  /\ \A i \in PendingOps("GET") : Lookup(PageAt(i))

\* The slab of a pending DELETE is on a free list or has been given to a PUT behind it.
FreedInv ==
  \A i \in PendingOps("DELETE") :
    /\ \/ \E s \in SlabSizes : \E n \in DOMAIN free_slab[s] : free_slab[s][n] = io_queue[i].slab
       \/ \E j \in PendingOps("PUT") : i < j /\ io_queue[j].slab = io_queue[i].slab
    /\ \A j \in PendingOps("DELETE") : j # i => ~Clash(io_queue[j].slab, io_queue[i].slab)

\* An AIO has its event when its turn has come, and only writes fail.
EventInv ==
  \A i \in Pending :
    /\ io_queue[i].ev = "err" => ~WritesWork /\ Request(io_queue[i]).op \in Writes
    /\ phase # "finish" /\ i >= pos => io_queue[i].ev = "none"
    /\ (phase = "finish" \/ i < pos) /\ Request(io_queue[i]).op \in Writes => io_queue[i].ev # "none"

\* A page that was cached for an AIO is cached for those behind it.
HitsLast ==
  \A i, j \in DOMAIN io_queue : i < j /\ PageAt(i) = PageAt(j) /\ io_queue[i].hit => io_queue[j].hit

\* What reads of a page see, and what it means that a slab has an item there.
View(p) == IF Filled(p) THEN cache[p] ELSE disk
Holds(slab, k, v) ==
  \A i \in 0 .. ItemSize[k] - 1 : CellAt(View(PageOf(slab)), Addr(slab, i)) = ItemCell(k, v, i)

\* Keys of the map have their item, and PUTs that went past the cache have written it.
ItemInv ==
  /\ \A k \in DOMAIN index \ Erased : \E v \in Values : Holds(index[k], k, v)
  /\ \A i \in Written("PUT") :
       Holds(io_queue[i].slab, Request(io_queue[i]).key, Request(io_queue[i]).val)

\* The inductive invariant, next to SlabInv and LeakInv: a key of the map has its whole item
\* where FileSlabReadCallback looks for it, though FileSlab::Delete gives its slab away at
\* once and WriteCallback patches only pages that were cached when the AIO was made.
KVInv ==
  /\ TogetherInv /\ UseInv /\ FreedInv /\ EventInv
  /\ FitInv /\ HitInv({"PUT", "UPDATE"}) /\ HitsLast /\ ItemInv
=============================================================================
