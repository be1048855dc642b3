------------------------------- MODULE Worker -------------------------------
(***************************************************************************)
(* One kvengine worker: the thread running Worker::Main_, its index, its    *)
(* slab allocator, its files and its page cache (lib/kvengine/worker.cc     *)
(* with aio.cc, fileslab.cc and local_fileset.cc), and the client threads   *)
(* that hand it requests and get its callbacks.                             *)
(*                                                                          *)
(* A turn of the main loop has three phases.  "drain" pops at most MaxEvent *)
(* batches and runs ProcessRequest_ on each, which answers at once or       *)
(* leaves an AIO in io_queue; "submit" is io_submit, which carries out the  *)
(* iocbs one after the other (the files are opened without O_DIRECT, so the *)
(* kernel completes each of them before it looks at the next, and the       *)
(* events come back in that order); "finish" runs AIO::Finish on every AIO. *)
(* The index changes in "finish" only, so requests of one turn do not see   *)
(* each other's insertions and erasures.                                    *)
(*                                                                          *)
(* A batch holds one request here.                                          *)
(***************************************************************************)
EXTENDS FileSlab, LocalFileSet

CONSTANTS
  Clients,       \* threads with one request at a time
  Ops,           \* the operations they use
  Scans,         \* the <<min_key, max_key>> pairs they scan
  Overlap,       \* pairs of operations clients may have outstanding at the
                 \* same time on one key, or when one of them is a SCAN
  Faults,        \* subset of {"read_err", "write_err"}
  MaxEvent,      \* AIO::MAX_EVENT
  MaxFile        \* bound on files: clients stop putting when it is reached

ASSUME WorkerAssumption ==
  /\ Scans \subseteq Nat \X Nat
  /\ MaxEvent \in Nat \ {0}
  /\ MaxFile \in Nat
  /\ \A k \in Keys : \E s \in SlabSizes : s >= ItemSize[k]

\* 64, 128, ... 1024 divide 4096: a slab never crosses a page.
ASSUME PageAssumption == \A s \in SlabSizes : \E n \in 1 .. PageCells : PageCells = n * s

VARIABLES
  req,           \* req[c]: the request client c waits for, or NoReq
  reply,         \* the call of Batch::FinishRequest this step made, or NoReply
  batch_queue,   \* Worker::batch_queue_: clients whose batch is queued
  index,         \* Worker::index_: [set of keys -> Slab]
  io_queue,      \* Worker::io_queue_
  cnt,           \* batches popped in this turn
  phase,         \* where Main_ is: "drain", "submit" or "finish"
  pos            \* the element of io_queue it is at in the last two

loopVars == <<cnt, phase, pos>>
vars == <<free_slab, cur_file, cur_slab, file_set, disk, cache, req, reply,
          batch_queue, index, io_queue, cnt, phase, pos>>

NoReq == [op |-> "NONE"]
NoReply == [res |-> <<"none">>]
Ok == <<"ok">>
ENOENT == <<"ENOENT">>
EEXIST == <<"EEXIST">>
EIO == <<"EIO">>

Requests == { r \in [op : {"GET", "DELETE"}, key : Keys]
                    \cup [op : {"PUT", "UPDATE"}, key : Keys, val : Values]
                    \cup {[op |-> "SCAN", min_key |-> s[1], max_key |-> s[2]] : s \in Scans}
              : r.op \in Ops }

\* The discipline of the clients: what may be outstanding together.
CanOverlap(r, t) ==
  \/ <<r.op, t.op>> \in Overlap
  \/ <<t.op, r.op>> \in Overlap
  \/ r.op # "SCAN" /\ t.op # "SCAN" /\ r.key # t.key

\* An AIO: whose request it serves, the slab it is about, whether its page was
\* cached when it was made (then a read is a FakeSubmit and a write gets a
\* WriteCallback), and the event it got.
Aio == [c : Clients, slab : Slab, hit : BOOLEAN, ev : {"none", "ok", "err"}]

Init ==
  /\ SlabInit
  /\ FileInit
  /\ req = [c \in Clients |-> NoReq]
  /\ reply = NoReply
  /\ batch_queue = <<>>
  /\ index = << >>
  /\ io_queue = <<>>
  /\ cnt = 0
  /\ phase = "drain"
  /\ pos = 0

-----------------------------------------------------------------------------
(* Clients *)

\* Worker::Submit, called by any thread.
Submit(c, r) ==
  /\ req[c] = NoReq
  /\ {d \in Clients : req[d] # NoReq /\ ~CanOverlap(req[d], r)} = {}
  /\ r.op = "PUT" => file_set <= MaxFile
  /\ req' = [req EXCEPT ![c] = r]
  /\ batch_queue' = Append(batch_queue, c)
  /\ reply' = NoReply
  /\ UNCHANGED <<index, io_queue, loopVars, slabVars, fileVars>>

\* Batch::FinishRequest: the callback of the client runs in the worker.
FinishRequest(c, res) ==
  /\ req' = [req EXCEPT ![c] = NoReq]
  /\ reply' = [c |-> c, req |-> req[c], res |-> res]

\* Steps that answer nobody.
Silent == reply' = NoReply /\ UNCHANGED req

-----------------------------------------------------------------------------
(* "drain": ProcessRequest_, one action per case *)

Pop(c, op) ==
  /\ phase = "drain"
  /\ cnt < MaxEvent
  /\ batch_queue # <<>>
  /\ c = Head(batch_queue)
  /\ req[c].op = op
  /\ batch_queue' = Tail(batch_queue)
  /\ cnt' = cnt + 1
  /\ UNCHANGED <<phase, pos>>

\* index_.find fails for GET, UPDATE and DELETE, or succeeds for PUT.
Refuse(c, res) ==
  /\ FinishRequest(c, res)
  /\ UNCHANGED <<index, io_queue, slabVars, fileVars>>

IOEnqueue(c, slab) ==
  /\ io_queue' = Append(io_queue, [c |-> c, slab |-> slab,
                                   hit |-> Lookup(PageOf(slab)), ev |-> "none"])
  /\ Silent
  /\ UNCHANGED index

Miss(c, op) ==
  /\ Pop(c, op)
  /\ req[c].key \notin DOMAIN index
  /\ Refuse(c, ENOENT)

GetMiss(c) == Miss(c, "GET")
UpdateMiss(c) == Miss(c, "UPDATE")
DeleteMiss(c) == Miss(c, "DELETE")

\* The page of a GET gets a frame at once; pread fills it in "submit".
Get(c) ==
  /\ Pop(c, "GET")
  /\ req[c].key \in DOMAIN index
  /\ LET slab == index[req[c].key]
     IN  /\ IOEnqueue(c, slab)
         /\ cache' = NewEntries([p \in {PageOf(slab)} |-> EmptyFrame(p)])
  /\ UNCHANGED <<disk, slabVars>>

PutExists(c) ==
  /\ Pop(c, "PUT")
  /\ req[c].key \in DOMAIN index
  /\ Refuse(c, EEXIST)

Put(c) ==
  /\ Pop(c, "PUT")
  /\ req[c].key \notin DOMAIN index
  /\ Create(ItemSize[req[c].key])
  /\ IOEnqueue(c, NewSlab(ItemSize[req[c].key]))
  /\ UNCHANGED fileVars

Update(c) ==
  /\ Pop(c, "UPDATE")
  /\ req[c].key \in DOMAIN index
  /\ IOEnqueue(c, index[req[c].key])
  /\ UNCHANGED <<fileVars, slabVars>>

Delete(c) ==
  /\ Pop(c, "DELETE")
  /\ req[c].key \in DOMAIN index
  /\ Free(index[req[c].key])
  /\ IOEnqueue(c, index[req[c].key])
  /\ UNCHANGED fileVars

\* Mutant of InRange: the range includes max_key.
InRangeClosed(r, k) == r.min_key <= k /\ k <= r.max_key

\* The keys from lower_bound(min_key) on that are below max_key.
InRange(r, k) == r.min_key <= k /\ k < r.max_key

\* ReadSync for every key in the range: pages that have no frame are
\* read from disk at once, the others are used as they are.
Scan(c) ==
  /\ Pop(c, "SCAN")
  /\ LET slabs == {index[k] : k \in {j \in DOMAIN index : InRange(req[c], j)}}
         pages == NewEntries([p \in {PageOf(slab) : slab \in slabs} |-> PageFrame(p)])
     IN  /\ cache' = pages
         /\ FinishRequest(c, <<"scan", {ItemIn(pages[PageOf(slab)], slab) : slab \in slabs}>>)
  /\ UNCHANGED <<disk, index, io_queue, slabVars>>

ProcessRequest(c) ==
  \/ GetMiss(c) \/ Get(c)
  \/ PutExists(c) \/ Put(c)
  \/ UpdateMiss(c) \/ Update(c)
  \/ DeleteMiss(c) \/ Delete(c)
  \/ Scan(c)

\* Mutant of Drained: the worker waits until a turn is full.
DrainedFull ==
  /\ phase = "drain"
  /\ cnt = MaxEvent
  /\ phase' = "submit"
  /\ pos' = 1
  /\ Silent
  /\ UNCHANGED <<cnt, batch_queue, index, io_queue, slabVars, fileVars>>

\* MAX_EVENT batches were popped, or TryPop found none.
Drained ==
  /\ phase = "drain"
  /\ cnt > 0
  /\ cnt = MaxEvent \/ batch_queue = <<>>
  /\ phase' = "submit"
  /\ pos' = 1
  /\ Silent
  /\ UNCHANGED <<cnt, batch_queue, index, io_queue, slabVars, fileVars>>

-----------------------------------------------------------------------------
(* "submit": io_submit and io_getevents *)

Request(e) == req[e.c]
Writes == {"PUT", "UPDATE", "DELETE"}

\* The bytes a write puts at the start of its slab.
Payload(e) == IF Request(e).op = "DELETE"
              THEN ZeroCells(e.slab)
              ELSE ItemCells(e.slab, Request(e).key, Request(e).val)

SetEvent(ev) ==
  /\ phase = "submit"
  /\ pos <= Len(io_queue)
  /\ io_queue' = [io_queue EXCEPT ![pos].ev = ev]
  /\ pos' = pos + 1
  /\ Silent
  /\ UNCHANGED <<cnt, phase, batch_queue, index, slabVars>>

FakeRead ==
  /\ SetEvent("none")
  /\ Request(io_queue[pos]).op = "GET" /\ io_queue[pos].hit
  /\ UNCHANGED fileVars

Pread ==
  /\ SetEvent("ok")
  /\ Request(io_queue[pos]).op = "GET" /\ ~io_queue[pos].hit
  /\ LET p == PageOf(io_queue[pos].slab)
     IN  cache' = [cache EXCEPT ![p] = PageFrame(p)]
  /\ UNCHANGED disk

PreadFails ==
  /\ "read_err" \in Faults
  /\ SetEvent("err")
  /\ Request(io_queue[pos]).op = "GET" /\ ~io_queue[pos].hit
  /\ UNCHANGED fileVars

Pwrite ==
  /\ SetEvent("ok")
  /\ Request(io_queue[pos]).op \in Writes
  /\ disk' = Over(disk, Payload(io_queue[pos]))
  /\ UNCHANGED cache

PwriteFails ==
  /\ "write_err" \in Faults
  /\ SetEvent("err")
  /\ Request(io_queue[pos]).op \in Writes
  /\ UNCHANGED fileVars

IoSubmit == FakeRead \/ Pread \/ PreadFails \/ Pwrite \/ PwriteFails

GetEvents ==
  /\ phase = "submit"
  /\ pos > Len(io_queue)
  /\ IF io_queue = <<>>
       THEN phase' = "drain" /\ pos' = 0 /\ cnt' = 0
       ELSE phase' = "finish" /\ pos' = 1 /\ UNCHANGED cnt
  /\ Silent
  /\ UNCHANGED <<batch_queue, index, io_queue, slabVars, fileVars>>

-----------------------------------------------------------------------------
(* "finish": the callbacks of an AIO, then Batch::FinishRequest *)

\* Mutant of Success: the result of the write is not looked at.
SuccessAlways(e) == TRUE

\* AIO::Success
Success(e) == e.ev # "err"

\* Mutant of Finish: io_queue_ is not cleared.
FinishNoClear(op, res) ==
  /\ phase = "finish"
  /\ Request(io_queue[pos]).op = op
  /\ FinishRequest(io_queue[pos].c, res)
  /\ IF pos < Len(io_queue)
       THEN pos' = pos + 1 /\ UNCHANGED <<cnt, phase>>
       ELSE pos' = 0 /\ cnt' = 0 /\ phase' = "drain"
  /\ UNCHANGED <<io_queue, disk, batch_queue, slabVars>>

\* After the last AIO io_queue_ is cleared and the loop starts over.
Finish(op, res) ==
  /\ phase = "finish"
  /\ Request(io_queue[pos]).op = op
  /\ FinishRequest(io_queue[pos].c, res)
  /\ IF pos < Len(io_queue)
       THEN pos' = pos + 1 /\ UNCHANGED <<cnt, phase, io_queue>>
       ELSE pos' = 0 /\ cnt' = 0 /\ phase' = "drain" /\ io_queue' = <<>>
  /\ UNCHANGED <<disk, batch_queue, slabVars>>

\* Mutants of PatchPage: no WriteCallback, and one that ignores the result.
PatchNothing(e) == UNCHANGED cache
PatchAlways(e) ==
  cache' = IF e.hit THEN [cache EXCEPT ![PageOf(e.slab)] = Over(@, Payload(e))] ELSE cache

\* PageCache::WriteCallback
PatchPage(e) ==
  cache' = IF Success(e) /\ e.hit
           THEN [cache EXCEPT ![PageOf(e.slab)] = Over(@, Payload(e))]
           ELSE cache

WriteResult(e) == IF Success(e) THEN Ok ELSE EIO

\* FileSlabReadCallback looks for the value in the page as it is now.
FinishGet ==
  /\ LET e == io_queue[pos]
         item == ItemIn(cache[PageOf(e.slab)], e.slab)
     IN  Finish("GET", IF ~Success(e) THEN EIO
                       ELSE IF item = Invalid THEN Invalid
                       ELSE <<"val", item[2]>>)
  /\ UNCHANGED <<cache, index>>

\* PutCallback; std::map::emplace keeps an entry that is already there.
FinishPut ==
  LET e == io_queue[pos]
      k == Request(e).key
  IN  /\ Finish("PUT", WriteResult(e))
      /\ index' = IF Success(e) /\ k \notin DOMAIN index
                  THEN [j \in DOMAIN index \cup {k} |-> IF j = k THEN e.slab ELSE index[j]]
                  ELSE index
      /\ PatchPage(e)

FinishUpdate ==
  /\ Finish("UPDATE", WriteResult(io_queue[pos]))
  /\ PatchPage(io_queue[pos])
  /\ UNCHANGED index

\* DeleteCallback
FinishDelete ==
  LET e == io_queue[pos]
  IN  /\ Finish("DELETE", WriteResult(e))
      /\ index' = IF Success(e)
                  THEN [j \in DOMAIN index \ {Request(e).key} |-> index[j]]
                  ELSE index
      /\ PatchPage(e)

FinishAio == FinishGet \/ FinishPut \/ FinishUpdate \/ FinishDelete

-----------------------------------------------------------------------------

Main == (\E c \in Clients : ProcessRequest(c)) \/ Drained \/ IoSubmit \/ GetEvents \/ FinishAio

Next == (\E c \in Clients, r \in Requests : Submit(c, r)) \/ Main

Spec == Init /\ [][Next]_vars

\* The worker is a thread of its own; io_getevents waits for io_nr events and
\* every iocb submitted completes.
FairSpec == Spec /\ WF_vars(Main)
=============================================================================
