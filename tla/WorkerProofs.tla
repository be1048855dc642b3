---------------------------- MODULE WorkerProofs ----------------------------
(***************************************************************************)
(* Proofs about a worker, for every set of clients, keys and values, every  *)
(* allocator geometry and every turn length.                                *)
(***************************************************************************)
EXTENDS WorkerInv, WellFoundedInduction, TLAPS

-----------------------------------------------------------------------------
(* Facts about the operators the worker is built from *)

\* A request has the fields its operation needs.
LEMMA RequestType ==
  ASSUME NEW r \in Requests
  PROVE  /\ r.op \in {"GET", "PUT", "UPDATE", "DELETE", "SCAN"}
         /\ r.op \in {"GET", "PUT", "UPDATE", "DELETE"} => r.key \in Keys
         /\ r.op \in {"PUT", "UPDATE"} => r.val \in Values
  BY DEF Requests

\* The same for what a client may have outstanding, NoReq included.
LEMMA OutstandingType ==
  ASSUME TypeOK, NEW c \in Clients
  PROVE  /\ req[c] # NoReq => req[c] \in Requests
         /\ req[c].op \in {"GET", "PUT", "UPDATE", "DELETE"} => req[c].key \in Keys
         /\ req[c].op \in {"PUT", "UPDATE"} => req[c].val \in Values
         /\ req[c].op # "NONE" => req[c] # NoReq
  <1>1. req[c] \in Requests \cup {NoReq}
    BY DEF TypeOK
  <1>2. CASE req[c] = NoReq
    BY <1>2 DEF NoReq
  <1>3. CASE req[c] \in Requests
    <2>1. req[c].op # "NONE" => req[c] # NoReq
      BY DEF NoReq
    <2> QED
      BY <1>3, <2>1, RequestType
  <1> QED
    BY <1>1, <1>2, <1>3

\* Pages are numbered by file and offset.
LEMMA PageType ==
  ASSUME NEW slab \in Slab
  PROVE  PageOf(slab) \in Nat \X Nat
  <1>1. slab.size \in Nat /\ slab.index \in Nat /\ slab.file \in Nat
    BY SlabAssumption DEF Slab
  <1>2. slab.size * slab.index + 0 \in Nat
    BY <1>1
  <1>3. (slab.size * slab.index + 0) \div PageCells \in Nat
    BY <1>2, FileAssumption
  <1> QED
    BY <1>1, <1>3 DEF PageOf, Page, Addr

\* Writing cells over cells gives cells.
LEMMA OverType ==
  ASSUME NEW f, NEW g, f \in [DOMAIN f -> Cell], g \in [DOMAIN g -> Cell]
  PROVE  Over(f, g) \in [DOMAIN f \cup DOMAIN g -> Cell]
  BY DEF Over

\* The bytes of an item and of a cleared header are cells.
LEMMA PayloadType ==
  ASSUME TypeOK, NEW e \in Aio, Request(e).op \in Writes
  PROVE  /\ Payload(e) \in [DOMAIN Payload(e) -> Cell]
         /\ DOMAIN Payload(e) \subseteq Nat \X Nat
  <1>1. e.c \in Clients /\ e.slab \in Slab
    BY DEF Aio
  <1>2. e.slab.size \in Nat /\ e.slab.index \in Nat /\ e.slab.file \in Nat
    BY <1>1, SlabAssumption DEF Slab
  <1>3. e.slab.size * e.slab.index \in Nat
    BY <1>2
  <1>4. CASE Request(e).op = "DELETE"
    <2>1. Addr(e.slab, 0) \in Nat \X Nat
      BY <1>2, <1>3 DEF Addr
    <2> QED
      BY <1>4, <2>1 DEF Payload, ZeroCells, Cell
  <1>5. CASE Request(e).op \in {"PUT", "UPDATE"}
    <2> DEFINE k == Request(e).key
               v == Request(e).val
    <2>1. k \in Keys /\ v \in Values
      BY <1>1, <1>5, OutstandingType DEF Request
    <2>2. ItemSize[k] \in Nat
      BY <2>1, FileAssumption
    <2>3. \A i \in 0 .. ItemSize[k] - 1 :
            /\ Addr(e.slab, i) \in Nat \X Nat
            /\ Addr(e.slab, i)[2] - e.slab.size * e.slab.index \in Nat
      BY <1>2, <1>3, <2>2 DEF Addr
    <2>4. \A n \in Nat : ItemCell(k, v, n) \in Cell
      BY <2>1 DEF ItemCell, Cell
    <2>5. ItemCells(e.slab, k, v) \in [DOMAIN ItemCells(e.slab, k, v) -> Cell]
      BY <2>3, <2>4 DEF ItemCells
    <2>6. DOMAIN ItemCells(e.slab, k, v) \subseteq Nat \X Nat
      BY <2>3 DEF ItemCells
    <2> QED
      BY <1>5, <2>5, <2>6 DEF Payload
  <1> QED
    BY <1>4, <1>5 DEF Writes

\* NewEntry adds typed frames for well-formed pages.
LEMMA NewEntriesType ==
  ASSUME TypeOK, NEW frames, DOMAIN frames \subseteq Nat \X Nat,
         \A p \in DOMAIN frames : frames[p] \in [DOMAIN frames[p] -> Cell]
  PROVE  LET new == NewEntries(frames)
         IN  /\ DOMAIN new \subseteq Nat \X Nat
             /\ \A p \in DOMAIN new : new[p] \in [DOMAIN new[p] -> Cell]
  BY DEF NewEntries, Over, TypeOK

\* New frames and pages read from the disk are made of cells.
LEMMA FrameType ==
  ASSUME TypeOK, NEW p
  PROVE  /\ EmptyFrame(p) \in [DOMAIN EmptyFrame(p) -> Cell]
         /\ PageFrame(p) \in [DOMAIN PageFrame(p) -> Cell]
  <1>1. \A a : DiskAt(a) \in Cell
    BY DEF TypeOK, DiskAt, Cell
  <1>2. Junk \in Cell
    BY DEF Cell
  <1> QED
    BY <1>1, <1>2 DEF EmptyFrame, PageFrame

\* FileSlab::Create finds a size, because every item has one that fits.
LEMMA FitType ==
  ASSUME NEW k \in Keys
  PROVE  Fit(ItemSize[k]) \in SlabSizes /\ Fit(ItemSize[k]) >= ItemSize[k]
  <1> DEFINE n == ItemSize[k]
             Fits == {s \in SlabSizes : s >= n}
  <1>1. Fits # {} /\ Fits \subseteq Nat
    BY WorkerAssumption, SlabAssumption
  <1>2. \E s \in Fits : \A t \in Fits : ~ (<<t, s>> \in OpToRel(<, Nat))
    <2> HIDE DEF Fits
    <2> QED
      BY <1>1, WFMin, NatLessThanWellFounded, Zenon
  <1>3. \A s, t \in Nat : ~ (<<t, s>> \in OpToRel(<, Nat)) => s <= t
    BY DEF OpToRel
  <1>4. PICK s \in Fits : \A t \in Fits : s <= t
    BY <1>1, <1>2, <1>3
  <1> QED
    BY <1>4 DEF Fit

\* What Create returns is a slab.
LEMMA NewSlabType ==
  ASSUME TypeOK, NEW k \in Keys, Create(ItemSize[k])
  PROVE  NewSlab(ItemSize[k]) \in Slab
  <1> DEFINE s == Fit(ItemSize[k])
  <1>1. s \in SlabSizes
    BY FitType
  <1>2. CASE free_slab[s] # <<>>
    <2>1. free_slab[s] \in Seq(Slab)
      BY <1>1 DEF TypeOK
    <2> QED
      BY <1>2, <2>1 DEF NewSlab
  <1>3. CASE free_slab[s] = <<>>
    BY <1>1, <1>3, SlabAssumption DEF NewSlab, Slab, TypeOK
  <1> QED
    BY <1>2, <1>3

\* Create and Free keep the allocator's variables typed.
LEMMA CreateType ==
  ASSUME TypeOK, NEW k \in Keys, Create(ItemSize[k])
  PROVE  /\ free_slab' \in [SlabSizes -> Seq(Slab)]
         /\ cur_file' \in [SlabSizes -> Nat]
         /\ cur_slab' \in [SlabSizes -> 0 .. SlabPerFile]
         /\ file_set' \in Nat
  <1> DEFINE s == Fit(ItemSize[k])
  <1>1. s \in SlabSizes
    BY FitType
  <1>2. CASE ReuseFree(s)
    <2>1. free_slab[s] \in Seq(Slab) /\ free_slab[s] # <<>>
      BY <1>1, <1>2 DEF TypeOK, ReuseFree
    <2>2. Tail(free_slab[s]) \in Seq(Slab)
      BY <2>1
    <2> QED
      BY <1>1, <1>2, <2>2 DEF TypeOK, ReuseFree
  <1>3. CASE OpenFile(s)
    BY <1>1, <1>3, SlabAssumption DEF TypeOK, OpenFile
  <1>4. CASE NextInFile(s)
    BY <1>1, <1>4, SlabAssumption DEF TypeOK, NextInFile
  <1> QED
    BY <1>2, <1>3, <1>4 DEF Create

-----------------------------------------------------------------------------
(* Type correctness.  TypeOK is inductive together with LoopInv, which says  *)
(* that io_queue[pos] exists when an AIO is finished.                        *)

\* A worker starts with everything empty.
LEMMA TypeInit == Init => TypeOK /\ LoopInv
  <1> SUFFICES ASSUME Init PROVE TypeOK /\ LoopInv
    OBVIOUS
  <1> QED
    BY SlabAssumption, WorkerAssumption
    DEF Init, SlabInit, FileInit, TypeOK, LoopInv

\* Popping a batch and what IOEnqueue adds for it.
LEMMA PopType ==
  ASSUME TypeOK, LoopInv, NEW c, NEW op, Pop(c, op)
  PROVE  /\ c \in Clients
         /\ batch_queue' \in Seq(Clients)
         /\ cnt' \in 0 .. MaxEvent
         /\ Len(io_queue) < cnt' /\ Len(io_queue) <= cnt'
         /\ phase' = "drain" /\ phase = "drain"
         /\ pos' = 0 /\ pos = 0
         /\ 0 \in 0 .. Len(io_queue) + 1
  BY WorkerAssumption DEF Pop, TypeOK, LoopInv

\* IOEnqueue adds one AIO to io_queue and answers nobody.
LEMMA EnqueueType ==
  ASSUME TypeOK, LoopInv, NEW c \in Clients, NEW slab \in Slab, NEW op,
         Pop(c, op), IOEnqueue(c, slab)
  PROVE  /\ io_queue' \in Seq(Aio)
         /\ Len(io_queue') <= cnt'
         /\ pos' \in 0 .. Len(io_queue') + 1
         /\ req' = req /\ index' = index
  <1> DEFINE e == [c |-> c, slab |-> slab, hit |-> Lookup(PageOf(slab)), ev |-> "none"]
  <1>1. e \in Aio
    BY DEF Aio, Lookup
  <1>2. io_queue' = Append(io_queue, e)
    BY DEF IOEnqueue
  <1> HIDE DEF e
  <1>3. io_queue \in Seq(Aio) /\ Len(io_queue) <= cnt /\ cnt \in Nat
    BY DEF TypeOK
  <1>4. /\ Append(io_queue, e) \in Seq(Aio)
        /\ Len(Append(io_queue, e)) = Len(io_queue) + 1
    BY <1>1, <1>3
  <1>5. req' = req /\ index' = index
    BY DEF IOEnqueue, Silent
  <1>6. Len(io_queue) \in Nat /\ cnt' \in Nat
    BY <1>3, PopType
  <1> QED
    BY <1>2, <1>4, <1>5, <1>6, PopType

\* ProcessRequest_ keeps the types.
LEMMA TypeProcess ==
  ASSUME TypeOK, LoopInv, NEW c, ProcessRequest(c)
  PROVE  TypeOK' /\ LoopInv'
  <1>1. ASSUME NEW op, NEW res, Pop(c, op), Refuse(c, res)
        PROVE  TypeOK' /\ LoopInv'
    <2>1. req' \in [Clients -> Requests \cup {NoReq}]
      BY <1>1, PopType DEF Refuse, FinishRequest, TypeOK
    <2> QED
      BY <1>1, <2>1, PopType
      DEF Refuse, TypeOK, LoopInv, slabVars, fileVars
  <1>2. CASE GetMiss(c) \/ UpdateMiss(c) \/ DeleteMiss(c) \/ PutExists(c)
    BY <1>1, <1>2 DEF GetMiss, UpdateMiss, DeleteMiss, Miss, PutExists
  <1>3. CASE Get(c)
    <2> DEFINE slab == index[req[c].key]
    <2>1. c \in Clients /\ Pop(c, "GET") /\ slab \in Slab /\ IOEnqueue(c, slab)
      BY <1>3, PopType DEF Get, TypeOK
    <2>2. {PageOf(slab)} \in SUBSET (Nat \X Nat)
      BY <2>1, PageType
    <2> DEFINE frames == [p \in {PageOf(slab)} |-> EmptyFrame(p)]
               new == NewEntries(frames)
    <2>3. /\ DOMAIN new \subseteq Nat \X Nat
          /\ \A p \in DOMAIN new : new[p] \in [DOMAIN new[p] -> Cell]
      <3>1. /\ DOMAIN frames \subseteq Nat \X Nat
            /\ \A p \in DOMAIN frames : frames[p] \in [DOMAIN frames[p] -> Cell]
        BY <2>2, FrameType
      <3> HIDE DEF frames
      <3> QED
        BY <3>1, NewEntriesType
    <2>4. cache' = new
      BY <1>3 DEF Get
    <2>5. UNCHANGED <<disk, slabVars>>
      BY <1>3 DEF Get
    <2> HIDE DEF new, slab
    <2> QED
      BY <2>1, <2>3, <2>4, <2>5, PopType, EnqueueType DEF TypeOK, LoopInv, slabVars
  <1>4. CASE Put(c)
    <2> DEFINE k == req[c].key
    <2>1. c \in Clients /\ Pop(c, "PUT") /\ Create(ItemSize[k])
      BY <1>4, PopType DEF Put
    <2>2. k \in Keys
      BY <2>1, OutstandingType DEF Pop
    <2>3. NewSlab(ItemSize[k]) \in Slab /\ IOEnqueue(c, NewSlab(ItemSize[k]))
      BY <1>4, <2>1, <2>2, NewSlabType DEF Put
    <2>4. UNCHANGED <<disk, cache>>
      BY <1>4 DEF Put, fileVars
    <2> HIDE DEF k
    <2> QED
      BY <2>1, <2>2, <2>3, <2>4, CreateType, PopType, EnqueueType DEF TypeOK, LoopInv
  <1>5. CASE Update(c)
    <2> DEFINE slab == index[req[c].key]
    <2>1. c \in Clients /\ Pop(c, "UPDATE") /\ slab \in Slab /\ IOEnqueue(c, slab)
      BY <1>5, PopType DEF Update, TypeOK
    <2>2. UNCHANGED <<fileVars, slabVars>>
      BY <1>5 DEF Update
    <2> HIDE DEF slab
    <2> QED
      BY <2>1, <2>2, PopType, EnqueueType DEF TypeOK, LoopInv, slabVars, fileVars
  <1>6. CASE Delete(c)
    <2> DEFINE slab == index[req[c].key]
    <2>1. c \in Clients /\ Pop(c, "DELETE") /\ slab \in Slab /\ IOEnqueue(c, slab)
      BY <1>6, PopType DEF Delete, TypeOK
    <2>2. Free(slab) /\ UNCHANGED fileVars
      BY <1>6 DEF Delete
    <2> HIDE DEF slab
    <2>3. slab.size \in SlabSizes
      BY <2>1 DEF Slab
    <2>4. free_slab' \in [SlabSizes -> Seq(Slab)]
      <3>1. Append(free_slab[slab.size], slab) \in Seq(Slab)
        BY <2>1, <2>3 DEF TypeOK
      <3> QED
        BY <2>2, <2>3, <3>1 DEF Free, TypeOK
    <2>5. UNCHANGED <<cur_file, cur_slab, file_set>>
      BY <2>2 DEF Free
    <2> QED
      BY <2>1, <2>2, <2>4, <2>5, PopType, EnqueueType DEF TypeOK, LoopInv, fileVars
  <1>7. CASE Scan(c)
    <2> DEFINE slabs == {index[k] : k \in {j \in DOMAIN index : InRange(req[c], j)}}
               pages == {PageOf(slab) : slab \in slabs}
               frames == [p \in pages |-> PageFrame(p)]
               new == NewEntries(frames)
    <2>1. c \in Clients /\ Pop(c, "SCAN")
      BY <1>7, PopType DEF Scan
    <2>2. slabs \subseteq Slab
      BY DEF TypeOK
    <2> HIDE DEF slabs
    <2>3. pages \in SUBSET (Nat \X Nat)
      BY <2>2, PageType
    <2> HIDE DEF pages
    <2>4. /\ DOMAIN new \subseteq Nat \X Nat
          /\ \A p \in DOMAIN new : new[p] \in [DOMAIN new[p] -> Cell]
      <3>1. /\ DOMAIN frames \subseteq Nat \X Nat
            /\ \A p \in DOMAIN frames : frames[p] \in [DOMAIN frames[p] -> Cell]
        BY <2>3, FrameType
      <3> HIDE DEF frames
      <3> QED
        BY <3>1, NewEntriesType
    <2>5. cache' = new /\ req' = [req EXCEPT ![c] = NoReq]
      BY <1>7 DEF Scan, FinishRequest, pages, slabs
    <2>6. UNCHANGED <<disk, index, io_queue, slabVars>>
      BY <1>7 DEF Scan
    <2> HIDE DEF new
    <2>7. req' \in [Clients -> Requests \cup {NoReq}]
      BY <2>5 DEF TypeOK
    <2> QED
      BY <2>1, <2>4, <2>5, <2>6, <2>7, PopType DEF TypeOK, LoopInv, slabVars
  <1> QED
    BY <1>2, <1>3, <1>4, <1>5, <1>6, <1>7 DEF ProcessRequest

\* io_submit keeps the types: an iocb fills a page or writes cells.
LEMMA TypeSubmitIo ==
  ASSUME TypeOK, LoopInv, IoSubmit
  PROVE  TypeOK' /\ LoopInv'
  <1> DEFINE e == io_queue[pos]
  <1>1. PICK ev \in {"none", "ok", "err"} : SetEvent(ev)
    BY DEF IoSubmit, FakeRead, Pread, PreadFails, Pwrite, PwriteFails
  <1>2. pos \in DOMAIN io_queue /\ io_queue \in Seq(Aio)
    BY <1>1 DEF SetEvent, LoopInv, TypeOK
  <1>3. e \in Aio
    BY <1>2
  <1>4. io_queue' \in Seq(Aio) /\ Len(io_queue') = Len(io_queue)
    <2>1. [e EXCEPT !.ev = ev] \in Aio
      BY <1>3 DEF Aio
    <2>2. io_queue' = [io_queue EXCEPT ![pos] = [e EXCEPT !.ev = ev]]
      BY <1>1 DEF SetEvent
    <2> QED
      BY <1>2, <2>1, <2>2
  <1>5. /\ DOMAIN disk' \subseteq Nat \X Nat /\ disk' \in [DOMAIN disk' -> Cell]
        /\ DOMAIN cache' \subseteq Nat \X Nat
        /\ \A p \in DOMAIN cache' : cache'[p] \in [DOMAIN cache'[p] -> Cell]
    <2>1. CASE UNCHANGED fileVars
      BY <2>1 DEF fileVars, TypeOK
    <2>2. CASE Pread
      <3> DEFINE p == PageOf(e.slab)
                 frame == PageFrame(p)
      <3>1. frame \in [DOMAIN frame -> Cell]
        BY FrameType
      <3>2. cache' = [cache EXCEPT ![p] = frame] /\ disk' = disk
        BY <2>2 DEF Pread
      <3> HIDE DEF frame
      <3> QED
        BY <3>1, <3>2 DEF TypeOK
    <2>3. CASE Pwrite
      <3>1. Request(e).op \in Writes
        BY <2>3 DEF Pwrite
      <3>2. /\ Payload(e) \in [DOMAIN Payload(e) -> Cell]
            /\ DOMAIN Payload(e) \subseteq Nat \X Nat
        BY <1>3, <3>1, PayloadType
      <3>3. disk' = Over(disk, Payload(e)) /\ cache' = cache
        BY <2>3 DEF Pwrite
      <3>4. disk \in [DOMAIN disk -> Cell] /\ DOMAIN disk \subseteq Nat \X Nat
        BY DEF TypeOK
      <3>5. disk' \in [DOMAIN disk \cup DOMAIN Payload(e) -> Cell]
        BY <3>2, <3>3, <3>4, OverType
      <3> QED
        BY <3>2, <3>3, <3>4, <3>5 DEF TypeOK
    <2> QED
      BY <2>1, <2>2, <2>3 DEF IoSubmit, FakeRead, PreadFails, PwriteFails
  <1>6. pos' = pos + 1 /\ pos \in 1 .. Len(io_queue) /\ phase = "submit"
        /\ UNCHANGED <<cnt, phase, req, batch_queue, index, slabVars>>
    BY <1>1 DEF SetEvent, Silent, LoopInv, TypeOK
  <1>7. pos' \in 0 .. Len(io_queue') + 1 /\ pos' >= 1 /\ Len(io_queue') <= cnt'
    BY <1>4, <1>6 DEF TypeOK
  <1> QED
    BY <1>4, <1>5, <1>6, <1>7 DEF TypeOK, LoopInv, slabVars

\* AIO::Finish: what every operation does to the loop and the client.
LEMMA FinishType ==
  ASSUME TypeOK, LoopInv, NEW op, NEW res, Finish(op, res)
  PROVE  /\ io_queue[pos] \in Aio
         /\ Request(io_queue[pos]).op = op
         /\ req' \in [Clients -> Requests \cup {NoReq}]
         /\ io_queue' \in Seq(Aio) /\ Len(io_queue') <= cnt'
         /\ cnt' \in 0 .. MaxEvent
         /\ phase' \in {"drain", "submit", "finish"}
         /\ pos' \in 0 .. Len(io_queue') + 1
         /\ LoopInv'
         /\ UNCHANGED <<disk, batch_queue, slabVars>>
  <1>1. phase = "finish" /\ pos \in 1 .. Len(io_queue) /\ io_queue \in Seq(Aio)
    BY DEF Finish, LoopInv, TypeOK
  <1>2. io_queue[pos] \in Aio
    BY <1>1
  <1>3. req' \in [Clients -> Requests \cup {NoReq}]
    BY <1>2 DEF Aio, Finish, FinishRequest, TypeOK
  <1>4. CASE pos < Len(io_queue)
    BY <1>1, <1>2, <1>3, <1>4 DEF Finish, TypeOK, LoopInv
  <1>5. CASE ~(pos < Len(io_queue))
    BY <1>1, <1>2, <1>3, <1>5, WorkerAssumption DEF Finish, TypeOK, LoopInv
  <1> QED
    BY <1>4, <1>5

\* PageCache::WriteCallback keeps frames typed.
LEMMA PatchType ==
  ASSUME TypeOK, NEW e \in Aio, Request(e).op \in Writes, PatchPage(e)
  PROVE  /\ DOMAIN cache' \subseteq Nat \X Nat
         /\ \A p \in DOMAIN cache' : cache'[p] \in [DOMAIN cache'[p] -> Cell]
  <1> DEFINE p == PageOf(e.slab)
  <1>1. CASE Success(e) /\ e.hit /\ p \in DOMAIN cache
    <2> DEFINE frame == Over(cache[p], Payload(e))
    <2>1. Payload(e) \in [DOMAIN Payload(e) -> Cell]
      BY PayloadType
    <2>2. cache[p] \in [DOMAIN cache[p] -> Cell]
      BY <1>1 DEF TypeOK
    <2>3. frame \in [DOMAIN cache[p] \cup DOMAIN Payload(e) -> Cell]
      BY <2>1, <2>2, OverType
    <2>4. cache' = [cache EXCEPT ![p] = frame]
      BY <1>1 DEF PatchPage
    <2> HIDE DEF frame
    <2> QED
      BY <2>3, <2>4 DEF TypeOK
  <1>2. CASE ~(Success(e) /\ e.hit /\ p \in DOMAIN cache)
    BY <1>2 DEF PatchPage, TypeOK
  <1> QED
    BY <1>1, <1>2

\* AIO::Finish keeps the types, whatever the operation.
LEMMA TypeFinish ==
  ASSUME TypeOK, LoopInv, FinishAio
  PROVE  TypeOK' /\ LoopInv'
  <1> DEFINE e == io_queue[pos]
             k == Request(e).key
  <1>1. CASE FinishGet
    <2>1. PICK res : Finish("GET", res)
      BY <1>1 DEF FinishGet
    <2>2. UNCHANGED <<cache, index>>
      BY <1>1 DEF FinishGet
    <2> QED
      BY <2>1, <2>2, FinishType DEF TypeOK, slabVars
  <1>2. CASE FinishPut
    <2>1. Finish("PUT", WriteResult(e)) /\ PatchPage(e)
      BY <1>2 DEF FinishPut
    <2>2. e \in Aio /\ e.c \in Clients /\ e.slab \in Slab /\ Request(e).op = "PUT"
      BY <2>1, FinishType DEF Aio
    <2>3. k \in Keys
      BY <2>2, OutstandingType DEF Request
    <2>4. DOMAIN index' \subseteq Keys /\ index' \in [DOMAIN index' -> Slab]
      BY <1>2, <2>2, <2>3 DEF FinishPut, TypeOK
    <2>5. /\ DOMAIN cache' \subseteq Nat \X Nat
          /\ \A p \in DOMAIN cache' : cache'[p] \in [DOMAIN cache'[p] -> Cell]
      BY <2>1, <2>2, PatchType DEF Writes
    <2> QED
      BY <2>1, <2>4, <2>5, FinishType DEF TypeOK, slabVars
  <1>3. CASE FinishUpdate
    <2>1. Finish("UPDATE", WriteResult(e)) /\ PatchPage(e) /\ index' = index
      BY <1>3 DEF FinishUpdate
    <2>2. e \in Aio /\ Request(e).op = "UPDATE"
      BY <2>1, FinishType
    <2>3. /\ DOMAIN cache' \subseteq Nat \X Nat
          /\ \A p \in DOMAIN cache' : cache'[p] \in [DOMAIN cache'[p] -> Cell]
      BY <2>1, <2>2, PatchType DEF Writes
    <2> QED
      BY <2>1, <2>3, FinishType DEF TypeOK, slabVars
  <1>4. CASE FinishDelete
    <2>1. Finish("DELETE", WriteResult(e)) /\ PatchPage(e)
      BY <1>4 DEF FinishDelete
    <2>2. e \in Aio /\ Request(e).op = "DELETE"
      BY <2>1, FinishType
    <2>3. DOMAIN index' \subseteq Keys /\ index' \in [DOMAIN index' -> Slab]
      BY <1>4 DEF FinishDelete, TypeOK
    <2>4. /\ DOMAIN cache' \subseteq Nat \X Nat
          /\ \A p \in DOMAIN cache' : cache'[p] \in [DOMAIN cache'[p] -> Cell]
      BY <2>1, <2>2, PatchType DEF Writes
    <2> QED
      BY <2>1, <2>3, <2>4, FinishType DEF TypeOK, slabVars
  <1> QED
    BY <1>1, <1>2, <1>3, <1>4 DEF FinishAio

\* Every step of a client or of the worker keeps the types.
LEMMA TypeStep ==
  ASSUME TypeOK, LoopInv, [Next]_vars
  PROVE  TypeOK' /\ LoopInv'
  <1>1. ASSUME NEW c \in Clients, NEW r \in Requests, Submit(c, r)
        PROVE  TypeOK' /\ LoopInv'
    <2>1. batch_queue' \in Seq(Clients) /\ req' \in [Clients -> Requests \cup {NoReq}]
      BY <1>1 DEF Submit, TypeOK
    <2> QED
      BY <1>1, <2>1 DEF Submit, TypeOK, LoopInv, loopVars, slabVars, fileVars
  <1>2. CASE Drained
    BY <1>2 DEF Drained, Silent, TypeOK, LoopInv, slabVars, fileVars
  <1>3. CASE GetEvents
    BY <1>3, WorkerAssumption DEF GetEvents, Silent, TypeOK, LoopInv, slabVars, fileVars
  <1>4. CASE UNCHANGED vars
    BY <1>4 DEF vars, TypeOK, LoopInv
  <1> QED
    BY <1>1, <1>2, <1>3, <1>4, TypeProcess, TypeSubmitIo, TypeFinish DEF Next, Main

\* Every variable keeps its type, io_queue never outgrows the arrays of
\* AIO::MAX_EVENT elements Main_ copies it to, and the loop never looks at an
\* AIO that is not there.
THEOREM TypeCorrect == Spec => [](TypeOK /\ LoopInv)
  BY TypeInit, TypeStep, PTL DEF Spec

-----------------------------------------------------------------------------
(* Slabs stay exclusive *)

\* A pending AIO is an element of io_queue.
LEMMA PendingType ==
  ASSUME TypeOK, NEW i \in Pending
  PROVE  io_queue[i] \in Aio /\ io_queue[i].c \in Clients /\ io_queue[i].slab \in Slab
  <1>1. io_queue \in Seq(Aio) /\ i \in DOMAIN io_queue
    BY DEF TypeOK, Pending
  <1>2. io_queue[i] \in Aio
    BY <1>1
  <1> QED
    BY <1>2 DEF Aio

\* How each kind of step moves requests between the two queues.

\* Popping a batch leaves the other requests where they are.
LEMMA PopQueue ==
  ASSUME TypeOK, LoopInv, QueueInv, NEW c, NEW op, Pop(c, op)
  PROVE  /\ c \in Clients /\ req[c] # NoReq
         /\ Pending = DOMAIN io_queue /\ Pending = 1 .. Len(io_queue)
         /\ \A i \in Pending : io_queue[i].c # c
         /\ \A i \in DOMAIN batch_queue' : /\ i + 1 \in DOMAIN batch_queue
                                          /\ batch_queue'[i] = batch_queue[i + 1]
                                          /\ batch_queue'[i] # c
  <1>1. batch_queue \in Seq(Clients) /\ batch_queue # <<>> /\ c = batch_queue[1]
        /\ batch_queue' = Tail(batch_queue)
    BY DEF Pop, TypeOK
  <1>2. 1 \in DOMAIN batch_queue
    BY <1>1
  <1>3. \A i \in DOMAIN batch_queue' : i + 1 \in DOMAIN batch_queue /\ i + 1 # 1
                                        /\ batch_queue'[i] = batch_queue[i + 1]
    BY <1>1
  <1>4. io_queue \in Seq(Aio) /\ phase = "drain"
    BY DEF TypeOK, Pop
  <1>5. Pending = DOMAIN io_queue
    BY <1>4 DEF Pending
  <1>6. DOMAIN io_queue = 1 .. Len(io_queue)
    BY <1>4
  <1> QED
    BY <1>1, <1>2, <1>3, <1>5, <1>6 DEF QueueInv

\* The request popped is served by the AIO added for it, and by no other.
LEMMA EnqueueQueue ==
  ASSUME TypeOK, LoopInv, QueueInv, NEW c, NEW op, NEW slab,
         Pop(c, op), IOEnqueue(c, slab)
  PROVE  /\ QueueInv'
         /\ req' = req
         /\ Pending' = Pending \cup {Len(io_queue) + 1}
         /\ Len(io_queue) + 1 \notin Pending
         /\ \A i \in Pending : io_queue'[i] = io_queue[i]
         /\ io_queue'[Len(io_queue) + 1] =
              [c |-> c, slab |-> slab, hit |-> Lookup(PageOf(slab)), ev |-> "none"]
  <1> DEFINE e == [c |-> c, slab |-> slab, hit |-> Lookup(PageOf(slab)), ev |-> "none"]
             n == Len(io_queue) + 1
  <1>1. io_queue \in Seq(Aio) /\ io_queue' = Append(io_queue, e) /\ req' = req
    BY DEF TypeOK, IOEnqueue, Silent
  <1>2. e.c = c
    OBVIOUS
  <1> HIDE DEF e
  <1>3. /\ DOMAIN io_queue' = DOMAIN io_queue \cup {n}
        /\ n \notin DOMAIN io_queue
        /\ \A i \in DOMAIN io_queue : io_queue'[i] = io_queue[i]
        /\ io_queue'[n] = e
    BY <1>1
  <1>4. phase' = "drain" /\ Pending = DOMAIN io_queue
    BY PopType, PopQueue
  <1>5. Pending' = DOMAIN io_queue'
    BY <1>4 DEF Pending
  <1> HIDE DEF n
  <1>6. /\ req[c] # NoReq
        /\ \A i \in Pending : io_queue[i].c # c
        /\ \A i \in DOMAIN batch_queue' : /\ i + 1 \in DOMAIN batch_queue
                                         /\ batch_queue'[i] = batch_queue[i + 1]
                                         /\ batch_queue'[i] # c
    BY PopQueue
  <1>7. \A i, j \in DOMAIN batch_queue' : i # j => batch_queue'[i] # batch_queue'[j]
    <2>1. batch_queue' \in Seq(Clients)
      BY PopType
    <2>2. \A i, j \in DOMAIN batch_queue' : i # j => i + 1 # j + 1
      BY <2>1
    <2> QED
      BY <1>6, <2>2 DEF QueueInv
  <1>8. QueueInv'
    <2>1. \A i \in DOMAIN batch_queue' : req'[batch_queue'[i]] # NoReq
      BY <1>1, <1>6 DEF QueueInv
    <2>2. \A i \in Pending' : req'[io_queue'[i].c] # NoReq
      BY <1>1, <1>2, <1>3, <1>4, <1>5, <1>6 DEF QueueInv
    <2>3. \A i, j \in Pending' : i # j => io_queue'[i].c # io_queue'[j].c
      BY <1>2, <1>3, <1>4, <1>5, <1>6 DEF QueueInv
    <2>4. \A i \in DOMAIN batch_queue', j \in Pending' : batch_queue'[i] # io_queue'[j].c
      BY <1>2, <1>3, <1>4, <1>5, <1>6 DEF QueueInv
    <2> QED
      BY <1>7, <2>1, <2>2, <2>3, <2>4 DEF QueueInv
  <1> QED
    BY <1>1, <1>3, <1>4, <1>5, <1>8 DEF e, n

\* A request answered in ProcessRequest_ is in neither queue afterwards.
LEMMA AnswerQueue ==
  ASSUME TypeOK, LoopInv, QueueInv, NEW c, NEW op, NEW res,
         Pop(c, op), FinishRequest(c, res), UNCHANGED io_queue
  PROVE  /\ QueueInv'
         /\ Pending' = Pending
         /\ \A i \in Pending : Request(io_queue[i])' = Request(io_queue[i])
  <1>1. phase' = "drain" /\ Pending = DOMAIN io_queue
    BY PopType, PopQueue
  <1>2. Pending' = Pending
    BY <1>1 DEF Pending
  <1>3. /\ c \in Clients
        /\ \A i \in Pending : io_queue[i].c # c
        /\ \A i \in DOMAIN batch_queue' : /\ i + 1 \in DOMAIN batch_queue
                                         /\ batch_queue'[i] = batch_queue[i + 1]
                                         /\ batch_queue'[i] # c
    BY PopQueue
  <1>4. \A d \in Clients : d # c => req'[d] = req[d]
    BY DEF FinishRequest, TypeOK
  <1>5. \A i \in Pending : io_queue[i].c \in Clients
    BY PendingType
  <1>6. \A i \in DOMAIN batch_queue' : batch_queue'[i] \in Clients
    BY PopType
  <1>7. /\ \A i \in Pending : req'[io_queue[i].c] = req[io_queue[i].c]
        /\ \A i \in DOMAIN batch_queue' : req'[batch_queue'[i]] = req[batch_queue'[i]]
    BY <1>3, <1>4, <1>5, <1>6
  <1>8. \A i, j \in DOMAIN batch_queue' : i # j => batch_queue'[i] # batch_queue'[j]
    <2>1. batch_queue' \in Seq(Clients)
      BY PopType
    <2>2. \A i, j \in DOMAIN batch_queue' : i # j => i + 1 # j + 1
      BY <2>1
    <2> QED
      BY <1>3, <2>2 DEF QueueInv
  <1>9. QueueInv'
    BY <1>2, <1>3, <1>7, <1>8 DEF QueueInv
  <1> QED
    BY <1>2, <1>7, <1>9 DEF Request

\* A request answered by AIO::Finish is in neither queue afterwards.
LEMMA FinishQueue ==
  ASSUME TypeOK, LoopInv, QueueInv, NEW op, NEW res, Finish(op, res)
  PROVE  /\ QueueInv'
         /\ pos \in Pending
         /\ Pending' = Pending \ {pos}
         /\ \A i \in Pending' : /\ io_queue'[i] = io_queue[i]
                                /\ Request(io_queue[i])' = Request(io_queue[i])
  <1>1. phase = "finish" /\ pos \in 1 .. Len(io_queue) /\ io_queue \in Seq(Aio)
    BY DEF Finish, LoopInv, TypeOK
  <1>2. pos \in Pending
    BY <1>1 DEF Pending
  <1>3. Pending' = Pending \ {pos} /\ \A i \in Pending' : io_queue'[i] = io_queue[i]
    <2>1. CASE pos < Len(io_queue)
      BY <1>1, <2>1 DEF Finish, Pending
    <2>2. CASE ~(pos < Len(io_queue))
      BY <1>1, <2>2 DEF Finish, Pending
    <2> QED
      BY <2>1, <2>2
  <1>4. \A i \in Pending : io_queue[i].c \in Clients
    BY PendingType
  <1>5. \A d \in Clients : d # io_queue[pos].c => req'[d] = req[d]
    BY <1>2, <1>4 DEF Finish, FinishRequest, TypeOK
  <1>6. \A i \in Pending' : io_queue[i].c # io_queue[pos].c
    BY <1>2, <1>3 DEF QueueInv
  <1>7. batch_queue' = batch_queue /\ batch_queue \in Seq(Clients)
    BY DEF Finish, TypeOK
  <1>8. \A i \in DOMAIN batch_queue : req'[batch_queue[i]] = req[batch_queue[i]]
    <2>1. \A i \in DOMAIN batch_queue : batch_queue[i] \in Clients
                                       /\ batch_queue[i] # io_queue[pos].c
      BY <1>2, <1>7 DEF QueueInv
    <2> QED
      BY <1>5, <2>1
  <1>9. \A i \in Pending' : req'[io_queue'[i].c] = req[io_queue[i].c]
    BY <1>3, <1>4, <1>5, <1>6
  <1>10. QueueInv'
    BY <1>3, <1>7, <1>8, <1>9 DEF QueueInv
  <1> QED
    BY <1>2, <1>3, <1>9, <1>10 DEF Request

\* A request that is submitted is in one queue.
LEMMA SubmitQueue ==
  ASSUME TypeOK, QueueInv, NEW c \in Clients, NEW r \in Requests, Submit(c, r)
  PROVE  /\ QueueInv'
         /\ Pending' = Pending
         /\ \A d \in Clients : req'[d] = IF d = c THEN r ELSE req[d]
         /\ \A i \in Pending : Request(io_queue[i])' = Request(io_queue[i])
  <1>1. /\ req[c] = NoReq /\ req' = [req EXCEPT ![c] = r]
        /\ batch_queue' = Append(batch_queue, c) /\ batch_queue \in Seq(Clients)
        /\ UNCHANGED <<index, io_queue, phase, pos>>
    BY DEF Submit, TypeOK, loopVars
  <1>2. \A d \in Clients : req'[d] = IF d = c THEN r ELSE req[d]
    BY <1>1 DEF TypeOK
  <1>3. r # NoReq
    BY RequestType DEF NoReq
  <1>4. Pending' = Pending
    BY <1>1 DEF Pending
  <1>5. \A i \in Pending : io_queue[i].c \in Clients /\ io_queue[i].c # c
    BY <1>1, PendingType DEF QueueInv
  <1>6. \A i \in Pending : Request(io_queue[i])' = Request(io_queue[i])
    BY <1>1, <1>2, <1>5 DEF Request
  <1>7. QueueInv'
    <2>1. \A i \in DOMAIN batch_queue : batch_queue[i] \in Clients /\ batch_queue[i] # c
      BY <1>1 DEF QueueInv
    <2>2. /\ DOMAIN batch_queue' = DOMAIN batch_queue \cup {Len(batch_queue) + 1}
          /\ \A i \in DOMAIN batch_queue : batch_queue'[i] = batch_queue[i]
          /\ batch_queue'[Len(batch_queue) + 1] = c
      BY <1>1
    <2>3. \A i \in DOMAIN batch_queue' : req'[batch_queue'[i]] # NoReq
      BY <1>1, <1>2, <1>3, <2>1, <2>2 DEF QueueInv
    <2>4. \A i \in Pending' : req'[io_queue'[i].c] # NoReq
      BY <1>1, <1>2, <1>4, <1>5 DEF QueueInv
    <2>5. \A i, j \in DOMAIN batch_queue' : i # j => batch_queue'[i] # batch_queue'[j]
      BY <1>1, <2>1, <2>2 DEF QueueInv
    <2>6. \A i \in DOMAIN batch_queue', j \in Pending' : batch_queue'[i] # io_queue'[j].c
      BY <1>1, <1>4, <1>5, <2>2 DEF QueueInv
    <2>7. \A i, j \in Pending' : i # j => io_queue'[i].c # io_queue'[j].c
      BY <1>1, <1>4 DEF QueueInv
    <2> QED
      BY <2>3, <2>4, <2>5, <2>6, <2>7 DEF QueueInv
  <1> QED
    BY <1>2, <1>4, <1>6, <1>7

\* An event changes the AIO it is for, and nothing else of it.
LEMMA SetEventQueue ==
  ASSUME TypeOK, LoopInv, QueueInv, NEW ev, SetEvent(ev)
  PROVE  /\ QueueInv'
         /\ phase = "submit" /\ pos \in DOMAIN io_queue
         /\ UNCHANGED <<req, index, phase>> /\ UNCHANGED slabVars
         /\ Pending = DOMAIN io_queue /\ Pending' = Pending /\ DOMAIN io_queue' = DOMAIN io_queue
         /\ \A i \in Pending : Request(io_queue[i])' = Request(io_queue[i])
         /\ \A i \in Pending :
              /\ io_queue'[i].c = io_queue[i].c /\ io_queue'[i].slab = io_queue[i].slab
              /\ io_queue'[i].hit = io_queue[i].hit
              /\ io_queue'[i].ev = IF i = pos THEN ev ELSE io_queue[i].ev
  <1>1. /\ phase = "submit" /\ pos \in DOMAIN io_queue /\ io_queue \in Seq(Aio)
        /\ UNCHANGED <<req, batch_queue, index, phase>> /\ UNCHANGED slabVars
    BY DEF SetEvent, Silent, LoopInv, TypeOK
  <1>2. Pending = DOMAIN io_queue /\ Pending' = DOMAIN io_queue'
    BY <1>1 DEF Pending
  <1>3. /\ DOMAIN io_queue' = DOMAIN io_queue
        /\ \A i \in DOMAIN io_queue :
             io_queue'[i] = IF i = pos THEN [io_queue[i] EXCEPT !.ev = ev] ELSE io_queue[i]
    BY <1>1 DEF SetEvent
  <1>4. \A i \in DOMAIN io_queue :
          /\ io_queue'[i].c = io_queue[i].c /\ io_queue'[i].slab = io_queue[i].slab
          /\ io_queue'[i].hit = io_queue[i].hit
          /\ io_queue'[i].ev = IF i = pos THEN ev ELSE io_queue[i].ev
    BY <1>2, <1>3, PendingType DEF Aio
  <1>5. \A i \in Pending : Request(io_queue[i])' = Request(io_queue[i])
    BY <1>1, <1>2, <1>4 DEF Request
  <1>6. QueueInv'
    BY <1>1, <1>2, <1>3, <1>4 DEF QueueInv
  <1> QED
    BY <1>1, <1>2, <1>3, <1>4, <1>5, <1>6

\* The turns of the loop change no queue.
LEMMA TurnQueue ==
  ASSUME TypeOK, LoopInv, QueueInv, Drained \/ GetEvents \/ UNCHANGED vars
  PROVE  /\ QueueInv'
         /\ UNCHANGED <<req, batch_queue, index, io_queue>> /\ UNCHANGED slabVars
         /\ Pending' = Pending
         /\ \A i \in Pending : Request(io_queue[i])' = Request(io_queue[i])
  <1>1. UNCHANGED <<req, batch_queue, index, io_queue>> /\ UNCHANGED slabVars
    BY DEF Drained, GetEvents, Silent, vars, slabVars
  <1>2. Pending' = Pending
    <2>1. io_queue \in Seq(Aio)
      BY DEF TypeOK
    <2> QED
      BY <1>1, <2>1 DEF Drained, GetEvents, vars, Pending
  <1>3. \A i \in Pending : Request(io_queue[i])' = Request(io_queue[i])
    BY <1>1 DEF Request
  <1> QED
    BY <1>1, <1>2, <1>3 DEF QueueInv

\* Clash is symmetric.
LEMMA ClashSymmetric ==
  ASSUME NEW s, NEW t, Clash(s, t)
  PROVE  Clash(t, s)
  BY DEF Clash

\* Steps that leave the allocator, the index and the pending PUTs and DELETEs
\* alone leave ownership alone.
LEMMA SameOwners ==
  ASSUME SlabInv, UNCHANGED <<slabVars, index>>,
         PendingOps("PUT")' = PendingOps("PUT"),
         PendingOps("DELETE")' = PendingOps("DELETE"),
         \A i \in PendingOps("PUT") \cup PendingOps("DELETE") :
           /\ io_queue'[i].slab = io_queue[i].slab
           /\ Request(io_queue[i])' = Request(io_queue[i]),
         \A i \in PendingOps("DELETE") : io_queue'[i].ev # "err"
  PROVE  DeleteInv' /\ AllocInv' /\ SlabsExclusive'
  <1>1. DeleteInv'
    BY DEF SlabInv, DeleteInv
  <1>2. \A slab : Allocated(slab)' = Allocated(slab)
    BY DEF Allocated, slabVars
  <1>3. AllocInv'
    BY <1>2 DEF SlabInv, AllocInv, CounterInv, slabVars
  <1>4. PendingDeletes' = PendingDeletes /\ PendingPuts' = PendingPuts
    BY DEF PendingDeletes, PendingPuts
  <1>5. Live' = Live
    BY <1>4 DEF Live
  <1>6. SlabsExclusive'
    BY <1>4, <1>5 DEF SlabInv, SlabsExclusive, slabVars
  <1> QED
    BY <1>1, <1>3, <1>6

\* Answering a client cannot make two DELETEs meet.
LEMMA DeletesDifferAnswer ==
  ASSUME TypeOK, DeletesDiffer, NEW c \in Clients, NEW res, FinishRequest(c, res)
  PROVE  DeletesDiffer'
  <1>1. \A d \in Clients : req'[d] = IF d = c THEN NoReq ELSE req[d]
    BY DEF FinishRequest, TypeOK
  <1> QED
    BY <1>1 DEF DeletesDiffer, NoReq

\* ProcessRequest_ when it answers at once, or enqueues a GET or an UPDATE.
LEMMA SlabRefuse ==
  ASSUME TypeOK, SlabInv, NEW c, NEW op, NEW res, Pop(c, op), FinishRequest(c, res),
         UNCHANGED <<io_queue, index, slabVars>>
  PROVE  QueueInv' /\ DeletesDiffer' /\ DeleteInv' /\ AllocInv' /\ SlabsExclusive'
  <1>1. LoopInv /\ QueueInv /\ DeletesDiffer /\ DeleteInv /\ c \in Clients
    BY PopType DEF SlabInv
  <1>2. /\ QueueInv'
        /\ Pending' = Pending
        /\ \A i \in Pending : Request(io_queue[i])' = Request(io_queue[i])
    BY <1>1, AnswerQueue
  <1>3. \A o : PendingOps(o)' = PendingOps(o)
    BY <1>2 DEF PendingOps
  <1>4. \A o : PendingOps(o) \subseteq Pending
    BY DEF PendingOps
  <1>5. DeleteInv' /\ AllocInv' /\ SlabsExclusive'
    BY <1>1, <1>2, <1>3, <1>4, SameOwners DEF DeleteInv
  <1> QED
    BY <1>1, <1>2, <1>5, DeletesDifferAnswer

\* An AIO of a GET or an UPDATE owns and frees nothing.
LEMMA SlabReadWrite ==
  ASSUME TypeOK, SlabInv, NEW c, NEW op \in {"GET", "UPDATE"}, NEW slab,
         Pop(c, op), IOEnqueue(c, slab), UNCHANGED slabVars
  PROVE  QueueInv' /\ DeletesDiffer' /\ DeleteInv' /\ AllocInv' /\ SlabsExclusive'
  <1> DEFINE n == Len(io_queue) + 1
  <1>1. LoopInv /\ QueueInv /\ DeletesDiffer /\ DeleteInv /\ req[c].op = op /\ index' = index
    BY DEF SlabInv, Pop, IOEnqueue
  <1>2. /\ QueueInv'
        /\ req' = req
        /\ Pending' = Pending \cup {n}
        /\ \A i \in Pending : io_queue'[i] = io_queue[i]
        /\ io_queue'[n] = [c |-> c, slab |-> slab, hit |-> Lookup(PageOf(slab)), ev |-> "none"]
    BY <1>1, EnqueueQueue
  <1> HIDE DEF n
  <1>3. PendingOps("PUT")' = PendingOps("PUT") /\ PendingOps("DELETE")' = PendingOps("DELETE")
    BY <1>1, <1>2 DEF PendingOps, Request
  <1>4. \A i \in PendingOps("PUT") \cup PendingOps("DELETE") :
          io_queue'[i] = io_queue[i] /\ Request(io_queue[i])' = Request(io_queue[i])
    BY <1>2 DEF PendingOps, Request
  <1>5. DeleteInv' /\ AllocInv' /\ SlabsExclusive'
    BY <1>1, <1>3, <1>4, SameOwners DEF DeleteInv
  <1>6. DeletesDiffer'
    BY <1>1, <1>2 DEF DeletesDiffer
  <1> QED
    BY <1>2, <1>5, <1>6

\* The slab Create hands out is nobody's, and is accounted for.
LEMMA NewSlabFresh ==
  ASSUME TypeOK, SlabInv, NEW k \in Keys, Create(ItemSize[k]),
         NEW new, new = NewSlab(ItemSize[k])
  PROVE  /\ CounterInv'
         /\ Allocated(new)'
         /\ \A slab \in Slab : Allocated(slab) => Allocated(slab)'
         /\ \A j \in Live : ~Clash(index[j], new)
         /\ \A slab \in PendingPuts : ~Clash(slab, new)
         /\ \A s \in SlabSizes : \A m \in DOMAIN free_slab'[s] : ~Clash(free_slab'[s][m], new)
         /\ \A s \in SlabSizes : \A m \in DOMAIN free_slab'[s] :
              \E n \in DOMAIN free_slab[s] : /\ free_slab'[s][m] = free_slab[s][n]
                                            /\ n = IF free_slab'[s] = free_slab[s] THEN m ELSE m + 1
  <1> DEFINE s0 == Fit(ItemSize[k])
  <1>1. s0 \in SlabSizes /\ SlabSizes \subseteq Nat \ {0} /\ SlabPerFile \in Nat
    BY FitType, SlabAssumption
  <1>2. AllocInv /\ CounterInv /\ SlabsExclusive
    BY DEF SlabInv, AllocInv
  <1>3. /\ \A s \in SlabSizes : free_slab[s] \in Seq(Slab)
        /\ \A s \in SlabSizes : cur_file[s] \in Nat /\ cur_slab[s] \in 0 .. SlabPerFile
        /\ file_set \in Nat
        /\ DOMAIN free_slab = SlabSizes
    BY DEF TypeOK
  <1>4. /\ \A j \in Live : index[j] \in Slab /\ Allocated(index[j])
        /\ \A slab \in PendingPuts : slab \in Slab /\ Allocated(slab)
        /\ \A s \in SlabSizes : \A m \in DOMAIN free_slab[s] :
             free_slab[s][m] \in Slab /\ Allocated(free_slab[s][m])
    <2>1. \A j \in Live : index[j] \in Slab /\ Allocated(index[j])
      BY <1>2 DEF AllocInv, Live, TypeOK
    <2>2. \A slab \in PendingPuts : slab \in Slab /\ Allocated(slab)
      BY <1>2, PendingType DEF AllocInv, PendingPuts, PendingOps
    <2>3. \A s \in SlabSizes : \A m \in DOMAIN free_slab[s] : free_slab[s][m] \in Slab
      BY <1>3
    <2> QED
      BY <1>2, <2>1, <2>2, <2>3 DEF AllocInv
  <1> HIDE DEF s0
  <1>5. CASE ReuseFree(s0)
    <2>1. free_slab[s0] # <<>> /\ UNCHANGED <<cur_file, cur_slab, file_set>>
      BY <1>5 DEF ReuseFree
    <2>2. new = free_slab[s0][1] /\ 1 \in DOMAIN free_slab[s0]
      BY <1>1, <1>3, <2>1 DEF NewSlab, s0
    <2>3. free_slab' = [free_slab EXCEPT ![s0] = Tail(free_slab[s0])]
      BY <1>5 DEF ReuseFree
    <2>4. \A m \in DOMAIN free_slab'[s0] : m + 1 \in DOMAIN free_slab[s0] /\ m + 1 # 1
                                           /\ free_slab'[s0][m] = free_slab[s0][m + 1]
      BY <1>1, <1>3, <2>1, <2>3
    <2>5. \A s \in SlabSizes : s # s0 => free_slab'[s] = free_slab[s]
      BY <1>1, <1>3, <2>3
    <2>6. free_slab'[s0] # free_slab[s0]
      BY <1>1, <1>3, <2>1, <2>3
    <2>7. \A slab : Allocated(slab)' = Allocated(slab)
      BY <2>1 DEF Allocated
    <2>8. CounterInv' /\ Allocated(new)'
      BY <1>1, <1>2, <1>4, <2>1, <2>2, <2>7 DEF CounterInv
    <2>9. \A j \in Live : ~Clash(index[j], new)
      BY <1>1, <1>2, <2>2 DEF SlabsExclusive
    <2>10. \A slab \in PendingPuts : ~Clash(slab, new)
      BY <1>1, <1>2, <2>2 DEF SlabsExclusive
    <2>11. \A s \in SlabSizes : \A m \in DOMAIN free_slab'[s] : ~Clash(free_slab'[s][m], new)
      BY <1>1, <1>2, <2>2, <2>4, <2>5 DEF SlabsExclusive
    <2> QED
      BY <2>4, <2>5, <2>6, <2>7, <2>8, <2>9, <2>10, <2>11
  <1>6. CASE OpenFile(s0) \/ NextInFile(s0)
    <2>1. free_slab' = free_slab
      BY <1>6 DEF OpenFile, NextInFile
    <2>2. /\ CounterInv'
          /\ Allocated(new)'
          /\ \A slab \in Slab : Allocated(slab) => Allocated(slab)'
          /\ \A slab \in Slab : Allocated(slab) => ~Clash(slab, new)
      <3>1. CASE OpenFile(s0)
        <4>1. /\ file_set' = file_set + 1
              /\ cur_file' = [cur_file EXCEPT ![s0] = file_set + 1]
              /\ cur_slab' = [cur_slab EXCEPT ![s0] = 0]
          BY <3>1 DEF OpenFile
        <4>2. new = [size |-> s0, file |-> file_set + 1, index |-> 0]
          BY <3>1 DEF OpenFile, NewSlab, s0
        <4>3. \A s \in SlabSizes : /\ cur_file'[s] = IF s = s0 THEN file_set + 1 ELSE cur_file[s]
                                   /\ cur_slab'[s] = IF s = s0 THEN 0 ELSE cur_slab[s]
          BY <1>1, <4>1 DEF TypeOK
        <4>4. CounterInv'
          BY <1>1, <1>2, <1>3, <4>1, <4>3 DEF CounterInv
        <4>5. Allocated(new)'
          BY <1>1, <1>2, <1>3, <4>1, <4>2, <4>3 DEF CounterInv, Allocated
        <4>6. \A slab \in Slab : Allocated(slab) => Allocated(slab)' /\ ~Clash(slab, new)
          BY <1>1, <1>3, <4>1, <4>2, <4>3 DEF Allocated, Clash, Slab
        <4> QED
          BY <4>4, <4>5, <4>6
      <3>2. CASE NextInFile(s0)
        <4>1. /\ cur_slab[s0] # SlabPerFile
              /\ cur_slab' = [cur_slab EXCEPT ![s0] = cur_slab[s0] + 1]
              /\ file_set' = file_set /\ cur_file' = cur_file
          BY <3>2 DEF NextInFile
        <4>2. new = [size |-> s0, file |-> cur_file[s0], index |-> cur_slab[s0] + 1]
          BY <3>2 DEF NextInFile, NewSlab, s0
        <4>3. \A s \in SlabSizes : cur_slab'[s] = IF s = s0 THEN cur_slab[s0] + 1 ELSE cur_slab[s]
          BY <1>1, <4>1 DEF TypeOK
        <4>4. cur_file[s0] # 0
          BY <1>1, <1>2, <4>1 DEF CounterInv
        <4>5. CounterInv'
          BY <1>1, <1>2, <4>1, <4>3, <4>4 DEF CounterInv
        <4>6. Allocated(new)'
          BY <1>1, <1>2, <1>3, <4>1, <4>2, <4>3, <4>4 DEF CounterInv, Allocated
        <4>7. \A slab \in Slab : Allocated(slab) => Allocated(slab)' /\ ~Clash(slab, new)
          BY <1>1, <1>3, <4>1, <4>2, <4>3 DEF Allocated, Clash, Slab
        <4> QED
          BY <4>5, <4>6, <4>7
      <3> QED
        BY <1>6, <3>1, <3>2
    <2> QED
      BY <1>4, <2>1, <2>2
  <1> QED
    BY <1>5, <1>6 DEF Create, s0

\* A PUT takes a fresh slab.
LEMMA SlabPut ==
  ASSUME TypeOK, SlabInv, NEW c, Put(c)
  PROVE  QueueInv' /\ DeletesDiffer' /\ DeleteInv' /\ AllocInv' /\ SlabsExclusive'
  <1> DEFINE k == req[c].key
             n == Len(io_queue) + 1
  <1>1. /\ LoopInv /\ QueueInv /\ DeletesDiffer /\ DeleteInv /\ AllocInv /\ SlabsExclusive
        /\ c \in Clients /\ Pop(c, "PUT") /\ Create(ItemSize[k]) /\ req[c].op = "PUT"
        /\ IOEnqueue(c, NewSlab(ItemSize[k])) /\ index' = index
    BY PopType DEF SlabInv, Put, Pop, IOEnqueue
  <1>2. k \in Keys
    BY <1>1, OutstandingType
  <1>3. PICK new : new = NewSlab(ItemSize[k])
    OBVIOUS
  <1>4. /\ QueueInv'
        /\ req' = req
        /\ Pending' = Pending \cup {n}
        /\ n \notin Pending
        /\ \A i \in Pending : io_queue'[i] = io_queue[i]
        /\ io_queue'[n] = [c |-> c, slab |-> new, hit |-> Lookup(PageOf(new)), ev |-> "none"]
    BY <1>1, <1>3, EnqueueQueue
  <1>5. /\ CounterInv'
        /\ Allocated(new)'
        /\ \A slab \in Slab : Allocated(slab) => Allocated(slab)'
        /\ \A j \in Live : ~Clash(index[j], new)
        /\ \A slab \in PendingPuts : ~Clash(slab, new)
        /\ \A s \in SlabSizes : \A m \in DOMAIN free_slab'[s] : ~Clash(free_slab'[s][m], new)
        /\ \A s \in SlabSizes : \A m \in DOMAIN free_slab'[s] :
             \E l \in DOMAIN free_slab[s] : /\ free_slab'[s][m] = free_slab[s][l]
                                           /\ l = IF free_slab'[s] = free_slab[s] THEN m ELSE m + 1
    BY <1>1, <1>2, <1>3, NewSlabFresh
  <1> HIDE DEF n, k
  <1>6. /\ PendingOps("PUT")' = PendingOps("PUT") \cup {n}
        /\ PendingOps("DELETE")' = PendingOps("DELETE")
        /\ \A i \in PendingOps("PUT") \cup PendingOps("DELETE") : i \in Pending /\ i # n
    BY <1>1, <1>4 DEF PendingOps, Request
  <1>7. /\ \A i \in PendingOps("PUT") \cup PendingOps("DELETE") : io_queue'[i] = io_queue[i]
        /\ io_queue'[n].slab = new
    BY <1>4, <1>6
  <1>8. PendingPuts' = PendingPuts \cup {new} /\ PendingDeletes' = PendingDeletes
    BY <1>4, <1>6, <1>7 DEF PendingPuts, PendingDeletes, Request
  <1>9. Live' = Live
    BY <1>1, <1>8 DEF Live
  <1>10. DeleteInv'
    BY <1>1, <1>4, <1>6, <1>7 DEF DeleteInv, Request
  <1>11. AllocInv'
    <2>1. \A j \in DOMAIN index : Allocated(index[j])'
      BY <1>1, <1>5 DEF AllocInv, TypeOK
    <2>2. \A i \in PendingOps("PUT") : io_queue[i].slab \in Slab
      BY <1>6, PendingType
    <2>3. \A i \in PendingOps("PUT")' : Allocated(io_queue[i].slab)'
      BY <1>1, <1>5, <1>6, <1>7, <2>2 DEF AllocInv, Allocated
    <2>4. \A s \in SlabSizes : \A m \in DOMAIN free_slab[s] : free_slab[s][m] \in Slab
      BY DEF TypeOK
    <2>5. \A s \in SlabSizes : \A m \in DOMAIN free_slab'[s] : Allocated(free_slab[s][m])'
      BY <1>1, <1>5, <2>4 DEF AllocInv, Allocated
    <2> QED
      BY <1>1, <1>5, <2>1, <2>3, <2>5 DEF AllocInv, Allocated
  <1>12. SlabsExclusive'
    <2>1. \A j, l \in Live' : j # l => ~Clash(index'[j], index'[l])
      BY <1>1, <1>9 DEF SlabsExclusive
    <2>2. \A i, j \in PendingOps("PUT")' : i # j => ~Clash(io_queue'[i].slab, io_queue'[j].slab)
      <3>1. \A i \in PendingOps("PUT") : io_queue[i].slab \in PendingPuts
        BY DEF PendingPuts
      <3> QED
        BY <1>1, <1>5, <1>6, <1>7, <3>1, ClashSymmetric DEF SlabsExclusive
    <2>3. \A s, t \in SlabSizes : \A m \in DOMAIN free_slab'[s], l \in DOMAIN free_slab'[t] :
            <<s, m>> # <<t, l>> => ~Clash(free_slab'[s][m], free_slab'[t][l])
      <3> SUFFICES ASSUME NEW s \in SlabSizes, NEW t \in SlabSizes,
                          NEW m \in DOMAIN free_slab'[s], NEW l \in DOMAIN free_slab'[t],
                          <<s, m>> # <<t, l>>
                   PROVE  ~Clash(free_slab'[s][m], free_slab'[t][l])
        OBVIOUS
      <3>1. PICK m1 \in DOMAIN free_slab[s] :
               /\ free_slab'[s][m] = free_slab[s][m1]
               /\ m1 = IF free_slab'[s] = free_slab[s] THEN m ELSE m + 1
        BY <1>5
      <3>2. PICK l1 \in DOMAIN free_slab[t] :
               /\ free_slab'[t][l] = free_slab[t][l1]
               /\ l1 = IF free_slab'[t] = free_slab[t] THEN l ELSE l + 1
        BY <1>5
      <3>3. free_slab' \in [SlabSizes -> Seq(Slab)]
        BY <1>1, <1>2, CreateType DEF k
      <3>4. m \in Nat /\ l \in Nat
        BY <3>3
      <3>5. <<s, m1>> # <<t, l1>>
        BY <3>1, <3>2, <3>4
      <3> QED
        BY <1>1, <3>1, <3>2, <3>5 DEF SlabsExclusive
    <2>4. \A j \in Live' : \A slab \in PendingPuts' : ~Clash(index'[j], slab)
      BY <1>1, <1>5, <1>8, <1>9 DEF SlabsExclusive
    <2>5. \A s \in SlabSizes : \A m \in DOMAIN free_slab'[s] :
            /\ \A j \in Live' : ~Clash(index'[j], free_slab'[s][m])
            /\ \A slab \in PendingPuts' : ~Clash(slab, free_slab'[s][m])
      BY <1>1, <1>5, <1>8, <1>9, ClashSymmetric DEF SlabsExclusive
    <2> QED
      BY <2>1, <2>2, <2>3, <2>4, <2>5 DEF SlabsExclusive
  <1>13. DeletesDiffer'
    BY <1>1, <1>4 DEF DeletesDiffer
  <1> QED
    BY <1>4, <1>10, <1>11, <1>12, <1>13

\* A DELETE moves its slab from the index to the free list.
LEMMA SlabDelete ==
  ASSUME TypeOK, SlabInv, NEW c, Delete(c)
  PROVE  QueueInv' /\ DeletesDiffer' /\ DeleteInv' /\ AllocInv' /\ SlabsExclusive'
  <1> DEFINE k == req[c].key
             slab == index[k]
             n == Len(io_queue) + 1
  <1>1. /\ LoopInv /\ QueueInv /\ DeletesDiffer /\ DeleteInv /\ AllocInv /\ SlabsExclusive
        /\ c \in Clients /\ Pop(c, "DELETE") /\ Free(slab) /\ req[c].op = "DELETE"
        /\ IOEnqueue(c, slab) /\ index' = index /\ k \in DOMAIN index
    BY PopType DEF SlabInv, Delete, Pop, IOEnqueue
  <1>2. slab \in Slab /\ slab.size \in SlabSizes /\ Allocated(slab)
    <2>1. slab \in Slab
      BY <1>1 DEF TypeOK
    <2> QED
      BY <1>1, <2>1 DEF Slab, AllocInv
  <1>3. /\ QueueInv'
        /\ req' = req
        /\ Pending' = Pending \cup {n}
        /\ n \notin Pending
        /\ \A i \in Pending : io_queue'[i] = io_queue[i]
        /\ io_queue'[n] = [c |-> c, slab |-> slab, hit |-> Lookup(PageOf(slab)), ev |-> "none"]
    BY <1>1, EnqueueQueue
  <1>4. \A i \in Pending : io_queue[i].c # c /\ io_queue[i].c \in Clients
    BY <1>1, PopQueue, PendingType
  <1>5. PICK x : x = slab
    OBVIOUS
  <1>6. /\ UNCHANGED <<cur_file, cur_slab, file_set>>
        /\ free_slab' = [free_slab EXCEPT ![x.size] = Append(free_slab[x.size], x)]
        /\ free_slab \in [SlabSizes -> Seq(Slab)]
    BY <1>1, <1>5 DEF Free, TypeOK
  <1> HIDE DEF n, slab
  <1>7. /\ PendingOps("DELETE")' = PendingOps("DELETE") \cup {n}
        /\ PendingOps("PUT")' = PendingOps("PUT")
        /\ \A i \in PendingOps("PUT") \cup PendingOps("DELETE") : i \in Pending /\ i # n
    BY <1>1, <1>3 DEF PendingOps, Request
  <1>8. k \notin PendingDeletes
    BY <1>1, <1>4, <1>7 DEF PendingDeletes, PendingOps, DeletesDiffer, Request
  <1>9. PendingPuts' = PendingPuts /\ PendingDeletes' = PendingDeletes \cup {k}
    BY <1>3, <1>7 DEF PendingPuts, PendingDeletes, Request
  <1>10. Live' = Live \ {k} /\ k \in Live
    BY <1>1, <1>8, <1>9 DEF Live
  <1>11. DeleteInv'
    BY <1>1, <1>3, <1>7 DEF DeleteInv, Request, slab
  <1>12. \A s \in SlabSizes : \A m \in DOMAIN free_slab'[s] :
           \/ m \in DOMAIN free_slab[s] /\ free_slab'[s][m] = free_slab[s][m]
           \/ s = x.size /\ m = Len(free_slab[s]) + 1 /\ free_slab'[s][m] = x
    <2> SUFFICES ASSUME NEW s \in SlabSizes, NEW m \in DOMAIN free_slab'[s]
                 PROVE  \/ m \in DOMAIN free_slab[s] /\ free_slab'[s][m] = free_slab[s][m]
                        \/ s = x.size /\ m = Len(free_slab[s]) + 1 /\ free_slab'[s][m] = x
      OBVIOUS
    <2>1. CASE s # x.size
      BY <1>6, <2>1
    <2>2. CASE s = x.size
      <3>1. free_slab'[s] = Append(free_slab[s], x) /\ free_slab[s] \in Seq(Slab)
        BY <1>6, <2>2
      <3> QED
        BY <2>2, <3>1
    <2> QED
      BY <2>1, <2>2
  <1>13. \A y : Allocated(y)' = Allocated(y)
    BY <1>6 DEF Allocated
  <1>14. AllocInv'
    <2>1. CounterInv'
      BY <1>1, <1>6 DEF AllocInv, CounterInv
    <2>2. \A j \in DOMAIN index' : Allocated(index[j])'
      BY <1>1, <1>13 DEF AllocInv, Allocated
    <2>3. \A i \in PendingOps("PUT")' : Allocated(io_queue[i].slab)'
      BY <1>1, <1>3, <1>7, <1>13 DEF AllocInv, Allocated
    <2>4. \A s \in SlabSizes : \A m \in DOMAIN free_slab'[s] : Allocated(free_slab[s][m])'
      BY <1>1, <1>2, <1>5, <1>12, <1>13 DEF AllocInv, Allocated
    <2> QED
      BY <2>1, <2>2, <2>3, <2>4 DEF AllocInv, Allocated
  <1>15. /\ \A j \in Live' : j \in Live /\ ~Clash(index[j], x)
         /\ \A y \in PendingPuts : ~Clash(y, x)
         /\ \A s \in SlabSizes : \A m \in DOMAIN free_slab[s] : ~Clash(free_slab[s][m], x)
    BY <1>1, <1>5, <1>10, ClashSymmetric DEF SlabsExclusive, slab
  <1>16. SlabsExclusive'
    <2>1. \A j, l \in Live' : j # l => ~Clash(index'[j], index'[l])
      BY <1>1, <1>15 DEF SlabsExclusive
    <2>2. \A i, j \in PendingOps("PUT")' : i # j => ~Clash(io_queue'[i].slab, io_queue'[j].slab)
      BY <1>1, <1>3, <1>7 DEF SlabsExclusive
    <2>3. \A s, t \in SlabSizes : \A m \in DOMAIN free_slab'[s], l \in DOMAIN free_slab'[t] :
            <<s, m>> # <<t, l>> => ~Clash(free_slab'[s][m], free_slab'[t][l])
      BY <1>1, <1>12, <1>15, ClashSymmetric DEF SlabsExclusive
    <2>4. \A j \in Live' : \A y \in PendingPuts' : ~Clash(index'[j], y)
      BY <1>1, <1>9, <1>15 DEF SlabsExclusive
    <2>5. \A s \in SlabSizes : \A m \in DOMAIN free_slab'[s] :
            /\ \A j \in Live' : ~Clash(index'[j], free_slab'[s][m])
            /\ \A y \in PendingPuts' : ~Clash(y, free_slab'[s][m])
      BY <1>1, <1>9, <1>12, <1>15 DEF SlabsExclusive
    <2> QED
      BY <2>1, <2>2, <2>3, <2>4, <2>5 DEF SlabsExclusive
  <1>17. DeletesDiffer'
    BY <1>1, <1>3 DEF DeletesDiffer
  <1> QED
    BY <1>3, <1>11, <1>14, <1>16, <1>17

\* Finishing a GET or an UPDATE owns and frees nothing.
LEMMA SlabFinishReadWrite ==
  ASSUME TypeOK, SlabInv, NEW op \in {"GET", "UPDATE"}, NEW res, Finish(op, res),
         UNCHANGED index
  PROVE  QueueInv' /\ DeletesDiffer' /\ DeleteInv' /\ AllocInv' /\ SlabsExclusive'
  <1>1. LoopInv /\ QueueInv /\ DeletesDiffer /\ DeleteInv
    BY DEF SlabInv
  <1>2. /\ QueueInv'
        /\ pos \in Pending
        /\ Pending' = Pending \ {pos}
        /\ \A i \in Pending' : /\ io_queue'[i] = io_queue[i]
                               /\ Request(io_queue[i])' = Request(io_queue[i])
    BY <1>1, FinishQueue
  <1>3. Request(io_queue[pos]).op = op /\ UNCHANGED slabVars
    BY DEF Finish
  <1>4. PendingOps("PUT")' = PendingOps("PUT") /\ PendingOps("DELETE")' = PendingOps("DELETE")
    BY <1>2, <1>3 DEF PendingOps
  <1>5. \A i \in PendingOps("PUT") \cup PendingOps("DELETE") : i \in Pending'
    BY <1>2, <1>3 DEF PendingOps
  <1>6. DeleteInv' /\ AllocInv' /\ SlabsExclusive'
    BY <1>1, <1>2, <1>3, <1>4, <1>5, SameOwners DEF DeleteInv
  <1>7. DeletesDiffer'
    BY <1>1, <1>2, PendingType, DeletesDifferAnswer DEF Finish
  <1> QED
    BY <1>2, <1>6, <1>7

\* PutCallback gives the slab to the index, or to nobody.
LEMMA SlabFinishPut ==
  ASSUME TypeOK, SlabInv, FinishPut
  PROVE  QueueInv' /\ DeletesDiffer' /\ DeleteInv' /\ AllocInv' /\ SlabsExclusive'
  <1> DEFINE e == io_queue[pos]
             k == Request(e).key
  <1>1. /\ LoopInv /\ QueueInv /\ DeletesDiffer /\ DeleteInv /\ AllocInv /\ SlabsExclusive
        /\ Finish("PUT", WriteResult(e))
        /\ UNCHANGED slabVars
    BY DEF SlabInv, FinishPut, Finish
  <1>2. index' = IF Success(e) /\ k \notin DOMAIN index
                 THEN [j \in DOMAIN index \cup {k} |-> IF j = k THEN e.slab ELSE index[j]]
                 ELSE index
    BY DEF FinishPut
  <1>3. /\ QueueInv'
        /\ pos \in Pending
        /\ Pending' = Pending \ {pos}
        /\ \A i \in Pending' : /\ io_queue'[i] = io_queue[i]
                               /\ Request(io_queue[i])' = Request(io_queue[i])
    BY <1>1, FinishQueue
  <1>4. Request(e).op = "PUT" /\ pos \in PendingOps("PUT")
    BY <1>1, <1>3 DEF Finish, PendingOps
  <1>5. /\ PendingOps("PUT")' = PendingOps("PUT") \ {pos}
        /\ PendingOps("DELETE")' = PendingOps("DELETE")
        /\ \A i \in PendingOps("DELETE") : i \in Pending'
        /\ \A i \in PendingOps("PUT") : i # pos => i \in Pending'
    BY <1>3, <1>4 DEF PendingOps
  <1>6. PendingDeletes' = PendingDeletes
    BY <1>3, <1>5 DEF PendingDeletes
  <1>7. \A y \in PendingPuts' : \E i \in PendingOps("PUT") : i # pos /\ y = io_queue[i].slab
    BY <1>3, <1>5 DEF PendingPuts
  <1>8. DeleteInv'
    BY <1>1, <1>2, <1>3, <1>5 DEF DeleteInv
  <1>9. \A y : Allocated(y)' = Allocated(y)
    BY <1>1 DEF Allocated, slabVars
  <1>10. Allocated(e.slab)
    BY <1>1, <1>4 DEF AllocInv
  <1>11. AllocInv'
    <2>1. CounterInv' /\ \A s \in SlabSizes : \A m \in DOMAIN free_slab'[s] : Allocated(free_slab[s][m])'
      BY <1>1, <1>9 DEF AllocInv, CounterInv, slabVars, Allocated
    <2>2. \A j \in DOMAIN index' : index'[j] = e.slab \/ (j \in DOMAIN index /\ index'[j] = index[j])
      BY <1>2
    <2>3. \A j \in DOMAIN index' : Allocated(index[j])'
      BY <1>1, <1>9, <1>10, <2>2 DEF AllocInv, Allocated
    <2>4. \A i \in PendingOps("PUT")' : Allocated(io_queue[i].slab)'
      BY <1>1, <1>3, <1>5, <1>9 DEF AllocInv, Allocated
    <2> QED
      BY <2>1, <2>3, <2>4 DEF AllocInv, Allocated
  <1>12. \A j \in Live' :
            \/ j \in Live /\ index'[j] = index[j]
            \/ j = k /\ index'[j] = e.slab /\ k \notin Live
    BY <1>2, <1>6 DEF Live
  <1>13. /\ \A j \in Live : ~Clash(index[j], e.slab)
         /\ \A i \in PendingOps("PUT") : i # pos => ~Clash(io_queue[i].slab, e.slab)
         /\ \A s \in SlabSizes : \A m \in DOMAIN free_slab[s] : ~Clash(e.slab, free_slab[s][m])
    BY <1>1, <1>4 DEF SlabsExclusive, PendingPuts
  <1>14. SlabsExclusive'
    <2>1. \A j, l \in Live' : j # l => ~Clash(index'[j], index'[l])
      BY <1>1, <1>12, <1>13, ClashSymmetric DEF SlabsExclusive
    <2>2. \A i, j \in PendingOps("PUT")' : i # j => ~Clash(io_queue'[i].slab, io_queue'[j].slab)
      BY <1>1, <1>3, <1>5 DEF SlabsExclusive
    <2>3. \A s, t \in SlabSizes : \A m \in DOMAIN free_slab'[s], l \in DOMAIN free_slab'[t] :
            <<s, m>> # <<t, l>> => ~Clash(free_slab'[s][m], free_slab'[t][l])
      BY <1>1 DEF SlabsExclusive, slabVars
    <2>4. \A j \in Live' : \A y \in PendingPuts' : ~Clash(index'[j], y)
      <3>1. PendingPuts' \subseteq PendingPuts
        BY <1>7 DEF PendingPuts
      <3>2. \A y \in PendingPuts' : ~Clash(e.slab, y)
        BY <1>7, <1>13, ClashSymmetric
      <3> QED
        BY <1>1, <1>12, <3>1, <3>2 DEF SlabsExclusive
    <2>5. \A s \in SlabSizes : \A m \in DOMAIN free_slab'[s] :
            /\ \A j \in Live' : ~Clash(index'[j], free_slab'[s][m])
            /\ \A y \in PendingPuts' : ~Clash(y, free_slab'[s][m])
      <3>1. PendingPuts' \subseteq PendingPuts
        BY <1>7 DEF PendingPuts
      <3>2. free_slab' = free_slab
        BY <1>1 DEF slabVars
      <3> QED
        BY <1>1, <1>12, <1>13, <3>1, <3>2 DEF SlabsExclusive
    <2> QED
      BY <2>1, <2>2, <2>3, <2>4, <2>5 DEF SlabsExclusive
  <1>15. DeletesDiffer'
    BY <1>1, <1>3, PendingType, DeletesDifferAnswer DEF Finish
  <1> QED
    BY <1>3, <1>8, <1>11, <1>14, <1>15

\* DeleteCallback drops a key whose slab is on the free list.
LEMMA SlabFinishDelete ==
  ASSUME TypeOK, SlabInv, FinishDelete
  PROVE  QueueInv' /\ DeletesDiffer' /\ DeleteInv' /\ AllocInv' /\ SlabsExclusive'
  <1> DEFINE e == io_queue[pos]
             k == Request(e).key
  <1>1. /\ LoopInv /\ QueueInv /\ DeletesDiffer /\ DeleteInv /\ AllocInv /\ SlabsExclusive
        /\ Finish("DELETE", WriteResult(e))
        /\ UNCHANGED slabVars
    BY DEF SlabInv, FinishDelete, Finish
  <1>2. /\ QueueInv'
        /\ pos \in Pending
        /\ Pending' = Pending \ {pos}
        /\ \A i \in Pending' : /\ io_queue'[i] = io_queue[i]
                               /\ Request(io_queue[i])' = Request(io_queue[i])
    BY <1>1, FinishQueue
  <1>3. Request(e).op = "DELETE" /\ pos \in PendingOps("DELETE")
    BY <1>1, <1>2 DEF Finish, PendingOps
  <1>4. index' = [j \in DOMAIN index \ {k} |-> index[j]]
    BY <1>1, <1>3 DEF FinishDelete, DeleteInv, Success
  <1>5. /\ PendingOps("DELETE")' = PendingOps("DELETE") \ {pos}
        /\ PendingOps("PUT")' = PendingOps("PUT")
        /\ \A i \in PendingOps("PUT") : i \in Pending'
        /\ \A i \in PendingOps("DELETE") : i # pos => i \in Pending'
    BY <1>2, <1>3 DEF PendingOps
  <1>6. \A i \in PendingOps("DELETE") : i # pos => Request(io_queue[i]).key # k
    BY <1>1, <1>2, <1>3, PendingType DEF DeletesDiffer, QueueInv, PendingOps, Request
  <1>7. PendingPuts' = PendingPuts /\ PendingDeletes' = PendingDeletes \ {k}
    BY <1>2, <1>3, <1>5, <1>6 DEF PendingPuts, PendingDeletes
  <1>8. k \in PendingDeletes
    BY <1>3 DEF PendingDeletes
  <1>9. Live' = Live /\ \A j \in Live : index'[j] = index[j]
    BY <1>4, <1>7, <1>8 DEF Live
  <1>10. DeleteInv'
    BY <1>1, <1>2, <1>4, <1>5, <1>6 DEF DeleteInv
  <1>11. \A y : Allocated(y)' = Allocated(y)
    BY <1>1 DEF Allocated, slabVars
  <1>12. AllocInv'
    <2>1. CounterInv' /\ \A s \in SlabSizes : \A m \in DOMAIN free_slab'[s] : Allocated(free_slab[s][m])'
      BY <1>1, <1>11 DEF AllocInv, CounterInv, slabVars, Allocated
    <2>2. \A j \in DOMAIN index' : Allocated(index[j])'
      BY <1>1, <1>4, <1>11 DEF AllocInv, Allocated
    <2>3. \A i \in PendingOps("PUT")' : Allocated(io_queue[i].slab)'
      BY <1>1, <1>2, <1>5, <1>11 DEF AllocInv, Allocated
    <2> QED
      BY <2>1, <2>2, <2>3 DEF AllocInv, Allocated
  <1>13. SlabsExclusive'
    <2>1. \A i \in PendingOps("PUT") : io_queue'[i] = io_queue[i]
      BY <1>2, <1>5
    <2> QED
      BY <1>1, <1>5, <1>7, <1>9, <2>1 DEF SlabsExclusive, slabVars
  <1>14. DeletesDiffer'
    BY <1>1, <1>2, PendingType, DeletesDifferAnswer DEF Finish
  <1> QED
    BY <1>2, <1>10, <1>12, <1>13, <1>14

\* A client may submit a request next to the ones that are outstanding.
LEMMA SlabSubmit ==
  ASSUME Careful, TypeOK, SlabInv, NEW c \in Clients, NEW r \in Requests, Submit(c, r)
  PROVE  QueueInv' /\ DeletesDiffer' /\ DeleteInv' /\ AllocInv' /\ SlabsExclusive'
  <1>1. QueueInv /\ DeletesDiffer /\ DeleteInv /\ UNCHANGED <<index, io_queue>> /\ UNCHANGED slabVars
    BY DEF SlabInv, Submit
  <1>2. /\ QueueInv'
        /\ Pending' = Pending
        /\ \A d \in Clients : req'[d] = IF d = c THEN r ELSE req[d]
        /\ \A i \in Pending : Request(io_queue[i])' = Request(io_queue[i])
    BY <1>1, SubmitQueue
  <1>3. \A o : PendingOps(o)' = PendingOps(o) /\ PendingOps(o) \subseteq Pending
    BY <1>2, <1>1 DEF PendingOps
  <1>4. DeleteInv' /\ AllocInv' /\ SlabsExclusive'
    BY <1>1, <1>2, <1>3, SameOwners DEF DeleteInv
  <1>5. DeletesDiffer'
    <2>1. ASSUME NEW d \in Clients, d # c, req[d].op = "DELETE", r.op = "DELETE"
          PROVE  req[d].key # r.key
      <3>1. req[d] # NoReq
        BY <2>1, OutstandingType
      <3>2. CanOverlap(req[d], r)
        BY <2>1, <3>1 DEF Submit
      <3> QED
        BY <2>1, <3>2 DEF CanOverlap, Careful
    <2> QED
      BY <1>1, <1>2, <2>1 DEF DeletesDiffer
  <1> QED
    BY <1>2, <1>4, <1>5

\* io_submit changes events alone, and fails no DELETE.
LEMMA SlabSubmitIo ==
  ASSUME Careful, TypeOK, SlabInv, IoSubmit
  PROVE  QueueInv' /\ DeletesDiffer' /\ DeleteInv' /\ AllocInv' /\ SlabsExclusive'
  <1>1. LoopInv /\ QueueInv /\ DeletesDiffer /\ DeleteInv
    BY DEF SlabInv
  <1>2. PICK ev \in {"none", "ok", "err"} :
           SetEvent(ev) /\ (ev = "err" => Request(io_queue[pos]).op # "DELETE")
    <2>1. phase = "submit" /\ pos <= Len(io_queue)
      BY DEF IoSubmit, FakeRead, Pread, PreadFails, Pwrite, PwriteFails, SetEvent
    <2>2. pos \in Pending
      BY <1>1, <2>1 DEF LoopInv, Pending, TypeOK
    <2>3. Request(io_queue[pos]) \in Requests
      BY <1>1, <2>2, PendingType DEF QueueInv, Request, TypeOK
    <2>4. Request(io_queue[pos]).op \in Ops
      BY <2>3 DEF Requests
    <2> QED
      BY <2>4 DEF Careful, WritesWork, IoSubmit, FakeRead, Pread, PreadFails, Pwrite, PwriteFails
  <1>3. /\ QueueInv'
        /\ UNCHANGED <<req, index, phase>> /\ UNCHANGED slabVars
        /\ Pending' = Pending
        /\ \A i \in Pending : Request(io_queue[i])' = Request(io_queue[i])
        /\ \A i \in Pending :
             /\ io_queue'[i].c = io_queue[i].c /\ io_queue'[i].slab = io_queue[i].slab
             /\ io_queue'[i].ev = IF i = pos THEN ev ELSE io_queue[i].ev
    BY <1>1, <1>2, SetEventQueue
  <1>4. \A o : PendingOps(o)' = PendingOps(o) /\ PendingOps(o) \subseteq Pending
    BY <1>3 DEF PendingOps, Request
  <1>5. \A i \in PendingOps("DELETE") : io_queue'[i].ev # "err"
    BY <1>1, <1>2, <1>3, <1>4 DEF DeleteInv, PendingOps
  <1>6. DeleteInv' /\ AllocInv' /\ SlabsExclusive'
    BY <1>3, <1>4, <1>5, SameOwners
  <1>7. DeletesDiffer'
    BY <1>1, <1>3 DEF DeletesDiffer
  <1> QED
    BY <1>3, <1>6, <1>7

\* The turns of the loop change no queue.
LEMMA SlabTurn ==
  ASSUME TypeOK, SlabInv, Drained \/ GetEvents \/ UNCHANGED vars
  PROVE  QueueInv' /\ DeletesDiffer' /\ DeleteInv' /\ AllocInv' /\ SlabsExclusive'
  <1>1. LoopInv /\ QueueInv /\ DeletesDiffer /\ DeleteInv
    BY DEF SlabInv
  <1>2. /\ QueueInv'
        /\ UNCHANGED <<req, batch_queue, index, io_queue>> /\ UNCHANGED slabVars
        /\ Pending' = Pending
        /\ \A i \in Pending : Request(io_queue[i])' = Request(io_queue[i])
    BY <1>1, TurnQueue
  <1>3. \A o : PendingOps(o)' = PendingOps(o) /\ PendingOps(o) \subseteq Pending
    BY <1>2 DEF PendingOps
  <1>4. DeleteInv' /\ AllocInv' /\ SlabsExclusive'
    BY <1>1, <1>2, <1>3, SameOwners DEF DeleteInv
  <1> QED
    BY <1>1, <1>2, <1>4 DEF DeletesDiffer

\* At the start no slab is handed out.
LEMMA SlabInit0 == Init => SlabInv
  <1> SUFFICES ASSUME Init PROVE SlabInv
    OBVIOUS
  <1>1. LoopInv
    BY TypeInit
  <1>2. /\ req = [c \in Clients |-> NoReq]
        /\ batch_queue = <<>> /\ io_queue = <<>> /\ DOMAIN index = {}
        /\ free_slab = [s \in SlabSizes |-> <<>>]
        /\ cur_file = [s \in SlabSizes |-> 0]
        /\ cur_slab = [s \in SlabSizes |-> SlabPerFile]
        /\ file_set = 0
    BY DEF Init, SlabInit
  <1>3. Pending = {} /\ \A o : PendingOps(o) = {}
    BY <1>2 DEF Pending, PendingOps
  <1>4. Live = {} /\ PendingPuts = {}
    BY <1>2, <1>3 DEF Live, PendingPuts
  <1>5. QueueInv
    BY <1>2, <1>3 DEF QueueInv
  <1>6. DeletesDiffer
    BY <1>2 DEF DeletesDiffer, NoReq
  <1>7. DeleteInv
    BY <1>3 DEF DeleteInv
  <1>8. AllocInv
    BY <1>2, <1>3 DEF AllocInv, CounterInv
  <1>9. SlabsExclusive
    BY <1>2, <1>3, <1>4 DEF SlabsExclusive
  <1> QED
    BY <1>1, <1>5, <1>6, <1>7, <1>8, <1>9 DEF SlabInv

\* Every step keeps the invariant when clients and disk are careful.
LEMMA SlabStep ==
  ASSUME Careful, TypeOK, SlabInv, [Next]_vars
  PROVE  SlabInv'
  <1> DEFINE Goal == QueueInv' /\ DeletesDiffer' /\ DeleteInv' /\ AllocInv' /\ SlabsExclusive'
  <1>1. LoopInv'
    BY TypeStep DEF SlabInv
  <1>2. ASSUME NEW c \in Clients, ProcessRequest(c)
        PROVE  Goal
    <2>1. CASE GetMiss(c) \/ UpdateMiss(c) \/ DeleteMiss(c) \/ PutExists(c)
      <3>1. PICK op, res : Pop(c, op) /\ Refuse(c, res)
        BY <2>1 DEF GetMiss, UpdateMiss, DeleteMiss, Miss, PutExists
      <3> QED
        BY <3>1, SlabRefuse DEF Refuse
    <2>2. CASE Get(c)
      BY <2>2, SlabReadWrite DEF Get
    <2>3. CASE Update(c)
      BY <2>3, SlabReadWrite DEF Update
    <2>4. CASE Scan(c)
      <3>1. PICK res : FinishRequest(c, res)
        BY <2>4 DEF Scan
      <3>2. Pop(c, "SCAN") /\ UNCHANGED <<io_queue, index, slabVars>>
        BY <2>4 DEF Scan
      <3> QED
        BY <3>1, <3>2, SlabRefuse
    <2> QED
      BY <1>2, <2>1, <2>2, <2>3, <2>4, SlabPut, SlabDelete DEF ProcessRequest
  <1>3. ASSUME FinishAio
        PROVE  Goal
    <2>1. CASE FinishGet
      <3>1. PICK res : Finish("GET", res)
        BY <2>1 DEF FinishGet
      <3> QED
        BY <2>1, <3>1, SlabFinishReadWrite DEF FinishGet
    <2>2. CASE FinishUpdate
      BY <2>2, SlabFinishReadWrite DEF FinishUpdate
    <2> QED
      BY <1>3, <2>1, <2>2, SlabFinishPut, SlabFinishDelete DEF FinishAio
  <1>4. Goal
    BY <1>2, <1>3, SlabSubmit, SlabSubmitIo, SlabTurn DEF Next, Main
  <1> QED
    BY <1>1, <1>4 DEF SlabInv

\* The invariant that carries the proof holds in every behaviour: each request is in
\* one place, a pending DELETE owns the slab it freed, and all slabs in use are at or
\* below the allocator's counters, provided clients do not delete one key twice at a
\* time and no DELETE's write fails.  Writes of PUTs and UPDATEs may.
THEOREM SlabInvariant ==
  ASSUME Careful
  PROVE  Spec => []SlabInv
  <1>1. Init => TypeOK /\ SlabInv
    BY TypeInit, SlabInit0
  <1>2. TypeOK /\ SlabInv /\ [Next]_vars => (TypeOK /\ SlabInv)'
    BY SlabStep, TypeStep DEF SlabInv
  <1> QED
    BY <1>1, <1>2, PTL DEF Spec

\* Whatever the number of clients, keys, slab sizes and slabs per file and
\* however their requests interleave, no two owners ever share bytes on disk,
\* under the same provisos.
THEOREM SlabsStayExclusive ==
  ASSUME Careful
  PROVE  Spec => []SlabsExclusive
  <1>1. SlabInv => SlabsExclusive
    BY DEF SlabInv
  <1> QED
    BY <1>1, SlabInvariant, PTL

-----------------------------------------------------------------------------
(* No slab is lost *)

\* A step that leaves the counters alone and takes no slab from its owner without
\* giving it another one.
LEMMA OwnedKept ==
  ASSUME NoSlabLeak, UNCHANGED <<cur_file, cur_slab, file_set>>,
         \A slab : Owned(slab) => Owned(slab)'
  PROVE  NoSlabLeak'
  <1> SUFFICES ASSUME NEW f \in 1 .. file_set
               PROVE  \E s \in SlabSizes : \A i \in 0 .. (IF cur_file[s] = f THEN cur_slab[s] ELSE SlabPerFile) :
                        Owned([size |-> s, file |-> f, index |-> i])'
    BY DEF NoSlabLeak
  <1>1. PICK s \in SlabSizes : \A i \in 0 .. (IF cur_file[s] = f THEN cur_slab[s] ELSE SlabPerFile) :
                        Owned([size |-> s, file |-> f, index |-> i])
    BY DEF NoSlabLeak
  <1>2. \A i \in 0 .. (IF cur_file[s] = f THEN cur_slab[s] ELSE SlabPerFile) :
          Owned([size |-> s, file |-> f, index |-> i])'
    BY <1>1
  <1> QED
    BY <1>2

\* Steps that leave the allocator, the index and the pending PUTs and DELETEs alone.
LEMMA SameLeak ==
  ASSUME LeakInv, UNCHANGED <<slabVars, index>>,
         PendingOps("PUT")' = PendingOps("PUT"),
         PendingOps("DELETE")' = PendingOps("DELETE"),
         \A i \in PendingOps("PUT") \cup PendingOps("DELETE") :
           /\ io_queue'[i].slab = io_queue[i].slab
           /\ Request(io_queue[i])' = Request(io_queue[i]),
         \A i \in PendingOps("PUT") : io_queue'[i].ev = "err" => ~WritesWork
  PROVE  PutInv' /\ LeakFree'
  <1>1. PutInv'
    BY DEF LeakInv, PutInv
  <1>2. PendingDeletes' = PendingDeletes /\ PendingPuts' = PendingPuts
    BY DEF PendingDeletes, PendingPuts
  <1>3. Live' = Live
    BY <1>2 DEF Live
  <1>4. \A slab : Owned(slab) => Owned(slab)'
    BY <1>2, <1>3 DEF Owned, slabVars
  <1>5. LeakFree'
    BY <1>4, OwnedKept DEF LeakInv, LeakFree, slabVars
  <1> QED
    BY <1>1, <1>5

\* Answering a client cannot make two PUTs meet.
LEMMA PutsDifferAnswer ==
  ASSUME TypeOK, PutsDiffer, NEW c \in Clients, NEW res, FinishRequest(c, res)
  PROVE  PutsDiffer'
  <1>1. \A d \in Clients : req'[d] = IF d = c THEN NoReq ELSE req[d]
    BY DEF FinishRequest, TypeOK
  <1> QED
    BY <1>1 DEF PutsDiffer, NoReq

\* ProcessRequest_ when it answers at once.
LEMMA LeakRefuse ==
  ASSUME TypeOK, SlabInv, LeakInv, NEW c, NEW op, NEW res, Pop(c, op), FinishRequest(c, res),
         UNCHANGED <<io_queue, index, slabVars>>
  PROVE  LeakInv'
  <1>1. LoopInv /\ QueueInv /\ PutsDiffer /\ PutInv /\ c \in Clients
    BY PopType DEF SlabInv, LeakInv
  <1>2. /\ Pending' = Pending
        /\ \A i \in Pending : Request(io_queue[i])' = Request(io_queue[i])
    BY <1>1, AnswerQueue
  <1>3. \A o : PendingOps(o)' = PendingOps(o) /\ PendingOps(o) \subseteq Pending
    BY <1>2 DEF PendingOps
  <1>4. PutInv' /\ LeakFree'
    BY <1>1, <1>2, <1>3, SameLeak DEF PutInv
  <1> QED
    BY <1>1, <1>4, PutsDifferAnswer DEF LeakInv

\* An AIO of a GET or an UPDATE takes no slab.
LEMMA LeakReadWrite ==
  ASSUME TypeOK, SlabInv, LeakInv, NEW c, NEW op \in {"GET", "UPDATE"}, NEW slab,
         Pop(c, op), IOEnqueue(c, slab), UNCHANGED slabVars
  PROVE  LeakInv'
  <1> DEFINE n == Len(io_queue) + 1
  <1>1. LoopInv /\ QueueInv /\ PutsDiffer /\ PutInv /\ req[c].op = op /\ index' = index
    BY DEF SlabInv, LeakInv, Pop, IOEnqueue
  <1>2. /\ req' = req
        /\ Pending' = Pending \cup {n}
        /\ \A i \in Pending : io_queue'[i] = io_queue[i]
        /\ io_queue'[n] = [c |-> c, slab |-> slab, hit |-> Lookup(PageOf(slab)), ev |-> "none"]
    BY <1>1, EnqueueQueue
  <1> HIDE DEF n
  <1>3. PendingOps("PUT")' = PendingOps("PUT") /\ PendingOps("DELETE")' = PendingOps("DELETE")
    BY <1>1, <1>2 DEF PendingOps, Request
  <1>4. \A i \in PendingOps("PUT") \cup PendingOps("DELETE") :
          io_queue'[i] = io_queue[i] /\ Request(io_queue[i])' = Request(io_queue[i])
    BY <1>2 DEF PendingOps, Request
  <1>5. PutInv' /\ LeakFree'
    BY <1>1, <1>3, <1>4, SameLeak DEF PutInv
  <1>6. PutsDiffer'
    BY <1>1, <1>2 DEF PutsDiffer
  <1> QED
    BY <1>5, <1>6 DEF LeakInv

\* A PUT owns the slab Create took from the free list or cut from a file.
LEMMA LeakPut ==
  ASSUME TypeOK, SlabInv, LeakInv, NEW c, Put(c)
  PROVE  LeakInv'
  <1> DEFINE k == req[c].key
             n == Len(io_queue) + 1
  <1>1. /\ LoopInv /\ QueueInv /\ PutsDiffer /\ PutInv /\ LeakFree
        /\ c \in Clients /\ Pop(c, "PUT") /\ Create(ItemSize[k]) /\ req[c].op = "PUT"
        /\ IOEnqueue(c, NewSlab(ItemSize[k])) /\ index' = index /\ k \notin DOMAIN index
    BY PopType DEF SlabInv, LeakInv, Put, Pop, IOEnqueue
  <1>2. k \in Keys
    BY <1>1, OutstandingType
  <1>3. PICK new : new = NewSlab(ItemSize[k])
    OBVIOUS
  <1>4. /\ req' = req
        /\ Pending' = Pending \cup {n}
        /\ n \notin Pending
        /\ \A i \in Pending : io_queue'[i] = io_queue[i]
        /\ io_queue'[n] = [c |-> c, slab |-> new, hit |-> Lookup(PageOf(new)), ev |-> "none"]
    BY <1>1, <1>3, EnqueueQueue
  <1>5. PICK s0 : s0 = Fit(ItemSize[k])
    OBVIOUS
  <1>6. s0 \in SlabSizes /\ (ReuseFree(s0) \/ OpenFile(s0) \/ NextInFile(s0))
    BY <1>1, <1>2, <1>5, FitType DEF Create
  <1> HIDE DEF n
  <1>7. /\ PendingOps("PUT")' = PendingOps("PUT") \cup {n}
        /\ PendingOps("DELETE")' = PendingOps("DELETE")
        /\ \A i \in PendingOps("PUT") \cup PendingOps("DELETE") : i \in Pending /\ i # n
    BY <1>1, <1>4 DEF PendingOps, Request
  <1>8. /\ \A i \in PendingOps("PUT") \cup PendingOps("DELETE") : io_queue'[i] = io_queue[i]
        /\ io_queue'[n].slab = new /\ io_queue'[n].ev = "none" /\ io_queue'[n].c = c
    BY <1>4, <1>7
  <1>9. PendingPuts' = PendingPuts \cup {new} /\ PendingDeletes' = PendingDeletes
    BY <1>4, <1>7, <1>8 DEF PendingPuts, PendingDeletes, Request
  <1>10. Live' = Live
    BY <1>1, <1>9 DEF Live
  <1>11. PutInv'
    BY <1>1, <1>4, <1>7, <1>8 DEF PutInv, Request
  <1>12. PutsDiffer'
    BY <1>1, <1>4 DEF PutsDiffer
  <1>13. Owned(new)'
    BY <1>9 DEF Owned
  <1>14. /\ \A s \in SlabSizes : free_slab[s] \in Seq(Slab)
         /\ \A s \in SlabSizes : cur_file[s] \in Nat /\ cur_slab[s] \in 0 .. SlabPerFile
         /\ file_set \in Nat /\ SlabPerFile \in Nat
         /\ DOMAIN free_slab = SlabSizes /\ DOMAIN cur_file = SlabSizes /\ DOMAIN cur_slab = SlabSizes
    BY SlabAssumption DEF TypeOK
  <1>15. CASE ReuseFree(s0)
    <2>1. /\ free_slab[s0] # <<>> /\ UNCHANGED <<cur_file, cur_slab, file_set>>
          /\ free_slab' = [free_slab EXCEPT ![s0] = Tail(free_slab[s0])]
      BY <1>15 DEF ReuseFree
    <2>2. new = free_slab[s0][1]
      BY <1>3, <1>5, <1>6, <1>14, <2>1 DEF NewSlab
    <2>3. \A m \in DOMAIN free_slab[s0] : \/ free_slab[s0][m] = new
                                          \/ m - 1 \in DOMAIN free_slab'[s0] /\ free_slab'[s0][m - 1] = free_slab[s0][m]
      <3>1. free_slab'[s0] = Tail(free_slab[s0]) /\ free_slab[s0] \in Seq(Slab)
        BY <1>6, <1>14, <2>1
      <3> SUFFICES ASSUME NEW m \in DOMAIN free_slab[s0], m # 1
                   PROVE  m - 1 \in DOMAIN free_slab'[s0] /\ free_slab'[s0][m - 1] = free_slab[s0][m]
        BY <2>2
      <3>2. m \in 1 .. Len(free_slab[s0]) /\ Len(free_slab[s0]) \in Nat
        BY <3>1
      <3>3. m - 1 \in 1 .. Len(free_slab[s0]) - 1 /\ m - 1 + 1 = m
        BY <3>2
      <3>4. Len(Tail(free_slab[s0])) = Len(free_slab[s0]) - 1 /\ Tail(free_slab[s0]) \in Seq(Slab)
        BY <2>1, <3>1
      <3>5. Tail(free_slab[s0])[m - 1] = free_slab[s0][m - 1 + 1]
        BY <2>1, <3>1, <3>3
      <3> QED
        BY <3>1, <3>3, <3>4, <3>5
    <2>4. \A s : s # s0 => free_slab'[s] = free_slab[s]
      BY <2>1
    <2>5. ASSUME NEW slab, Owned(slab) PROVE Owned(slab)'
      <3>1. CASE (\E j \in Live : index[j] = slab) \/ slab \in PendingPuts
        BY <1>1, <1>9, <1>10, <3>1 DEF Owned
      <3>2. CASE \E m \in DOMAIN free_slab[slab.size] : free_slab[slab.size][m] = slab
        <4>1. CASE slab.size = s0
          <5>1. PICK m \in DOMAIN free_slab[s0] : free_slab[s0][m] = slab
            BY <3>2, <4>1
          <5>2. CASE slab = new
            BY <1>13, <5>2
          <5>3. CASE m - 1 \in DOMAIN free_slab'[s0] /\ free_slab'[s0][m - 1] = slab
            BY <4>1, <5>3 DEF Owned
          <5> QED
            BY <2>3, <5>1, <5>2, <5>3
        <4>2. CASE slab.size # s0
          BY <2>4, <3>2, <4>2 DEF Owned
        <4> QED
          BY <4>1, <4>2
      <3> QED
        BY <2>5, <3>1, <3>2 DEF Owned
    <2>6. LeakFree'
      BY <1>1, <2>1, <2>5, OwnedKept DEF LeakFree
    <2> QED
      BY <1>11, <1>12, <2>6 DEF LeakInv
  <1>16. CASE OpenFile(s0) \/ NextInFile(s0)
    <2>1. free_slab' = free_slab /\ free_slab[s0] = <<>>
      BY <1>16 DEF OpenFile, NextInFile
    <2>2. ASSUME NEW slab, Owned(slab) PROVE Owned(slab)'
      BY <1>1, <1>9, <1>10, <2>1, <2>2 DEF Owned
    <2>3. LeakFree'
      <3> SUFFICES ASSUME WritesWork, NEW f \in 1 .. file_set'
                   PROVE  \E s \in SlabSizes : \A i \in 0 .. (IF cur_file'[s] = f THEN cur_slab'[s] ELSE SlabPerFile) :
                            Owned([size |-> s, file |-> f, index |-> i])'
        BY DEF LeakFree, NoSlabLeak
      <3>1. CASE OpenFile(s0)
        <4>1. /\ cur_slab[s0] = SlabPerFile /\ file_set' = file_set + 1
              /\ \A s \in SlabSizes : /\ cur_file'[s] = IF s = s0 THEN file_set + 1 ELSE cur_file[s]
                                      /\ cur_slab'[s] = IF s = s0 THEN 0 ELSE cur_slab[s]
          BY <1>6, <1>14, <3>1 DEF OpenFile
        <4>2. CASE f = file_set + 1
          <5>1. new = [size |-> s0, file |-> f, index |-> 0]
            BY <1>3, <1>5, <2>1, <4>1, <4>2 DEF NewSlab
          <5>2. \A i \in 0 .. (IF cur_file'[s0] = f THEN cur_slab'[s0] ELSE SlabPerFile) : i = 0
            BY <1>6, <4>1, <4>2
          <5> QED
            BY <1>6, <1>13, <5>1, <5>2
        <4>3. CASE f # file_set + 1
          <5>1. f \in 1 .. file_set
            BY <1>14, <4>1, <4>3
          <5>2. PICK s \in SlabSizes : \A i \in 0 .. (IF cur_file[s] = f THEN cur_slab[s] ELSE SlabPerFile) :
                                         Owned([size |-> s, file |-> f, index |-> i])
            BY <1>1, <5>1 DEF LeakFree, NoSlabLeak
          <5>3. (IF cur_file'[s] = f THEN cur_slab'[s] ELSE SlabPerFile)
                  = (IF cur_file[s] = f THEN cur_slab[s] ELSE SlabPerFile)
            BY <4>1, <4>3
          <5>4. \A i \in 0 .. (IF cur_file'[s] = f THEN cur_slab'[s] ELSE SlabPerFile) :
                  Owned([size |-> s, file |-> f, index |-> i])'
            BY <2>2, <5>2, <5>3
          <5> QED
            BY <5>4
        <4> QED
          BY <4>2, <4>3
      <3>2. CASE NextInFile(s0)
        <4>1. /\ cur_slab[s0] # SlabPerFile /\ file_set' = file_set /\ cur_file' = cur_file
              /\ \A s \in SlabSizes : cur_slab'[s] = IF s = s0 THEN cur_slab[s0] + 1 ELSE cur_slab[s]
          BY <1>6, <1>14, <3>2 DEF NextInFile
        <4>2. new = [size |-> s0, file |-> cur_file[s0], index |-> cur_slab[s0] + 1]
          BY <1>3, <1>5, <2>1, <4>1 DEF NewSlab
        <4>3. PICK s \in SlabSizes : \A i \in 0 .. (IF cur_file[s] = f THEN cur_slab[s] ELSE SlabPerFile) :
                                       Owned([size |-> s, file |-> f, index |-> i])
          BY <1>1, <4>1 DEF LeakFree, NoSlabLeak
        <4>4. CASE s = s0 /\ cur_file[s] = f
          <5>1. \A i \in 0 .. cur_slab'[s] : i \in 0 .. cur_slab[s] \/ i = cur_slab[s0] + 1
            BY <1>6, <1>14, <4>1, <4>4
          <5>2. \A i \in 0 .. cur_slab'[s] : Owned([size |-> s, file |-> f, index |-> i])'
            BY <1>13, <2>2, <4>2, <4>3, <4>4, <5>1
          <5> QED
            BY <4>1, <4>4, <5>2
        <4>5. CASE ~ (s = s0 /\ cur_file[s] = f)
          <5>1. (IF cur_file'[s] = f THEN cur_slab'[s] ELSE SlabPerFile)
                  = (IF cur_file[s] = f THEN cur_slab[s] ELSE SlabPerFile)
            BY <4>1, <4>5
          <5>2. \A i \in 0 .. (IF cur_file'[s] = f THEN cur_slab'[s] ELSE SlabPerFile) :
                  Owned([size |-> s, file |-> f, index |-> i])'
            BY <2>2, <4>3, <5>1
          <5> QED
            BY <5>2
        <4> QED
          BY <4>4, <4>5
      <3> QED
        BY <1>16, <3>1, <3>2
    <2> QED
      BY <1>11, <1>12, <2>3 DEF LeakInv
  <1> QED
    BY <1>6, <1>15, <1>16

\* A DELETE gives its slab to the free list.
LEMMA LeakDelete ==
  ASSUME TypeOK, SlabInv, LeakInv, NEW c, Delete(c)
  PROVE  LeakInv'
  <1> DEFINE k == req[c].key
             slab == index[k]
             n == Len(io_queue) + 1
  <1>1. /\ LoopInv /\ QueueInv /\ PutsDiffer /\ PutInv /\ LeakFree
        /\ c \in Clients /\ Pop(c, "DELETE") /\ Free(slab) /\ req[c].op = "DELETE"
        /\ IOEnqueue(c, slab) /\ index' = index /\ k \in DOMAIN index
    BY PopType DEF SlabInv, LeakInv, Delete, Pop, IOEnqueue
  <1>2. slab \in Slab /\ slab.size \in SlabSizes
    <2>1. slab \in Slab
      BY <1>1 DEF TypeOK
    <2> QED
      BY <2>1 DEF Slab
  <1>3. /\ req' = req
        /\ Pending' = Pending \cup {n}
        /\ n \notin Pending
        /\ \A i \in Pending : io_queue'[i] = io_queue[i]
        /\ io_queue'[n] = [c |-> c, slab |-> slab, hit |-> Lookup(PageOf(slab)), ev |-> "none"]
    BY <1>1, EnqueueQueue
  <1>5. PICK x : x = slab
    OBVIOUS
  <1>6. /\ UNCHANGED <<cur_file, cur_slab, file_set>>
        /\ free_slab' = [free_slab EXCEPT ![x.size] = Append(free_slab[x.size], x)]
        /\ free_slab \in [SlabSizes -> Seq(Slab)]
    BY <1>1, <1>5 DEF Free, TypeOK
  <1> HIDE DEF n, slab
  <1>7. /\ PendingOps("DELETE")' = PendingOps("DELETE") \cup {n}
        /\ PendingOps("PUT")' = PendingOps("PUT")
        /\ \A i \in PendingOps("PUT") \cup PendingOps("DELETE") : i \in Pending /\ i # n
    BY <1>1, <1>3 DEF PendingOps, Request
  <1>8. PendingPuts' = PendingPuts /\ PendingDeletes' = PendingDeletes \cup {k}
    BY <1>3, <1>7 DEF PendingPuts, PendingDeletes, Request
  <1>9. Live' = Live \ {k}
    BY <1>1, <1>8 DEF Live
  <1>10. PutInv' /\ PutsDiffer'
    BY <1>1, <1>3, <1>7 DEF PutInv, PutsDiffer, Request
  <1>11. free_slab'[x.size] = Append(free_slab[x.size], x) /\ free_slab[x.size] \in Seq(Slab)
    BY <1>2, <1>5, <1>6
  <1>12. /\ \A m \in DOMAIN free_slab[x.size] : m \in DOMAIN free_slab'[x.size] /\ free_slab'[x.size][m] = free_slab[x.size][m]
         /\ Len(free_slab[x.size]) + 1 \in DOMAIN free_slab'[x.size]
         /\ free_slab'[x.size][Len(free_slab[x.size]) + 1] = x
    BY <1>11
  <1>13. \A s : s # x.size => free_slab'[s] = free_slab[s]
    BY <1>6
  <1>14. Owned(x)'
    BY <1>12 DEF Owned
  <1>15. ASSUME NEW y, Owned(y) PROVE Owned(y)'
    <2>1. CASE \E j \in Live : index[j] = y
      <3>1. PICK j \in Live : index[j] = y
        BY <2>1
      <3>2. CASE j = k
        BY <1>5, <1>14, <3>1, <3>2 DEF slab
      <3>3. CASE j # k
        BY <1>1, <1>9, <3>1, <3>3 DEF Owned
      <3> QED
        BY <3>2, <3>3
    <2>2. CASE y \in PendingPuts
      BY <1>8, <2>2 DEF Owned
    <2>3. CASE \E m \in DOMAIN free_slab[y.size] : free_slab[y.size][m] = y
      BY <1>12, <1>13, <2>3 DEF Owned
    <2> QED
      BY <1>15, <2>1, <2>2, <2>3 DEF Owned
  <1>16. LeakFree'
    BY <1>1, <1>6, <1>15, OwnedKept DEF LeakFree
  <1> QED
    BY <1>10, <1>16 DEF LeakInv

\* Finishing a GET or an UPDATE.
LEMMA LeakFinishReadWrite ==
  ASSUME TypeOK, SlabInv, LeakInv, NEW op \in {"GET", "UPDATE"}, NEW res, Finish(op, res),
         UNCHANGED index
  PROVE  LeakInv'
  <1>1. LoopInv /\ QueueInv /\ PutsDiffer /\ PutInv
    BY DEF SlabInv, LeakInv
  <1>2. /\ pos \in Pending
        /\ Pending' = Pending \ {pos}
        /\ \A i \in Pending' : /\ io_queue'[i] = io_queue[i]
                               /\ Request(io_queue[i])' = Request(io_queue[i])
    BY <1>1, FinishQueue
  <1>3. Request(io_queue[pos]).op = op /\ UNCHANGED slabVars
    BY DEF Finish
  <1>4. PendingOps("PUT")' = PendingOps("PUT") /\ PendingOps("DELETE")' = PendingOps("DELETE")
    BY <1>2, <1>3 DEF PendingOps
  <1>5. \A i \in PendingOps("PUT") \cup PendingOps("DELETE") : i \in Pending'
    BY <1>2, <1>3 DEF PendingOps
  <1>6. PutInv' /\ LeakFree'
    BY <1>1, <1>2, <1>3, <1>4, <1>5, SameLeak DEF PutInv
  <1>7. PutsDiffer'
    BY <1>1, <1>2, PendingType, PutsDifferAnswer DEF Finish
  <1> QED
    BY <1>6, <1>7 DEF LeakInv

\* PutCallback puts the slab of a PUT in the index, where no key keeps it out.
LEMMA LeakFinishPut ==
  ASSUME TypeOK, SlabInv, LeakInv, FinishPut
  PROVE  LeakInv'
  <1> DEFINE e == io_queue[pos]
             k == Request(e).key
  <1>1. /\ LoopInv /\ QueueInv /\ DeleteInv /\ PutsDiffer /\ PutInv /\ LeakFree
        /\ Finish("PUT", WriteResult(e))
        /\ UNCHANGED slabVars
    BY DEF SlabInv, LeakInv, FinishPut, Finish
  <1>2. /\ pos \in Pending
        /\ Pending' = Pending \ {pos}
        /\ \A i \in Pending' : /\ io_queue'[i] = io_queue[i]
                               /\ Request(io_queue[i])' = Request(io_queue[i])
    BY <1>1, FinishQueue
  <1>3. Request(e).op = "PUT" /\ pos \in PendingOps("PUT")
    BY <1>1, <1>2 DEF Finish, PendingOps
  <1>4. k \notin DOMAIN index /\ (~Success(e) => ~WritesWork)
    BY <1>1, <1>3 DEF PutInv, Success
  <1>5. index' = IF Success(e)
                 THEN [j \in DOMAIN index \cup {k} |-> IF j = k THEN e.slab ELSE index[j]]
                 ELSE index
    BY <1>4 DEF FinishPut
  <1>6. /\ PendingOps("PUT")' = PendingOps("PUT") \ {pos}
        /\ PendingOps("DELETE")' = PendingOps("DELETE")
        /\ \A i \in PendingOps("DELETE") : i \in Pending'
        /\ \A i \in PendingOps("PUT") : i # pos => i \in Pending'
    BY <1>2, <1>3 DEF PendingOps
  <1>7. PendingDeletes' = PendingDeletes /\ k \notin PendingDeletes
    BY <1>1, <1>2, <1>4, <1>6 DEF PendingDeletes, DeleteInv
  <1>8. \A i \in PendingOps("PUT") : i # pos => Request(io_queue[i]).key # k
    BY <1>1, <1>2, <1>3, PendingType DEF PutsDiffer, QueueInv, PendingOps, Request
  <1>9. PutInv'
    BY <1>1, <1>2, <1>5, <1>6, <1>8 DEF PutInv
  <1>10. \A y \in PendingPuts : y = e.slab \/ y \in PendingPuts'
    BY <1>2, <1>6 DEF PendingPuts
  <1>11. PutsDiffer'
    BY <1>1, <1>2, PendingType, PutsDifferAnswer DEF Finish
  <1>12. CASE Success(e)
    <2>1. Live' = Live \cup {k} /\ k \notin Live
      BY <1>4, <1>5, <1>7, <1>12 DEF Live
    <2>2. (\A j \in Live : index'[j] = index[j]) /\ index'[k] = e.slab
      BY <1>5, <1>12, <2>1 DEF Live
    <2> HIDE DEF e, k
    <2>3. ASSUME NEW y, Owned(y) PROVE Owned(y)'
      <3>1. CASE \E j \in Live : index[j] = y
        BY <2>1, <2>2, <3>1 DEF Owned
      <3>2. CASE y \in PendingPuts
        BY <1>10, <2>1, <2>2, <3>2 DEF Owned
      <3>3. CASE \E m \in DOMAIN free_slab[y.size] : free_slab[y.size][m] = y
        BY <1>1, <3>3 DEF Owned, slabVars
      <3> QED
        BY <2>3, <3>1, <3>2, <3>3 DEF Owned
    <2>4. LeakFree'
      BY <1>1, <2>3, OwnedKept DEF LeakFree, slabVars
    <2> QED
      BY <1>9, <1>11, <2>4 DEF LeakInv
  <1>13. CASE ~Success(e)
    <2>1. LeakFree'
      BY <1>4, <1>13 DEF LeakFree
    <2> QED
      BY <1>9, <1>11, <2>1 DEF LeakInv
  <1> QED
    BY <1>12, <1>13

\* DeleteCallback drops a key that is not live.
LEMMA LeakFinishDelete ==
  ASSUME TypeOK, SlabInv, LeakInv, FinishDelete
  PROVE  LeakInv'
  <1> DEFINE e == io_queue[pos]
             k == Request(e).key
  <1>1. /\ LoopInv /\ QueueInv /\ DeletesDiffer /\ DeleteInv /\ PutsDiffer /\ PutInv /\ LeakFree
        /\ Finish("DELETE", WriteResult(e))
        /\ UNCHANGED slabVars
    BY DEF SlabInv, LeakInv, FinishDelete, Finish
  <1>2. /\ pos \in Pending
        /\ Pending' = Pending \ {pos}
        /\ \A i \in Pending' : /\ io_queue'[i] = io_queue[i]
                               /\ Request(io_queue[i])' = Request(io_queue[i])
    BY <1>1, FinishQueue
  <1>3. Request(e).op = "DELETE" /\ pos \in PendingOps("DELETE")
    BY <1>1, <1>2 DEF Finish, PendingOps
  <1>4. index' = [j \in DOMAIN index \ {k} |-> index[j]]
    BY <1>1, <1>3 DEF FinishDelete, DeleteInv, Success
  <1>5. /\ PendingOps("DELETE")' = PendingOps("DELETE") \ {pos}
        /\ PendingOps("PUT")' = PendingOps("PUT")
        /\ \A i \in PendingOps("PUT") : i \in Pending'
        /\ \A i \in PendingOps("DELETE") : i # pos => i \in Pending'
    BY <1>2, <1>3 DEF PendingOps
  <1>6. \A i \in PendingOps("DELETE") : i # pos => Request(io_queue[i]).key # k
    BY <1>1, <1>2, <1>3, PendingType DEF DeletesDiffer, QueueInv, PendingOps, Request
  <1>7. PendingPuts' = PendingPuts /\ PendingDeletes' = PendingDeletes \ {k}
    BY <1>2, <1>3, <1>5, <1>6 DEF PendingPuts, PendingDeletes
  <1>8. k \in PendingDeletes
    BY <1>3 DEF PendingDeletes
  <1>9. Live' = Live /\ \A j \in Live : index'[j] = index[j]
    BY <1>4, <1>7, <1>8 DEF Live
  <1>10. PutInv'
    BY <1>1, <1>2, <1>4, <1>5 DEF PutInv
  <1>11. \A y : Owned(y) => Owned(y)'
    BY <1>1, <1>7, <1>9 DEF Owned, slabVars
  <1>12. LeakFree'
    BY <1>1, <1>11, OwnedKept DEF LeakFree, slabVars
  <1>13. PutsDiffer'
    BY <1>1, <1>2, PendingType, PutsDifferAnswer DEF Finish
  <1> QED
    BY <1>10, <1>12, <1>13 DEF LeakInv

\* A client does not submit a PUT next to a PUT of its key.
LEMMA LeakSubmit ==
  ASSUME OnePut, TypeOK, SlabInv, LeakInv, NEW c \in Clients, NEW r \in Requests, Submit(c, r)
  PROVE  LeakInv'
  <1>1. QueueInv /\ PutsDiffer /\ PutInv /\ UNCHANGED <<index, io_queue>> /\ UNCHANGED slabVars
    BY DEF SlabInv, LeakInv, Submit
  <1>2. /\ Pending' = Pending
        /\ \A d \in Clients : req'[d] = IF d = c THEN r ELSE req[d]
        /\ \A i \in Pending : Request(io_queue[i])' = Request(io_queue[i])
    BY <1>1, SubmitQueue
  <1>3. \A o : PendingOps(o)' = PendingOps(o) /\ PendingOps(o) \subseteq Pending
    BY <1>1, <1>2 DEF PendingOps
  <1>4. PutInv' /\ LeakFree'
    BY <1>1, <1>2, <1>3, SameLeak DEF PutInv
  <1>5. PutsDiffer'
    <2>1. ASSUME NEW d \in Clients, d # c, req[d].op = "PUT", r.op = "PUT"
          PROVE  req[d].key # r.key
      <3>1. req[d] # NoReq
        BY <2>1, OutstandingType
      <3>2. CanOverlap(req[d], r)
        BY <2>1, <3>1 DEF Submit
      <3> QED
        BY <2>1, <3>2 DEF CanOverlap, OnePut
    <2> QED
      BY <1>1, <1>2, <2>1 DEF PutsDiffer
  <1> QED
    BY <1>4, <1>5 DEF LeakInv

\* io_submit takes no slab from a PUT.
LEMMA LeakSubmitIo ==
  ASSUME TypeOK, SlabInv, LeakInv, IoSubmit
  PROVE  LeakInv'
  <1>1. LoopInv /\ QueueInv /\ PutsDiffer /\ PutInv
    BY DEF SlabInv, LeakInv
  <1>2. PICK ev \in {"none", "ok", "err"} :
           SetEvent(ev) /\ (ev = "err" => Request(io_queue[pos]).op = "GET" \/ ~WritesWork)
    BY DEF WritesWork, IoSubmit, FakeRead, Pread, PreadFails, Pwrite, PwriteFails
  <1>3. /\ QueueInv'
        /\ UNCHANGED <<req, index, phase>> /\ UNCHANGED slabVars
        /\ Pending' = Pending
        /\ \A i \in Pending : Request(io_queue[i])' = Request(io_queue[i])
        /\ \A i \in Pending :
             /\ io_queue'[i].c = io_queue[i].c /\ io_queue'[i].slab = io_queue[i].slab
             /\ io_queue'[i].ev = IF i = pos THEN ev ELSE io_queue[i].ev
    BY <1>1, <1>2, SetEventQueue
  <1>4. \A o : PendingOps(o)' = PendingOps(o) /\ PendingOps(o) \subseteq Pending
    BY <1>3 DEF PendingOps, Request
  <1>5. \A i \in PendingOps("PUT") : io_queue'[i].ev = "err" => ~WritesWork
    BY <1>1, <1>2, <1>3, <1>4 DEF PutInv, PendingOps
  <1>6. PutInv' /\ LeakFree'
    BY <1>3, <1>4, <1>5, SameLeak
  <1>7. PutsDiffer'
    BY <1>1, <1>3 DEF PutsDiffer
  <1> QED
    BY <1>3, <1>6, <1>7 DEF LeakInv

\* The turns of the loop.
LEMMA LeakTurn ==
  ASSUME TypeOK, SlabInv, LeakInv, Drained \/ GetEvents \/ UNCHANGED vars
  PROVE  LeakInv'
  <1>1. LoopInv /\ QueueInv /\ PutsDiffer /\ PutInv
    BY DEF SlabInv, LeakInv
  <1>2. /\ QueueInv'
        /\ UNCHANGED <<req, batch_queue, index, io_queue>> /\ UNCHANGED slabVars
        /\ Pending' = Pending
        /\ \A i \in Pending : Request(io_queue[i])' = Request(io_queue[i])
    BY <1>1, TurnQueue
  <1>3. \A o : PendingOps(o)' = PendingOps(o) /\ PendingOps(o) \subseteq Pending
    BY <1>2 DEF PendingOps
  <1>4. PutInv' /\ LeakFree'
    BY <1>1, <1>2, <1>3, SameLeak DEF PutInv
  <1> QED
    BY <1>1, <1>2, <1>4 DEF LeakInv, PutsDiffer

\* Every step keeps the slabs owned.
LEMMA LeakStep ==
  ASSUME OnePut, TypeOK, SlabInv, LeakInv, [Next]_vars
  PROVE  LeakInv'
  <1>1. ASSUME NEW c \in Clients, ProcessRequest(c)
        PROVE  LeakInv'
    <2>1. CASE GetMiss(c) \/ UpdateMiss(c) \/ DeleteMiss(c) \/ PutExists(c)
      <3>1. PICK op, res : Pop(c, op) /\ Refuse(c, res)
        BY <2>1 DEF GetMiss, UpdateMiss, DeleteMiss, Miss, PutExists
      <3> QED
        BY <3>1, LeakRefuse DEF Refuse
    <2>2. CASE Get(c)
      BY <2>2, LeakReadWrite DEF Get
    <2>3. CASE Update(c)
      BY <2>3, LeakReadWrite DEF Update
    <2>4. CASE Scan(c)
      <3>1. PICK res : FinishRequest(c, res)
        BY <2>4 DEF Scan
      <3>2. Pop(c, "SCAN") /\ UNCHANGED <<io_queue, index, slabVars>>
        BY <2>4 DEF Scan
      <3> QED
        BY <3>1, <3>2, LeakRefuse
    <2> QED
      BY <1>1, <2>1, <2>2, <2>3, <2>4, LeakPut, LeakDelete DEF ProcessRequest
  <1>2. ASSUME FinishAio
        PROVE  LeakInv'
    <2>1. CASE FinishGet
      <3>1. PICK res : Finish("GET", res)
        BY <2>1 DEF FinishGet
      <3> QED
        BY <2>1, <3>1, LeakFinishReadWrite DEF FinishGet
    <2>2. CASE FinishUpdate
      BY <2>2, LeakFinishReadWrite DEF FinishUpdate
    <2> QED
      BY <1>2, <2>1, <2>2, LeakFinishPut, LeakFinishDelete DEF FinishAio
  <1> QED
    BY <1>1, <1>2, LeakSubmit, LeakSubmitIo, LeakTurn DEF Next, Main

\* Before the first file there is nothing to lose.
LEMMA LeakInit == Init => LeakInv
  <1> SUFFICES ASSUME Init PROVE LeakInv
    OBVIOUS
  <1>1. file_set = 0 /\ io_queue = <<>> /\ req = [c \in Clients |-> NoReq]
    BY DEF Init, SlabInit
  <1>2. PutInv
    BY <1>1 DEF PutInv, PendingOps, Pending
  <1> QED
    BY <1>1, <1>2 DEF LeakInv, PutsDiffer, LeakFree, NoSlabLeak, NoReq

\* LeakInv: the key of a pending PUT is not in the index until PutCallback puts it
\* there, no two PUTs of one key are outstanding, and every slab has an owner unless a
\* write may fail, if clients do not put one key twice at a time.
THEOREM LeakInvariant ==
  ASSUME Careful, OnePut
  PROVE  Spec => []LeakInv
  <1>1. Init => TypeOK /\ SlabInv /\ LeakInv
    BY TypeInit, SlabInit0, LeakInit
  <1>2. TypeOK /\ SlabInv /\ LeakInv /\ [Next]_vars => (TypeOK /\ SlabInv /\ LeakInv)'
    BY LeakStep, SlabStep, TypeStep DEF SlabInv
  <1> QED
    BY <1>1, <1>2, PTL DEF Spec

\* NoSlabLeak: no slab of a file is ever lost, whatever the number of clients, keys,
\* slab sizes and slabs per file, if besides clients do not put one key twice at a
\* time and writes do not fail (PutCallback forgets the slab of the second PUT, and
\* that of a PUT whose write failed).
THEOREM NoSlabIsLost ==
  ASSUME Careful, OnePut, WritesWork
  PROVE  Spec => []NoSlabLeak
  <1>1. LeakInv => NoSlabLeak
    BY DEF LeakInv, LeakFree
  <1> QED
    BY <1>1, LeakInvariant, PTL
=============================================================================
