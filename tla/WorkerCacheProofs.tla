------------------------- MODULE WorkerCacheProofs --------------------------
(***************************************************************************)
(* Proofs about the page cache of a worker: between two turns of the loop   *)
(* it holds what the files hold.                                            *)
(***************************************************************************)
EXTENDS WorkerProofs

-----------------------------------------------------------------------------
(* Cells and pages *)

\* Dividing by the size of a page.
LEMMA Quotient ==
  ASSUME NEW L \in Nat \ {0}, NEW q \in Nat, NEW i \in 0 .. L - 1
  PROVE  (q * L + i) \div L = q
  OBVIOUS

\* Division with remainder.
LEMMA Remainder ==
  ASSUME NEW n \in Nat \ {0}, NEW x \in Nat
  PROVE  \E u \in Nat, r \in 0 .. n - 1 : x = n * u + r
  <1>1. x % n \in 0 .. n - 1 /\ x \div n \in Nat /\ x = n * (x \div n) + (x % n)
    OBVIOUS
  <1> QED
    BY <1>1

\* A cell is in the page it is addressed by.
LEMMA PageOfCell ==
  ASSUME NEW p \in Nat \X Nat, NEW a \in PageAddrs(p)
  PROVE  a \in Nat \X Nat /\ Page(a) = p
  <1>1. PICK i \in 0 .. PageCells - 1 : a = <<p[1], p[2] * PageCells + i>>
    BY DEF PageAddrs
  <1>2. PageCells \in Nat \ {0} /\ p[2] \in Nat /\ p[1] \in Nat
    BY FileAssumption
  <1>3. (p[2] * PageCells + i) \div PageCells = p[2]
    BY <1>2, Quotient
  <1>4. p[2] * PageCells + i \in Nat
    BY <1>2
  <1> QED
    BY <1>1, <1>2, <1>3, <1>4 DEF Page

\* A slab does not cross pages.
LEMMA SlabInPage ==
  ASSUME NEW slab \in Slab, NEW i \in 0 .. slab.size - 1
  PROVE  Addr(slab, i) \in PageAddrs(PageOf(slab))
  <1>1. slab.size \in SlabSizes /\ slab.size \in Nat \ {0} /\ slab.index \in Nat /\ slab.file \in Nat
        /\ PageCells \in Nat \ {0}
    BY SlabAssumption, FileAssumption DEF Slab
  <1>2. PICK n \in 1 .. PageCells : PageCells = n * slab.size
    BY <1>1, PageAssumption
  <1>3. PICK u \in Nat, r \in 0 .. n - 1 : slab.index = n * u + r
    <2>1. n \in Nat \ {0}
      BY <1>1
    <2> QED
      BY <1>1, <2>1, Remainder
  <1>4. PICK s : s = slab.size
    OBVIOUS
  <1>5. s \in Nat \ {0} /\ s * slab.index = u * PageCells + s * r
    BY <1>1, <1>2, <1>3, <1>4
  <1>6. s * r \in Nat /\ s * r + s <= PageCells
    <2>1. n - 1 - r \in Nat /\ s * (n - 1 - r) \in Nat
      BY <1>1, <1>4
    <2>2. s * (n - 1 - r) = s * n - s - s * r
      BY <1>1, <1>4
    <2> QED
      BY <1>1, <1>2, <1>4, <2>1, <2>2
  <1>7. s * r \in 0 .. PageCells - 1 /\ s * r + i \in 0 .. PageCells - 1
    BY <1>1, <1>4, <1>5, <1>6
  <1>8. (u * PageCells + s * r) \div PageCells = u
    <2>1. PICK w : w = s * r
      OBVIOUS
    <2>2. w \in 0 .. PageCells - 1
      BY <1>7, <2>1
    <2>3. (u * PageCells + w) \div PageCells = u
      BY <1>1, <2>2, Quotient
    <2> QED
      BY <2>1, <2>3
  <1>9. PageOf(slab) = <<slab.file, u>>
    BY <1>1, <1>4, <1>5, <1>7, <1>8 DEF PageOf, Page, Addr
  <1>10. Addr(slab, i) = <<slab.file, u * PageCells + (s * r + i)>>
    BY <1>1, <1>4, <1>5, <1>6 DEF Addr
  <1> QED
    BY <1>7, <1>9, <1>10 DEF PageAddrs

\* Pages share no cells.
LEMMA PagesApart ==
  ASSUME NEW p \in Nat \X Nat, NEW q \in Nat \X Nat, NEW a \in PageAddrs(p), a \in PageAddrs(q)
  PROVE  p = q
  BY PageOfCell

\* What is known of a pending AIO.
LEMMA AioType ==
  ASSUME TypeOK, NEW i \in Pending
  PROVE  /\ io_queue[i] \in Aio /\ io_queue[i].slab \in Slab /\ io_queue[i].hit \in BOOLEAN
         /\ io_queue[i].c \in Clients /\ PageAt(i) \in Nat \X Nat
         /\ Request(io_queue[i]).op \in Writes => Request(io_queue[i]).key \in Keys
  <1>1. io_queue[i] \in Aio /\ io_queue[i].c \in Clients /\ io_queue[i].slab \in Slab
    BY PendingType
  <1>2. io_queue[i].hit \in BOOLEAN
    BY <1>1 DEF Aio
  <1>3. PageAt(i) \in Nat \X Nat
    BY <1>1, PageType DEF PageAt
  <1>4. Request(io_queue[i]).op \in Writes => Request(io_queue[i]).key \in Keys
    BY <1>1, OutstandingType DEF Request, Writes
  <1> QED
    BY <1>1, <1>2, <1>3, <1>4

\* A write stays in the page of its slab.
LEMMA PayloadInPage ==
  ASSUME TypeOK, FitInv, NEW i \in Pending, Request(io_queue[i]).op \in Writes
  PROVE  DOMAIN Payload(io_queue[i]) \subseteq PageAddrs(PageAt(i))
  <1> DEFINE e == io_queue[i]
             k == Request(e).key
  <1>1. e.slab \in Slab /\ k \in Keys
    BY AioType
  <1>2. e.slab.size \in Nat \ {0}
    BY <1>1, SlabAssumption DEF Slab
  <1>3. ASSUME NEW n \in 0 .. e.slab.size - 1 PROVE Addr(e.slab, n) \in PageAddrs(PageAt(i))
    BY <1>1, SlabInPage DEF PageAt
  <1>4. CASE Request(e).op = "DELETE"
    <2>1. DOMAIN Payload(e) = {Addr(e.slab, 0)}
      BY <1>4 DEF Payload, ZeroCells
    <2>2. 0 \in 0 .. e.slab.size - 1
      BY <1>2
    <2> QED
      BY <1>3, <2>1, <2>2
  <1>5. CASE Request(e).op # "DELETE"
    <2>1. DOMAIN Payload(e) = {Addr(e.slab, n) : n \in 0 .. ItemSize[k] - 1}
      BY <1>5 DEF Payload, ItemCells
    <2>2. ItemSize[k] <= e.slab.size /\ ItemSize[k] \in Nat
      BY <1>1, <1>5, FileAssumption DEF FitInv, PendingOps, Writes
    <2>3. \A n \in 0 .. ItemSize[k] - 1 : n \in 0 .. e.slab.size - 1
      BY <1>2, <2>2
    <2> QED
      BY <1>3, <2>1, <2>3
  <1> QED
    BY <1>4, <1>5

\* Writing over bytes.
LEMMA OverAt ==
  ASSUME NEW f, NEW g, NEW a
  PROVE  CellAt(Over(f, g), a) = IF a \in DOMAIN g THEN g[a] ELSE CellAt(f, a)
  BY DEF CellAt, Over

\* The bytes of an AIO depend on its slab and its request.
LEMMA PayloadSame ==
  ASSUME NEW i, io_queue'[i].slab = io_queue[i].slab, Request(io_queue[i])' = Request(io_queue[i])
  PROVE  Payload(io_queue[i])' = Payload(io_queue[i])
  BY DEF Payload, ZeroCells, ItemCells, Addr, ItemCell

-----------------------------------------------------------------------------
(* "drain" *)

\* While requests are drained nothing waits to be patched: a page is read, or will be.
LEMMA DrainCells ==
  ASSUME TypeOK, LoopInv, CellInv, phase = "drain", TypeOK', phase' = "drain", pos' = 0, UNCHANGED disk,
         \A p \in DOMAIN cache' :
           \/ Unread(p)'
           \/ p \in DOMAIN cache /\ cache'[p] = cache[p] /\ ~ Unread(p)
           \/ \A a \in PageAddrs(p) : CellAt(cache'[p], a) = DiskAt(a)
  PROVE  CellInv'
  <1>1. pos = 0 /\ io_queue \in Seq(Aio) /\ io_queue' \in Seq(Aio)
    BY DEF LoopInv, TypeOK
  <1>2. \A a : Hits(a) = {} /\ Hits(a)' = {}
    <2>1. Unpatched = {} /\ Unpatched' = {}
      BY <1>1 DEF Unpatched
    <2> QED
      BY <2>1 DEF Hits
  <1>3. \A a : DiskAt(a)' = DiskAt(a)
    BY DEF DiskAt
  <1>4. ASSUME NEW p \in DOMAIN cache', ~ Unread(p)', NEW a \in PageAddrs(p)
        PROVE  CellAt(cache'[p], a) = DiskAt(a)
    <2>1. CASE p \in DOMAIN cache /\ cache'[p] = cache[p] /\ ~ Unread(p)
      BY <1>2, <2>1 DEF CellInv
    <2> QED
      BY <1>4, <2>1
  <1>5. \A p \in DOMAIN cache' : Unread(p)' \/ \A a \in PageAddrs(p) : CellAt(cache'[p], a) = DiskAt(a)'
    BY <1>3, <1>4
  <1> QED
    BY <1>2, <1>5 DEF CellInv, CellAt, PageAddrs

\* ProcessRequest_ when it answers at once: pages may be read, where none of ops waits.
LEMMA HitRefuse ==
  ASSUME TypeOK, LoopInv, QueueInv, FitInv, NEW ops, HitInv(ops), NEW c, NEW op, NEW res, Pop(c, op), FinishRequest(c, res),
         UNCHANGED <<io_queue, index, slabVars>>,
         DOMAIN cache \subseteq DOMAIN cache',
         DOMAIN cache' # DOMAIN cache => \A i \in Pending : Request(io_queue[i]).op \notin ops
  PROVE  FitInv' /\ HitInv(ops)' /\ \A p : Unread(p)' = Unread(p)
  <1>1. phase = "drain" /\ phase' = "drain" /\ pos' = pos
    BY DEF Pop
  <1>2. /\ Pending' = Pending /\ Pending = DOMAIN io_queue
        /\ \A i \in Pending : Request(io_queue[i])' = Request(io_queue[i])
    BY AnswerQueue, PopQueue
  <1>3. \A o : PendingOps(o)' = PendingOps(o) /\ PendingOps(o) \subseteq Pending
    BY <1>2 DEF PendingOps
  <1>4. FitInv'
    BY <1>2, <1>3 DEF FitInv, slabVars
  <1>5. \A i \in Pending : FirstRead(i)' = FirstRead(i) /\ PageAt(i)' = PageAt(i)
    BY <1>2 DEF FirstRead, PageAt, PageOf, Page, Addr
  <1>6. HitInv(ops)'
    BY <1>1, <1>2, <1>5 DEF HitInv, Lookup
  <1>7. \A p : Unread(p)' = Unread(p)
    BY <1>1, <1>2, <1>5 DEF Unread
  <1> QED
    BY <1>4, <1>6, <1>7

\* What was read is as on disk.
LEMMA CacheRefuse ==
  ASSUME TypeOK, LoopInv, QueueInv, CacheInv, TypeOK', NEW c, NEW op, NEW res, Pop(c, op), FinishRequest(c, res),
         UNCHANGED <<io_queue, index, slabVars, disk>>,
         DOMAIN cache \subseteq DOMAIN cache',
         \A p \in DOMAIN cache : cache'[p] = cache[p],
         \A p \in DOMAIN cache' \ DOMAIN cache :
           /\ \A a \in PageAddrs(p) : CellAt(cache'[p], a) = DiskAt(a)
           /\ \A i \in Pending : Request(io_queue[i]).op \notin Writes
  PROVE  CacheInv'
  <1>1. c \in Clients /\ phase = "drain" /\ phase' = "drain" /\ pos' = pos /\ pos = 0
    BY PopType DEF Pop, LoopInv
  <1>2. ScansApart'
    <2>1. \A d \in Clients : req'[d] = IF d = c THEN NoReq ELSE req[d]
      BY <1>1 DEF FinishRequest, TypeOK
    <2> QED
      BY <2>1 DEF CacheInv, ScansApart, NoReq, Writes
  <1>3. FitInv' /\ HitInv(Writes)' /\ \A p : Unread(p)' = Unread(p)
    BY HitRefuse DEF CacheInv
  <1>4. HeadInv'
    BY DEF CacheInv, HeadInv
  <1>5. CellInv'
    BY <1>1, <1>3, DrainCells DEF CacheInv
  <1> QED
    BY <1>2, <1>3, <1>4, <1>5 DEF CacheInv

\* The frames that are made are those of pages that had none.
LEMMA NewEntriesAt ==
  ASSUME NEW frames, NEW new, new = NewEntries(frames)
  PROVE  /\ DOMAIN new = DOMAIN frames \cup DOMAIN cache
         /\ \A p \in DOMAIN cache : new[p] = cache[p]
         /\ \A p \in DOMAIN frames \ DOMAIN cache : new[p] = frames[p]
  BY DEF NewEntries, Over

\* A page that is read is as on disk.
LEMMA FrameAt ==
  ASSUME NEW p, NEW a \in PageAddrs(p)
  PROVE  CellAt(PageFrame(p), a) = DiskAt(a)
  BY DEF CellAt, PageFrame

\* ReadSync makes frames of what is on disk, where no write is outstanding.
LEMMA CacheScan ==
  ASSUME TypeOK, LoopInv, QueueInv, CacheInv, TypeOK', NEW c, Scan(c)
  PROVE  CacheInv'
  <1>1. Pop(c, "SCAN") /\ UNCHANGED <<disk, index, io_queue, slabVars>> /\ c \in Clients /\ req[c].op = "SCAN"
    BY PopType DEF Scan, Pop
  <1>2. PICK res : FinishRequest(c, res)
    BY DEF Scan
  <1>3. PICK pages, frames : frames = [p \in pages |-> PageFrame(p)] /\ cache' = NewEntries(frames)
    BY DEF Scan
  <1>4. DOMAIN frames = pages /\ \A p \in pages : frames[p] = PageFrame(p)
    BY <1>3
  <1>5. /\ DOMAIN cache' = DOMAIN frames \cup DOMAIN cache
        /\ \A p \in DOMAIN cache : cache'[p] = cache[p]
        /\ \A p \in DOMAIN frames \ DOMAIN cache : cache'[p] = frames[p]
    BY <1>3, NewEntriesAt
  <1>6. \A p \in DOMAIN cache' \ DOMAIN cache : \A a \in PageAddrs(p) : CellAt(cache'[p], a) = DiskAt(a)
    BY <1>4, <1>5, FrameAt
  <1>7. \A i \in Pending : Request(io_queue[i]).op \notin Writes
    BY <1>1, AioType DEF CacheInv, ScansApart, Request
  <1> QED
    BY <1>1, <1>2, <1>5, <1>6, <1>7, CacheRefuse

\* An AIO is added: its page is cached, or it is a GET and gets a frame.
Enqueues(c, op, slab) ==
  /\ op \in {"GET", "PUT", "UPDATE", "DELETE"} /\ slab \in Slab
  /\ Pop(c, op) /\ IOEnqueue(c, slab) /\ UNCHANGED disk
  /\ op # "GET" => UNCHANGED cache
  /\ op = "GET" => /\ DOMAIN cache' = DOMAIN cache \cup {PageOf(slab)}
                   /\ \A p \in DOMAIN cache : cache'[p] = cache[p]
  /\ op \in {"PUT", "UPDATE"} => ItemSize[req[c].key] <= slab.size
  /\ \A s \in SlabSizes : \A n \in DOMAIN free_slab'[s] : free_slab'[s][n].size = s

\* What becomes of the two queues and of the pages.
LEMMA EnqueueAio ==
  ASSUME TypeOK, LoopInv, QueueInv, NEW c, NEW op, NEW slab, Enqueues(c, op, slab)
  PROVE  /\ c \in Clients /\ phase = "drain" /\ phase' = "drain" /\ pos' = pos /\ pos = 0
         /\ index' = index /\ req' = req /\ req[c].op = op
         /\ DOMAIN io_queue = Pending
         /\ \A i \in Pending : /\ io_queue'[i] = io_queue[i]
                               /\ Request(io_queue[i])' = Request(io_queue[i])
                               /\ (FirstRead(i)' <=> FirstRead(i)) /\ PageAt(i)' = PageAt(i)
         /\ \E n \in Nat :
              /\ DOMAIN io_queue' = Pending \cup {n} /\ Pending' = Pending \cup {n} /\ n \notin Pending
              /\ \A i \in Pending : i \in Nat /\ i < n
              /\ io_queue'[n].c = c /\ io_queue'[n].slab = slab /\ io_queue'[n].ev = "none"
              /\ (io_queue'[n].hit <=> Lookup(PageOf(slab)))
              /\ Request(io_queue[n])' = req[c] /\ PageAt(n)' = PageOf(slab)
              /\ (FirstRead(n)' <=> op = "GET" /\ ~ Lookup(PageOf(slab)))
  <1>0. Pop(c, op) /\ IOEnqueue(c, slab)
    BY DEF Enqueues
  <1>1. /\ c \in Clients /\ phase = "drain" /\ phase' = "drain" /\ pos' = pos /\ pos = 0
        /\ index' = index /\ req[c].op = op
    BY <1>0, PopType DEF Pop, LoopInv, IOEnqueue
  <1>2. PICK n : n = Len(io_queue) + 1
    OBVIOUS
  <1>3. /\ req' = req
        /\ Pending' = Pending \cup {n} /\ n \notin Pending
        /\ \A i \in Pending : io_queue'[i] = io_queue[i]
        /\ io_queue'[n] = [c |-> c, slab |-> slab, hit |-> Lookup(PageOf(slab)), ev |-> "none"]
    BY <1>0, <1>2, EnqueueQueue
  <1>4. Pending = DOMAIN io_queue /\ Pending = 1 .. Len(io_queue) /\ Len(io_queue) \in Nat
    <2>1. Len(io_queue) \in Nat
      BY DEF TypeOK
    <2> QED
      BY <1>0, <2>1, PopQueue
  <1>5. Pending' = DOMAIN io_queue'
    BY <1>1 DEF Pending
  <1>6. n \in Nat /\ \A i \in Pending : i \in Nat /\ i < n
    BY <1>2, <1>4
  <1>7. \A i \in Pending : /\ Request(io_queue[i])' = Request(io_queue[i])
                           /\ (FirstRead(i)' <=> FirstRead(i)) /\ PageAt(i)' = PageAt(i)
    BY <1>3 DEF FirstRead, PageAt, PageOf, Page, Addr, Request
  <1>8. /\ io_queue'[n].c = c /\ io_queue'[n].slab = slab /\ io_queue'[n].ev = "none"
        /\ (io_queue'[n].hit <=> Lookup(PageOf(slab)))
    BY <1>3
  <1>9. /\ Request(io_queue[n])' = req[c] /\ PageAt(n)' = PageOf(slab)
        /\ (FirstRead(n)' <=> op = "GET" /\ ~ Lookup(PageOf(slab)))
    BY <1>1, <1>3, <1>8 DEF FirstRead, PageAt, PageOf, Page, Addr, Request
  <1>10. \E m \in Nat :
           /\ DOMAIN io_queue' = Pending \cup {m} /\ Pending' = Pending \cup {m} /\ m \notin Pending
           /\ \A i \in Pending : i \in Nat /\ i < m
           /\ io_queue'[m].c = c /\ io_queue'[m].slab = slab /\ io_queue'[m].ev = "none"
           /\ (io_queue'[m].hit <=> Lookup(PageOf(slab)))
           /\ Request(io_queue[m])' = req[c] /\ PageAt(m)' = PageOf(slab)
           /\ (FirstRead(m)' <=> op = "GET" /\ ~ Lookup(PageOf(slab)))
    BY <1>3, <1>5, <1>6, <1>8, <1>9
  <1> QED
    BY <1>1, <1>3, <1>4, <1>7, <1>10

\* Its item fits, and whether it patches its page is decided.
LEMMA HitEnqueue ==
  ASSUME TypeOK, LoopInv, QueueInv, FitInv, NEW ops \in SUBSET Writes, HitInv(ops),
         NEW c, NEW op, NEW slab, Enqueues(c, op, slab)
  PROVE  /\ FitInv' /\ HitInv(ops)'
         /\ \A p \in DOMAIN cache' : Unread(p)' \/ (p \in DOMAIN cache /\ cache'[p] = cache[p] /\ ~ Unread(p))
  <1>1. /\ phase = "drain" /\ phase' = "drain" /\ pos' = pos /\ pos = 0
        /\ index' = index /\ req[c].op = op
    BY EnqueueAio
  <1>2. \A i \in Pending : /\ Request(io_queue[i])' = Request(io_queue[i])
                           /\ (FirstRead(i)' <=> FirstRead(i)) /\ PageAt(i)' = PageAt(i)
                           /\ io_queue'[i].hit = io_queue[i].hit /\ io_queue'[i].slab = io_queue[i].slab
    BY EnqueueAio
  <1>3. PICK n \in Nat :
              /\ DOMAIN io_queue' = Pending \cup {n} /\ Pending' = Pending \cup {n} /\ n \notin Pending
              /\ \A i \in Pending : i \in Nat /\ i < n
              /\ io_queue'[n].c = c /\ io_queue'[n].slab = slab /\ io_queue'[n].ev = "none"
              /\ (io_queue'[n].hit <=> Lookup(PageOf(slab)))
              /\ Request(io_queue[n])' = req[c] /\ PageAt(n)' = PageOf(slab)
              /\ (FirstRead(n)' <=> op = "GET" /\ ~ Lookup(PageOf(slab)))
    BY EnqueueAio
  <1>4. /\ Pending' = Pending \cup {n} /\ n \notin Pending /\ n \in Nat
        /\ Pending = DOMAIN io_queue /\ Pending' = DOMAIN io_queue'
        /\ \A i \in Pending : i \in Nat /\ i < n
    BY <1>3, EnqueueAio
  <1>5. FitInv'
    <2>1. \A o : PendingOps(o)' \subseteq PendingOps(o) \cup {n}
      BY <1>4, <1>2 DEF PendingOps
    <2>2. ASSUME NEW i \in PendingOps("PUT")' \cup PendingOps("UPDATE")'
          PROVE  ItemSize[Request(io_queue[i])'.key] <= io_queue'[i].slab.size
      <3>1. CASE i = n
        <4>1. op \in {"PUT", "UPDATE"}
          BY <1>1, <1>3, <2>2, <3>1 DEF PendingOps
        <4> QED
          BY <1>3, <3>1, <4>1 DEF Enqueues
      <3>2. CASE i # n
        BY <1>4, <1>2, <2>1, <2>2, <3>2 DEF FitInv, PendingOps
      <3> QED
        BY <3>1, <3>2
    <2> QED
      BY <1>1, <2>2 DEF FitInv, Enqueues
  <1>6. DOMAIN cache' = IF op = "GET" THEN DOMAIN cache \cup {PageOf(slab)} ELSE DOMAIN cache
    BY DEF Enqueues
  <1>7. HitInv(ops)'
    <2>0. \A p : Lookup(p) => p \in DOMAIN cache'
      BY <1>6 DEF Lookup
    <2>1. ASSUME NEW i \in DOMAIN io_queue', io_queue'[i].hit
          PROVE  PageAt(i)' \in DOMAIN cache'
      <3>1. CASE i = n
        <4>1. PageAt(i)' = PageOf(slab) /\ Lookup(PageOf(slab))
          BY <1>3, <2>1, <3>1
        <4> QED
          BY <2>0, <4>1
      <3>2. CASE i # n
        <4>1. i \in Pending
          BY <1>4, <3>2
        <4>2. io_queue[i].hit /\ PageAt(i)' = PageAt(i)
          BY <1>2, <2>1, <4>1
        <4>3. Lookup(PageAt(i))
          BY <1>4, <4>1, <4>2 DEF HitInv
        <4> QED
          BY <2>0, <4>2, <4>3
      <3> QED
        BY <3>1, <3>2
    <2>2. ASSUME NEW i \in DOMAIN io_queue', FirstRead(i)', NEW j \in DOMAIN io_queue', j < i, PageAt(j)' = PageAt(i)'
          PROVE  ~ io_queue'[j].hit
      <3>1. j \in Pending
        BY <1>4, <2>2
      <3>2. CASE i = n
        <4>1. PageAt(j) = PageOf(slab) /\ ~ Lookup(PageOf(slab)) /\ io_queue'[j].hit = io_queue[j].hit
          BY <1>2, <1>3, <2>2, <3>1, <3>2
        <4>2. io_queue[j].hit => Lookup(PageAt(j))
          BY <1>4, <3>1 DEF HitInv
        <4> QED
          BY <4>1, <4>2
      <3>3. CASE i # n
        BY <1>1, <1>4, <1>2, <2>2, <3>1, <3>3 DEF HitInv
      <3> QED
        BY <3>2, <3>3
    <2>3. ASSUME NEW i \in DOMAIN io_queue', Request(io_queue[i])'.op \in ops, ~ io_queue'[i].hit, Lookup(PageAt(i))'
          PROVE  \E r \in DOMAIN io_queue' : i < r /\ FirstRead(r)' /\ PageAt(r)' = PageAt(i)'
      <3>1. CASE i = n
        <4>1. op \in Writes
          BY <1>1, <1>3, <2>3, <3>1
        <4> QED
          BY <1>3, <1>6, <2>3, <3>1, <4>1 DEF Lookup, Writes
      <3>2. CASE i # n
        <4>1. i \in Pending
          BY <1>4, <3>2
        <4>2. CASE Lookup(PageAt(i))
          <5>1. PICK r \in DOMAIN io_queue : i < r /\ FirstRead(r) /\ PageAt(r) = PageAt(i)
            BY <1>1, <1>4, <1>2, <2>3, <4>1, <4>2 DEF HitInv
          <5> QED
            BY <1>4, <1>2, <4>1, <5>1
        <4>3. CASE ~ Lookup(PageAt(i))
          <5>1. op = "GET" /\ PageAt(i) = PageOf(slab)
            BY <1>2, <1>6, <2>3, <4>1, <4>3 DEF Lookup
          <5> QED
            BY <1>4, <1>2, <1>3, <4>1, <4>3, <5>1
        <4> QED
          BY <4>2, <4>3
      <3> QED
        BY <3>1, <3>2
    <2> QED
      BY <2>1, <2>2, <2>3 DEF HitInv, Lookup
  <1>8. \A p : Unread(p) => Unread(p)'
    BY <1>1, <1>4, <1>2 DEF Unread
  <1>9. \A p \in DOMAIN cache' : Unread(p)' \/ (p \in DOMAIN cache /\ cache'[p] = cache[p] /\ ~ Unread(p))
    <2> SUFFICES ASSUME NEW p \in DOMAIN cache', ~ Unread(p)' PROVE p \in DOMAIN cache /\ cache'[p] = cache[p]
      BY <1>8
    <2>1. CASE p \in DOMAIN cache
      BY <2>1 DEF Enqueues
    <2>2. CASE p \notin DOMAIN cache
      <3>1. op = "GET" /\ p = PageOf(slab)
        BY <1>6, <2>2
      <3>2. FirstRead(n)' /\ PageAt(n)' = p
        BY <1>3, <2>2, <3>1 DEF Lookup
      <3>3. n \in DOMAIN io_queue' /\ n >= pos' /\ phase' # "finish"
        BY <1>1, <1>4
      <3> QED
        BY <3>2, <3>3 DEF Unread
    <2> QED
      BY <2>1, <2>2
  <1> QED
    BY <1>5, <1>7, <1>9

\* The same for the whole invariant.
LEMMA CacheEnqueue ==
  ASSUME TypeOK, LoopInv, QueueInv, CacheInv, TypeOK', NEW c, NEW op, NEW slab, Enqueues(c, op, slab)
  PROVE  CacheInv'
  <1>1. /\ FitInv' /\ HitInv(Writes)'
        /\ \A p \in DOMAIN cache' : Unread(p)' \/ (p \in DOMAIN cache /\ cache'[p] = cache[p] /\ ~ Unread(p))
    BY HitEnqueue DEF CacheInv
  <1>2. phase = "drain" /\ phase' = "drain" /\ pos' = 0 /\ req' = req
    BY EnqueueAio
  <1>3. UNCHANGED disk
    BY DEF Enqueues
  <1>4. ScansApart' /\ HeadInv'
    BY <1>2, <1>3 DEF CacheInv, ScansApart, HeadInv
  <1>5. CellInv'
    BY <1>1, <1>2, <1>3, DrainCells DEF CacheInv
  <1> QED
    BY <1>1, <1>4, <1>5 DEF CacheInv

\* A GET makes a frame for its page.
LEMMA GetEnqueues ==
  ASSUME TypeOK, LoopInv, FitInv, NEW c, Get(c)
  PROVE  Enqueues(c, "GET", index[req[c].key])
  <1>1. PICK slab : slab = index[req[c].key]
    OBVIOUS
  <1>2. /\ Pop(c, "GET") /\ IOEnqueue(c, slab) /\ UNCHANGED <<disk, slabVars>>
        /\ cache' = NewEntries([p \in {PageOf(slab)} |-> EmptyFrame(p)])
    BY <1>1 DEF Get
  <1>3. slab \in Slab
    BY <1>1 DEF Get, TypeOK
  <1>4. PICK frames : frames = [p \in {PageOf(slab)} |-> EmptyFrame(p)]
    OBVIOUS
  <1>5. DOMAIN frames = {PageOf(slab)} /\ cache' = NewEntries(frames)
    BY <1>2, <1>4
  <1>6. DOMAIN cache' = DOMAIN cache \cup {PageOf(slab)} /\ \A p \in DOMAIN cache : cache'[p] = cache[p]
    BY <1>5, NewEntriesAt
  <1>7. \A s \in SlabSizes : \A n \in DOMAIN free_slab'[s] : free_slab'[s][n].size = s
    BY <1>2 DEF FitInv, slabVars
  <1> QED
    BY <1>1, <1>2, <1>3, <1>6, <1>7 DEF Enqueues

\* An UPDATE writes to the slab its key has.
LEMMA UpdateEnqueues ==
  ASSUME TypeOK, LoopInv, FitInv, NEW c, Update(c)
  PROVE  Enqueues(c, "UPDATE", index[req[c].key])
  <1>1. PICK slab : slab = index[req[c].key]
    OBVIOUS
  <1>2. Pop(c, "UPDATE") /\ IOEnqueue(c, slab) /\ UNCHANGED <<disk, cache>> /\ UNCHANGED slabVars
    BY <1>1 DEF Update, fileVars
  <1>3. slab \in Slab /\ ItemSize[req[c].key] <= slab.size
    BY <1>1 DEF Update, TypeOK, FitInv
  <1>4. \A s \in SlabSizes : \A n \in DOMAIN free_slab'[s] : free_slab'[s][n].size = s
    BY <1>2 DEF FitInv, slabVars
  <1> QED
    BY <1>1, <1>2, <1>3, <1>4 DEF Enqueues

\* A DELETE puts its slab where slabs of its size are.
LEMMA DeleteEnqueues ==
  ASSUME TypeOK, LoopInv, FitInv, NEW c, Delete(c)
  PROVE  Enqueues(c, "DELETE", index[req[c].key])
  <1>1. PICK slab : slab = index[req[c].key]
    OBVIOUS
  <1>2. Pop(c, "DELETE") /\ IOEnqueue(c, slab) /\ UNCHANGED <<disk, cache>> /\ Free(slab)
    BY <1>1 DEF Delete, fileVars
  <1>3. slab \in Slab /\ slab.size \in SlabSizes
    <2>1. slab \in Slab
      BY <1>1 DEF Delete, TypeOK
    <2> QED
      BY <2>1 DEF Slab
  <1>4. \A s \in SlabSizes : \A n \in DOMAIN free_slab'[s] : free_slab'[s][n].size = s
    <2> SUFFICES ASSUME NEW s \in SlabSizes, NEW n \in DOMAIN free_slab'[s] PROVE free_slab'[s][n].size = s
      OBVIOUS
    <2>1. \A m \in DOMAIN free_slab[s] : free_slab[s][m].size = s
      BY DEF FitInv
    <2>2. free_slab[s] \in Seq(Slab)
      BY DEF TypeOK
    <2>3. free_slab' = [free_slab EXCEPT ![slab.size] = Append(free_slab[slab.size], slab)] /\ DOMAIN free_slab = SlabSizes
      BY <1>2 DEF Free, TypeOK
    <2>4. CASE s = slab.size
      <3>1. free_slab'[s] = Append(free_slab[s], slab)
        BY <2>3, <2>4
      <3>2. free_slab'[s][n] = slab \/ (n \in DOMAIN free_slab[s] /\ free_slab'[s][n] = free_slab[s][n])
        BY <2>2, <3>1
      <3> QED
        BY <2>1, <2>4, <3>2
    <2>5. CASE s # slab.size
      BY <2>1, <2>3, <2>5
    <2> QED
      BY <2>4, <2>5
  <1> QED
    BY <1>1, <1>2, <1>3, <1>4 DEF Enqueues

\* The slab of a PUT is large enough for its item.
LEMMA PutEnqueues ==
  ASSUME TypeOK, LoopInv, FitInv, NEW c, Put(c)
  PROVE  Enqueues(c, "PUT", NewSlab(ItemSize[req[c].key]))
  <1> DEFINE k == req[c].key
  <1>1. PICK slab : slab = NewSlab(ItemSize[k])
    OBVIOUS
  <1>2. Pop(c, "PUT") /\ IOEnqueue(c, slab) /\ UNCHANGED <<disk, cache>> /\ Create(ItemSize[k])
        /\ req[c].op = "PUT" /\ c \in Clients
    BY <1>1, PopType DEF Put, fileVars, Pop
  <1>3. k \in Keys
    BY <1>2, OutstandingType
  <1>4. PICK s0 : s0 = Fit(ItemSize[k])
    OBVIOUS
  <1>5. s0 \in SlabSizes /\ ItemSize[k] <= s0
    BY <1>3, <1>4, FitType, SlabAssumption, FileAssumption
  <1> HIDE DEF k
  <1>6. \A s \in SlabSizes : free_slab[s] \in Seq(Slab) /\ \A m \in DOMAIN free_slab[s] : free_slab[s][m].size = s
    BY DEF FitInv, TypeOK
  <1>7. slab.size = s0
    <2>1. CASE free_slab[s0] # <<>>
      <3>1. slab = free_slab[s0][1] /\ 1 \in DOMAIN free_slab[s0]
        BY <1>1, <1>4, <1>5, <1>6, <2>1 DEF NewSlab
      <3> QED
        BY <1>5, <1>6, <3>1
    <2>2. CASE free_slab[s0] = <<>>
      BY <1>1, <1>4, <2>2 DEF NewSlab
    <2> QED
      BY <2>1, <2>2
  <1>8. slab \in Slab
    BY <1>1, <1>2, <1>3, NewSlabType
  <1>9. \A s \in SlabSizes : \A n \in DOMAIN free_slab'[s] : free_slab'[s][n].size = s
    <2> SUFFICES ASSUME NEW s \in SlabSizes, NEW n \in DOMAIN free_slab'[s] PROVE free_slab'[s][n].size = s
      OBVIOUS
    <2>1. CASE ReuseFree(s0) /\ s = s0
      <3>1. free_slab'[s] = Tail(free_slab[s]) /\ free_slab[s] # <<>>
        BY <1>5, <2>1 DEF ReuseFree, TypeOK
      <3>2. n + 1 \in DOMAIN free_slab[s] /\ free_slab'[s][n] = free_slab[s][n + 1]
        BY <1>6, <3>1
      <3> QED
        BY <1>6, <3>2
    <2>2. CASE ~ (ReuseFree(s0) /\ s = s0)
      <3>1. free_slab'[s] = free_slab[s]
        BY <1>2, <1>4, <2>2 DEF Create, ReuseFree, OpenFile, NextInFile, TypeOK
      <3> QED
        BY <1>6, <3>1
    <2> QED
      BY <2>1, <2>2
  <1> QED
    BY <1>1, <1>2, <1>5, <1>7, <1>8, <1>9 DEF Enqueues, k

-----------------------------------------------------------------------------
(* Submit, and the steps from phase to phase *)

\* HitInv depends on the requests until "finish" only.
LEMMA HitSame ==
  ASSUME NEW ops, HitInv(ops), DOMAIN cache' = DOMAIN cache, DOMAIN io_queue' = DOMAIN io_queue,
         \A i \in DOMAIN io_queue : io_queue'[i].slab = io_queue[i].slab /\ io_queue'[i].hit = io_queue[i].hit,
         phase' # "finish" =>
           phase # "finish" /\ \A i \in DOMAIN io_queue : Request(io_queue[i])' = Request(io_queue[i])
  PROVE  HitInv(ops)'
  <1>1. \A i \in DOMAIN io_queue : PageAt(i)' = PageAt(i) /\ Lookup(PageAt(i))' = Lookup(PageAt(i))
    BY DEF PageAt, PageOf, Page, Addr, Lookup
  <1>2. phase' # "finish" => \A i \in DOMAIN io_queue : FirstRead(i)' = FirstRead(i)
    BY DEF FirstRead
  <1> QED
    BY <1>1, <1>2 DEF HitInv

\* FitInv depends on the free lists, the index and the pending AIOs.
LEMMA FitSame ==
  ASSUME FitInv, UNCHANGED <<free_slab, index>>, Pending' \subseteq Pending,
         \A i \in Pending' : /\ io_queue'[i].slab = io_queue[i].slab
                             /\ Request(io_queue[i])' = Request(io_queue[i])
  PROVE  FitInv'
  <1>1. \A o : PendingOps(o)' \subseteq PendingOps(o) /\ PendingOps(o)' \subseteq Pending'
    BY DEF PendingOps
  <1> QED
    BY <1>1 DEF FitInv

\* CellInv depends on the patches to come.
LEMMA CellSame ==
  ASSUME CellInv, UNCHANGED <<disk, cache>>, \A p : Unread(p) => Unread(p)',
         \A a : Hits(a)' = Hits(a),
         \A i \in Unpatched : Payload(io_queue[i])' = Payload(io_queue[i])
  PROVE  CellInv'
  <1>1. \A a : Hits(a) \subseteq Unpatched
    BY DEF Hits
  <1>2. \A a : DiskAt(a)' = DiskAt(a)
    BY DEF DiskAt
  <1> SUFFICES ASSUME NEW p \in DOMAIN cache, ~ Unread(p)', NEW a \in PageAddrs(p)
               PROVE  /\ Hits(a)' = {} => CellAt(cache'[p], a) = DiskAt(a)'
                      /\ \A m \in Hits(a)' : (\A j \in Hits(a)' : j <= m) => Payload(io_queue[m])'[a] = DiskAt(a)'
    BY DEF CellInv, CellAt, PageAddrs
  <1>3. /\ Hits(a) = {} => CellAt(cache[p], a) = DiskAt(a)
        /\ \A m \in Hits(a) : (\A j \in Hits(a) : j <= m) => Payload(io_queue[m])[a] = DiskAt(a)
    BY DEF CellInv
  <1> QED
    BY <1>1, <1>2, <1>3

\* Worker::Submit: a SCAN and a write do not come together.
LEMMA CacheSubmit ==
  ASSUME Apart, TypeOK, QueueInv, CacheInv, NEW c \in Clients, NEW r \in Requests, Submit(c, r)
  PROVE  CacheInv'
  <1>1. UNCHANGED <<disk, cache, index, io_queue, phase, pos>> /\ UNCHANGED slabVars
    BY DEF Submit, loopVars, fileVars
  <1>2. /\ Pending' = Pending
        /\ \A d \in Clients : req'[d] = IF d = c THEN r ELSE req[d]
        /\ \A i \in Pending : Request(io_queue[i])' = Request(io_queue[i])
    BY SubmitQueue
  <1>3. Pending \subseteq DOMAIN io_queue /\ (phase # "finish" => Pending = DOMAIN io_queue)
        /\ (phase = "finish" => Pending = Unpatched) /\ Unpatched \subseteq DOMAIN io_queue
        /\ Unpatched \subseteq Pending
    BY DEF Pending, Unpatched
  <1>4. ScansApart'
    <2> SUFFICES ASSUME NEW d \in Clients, NEW b \in Clients, req'[d].op = "SCAN", req'[b].op \in Writes PROVE FALSE
      BY DEF ScansApart, Writes
    <2>1. r.op \in Ops
      BY DEF Requests
    <2>2. \A b1 \in Clients : req[b1].op \in Writes \cup {"SCAN"} => req[b1].op \in Ops /\ req[b1] # NoReq
      <3> SUFFICES ASSUME NEW b1 \in Clients, req[b1].op \in Writes \cup {"SCAN"} PROVE req[b1].op \in Ops /\ req[b1] # NoReq
        OBVIOUS
      <3>1. req[b1].op # "NONE"
        BY DEF Writes
      <3>2. req[b1] # NoReq /\ req[b1] \in Requests
        BY <3>1, OutstandingType
      <3> QED
        BY <3>2 DEF Requests
    <2>3. \A b1 \in Clients : req[b1] # NoReq => CanOverlap(req[b1], r)
      BY DEF Submit
    <2>4. CASE d = c /\ b = c
      BY <1>2, <2>4 DEF Writes
    <2>5. CASE d # c /\ b # c
      BY <1>2, <2>5 DEF CacheInv, ScansApart
    <2>6. CASE d = c /\ b # c
      <3>1. r.op = "SCAN" /\ req[b].op \in Writes
        BY <1>2, <2>6
      <3>2. CanOverlap(req[b], r) /\ req[b].op \in Ops
        BY <2>2, <2>3, <3>1
      <3> QED
        BY <3>1, <3>2 DEF CanOverlap, Apart
    <2>7. CASE d # c /\ b = c
      <3>1. req[d].op = "SCAN" /\ r.op \in Writes
        BY <1>2, <2>7
      <3>2. CanOverlap(req[d], r)
        BY <2>2, <2>3, <3>1
      <3> QED
        BY <2>1, <3>1, <3>2 DEF CanOverlap, Apart
    <2> QED
      BY <2>4, <2>5, <2>6, <2>7
  <1>5. FitInv'
    BY <1>1, <1>2, FitSame DEF CacheInv, slabVars
  <1>6. HeadInv'
    BY <1>1 DEF CacheInv, HeadInv
  <1>7. HitInv(Writes)'
    BY <1>1, <1>2, <1>3, HitSame DEF CacheInv
  <1>8. CellInv'
    <2>1. Unpatched' = Unpatched
      BY <1>1 DEF Unpatched
    <2>2. \A i \in Unpatched : Payload(io_queue[i])' = Payload(io_queue[i])
      BY <1>1, <1>2, <1>3, PayloadSame
    <2>3. \A a : Hits(a)' = Hits(a)
      BY <1>1, <1>2, <1>3, <2>1, <2>2 DEF Hits
    <2>4. \A p : Unread(p) => Unread(p)'
      BY <1>1, <1>2, <1>3 DEF Unread, FirstRead, PageAt, PageOf, Page, Addr
    <2> QED
      BY <1>1, <2>2, <2>3, <2>4, CellSame DEF CacheInv
  <1> QED
    BY <1>4, <1>5, <1>6, <1>7, <1>8 DEF CacheInv

\* Drained and GetEvents: all was written when the callbacks start.
LEMMA CacheTurn ==
  ASSUME TypeOK, LoopInv, QueueInv, CacheInv, Drained \/ GetEvents \/ UNCHANGED vars
  PROVE  CacheInv'
  <1>1. /\ UNCHANGED <<req, batch_queue, index, io_queue>> /\ UNCHANGED slabVars
        /\ Pending' = Pending
        /\ \A i \in Pending : Request(io_queue[i])' = Request(io_queue[i])
    BY TurnQueue
  <1>2. UNCHANGED <<disk, cache>>
    BY DEF Drained, GetEvents, vars, fileVars
  <1>3. io_queue \in Seq(Aio) /\ Len(io_queue) \in Nat /\ DOMAIN io_queue = 1 .. Len(io_queue) /\ pos \in Nat
    BY DEF TypeOK
  <1>4. \A i \in DOMAIN io_queue : Request(io_queue[i])' = Request(io_queue[i])
    BY <1>1 DEF Request
  <1>5. Unpatched' = Unpatched /\ \A p : Unread(p) => Unread(p)'
    <2>1. \A i \in DOMAIN io_queue : FirstRead(i)' = FirstRead(i) /\ PageAt(i)' = PageAt(i)
      BY <1>1, <1>4 DEF FirstRead, PageAt, PageOf, Page, Addr
    <2>2. CASE Drained
      <3>1. phase = "drain" /\ pos = 0 /\ phase' = "submit" /\ pos' = 1
        BY <2>2 DEF Drained, LoopInv
      <3> QED
        BY <1>1, <1>3, <2>1, <3>1 DEF Unpatched, Unread
    <2>3. CASE GetEvents
      <3>1. phase = "submit" /\ pos > Len(io_queue)
        BY <2>3 DEF GetEvents
      <3>2. \A i \in DOMAIN io_queue : i < pos
        BY <1>3, <3>1
      <3>3. \A p : ~ Unread(p)
        BY <1>3, <3>2 DEF Unread
      <3>4. CASE io_queue = <<>>
        BY <1>1, <3>3, <3>4 DEF Unpatched
      <3>5. CASE io_queue # <<>>
        <4>1. phase' = "finish" /\ pos' = 1
          BY <2>3, <3>5 DEF GetEvents
        <4> QED
          BY <1>1, <1>3, <3>1, <3>2, <3>3, <4>1 DEF Unpatched
      <3> QED
        BY <3>4, <3>5
    <2>4. CASE UNCHANGED vars
      BY <1>1, <2>1, <2>4 DEF vars, Unpatched, Unread
    <2> QED
      BY <2>2, <2>3, <2>4
  <1>6. ScansApart'
    BY <1>1 DEF CacheInv, ScansApart
  <1>7. FitInv'
    BY <1>1, FitSame DEF CacheInv, slabVars
  <1>8. HeadInv'
    BY <1>2 DEF CacheInv, HeadInv
  <1>9. HitInv(Writes)'
    <2>1. phase' # "finish" => phase # "finish"
      BY DEF Drained, GetEvents, vars
    <2> QED
      BY <1>1, <1>2, <1>4, <2>1, HitSame DEF CacheInv
  <1>10. CellInv'
    <2>1. Unpatched \subseteq DOMAIN io_queue
      BY DEF Unpatched
    <2>2. \A i \in Unpatched : Payload(io_queue[i])' = Payload(io_queue[i])
      BY <1>1, <1>4, <2>1, PayloadSame
    <2>3. \A a : Hits(a)' = Hits(a)
      BY <1>1, <1>4, <1>5, <2>1, <2>2 DEF Hits
    <2> QED
      BY <1>2, <1>5, <2>2, <2>3, CellSame DEF CacheInv
  <1> QED
    BY <1>6, <1>7, <1>8, <1>9, <1>10 DEF CacheInv

-----------------------------------------------------------------------------
(* "submit" *)

\* An event is set: the AIO joins those that are written and not patched.
LEMMA SetEventCells ==
  ASSUME TypeOK, LoopInv, QueueInv, FitInv, NEW ops, HitInv(ops), NEW ev, SetEvent(ev), DOMAIN cache' = DOMAIN cache
  PROVE  /\ pos \in Pending /\ pos \in Nat /\ phase = "submit"
         /\ req' = req /\ FitInv' /\ HitInv(ops)'
         /\ \A i \in Pending : Payload(io_queue[i])' = Payload(io_queue[i])
         /\ Unpatched \subseteq Pending
         /\ \A i \in Unpatched : i \in Nat /\ i < pos
         /\ \A a : Hits(a)' = Hits(a) \cup
              IF /\ Request(io_queue[pos]).op \in Writes /\ io_queue[pos].hit /\ ev # "err"
                 /\ a \in DOMAIN Payload(io_queue[pos])
              THEN {pos} ELSE {}
         /\ \A p : Unread(p) => Unread(p)' \/ (FirstRead(pos) /\ PageAt(pos) = p)
         /\ \A i \in Pending : i > pos /\ FirstRead(i) => Unread(PageAt(i))'
  <1>1. /\ phase = "submit" /\ pos \in DOMAIN io_queue
        /\ UNCHANGED <<req, index, phase>> /\ UNCHANGED slabVars
        /\ Pending = DOMAIN io_queue /\ Pending' = Pending /\ DOMAIN io_queue' = DOMAIN io_queue
        /\ \A i \in Pending : Request(io_queue[i])' = Request(io_queue[i])
        /\ \A i \in Pending :
             /\ io_queue'[i].c = io_queue[i].c /\ io_queue'[i].slab = io_queue[i].slab
             /\ io_queue'[i].hit = io_queue[i].hit
             /\ io_queue'[i].ev = IF i = pos THEN ev ELSE io_queue[i].ev
    BY SetEventQueue
  <1>2. pos' = pos + 1
    BY DEF SetEvent
  <1>3. \A i \in Pending : i \in Nat
    BY <1>1 DEF TypeOK
  <1>4. FitInv'
    BY <1>1, FitSame DEF slabVars
  <1>5. HitInv(ops)'
    BY <1>1, HitSame
  <1>6. \A i \in Pending : Payload(io_queue[i])' = Payload(io_queue[i])
    BY <1>1, PayloadSame
  <1>7. \A i \in Pending : FirstRead(i)' = FirstRead(i) /\ PageAt(i)' = PageAt(i)
    BY <1>1 DEF FirstRead, PageAt, PageOf, Page, Addr
  <1>8. /\ Unpatched = {i \in Pending : i < pos}
        /\ Unpatched' = {i \in Pending : i < pos + 1}
    BY <1>1, <1>2 DEF Unpatched
  <1>9. Unpatched' = Unpatched \cup {pos} /\ Unpatched \subseteq Pending /\ pos \notin Unpatched
    BY <1>1, <1>3, <1>8
  <1>10. ASSUME NEW a
         PROVE  Hits(a)' = Hits(a) \cup
                  IF /\ Request(io_queue[pos]).op \in Writes /\ io_queue[pos].hit /\ ev # "err"
                     /\ a \in DOMAIN Payload(io_queue[pos])
                  THEN {pos} ELSE {}
    <2> DEFINE W(i) == Request(io_queue[i]).op \in Writes
               D(i) == a \in DOMAIN Payload(io_queue[i])
               X(i) == W(i) /\ io_queue[i].hit /\ io_queue[i].ev # "err" /\ D(i)
               Y(i) == W(i) /\ io_queue[i].hit /\ (IF i = pos THEN ev ELSE io_queue[i].ev) # "err" /\ D(i)
    <2>1. Hits(a) = {i \in Unpatched : X(i)}
      BY DEF Hits
    <2>2. Hits(a)' = {i \in Unpatched' : Y(i)}
      BY <1>1, <1>6, <1>9 DEF Hits
    <2>3. \A i \in Unpatched : X(i) = Y(i)
      BY <1>9
    <2>4. Y(pos) = (W(pos) /\ io_queue[pos].hit /\ ev # "err" /\ D(pos))
      OBVIOUS
    <2> HIDE DEF X, Y
    <2>5. Hits(a)' = Hits(a) \cup IF Y(pos) THEN {pos} ELSE {}
      BY <1>9, <2>1, <2>2, <2>3
    <2> QED
      BY <2>4, <2>5
  <1>11. ASSUME NEW p, Unread(p), ~ (FirstRead(pos) /\ PageAt(pos) = p)
         PROVE  Unread(p)'
    <2>1. PICK i \in DOMAIN io_queue : i >= pos /\ FirstRead(i) /\ PageAt(i) = p
      BY <1>11 DEF Unread
    <2>2. i # pos
      BY <1>11, <2>1
    <2>3. i \in Pending /\ i >= pos + 1
      BY <1>1, <1>3, <2>1, <2>2
    <2> QED
      BY <1>1, <1>2, <1>7, <2>1, <2>3 DEF Unread
  <1>12. ASSUME NEW i \in Pending, i > pos, FirstRead(i)
         PROVE  Unread(PageAt(i))'
    <2>1. i >= pos + 1
      BY <1>1, <1>3, <1>12
    <2>2. i \in DOMAIN io_queue' /\ i >= pos' /\ FirstRead(i)' /\ phase' # "finish"
      BY <1>1, <1>2, <1>7, <1>12, <2>1
    <2> QED
      BY <2>2 DEF Unread
  <1> QED
    BY <1>1, <1>3, <1>4, <1>5, <1>6, <1>8, <1>9, <1>10, <1>11, <1>12

\* FakeSubmit, and a pwrite that fails.
LEMMA CacheNoIo ==
  ASSUME TypeOK, LoopInv, QueueInv, CacheInv, FakeRead \/ PwriteFails
  PROVE  CacheInv'
  <1>1. PICK ev : /\ SetEvent(ev) /\ UNCHANGED <<disk, cache>>
                  /\ ~ (Request(io_queue[pos]).op \in Writes /\ ev # "err") /\ ~ FirstRead(pos)
    BY DEF FakeRead, PwriteFails, fileVars, FirstRead, Writes
  <1>2. /\ req' = req /\ FitInv' /\ HitInv(Writes)'
        /\ \A i \in Pending : Payload(io_queue[i])' = Payload(io_queue[i])
        /\ Unpatched \subseteq Pending
    BY <1>1, SetEventCells DEF CacheInv
  <1>3. \A a : Hits(a)' = Hits(a)
    <2>1. \A a : Hits(a)' = Hits(a) \cup
            IF /\ Request(io_queue[pos]).op \in Writes /\ io_queue[pos].hit /\ ev # "err"
               /\ a \in DOMAIN Payload(io_queue[pos])
            THEN {pos} ELSE {}
      BY <1>1, SetEventCells DEF CacheInv
    <2> QED
      BY <1>1, <2>1
  <1>4. \A p : Unread(p) => Unread(p)'
    BY <1>1, SetEventCells DEF CacheInv
  <1>5. CellInv'
    BY <1>1, <1>2, <1>3, <1>4, CellSame DEF CacheInv
  <1>6. HeadInv'
    BY <1>1 DEF CacheInv, HeadInv
  <1>7. ScansApart'
    BY <1>2 DEF CacheInv, ScansApart
  <1> QED
    BY <1>2, <1>5, <1>6, <1>7 DEF CacheInv

\* No patch is to come for the page a pread fills.
LEMMA CachePread ==
  ASSUME TypeOK, LoopInv, QueueInv, CacheInv, Pread
  PROVE  CacheInv'
  <1>1. PICK q : q = PageAt(pos)
    OBVIOUS
  <1>2. SetEvent("ok") /\ cache' = [cache EXCEPT ![q] = PageFrame(q)] /\ UNCHANGED disk /\ FirstRead(pos)
        /\ Request(io_queue[pos]).op \notin Writes
    BY <1>1 DEF Pread, PageAt, FirstRead, Writes
  <1>3. DOMAIN cache' = DOMAIN cache /\ \A p \in DOMAIN cache : cache'[p] = IF p = q THEN PageFrame(q) ELSE cache[p]
    BY <1>2
  <1>4. /\ pos \in Pending /\ phase = "submit"
        /\ req' = req /\ FitInv' /\ HitInv(Writes)'
        /\ \A i \in Pending : Payload(io_queue[i])' = Payload(io_queue[i])
        /\ Unpatched \subseteq Pending
        /\ \A i \in Unpatched : i \in Nat /\ i < pos
    BY <1>2, <1>3, SetEventCells DEF CacheInv
  <1>5. \A a : Hits(a)' = Hits(a)
    <2>1. \A a : Hits(a)' = Hits(a) \cup
            IF /\ Request(io_queue[pos]).op \in Writes /\ io_queue[pos].hit /\ "ok" # "err"
               /\ a \in DOMAIN Payload(io_queue[pos])
            THEN {pos} ELSE {}
      BY <1>2, <1>3, SetEventCells DEF CacheInv
    <2> QED
      BY <1>2, <2>1
  <1>6. \A p : Unread(p) => Unread(p)' \/ p = q
    BY <1>1, <1>2, <1>3, SetEventCells DEF CacheInv
  <1>7. \A a : DiskAt(a)' = DiskAt(a)
    BY <1>2 DEF DiskAt
  <1>8. \A a \in PageAddrs(q) : Hits(a) = {}
    <2> SUFFICES ASSUME NEW a \in PageAddrs(q), NEW i \in Hits(a) PROVE FALSE
      OBVIOUS
    <2>1. /\ i \in Unpatched /\ Request(io_queue[i]).op \in Writes
          /\ io_queue[i].hit /\ a \in DOMAIN Payload(io_queue[i])
      BY DEF Hits
    <2>2. i \in Pending /\ i < pos
      BY <1>4, <2>1
    <2>3. a \in PageAddrs(PageAt(i))
      BY <2>1, <2>2, PayloadInPage DEF CacheInv
    <2>4. PageAt(i) \in Nat \X Nat /\ q \in Nat \X Nat
      BY <1>1, <1>4, <2>2, AioType
    <2>5. PageAt(i) = PageAt(pos)
      BY <1>1, <2>3, <2>4, PagesApart
    <2>6. i \in DOMAIN io_queue /\ pos \in DOMAIN io_queue
      BY <1>4, <2>2 DEF Pending
    <2> QED
      BY <1>2, <1>4, <2>1, <2>2, <2>5, <2>6 DEF CacheInv, HitInv
  <1>9. CellInv'
    <2> SUFFICES ASSUME NEW p \in DOMAIN cache, ~ Unread(p)', NEW a \in PageAddrs(p)
                 PROVE  /\ Hits(a)' = {} => CellAt(cache'[p], a) = DiskAt(a)'
                        /\ \A m \in Hits(a)' : (\A j \in Hits(a)' : j <= m) => Payload(io_queue[m])'[a] = DiskAt(a)'
      BY <1>3 DEF CellInv, CellAt, PageAddrs
    <2>1. CASE p = q
      <3>1. CellAt(cache'[p], a) = DiskAt(a)
        BY <1>3, <2>1, FrameAt
      <3> QED
        BY <1>5, <1>7, <1>8, <2>1, <3>1
    <2>2. CASE p # q
      <3>1. /\ Hits(a) = {} => CellAt(cache[p], a) = DiskAt(a)
            /\ \A m \in Hits(a) : (\A j \in Hits(a) : j <= m) => Payload(io_queue[m])[a] = DiskAt(a)
        BY <1>6, <2>2 DEF CacheInv, CellInv
      <3>2. Hits(a) \subseteq Pending
        BY <1>4 DEF Hits
      <3> QED
        BY <1>3, <1>4, <1>5, <1>7, <2>2, <3>1, <3>2
    <2> QED
      BY <2>1, <2>2
  <1>10. HeadInv'
    BY <1>2 DEF CacheInv, HeadInv
  <1>11. ScansApart'
    BY <1>4 DEF CacheInv, ScansApart
  <1> QED
    BY <1>4, <1>9, <1>10, <1>11 DEF CacheInv

\* Where a write puts the first cell of an item, the page has room for the item.
LEMMA HeadWritten ==
  ASSUME TypeOK, LoopInv, QueueInv, CacheInv, NEW i \in Pending, Request(io_queue[i]).op \in Writes,
         NEW a \in DOMAIN Payload(io_queue[i]), NEW k \in Keys, NEW v, Payload(io_queue[i])[a] = ItemCell(k, v, 0)
  PROVE  \A n \in 0 .. ItemSize[k] - 1 : <<a[1], a[2] + n>> \in PageAddrs(Page(a))
  <1>1. PICK slab, j, w : slab = io_queue[i].slab /\ j = Request(io_queue[i]).key /\ w = Request(io_queue[i]).val
    OBVIOUS
  <1>2. slab \in Slab /\ j \in Keys
    BY <1>1, AioType
  <1>3. slab.size \in Nat \ {0} /\ slab.index \in Nat /\ slab.size * slab.index \in Nat
        /\ ItemSize[j] \in Nat
    <2>1. slab.size \in Nat \ {0} /\ slab.index \in Nat
      BY <1>2, SlabAssumption DEF Slab
    <2> QED
      BY <1>2, <2>1, FileAssumption
  <1>4. Request(io_queue[i]).op # "DELETE"
    <2> SUFFICES ASSUME Request(io_queue[i]).op = "DELETE" PROVE FALSE
      OBVIOUS
    <2>1. Payload(io_queue[i])[a] = Zero
      BY DEF Payload, ZeroCells
    <2> QED
      BY <2>1 DEF Zero, ItemCell
  <1>5. /\ Payload(io_queue[i]) = ItemCells(slab, j, w)
        /\ ItemSize[j] <= slab.size
    BY <1>1, <1>4 DEF Payload, CacheInv, FitInv, PendingOps, Writes
  <1>6. PICK n \in 0 .. ItemSize[j] - 1 : a = Addr(slab, n)
    BY <1>5 DEF ItemCells
  <1>7. a[2] - slab.size * slab.index = n
    <2>1. a[2] = slab.size * slab.index + n
      BY <1>6 DEF Addr
    <2>2. PICK x \in Nat : x = slab.size * slab.index
      BY <1>3
    <2> QED
      BY <1>3, <2>1, <2>2
  <1>8. Payload(io_queue[i])[a] = ItemCell(j, w, n)
    BY <1>5, <1>7 DEF ItemCells
  <1>9. k = j /\ n = 0
    BY <1>8 DEF ItemCell
  <1>10. a = Addr(slab, 0)
    BY <1>6, <1>9
  <1>11. ASSUME NEW m \in 0 .. ItemSize[k] - 1 PROVE <<a[1], a[2] + m>> \in PageAddrs(Page(a))
    <2>1. m \in 0 .. slab.size - 1
      BY <1>3, <1>5, <1>9
    <2>2. <<a[1], a[2] + m>> = Addr(slab, m)
      <3>1. PICK x \in Nat : x = slab.size * slab.index
        BY <1>3
      <3> QED
        BY <1>10, <2>1, <3>1 DEF Addr
    <2> QED
      BY <1>2, <1>10, <2>1, <2>2, SlabInPage DEF PageOf
  <1> QED
    BY <1>11

\* A pwrite: its page is patched later, or read later, or has no frame.
LEMMA CachePwrite ==
  ASSUME TypeOK, LoopInv, QueueInv, CacheInv, Pwrite
  PROVE  CacheInv'
  <1>1. PICK new : new = Payload(io_queue[pos])
    OBVIOUS
  <1>2. SetEvent("ok") /\ Request(io_queue[pos]).op \in Writes /\ disk' = Over(disk, new) /\ cache' = cache
        /\ ~ FirstRead(pos)
    BY <1>1 DEF Pwrite, FirstRead, Writes
  <1>3. /\ pos \in Pending /\ pos \in Nat /\ phase = "submit"
        /\ req' = req /\ FitInv' /\ HitInv(Writes)'
        /\ \A i \in Pending : Payload(io_queue[i])' = Payload(io_queue[i])
        /\ Unpatched \subseteq Pending
        /\ \A i \in Unpatched : i \in Nat /\ i < pos
    BY <1>2, SetEventCells DEF CacheInv
  <1>4. \A a : Hits(a)' = Hits(a) \cup IF io_queue[pos].hit /\ a \in DOMAIN new THEN {pos} ELSE {}
    BY <1>1, <1>2, SetEventCells DEF CacheInv
  <1>5. \A p : Unread(p) => Unread(p)'
    BY <1>2, SetEventCells DEF CacheInv
  <1>6. \A a : DiskAt(a)' = IF a \in DOMAIN new THEN new[a] ELSE DiskAt(a)
    BY <1>2 DEF DiskAt, Over
  <1>7. CellInv'
    <2> SUFFICES ASSUME NEW p \in DOMAIN cache, ~ Unread(p)', NEW a \in PageAddrs(p)
                 PROVE  /\ Hits(a)' = {} => CellAt(cache'[p], a) = DiskAt(a)'
                        /\ \A m \in Hits(a)' : (\A j \in Hits(a)' : j <= m) => Payload(io_queue[m])'[a] = DiskAt(a)'
      BY <1>2 DEF CellInv, CellAt, PageAddrs
    <2>1. Hits(a) \subseteq Unpatched
      BY DEF Hits
    <2>2. CASE a \notin DOMAIN new
      <3>1. /\ Hits(a) = {} => CellAt(cache[p], a) = DiskAt(a)
            /\ \A m \in Hits(a) : (\A j \in Hits(a) : j <= m) => Payload(io_queue[m])[a] = DiskAt(a)
        BY <1>5 DEF CacheInv, CellInv
      <3>2. Hits(a)' = Hits(a) /\ DiskAt(a)' = DiskAt(a)
        BY <1>4, <1>6, <2>2
      <3> QED
        BY <1>2, <1>3, <2>1, <3>1, <3>2
    <2>3. CASE a \in DOMAIN new
      <3>1. PageAt(pos) = p
        <4>1. a \in PageAddrs(PageAt(pos))
          BY <1>1, <1>2, <1>3, <2>3, PayloadInPage DEF CacheInv
        <4>2. PageAt(pos) \in Nat \X Nat /\ p \in Nat \X Nat
          BY <1>3, AioType DEF TypeOK
        <4> QED
          BY <4>1, <4>2, PagesApart
      <3>2. io_queue[pos].hit
        <4> SUFFICES ASSUME ~ io_queue[pos].hit PROVE FALSE
          OBVIOUS
        <4>1. Pending \subseteq DOMAIN io_queue /\ Pending = DOMAIN io_queue
          BY <1>3 DEF Pending
        <4>2. PICK r \in DOMAIN io_queue : pos < r /\ FirstRead(r) /\ PageAt(r) = PageAt(pos)
          BY <1>2, <1>3, <3>1, <4>1 DEF CacheInv, HitInv, Lookup
        <4>3. r \in Pending /\ r > pos
          <5>1. r \in Nat
            BY DEF TypeOK
          <5> QED
            BY <1>3, <4>1, <4>2, <5>1
        <4>4. Unread(PageAt(r))'
          BY <1>2, <4>2, <4>3, SetEventCells DEF CacheInv
        <4>5. PageAt(r)' = p
          <5>1. io_queue'[r].slab = io_queue[r].slab
            BY <1>2, <4>3, SetEventQueue
          <5> QED
            BY <3>1, <4>2, <5>1 DEF PageAt, PageOf, Page, Addr
        <4> QED
          BY <4>4, <4>5 DEF Unread
      <3>3. Hits(a)' = Hits(a) \cup {pos} /\ DiskAt(a)' = new[a]
        BY <1>4, <1>6, <2>3, <3>2
      <3>4. ASSUME NEW m \in Hits(a)', \A j \in Hits(a)' : j <= m PROVE Payload(io_queue[m])'[a] = DiskAt(a)'
        <4>1. m = pos
          <5>1. m = pos \/ m \in Unpatched
            BY <2>1, <3>3
          <5>2. pos <= m
            BY <3>3, <3>4
          <5>3. CASE m \in Unpatched
            <6>1. m \in Nat /\ m < pos /\ pos \in Nat
              BY <1>3, <5>3
            <6> QED
              BY <5>2, <6>1
          <5> QED
            BY <5>1, <5>3
        <4> QED
          BY <1>1, <1>3, <3>3, <4>1
      <3> QED
        BY <3>3, <3>4
    <2> QED
      BY <2>2, <2>3
  <1>8. HeadInv'
    <2> SUFFICES ASSUME NEW a \in DOMAIN disk', NEW k \in Keys, NEW v \in Values, disk'[a] = ItemCell(k, v, 0)
                 PROVE  \A i \in 0 .. ItemSize[k] - 1 : <<a[1], a[2] + i>> \in PageAddrs(Page(a))
      BY DEF HeadInv, ItemCell, PageAddrs, Page
    <2>1. CASE a \in DOMAIN new
      <3>1. new[a] = ItemCell(k, v, 0)
        BY <1>2, <2>1 DEF Over
      <3> QED
        BY <1>1, <1>2, <1>3, <2>1, <3>1, HeadWritten
    <2>2. CASE a \notin DOMAIN new
      <3>1. a \in DOMAIN disk /\ disk[a] = ItemCell(k, v, 0)
        BY <1>2, <2>2 DEF Over
      <3> QED
        BY <3>1 DEF CacheInv, HeadInv
    <2> QED
      BY <2>1, <2>2
  <1>9. ScansApart'
    BY <1>3 DEF CacheInv, ScansApart
  <1> QED
    BY <1>3, <1>7, <1>8, <1>9 DEF CacheInv

-----------------------------------------------------------------------------
(* "finish" *)

\* The AIOs to come are what they were.
LEMMA HitFinish ==
  ASSUME TypeOK, LoopInv, QueueInv, FitInv, NEW ops, HitInv(ops), NEW op, NEW res, Finish(op, res),
         DOMAIN cache' = DOMAIN cache,
         \A k \in DOMAIN index' : ItemSize[k] <= index'[k].size
  PROVE  FitInv' /\ HitInv(ops)'
  <1>1. /\ UNCHANGED slabVars
        /\ (phase' = "finish" /\ io_queue' = io_queue) \/ io_queue' = <<>>
    BY DEF Finish
  <1>2. /\ Pending' \subseteq Pending
        /\ \A i \in Pending' : /\ io_queue'[i] = io_queue[i]
                               /\ Request(io_queue[i])' = Request(io_queue[i])
    BY FinishQueue
  <1>3. FitInv'
    <2>1. \A o : PendingOps(o)' \subseteq PendingOps(o) /\ PendingOps(o)' \subseteq Pending'
      BY <1>2 DEF PendingOps
    <2> QED
      BY <1>1, <1>2, <2>1 DEF FitInv, slabVars
  <1>4. HitInv(ops)'
    <2>1. CASE phase' = "finish" /\ io_queue' = io_queue
      BY <2>1 DEF HitInv, Lookup, PageAt, PageOf, Page, Addr
    <2>2. CASE io_queue' = <<>>
      BY <2>2 DEF HitInv
    <2> QED
      BY <1>1, <2>1, <2>2
  <1> QED
    BY <1>3, <1>4

\* WriteCallback patches the page with the bytes its write left on disk, unless a
\* later write is still to patch it.
LEMMA CacheFinish ==
  ASSUME TypeOK, LoopInv, QueueInv, CacheInv, NEW op, NEW res, Finish(op, res),
         op \notin Writes => UNCHANGED cache,
         op \in Writes => PatchPage(io_queue[pos]),
         \A k \in DOMAIN index' : ItemSize[k] <= index'[k].size
  PROVE  CacheInv'
  <1>1. PICK e, q, new : e = io_queue[pos] /\ q = PageAt(pos) /\ new = Payload(io_queue[pos])
    OBVIOUS
  <1>2. /\ phase = "finish" /\ pos \in Nat /\ UNCHANGED disk /\ UNCHANGED slabVars /\ Request(e).op = op
        /\ \/ phase' = "finish" /\ pos' = pos + 1 /\ io_queue' = io_queue
           \/ phase' = "drain" /\ io_queue' = <<>>
    BY <1>1 DEF Finish, TypeOK
  <1>3. /\ pos \in Pending
        /\ Pending' = Pending \ {pos}
        /\ \A i \in Pending' : /\ io_queue'[i] = io_queue[i]
                               /\ Request(io_queue[i])' = Request(io_queue[i])
    BY FinishQueue
  <1>4. cache' = IF op \in Writes /\ Success(e) /\ e.hit
                 THEN [cache EXCEPT ![q] = Over(cache[q], new)] ELSE cache
    BY <1>1 DEF PatchPage, PageAt
  <1>5. DOMAIN cache' = DOMAIN cache
    BY <1>4
  <1>6. ScansApart'
    <2>1. e.c \in Clients
      BY <1>1, <1>3, AioType
    <2>2. \A d \in Clients : req'[d] = IF d = e.c THEN NoReq ELSE req[d]
      BY <1>1, <2>1 DEF Finish, FinishRequest, TypeOK
    <2> QED
      BY <2>2 DEF CacheInv, ScansApart, NoReq, Writes
  <1>7. FitInv' /\ HitInv(Writes)'
    BY <1>5, HitFinish DEF CacheInv
  <1>8. HeadInv'
    BY <1>2 DEF CacheInv, HeadInv
  <1>9. Unpatched = Pending /\ Unpatched' = Pending'
    <2>1. Unpatched = Pending
      BY <1>2 DEF Unpatched, Pending
    <2>2. Unpatched' = Pending'
      BY <1>2 DEF Unpatched, Pending
    <2> QED
      BY <2>1, <2>2
  <1>10. \A i \in Pending' : Payload(io_queue[i])' = Payload(io_queue[i])
    BY <1>3, PayloadSame
  <1>11. \A a : Hits(a)' = Hits(a) \ {pos}
    <2> TAKE a
    <2>1. Hits(a)' = {i \in Pending' : /\ Request(io_queue[i]).op \in Writes
                                       /\ io_queue[i].hit /\ io_queue[i].ev # "err"
                                       /\ a \in DOMAIN Payload(io_queue[i])}
      BY <1>3, <1>9, <1>10 DEF Hits
    <2> QED
      BY <1>3, <1>9, <2>1 DEF Hits
  <1>12. \A p : ~ Unread(p)
    BY <1>2 DEF Unread
  <1>13. \A a : DiskAt(a)' = DiskAt(a)
    BY <1>2 DEF DiskAt
  <1>14. CellInv'
    <2> SUFFICES ASSUME NEW p \in DOMAIN cache, NEW a \in PageAddrs(p)
                 PROVE  /\ Hits(a)' = {} => CellAt(cache'[p], a) = DiskAt(a)'
                        /\ \A m \in Hits(a)' : (\A j \in Hits(a)' : j <= m) => Payload(io_queue[m])'[a] = DiskAt(a)'
      BY <1>5 DEF CellInv, CellAt, PageAddrs
    <2>1. /\ Hits(a) = {} => CellAt(cache[p], a) = DiskAt(a)
          /\ \A m \in Hits(a) : (\A j \in Hits(a) : j <= m) => Payload(io_queue[m])[a] = DiskAt(a)
      BY <1>12 DEF CacheInv, CellInv
    <2>2. Hits(a) \subseteq Pending
      BY <1>9 DEF Hits
    <2>3. pos \in Hits(a) <=> op \in Writes /\ e.hit /\ Success(e) /\ a \in DOMAIN new
      BY <1>1, <1>2, <1>3, <1>9 DEF Hits, Success
    <2>4. ASSUME NEW m \in Hits(a)', \A j \in Hits(a)' : j <= m
          PROVE  Payload(io_queue[m])'[a] = DiskAt(a)'
      <3>1. m \in Hits(a) /\ m # pos /\ m \in Pending'
        BY <1>3, <1>11, <2>2
      <3>2. m \in Nat /\ pos <= m
        BY <1>2, <2>2, <3>1 DEF Pending, TypeOK
      <3>3. \A j \in Hits(a) : j <= m
        BY <1>11, <2>4, <3>2
      <3> QED
        BY <1>10, <1>13, <2>1, <3>1, <3>3
    <2>5. ASSUME Hits(a)' = {}
          PROVE  CellAt(cache'[p], a) = DiskAt(a)
      <3>1. Hits(a) \subseteq {pos}
        BY <1>11, <2>5
      <3>2. CASE pos \in Hits(a)
        <4>1. new[a] = DiskAt(a)
          <5>1. \A j \in Hits(a) : j <= pos
            BY <1>2, <3>1
          <5> QED
            BY <1>1, <2>1, <3>2, <5>1
        <4>2. q = p
          <5>1. a \in PageAddrs(q)
            BY <1>1, <1>2, <1>3, <2>3, <3>2, PayloadInPage DEF CacheInv
          <5>2. q \in Nat \X Nat /\ p \in Nat \X Nat
            BY <1>1, <1>3, AioType DEF TypeOK
          <5> QED
            BY <5>1, <5>2, PagesApart
        <4>3. cache'[p] = Over(cache[p], new)
          BY <1>4, <2>3, <3>2, <4>2
        <4> QED
          BY <2>3, <3>2, <4>1, <4>3, OverAt
      <3>3. CASE pos \notin Hits(a)
        <4>1. CellAt(cache[p], a) = DiskAt(a)
          BY <2>1, <3>1, <3>3
        <4>2. CASE op \in Writes /\ Success(e) /\ e.hit /\ p = q
          <5>1. a \notin DOMAIN new
            BY <2>3, <3>3, <4>2
          <5>2. cache'[p] = Over(cache[p], new)
            BY <1>4, <4>2
          <5> QED
            BY <4>1, <5>1, <5>2, OverAt
        <4>3. CASE ~ (op \in Writes /\ Success(e) /\ e.hit /\ p = q)
          <5>1. cache'[p] = cache[p]
            BY <1>4, <4>3
          <5> QED
            BY <4>1, <5>1
        <4> QED
          BY <4>2, <4>3
      <3> QED
        BY <3>2, <3>3
    <2> QED
      BY <1>13, <2>4, <2>5
  <1> QED
    BY <1>6, <1>7, <1>8, <1>14 DEF CacheInv

\* AIO::Finish: the slab PutCallback puts in the index has room for the item.
LEMMA CacheFinishAio ==
  ASSUME TypeOK, LoopInv, QueueInv, CacheInv, FinishAio
  PROVE  CacheInv'
  <1>1. \A k \in DOMAIN index : ItemSize[k] <= index[k].size
    BY DEF CacheInv, FitInv
  <1>2. CASE FinishGet
    <2>1. PICK res : Finish("GET", res)
      BY <1>2 DEF FinishGet
    <2>2. UNCHANGED <<cache, index>>
      BY <1>2 DEF FinishGet
    <2> QED
      BY <1>1, <2>1, <2>2, CacheFinish DEF Writes
  <1>3. CASE FinishUpdate
    <2>1. Finish("UPDATE", WriteResult(io_queue[pos])) /\ PatchPage(io_queue[pos]) /\ index' = index
      BY <1>3 DEF FinishUpdate
    <2> QED
      BY <1>1, <2>1, CacheFinish DEF Writes
  <1>4. CASE FinishPut
    <2>1. PICK e, k : e = io_queue[pos] /\ k = Request(io_queue[pos]).key
      OBVIOUS
    <2>2. /\ Finish("PUT", WriteResult(e)) /\ PatchPage(e)
          /\ index' = IF Success(e) /\ k \notin DOMAIN index
                      THEN [j \in DOMAIN index \cup {k} |-> IF j = k THEN e.slab ELSE index[j]]
                      ELSE index
      BY <1>4, <2>1 DEF FinishPut
    <2>3. ItemSize[k] <= e.slab.size
      <3>1. pos \in Pending /\ Request(io_queue[pos]).op = "PUT"
        BY <2>2, FinishQueue DEF Finish
      <3> QED
        BY <2>1, <3>1 DEF CacheInv, FitInv, PendingOps
    <2>4. \A j \in DOMAIN index' : ItemSize[j] <= index'[j].size
      BY <1>1, <2>2, <2>3
    <2> QED
      BY <2>1, <2>2, <2>4, CacheFinish DEF Writes
  <1>5. CASE FinishDelete
    <2>1. PICK e, k : e = io_queue[pos] /\ k = Request(io_queue[pos]).key
      OBVIOUS
    <2>2. /\ Finish("DELETE", WriteResult(e)) /\ PatchPage(e)
          /\ index' = IF Success(e) THEN [j \in DOMAIN index \ {k} |-> index[j]] ELSE index
      BY <1>5, <2>1 DEF FinishDelete
    <2>3. \A j \in DOMAIN index' : ItemSize[j] <= index'[j].size
      BY <1>1, <2>2
    <2> QED
      BY <2>1, <2>2, <2>3, CacheFinish DEF Writes
  <1> QED
    BY <1>2, <1>3, <1>4, <1>5 DEF FinishAio

-----------------------------------------------------------------------------
(* The cache is like the files *)

\* At the start there is no page.
LEMMA CacheInit == Init => CacheInv
  <1> SUFFICES ASSUME Init PROVE CacheInv
    OBVIOUS
  <1>1. /\ free_slab = [s \in SlabSizes |-> <<>>] /\ disk = << >> /\ cache = << >> /\ index = << >>
        /\ io_queue = <<>> /\ req = [c \in Clients |-> NoReq]
    BY DEF Init, SlabInit, FileInit
  <1>2. ScansApart
    BY <1>1 DEF ScansApart, NoReq
  <1>3. FitInv
    BY <1>1 DEF FitInv, PendingOps, Pending
  <1> QED
    BY <1>1, <1>2, <1>3 DEF CacheInv, HeadInv, HitInv, CellInv

\* Every step keeps the queues and the cache in order.
LEMMA CacheStep ==
  ASSUME Apart, TypeOK, LoopInv, QueueInv, CacheInv, TypeOK', [Next]_vars
  PROVE  QueueInv' /\ CacheInv'
  <1>1. ASSUME NEW c \in Clients, ProcessRequest(c)
        PROVE  QueueInv' /\ CacheInv'
    <2>1. CASE GetMiss(c) \/ UpdateMiss(c) \/ DeleteMiss(c) \/ PutExists(c)
      <3>1. PICK op, res : Pop(c, op) /\ Refuse(c, res)
        BY <2>1 DEF GetMiss, UpdateMiss, DeleteMiss, Miss, PutExists
      <3>2. FinishRequest(c, res) /\ UNCHANGED <<io_queue, index, slabVars, disk>> /\ cache' = cache
        BY <3>1 DEF Refuse, fileVars
      <3> QED
        BY <3>1, <3>2, CacheRefuse, AnswerQueue
    <2>2. CASE Get(c)
      BY <2>2, GetEnqueues, CacheEnqueue, EnqueueQueue DEF Get, CacheInv
    <2>3. CASE Update(c)
      BY <2>3, UpdateEnqueues, CacheEnqueue, EnqueueQueue DEF Update, CacheInv
    <2>4. CASE Put(c)
      BY <2>4, PutEnqueues, CacheEnqueue, EnqueueQueue DEF Put, CacheInv
    <2>5. CASE Delete(c)
      BY <2>5, DeleteEnqueues, CacheEnqueue, EnqueueQueue DEF Delete, CacheInv
    <2>6. CASE Scan(c)
      <3>1. PICK res : FinishRequest(c, res)
        BY <2>6 DEF Scan
      <3>2. Pop(c, "SCAN") /\ UNCHANGED io_queue
        BY <2>6 DEF Scan
      <3> QED
        BY <2>6, <3>1, <3>2, CacheScan, AnswerQueue
    <2> QED
      BY <1>1, <2>1, <2>2, <2>3, <2>4, <2>5, <2>6 DEF ProcessRequest
  <1>2. ASSUME NEW c \in Clients, NEW r \in Requests, Submit(c, r)
        PROVE  QueueInv' /\ CacheInv'
    BY <1>2, CacheSubmit, SubmitQueue
  <1>3. ASSUME IoSubmit
        PROVE  QueueInv' /\ CacheInv'
    <2>1. FakeRead \/ PwriteFails \/ Pread \/ Pwrite
      BY <1>3 DEF IoSubmit, PreadFails, Apart
    <2>2. PICK ev : SetEvent(ev)
      BY <2>1 DEF FakeRead, PwriteFails, Pread, Pwrite
    <2> QED
      BY <2>1, <2>2, SetEventQueue, CacheNoIo, CachePread, CachePwrite
  <1>4. ASSUME FinishAio
        PROVE  QueueInv' /\ CacheInv'
    <2>1. PICK op, res : Finish(op, res)
      BY <1>4 DEF FinishAio, FinishGet, FinishPut, FinishUpdate, FinishDelete
    <2> QED
      BY <1>4, <2>1, FinishQueue, CacheFinishAio
  <1>5. ASSUME Drained \/ GetEvents \/ UNCHANGED vars
        PROVE  QueueInv' /\ CacheInv'
    BY <1>5, CacheTurn, TurnQueue
  <1> QED
    BY <1>1, <1>2, <1>3, <1>4, <1>5 DEF Next, Main

\* With nothing in io_queue every cell of a cached page is as on disk, and an item
\* that starts in a page is all in it.
LEMMA CellsCoherent ==
  ASSUME TypeOK, CacheInv
  PROVE  CacheCoherent
  <1> SUFFICES ASSUME io_queue = <<>>, NEW k \in DOMAIN index, Lookup(PageOf(index[k]))
               PROVE  ItemIn(cache[PageOf(index[k])], index[k]) = ItemIn(disk, index[k])
    BY DEF CacheCoherent
  <1>1. PICK slab, p : slab = index[k] /\ p = PageOf(slab)
    OBVIOUS
  <1>2. slab \in Slab /\ p \in DOMAIN cache /\ slab.size \in Nat \ {0}
    <2>1. slab \in Slab
      BY <1>1 DEF TypeOK
    <2> QED
      BY <1>1, <2>1, SlabAssumption DEF Lookup, Slab
  <1>3. \A a \in PageAddrs(p) : CellAt(cache[p], a) = CellAt(disk, a)
    <2>1. ~ Unread(p) /\ \A a : Hits(a) = {}
      BY DEF Unread, Hits, Unpatched
    <2> QED
      BY <1>2, <2>1 DEF CacheInv, CellInv, DiskAt, CellAt
  <1> DEFINE C(i) == CellAt(cache[p], Addr(slab, i))
             D(i) == CellAt(disk, Addr(slab, i))
             Item(at(_)) == IF /\ at(0) \notin {Zero, Junk}
                               /\ \A i \in 0 .. ItemSize[at(0)[2]] - 1 : at(i) = ItemCell(at(0)[2], at(0)[3], i)
                            THEN <<at(0)[2], at(0)[3]>>
                            ELSE Invalid
  <1> SUFFICES Item(C) = Item(D)
    BY <1>1 DEF ItemIn, CellAt
  <1>4. C(0) = D(0)
    <2>1. 0 \in 0 .. slab.size - 1
      BY <1>2
    <2> QED
      BY <1>1, <1>2, <1>3, <2>1, SlabInPage
  <1>5. CASE D(0) \in {Zero, Junk}
    BY <1>4, <1>5
  <1>6. CASE D(0) \notin {Zero, Junk}
    <2>1. PICK h : h = D(0)
      OBVIOUS
    <2>2. Addr(slab, 0) \in DOMAIN disk /\ h = disk[Addr(slab, 0)]
      BY <1>6, <2>1 DEF CellAt
    <2>3. h \in {"item"} \X Keys \X Values \X Nat
      BY <1>6, <2>1, <2>2 DEF TypeOK, Cell
    <2>4. CASE h[4] = 0
      <3>1. h = ItemCell(h[2], h[3], 0) /\ h[2] \in Keys /\ h[3] \in Values
        BY <2>3, <2>4 DEF ItemCell
      <3>2. PICK a : a = Addr(slab, 0)
        OBVIOUS
      <3>3. \A i \in 0 .. ItemSize[h[2]] - 1 : <<a[1], a[2] + i>> \in PageAddrs(p)
        BY <1>1, <2>2, <3>1, <3>2 DEF CacheInv, HeadInv, PageOf
      <3>4. ItemSize[h[2]] \in Nat
        BY <3>1, FileAssumption
      <3>5. \A i \in 0 .. ItemSize[h[2]] - 1 : Addr(slab, i) = <<a[1], a[2] + i>>
        <4>1. slab.size * slab.index \in Nat
          BY <1>2 DEF Slab
        <4>2. PICK x \in Nat : x = slab.size * slab.index
          BY <4>1
        <4> QED
          BY <3>2, <3>4, <4>2 DEF Addr
      <3>6. \A i \in 0 .. ItemSize[h[2]] - 1 : C(i) = D(i)
        BY <1>3, <3>3, <3>5
      <3>7. (\A i \in 0 .. ItemSize[h[2]] - 1 : C(i) = ItemCell(h[2], h[3], i))
              <=> (\A i \in 0 .. ItemSize[h[2]] - 1 : D(i) = ItemCell(h[2], h[3], i))
        BY <3>6
      <3>8. C(0) = h /\ D(0) = h
        BY <1>4, <2>1
      <3> HIDE DEF C, D
      <3> QED
        BY <3>7, <3>8
    <2>5. CASE h[4] # 0
      <3>1. 0 \in 0 .. ItemSize[h[2]] - 1
        <4>1. ItemSize[h[2]] \in Nat \ {0}
          BY <2>3, FileAssumption
        <4> QED
          BY <4>1
      <3>2. h # ItemCell(h[2], h[3], 0)
        BY <2>3, <2>5 DEF ItemCell
      <3> HIDE DEF C, D
      <3> QED
        BY <1>4, <2>1, <3>1, <3>2
    <2> QED
      BY <2>4, <2>5
  <1> QED
    BY <1>5, <1>6

\* CacheInv: at every step of the loop a cell of a page that was read is as in the file,
\* or the last of the WriteCallbacks still to come that patch it makes it so, if reads
\* do not fail and clients do not scan while a write is outstanding.
THEOREM CacheInvariant ==
  ASSUME Apart
  PROVE  Spec => [](TypeOK /\ CacheInv)
  <1>1. Init => TypeOK /\ LoopInv /\ QueueInv /\ CacheInv
    BY TypeInit, CacheInit DEF Init, QueueInv, Pending
  <1>2. TypeOK /\ LoopInv /\ QueueInv /\ CacheInv /\ [Next]_vars
          => (TypeOK /\ LoopInv /\ QueueInv /\ CacheInv)'
    BY TypeStep, CacheStep
  <1> QED
    BY <1>1, <1>2, PTL DEF Spec

\* CacheCoherent: between two turns of the loop the page cache holds of every key
\* what its file holds, whatever the number of clients, keys, slab sizes and cells of
\* a page, and though writes may fail, if reads do not fail and clients do not scan
\* while a write is outstanding.
THEOREM CacheStaysCoherent ==
  ASSUME Apart
  PROVE  Spec => []CacheCoherent
  <1>1. TypeOK /\ CacheInv => CacheCoherent
    BY CellsCoherent
  <1> QED
    BY <1>1, CacheInvariant, PTL
=============================================================================
