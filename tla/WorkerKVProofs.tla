--------------------------- MODULE WorkerKVProofs ---------------------------
(***************************************************************************)
(* Proof that a worker implements the map of module KVStore: the invariant  *)
(* KVInv is kept, and every step is one of the map, or changes nothing of   *)
(* it.                                                                      *)
(***************************************************************************)
EXTENDS WorkerCacheProofs, WorkerKVInv

-----------------------------------------------------------------------------
(* Items *)

\* Slabs that do not clash share no cells.
LEMMA SlabsApart ==
  ASSUME NEW s \in Slab, NEW t \in Slab, ~Clash(s, t),
         NEW i \in 0 .. s.size - 1, NEW j \in 0 .. t.size - 1
  PROVE  Addr(s, i) # Addr(t, j)
  <1>1. /\ s.size \in Nat \ {0} /\ s.index \in Nat
        /\ t.size \in Nat \ {0} /\ t.index \in Nat
    BY SlabAssumption DEF Slab
  <1> SUFFICES ASSUME s.file = t.file, s.size * s.index + i = t.size * t.index + j PROVE FALSE
    BY DEF Addr
  <1>2. PICK n, x, y : n = s.size /\ x = s.index /\ y = t.index
    OBVIOUS
  <1>3. t.size = n /\ x # y
    BY <1>2 DEF Clash
  <1>4. n \in Nat \ {0} /\ x \in Nat /\ y \in Nat /\ i \in 0 .. n - 1 /\ j \in 0 .. n - 1
    BY <1>1, <1>2, <1>3
  <1>5. x * n + i = y * n + j
    <2>1. n * x = x * n /\ n * y = y * n
      BY <1>4
    <2> QED
      BY <1>2, <1>3, <2>1
  <1>6. (x * n + i) \div n = x /\ (y * n + j) \div n = y
    BY <1>4, Quotient
  <1> QED
    BY <1>3, <1>5, <1>6

\* A write leaves the slabs alone that do not clash with its own.
LEMMA PayloadAway ==
  ASSUME TypeOK, FitInv, NEW w \in Pending, Request(io_queue[w]).op \in Writes,
         NEW slab \in Slab, ~Clash(slab, io_queue[w].slab), NEW i \in 0 .. slab.size - 1
  PROVE  Addr(slab, i) \notin DOMAIN Payload(io_queue[w])
  <1> DEFINE e == io_queue[w]
             k == Request(e).key
  <1>1. e.slab \in Slab /\ k \in Keys
    BY AioType
  <1>2. e.slab.size \in Nat \ {0}
    BY <1>1, SlabAssumption DEF Slab
  <1>3. \A n \in 0 .. e.slab.size - 1 : Addr(slab, i) # Addr(e.slab, n)
    BY <1>1, SlabsApart
  <1>4. CASE Request(e).op = "DELETE"
    <2>1. DOMAIN Payload(e) = {Addr(e.slab, 0)}
      BY <1>4 DEF Payload, ZeroCells
    <2>2. 0 \in 0 .. e.slab.size - 1
      BY <1>2
    <2> QED
      BY <1>3, <2>1, <2>2
  <1>5. CASE Request(e).op # "DELETE"
    <2>1. DOMAIN Payload(e) = {Addr(e.slab, n) : n \in 0 .. ItemSize[k] - 1}
      BY <1>5 DEF Payload, ItemCells
    <2>2. ItemSize[k] <= e.slab.size /\ ItemSize[k] \in Nat
      BY <1>1, <1>5, FileAssumption DEF FitInv, PendingOps, Writes
    <2>3. \A n \in 0 .. ItemSize[k] - 1 : n \in 0 .. e.slab.size - 1
      BY <1>2, <2>2
    <2> QED
      BY <1>3, <2>1, <2>3
  <1> QED
    BY <1>4, <1>5

\* The bytes of a PUT or an UPDATE are those of its item.
LEMMA PayloadItem ==
  ASSUME TypeOK, NEW w \in Pending, Request(io_queue[w]).op \in {"PUT", "UPDATE"},
         NEW slab, NEW k, NEW v, slab = io_queue[w].slab, k = Request(io_queue[w]).key, v = Request(io_queue[w]).val,
         NEW i \in 0 .. ItemSize[k] - 1
  PROVE  Addr(slab, i) \in DOMAIN Payload(io_queue[w]) /\ Payload(io_queue[w])[Addr(slab, i)] = ItemCell(k, v, i)
  <1>1. slab \in Slab /\ k \in Keys
    BY AioType DEF Writes
  <1>2. Payload(io_queue[w]) = ItemCells(slab, k, v)
    BY DEF Payload
  <1>3. PICK x : x = slab.size * slab.index
    OBVIOUS
  <1>4. x \in Nat /\ ItemSize[k] \in Nat
    <2>1. slab.size \in Nat /\ slab.index \in Nat
      BY <1>1, SlabAssumption DEF Slab
    <2> QED
      BY <1>1, <1>3, <2>1, FileAssumption
  <1>5. Addr(slab, i)[2] - x = i
    BY <1>3, <1>4 DEF Addr
  <1> QED
    BY <1>2, <1>3, <1>5 DEF ItemCells

\* Reads of a slab that has an item give the item.
LEMMA HoldsItem ==
  ASSUME NEW slab, NEW k \in Keys, NEW v, Holds(slab, k, v)
  PROVE  /\ ItemIn(View(PageOf(slab)), slab) = <<k, v>>
         /\ ItemAt(slab) = <<k, v>> /\ ValueAt(slab) = v
  <1> DEFINE C(i) == CellAt(View(PageOf(slab)), Addr(slab, i))
             Item(at(_)) == IF /\ at(0) \notin {Zero, Junk}
                               /\ \A i \in 0 .. ItemSize[at(0)[2]] - 1 : at(i) = ItemCell(at(0)[2], at(0)[3], i)
                            THEN <<at(0)[2], at(0)[3]>>
                            ELSE Invalid
  <1>1. \A i \in 0 .. ItemSize[k] - 1 : C(i) = ItemCell(k, v, i)
    BY DEF Holds
  <1>2. C(0) = ItemCell(k, v, 0)
    <2>1. 0 \in 0 .. ItemSize[k] - 1
      BY FileAssumption
    <2> QED
      BY <1>1, <2>1
  <1>3. C(0) \notin {Zero, Junk} /\ C(0)[2] = k /\ C(0)[3] = v
    BY <1>2 DEF ItemCell, Zero, Junk
  <1>4. ItemIn(View(PageOf(slab)), slab) = Item(C)
    BY DEF ItemIn, CellAt
  <1>5. Item(C) = <<k, v>>
    <2> HIDE DEF C
    <2> QED
      BY <1>1, <1>3
  <1>6. ItemAt(slab) = <<k, v>>
    BY <1>4, <1>5 DEF ItemAt, View
  <1>7. <<k, v>> # Invalid
    BY DEF Invalid
  <1> QED
    BY <1>4, <1>5, <1>6, <1>7 DEF ValueAt

\* The same, of any state.
LEMMA ItemRead == \A s, j, u : j \in Keys /\ Holds(s, j, u) => ItemIn(View(PageOf(s)), s) = <<j, u>>
  BY HoldsItem

\* An item stays when its cells do.
LEMMA HoldsKept ==
  ASSUME NEW slab \in Slab, NEW k \in Keys, NEW v, ItemSize[k] <= slab.size, Holds(slab, k, v), NEW p, p = PageOf(slab),
         \A i \in 0 .. slab.size - 1 : CellAt(View(p), Addr(slab, i))' = CellAt(View(p), Addr(slab, i))
  PROVE  Holds(slab, k, v)'
  <1>1. ItemSize[k] \in Nat /\ slab.size \in Nat
    BY SlabAssumption, FileAssumption DEF Slab
  <1>2. \A i \in 0 .. ItemSize[k] - 1 : i \in 0 .. slab.size - 1
    BY <1>1
  <1>3. ASSUME NEW i \in 0 .. ItemSize[k] - 1
        PROVE  CellAt(View(p), Addr(slab, i))' = ItemCell(k, v, i)
    BY <1>2 DEF Holds
  <1> QED
    BY <1>3 DEF Holds, ItemCell, PageOf, Page, Addr

\* A page is read from its frame once the frame is filled.
LEMMA FilledPage ==
  ASSUME NEW p
  PROVE  (Filled(p) <=> p \in DOMAIN cache /\ ~ Unread(p)) /\ (Filled(p)' <=> p \in DOMAIN cache' /\ ~ Unread(p)')
  BY DEF Filled, Unread, Lookup, FirstRead, PageAt

-----------------------------------------------------------------------------
(* The map *)

\* The keys of the map, and the value each has.
Mapped == DOMAIN index \ Erased
Has(k, v) == k \in Mapped /\ v \in Values /\ Holds(index[k], k, v)

\* What the map says of them.
LEMMA HasStore == TypeOK => \A k, v : Has(k, v) => k \in DOMAIN storeBar /\ storeBar[k] = v
  <1> SUFFICES ASSUME TypeOK, NEW k, NEW v, Has(k, v) PROVE k \in DOMAIN storeBar /\ storeBar[k] = v
    OBVIOUS
  <1>1. k \in Keys /\ k \in DOMAIN index \ Erased /\ Holds(index[k], k, v)
    BY DEF Has, Mapped, TypeOK
  <1>2. ValueAt(index[k]) = v
    BY <1>1, HoldsItem
  <1> QED
    BY <1>1, <1>2 DEF storeBar

\* The map has the keys of the index that no DELETE has erased.
LEMMA StoreDomain == DOMAIN storeBar = Mapped /\ storeBar = [k \in Mapped |-> storeBar[k]]
  BY DEF storeBar, Mapped

\* Keys that keep their items, all but those of K, keep their values.
LEMMA StoreStep ==
  ASSUME TypeOK, TypeOK', ItemInv, NEW K,
         \A k : k \notin K => (k \in Mapped' <=> k \in Mapped),
         \A k, v : k \notin K /\ Has(k, v) => Has(k, v)'
  PROVE  /\ \A k \in Mapped' \ K : \E v : Has(k, v)'
         /\ \A k \in Mapped' \ K : storeBar'[k] = storeBar[k]
         /\ DOMAIN storeBar = Mapped /\ storeBar' = [k \in Mapped' |-> storeBar'[k]]
  <1>1. \A k \in Mapped : \E v : Has(k, v)
    BY DEF ItemInv, Has, Mapped
  <1>2. \A k, v : Has(k, v) => storeBar[k] = v
    BY HasStore
  <1>3. (TypeOK => \A k, v : Has(k, v) => k \in DOMAIN storeBar /\ storeBar[k] = v)'
    BY HasStore, PTL
  <1>4. (DOMAIN storeBar = Mapped /\ storeBar = [k \in Mapped |-> storeBar[k]])'
    BY StoreDomain, PTL
  <1>5. \A k, v : Has(k, v)' => storeBar'[k] = v
    BY <1>3
  <1>6. \A k \in Mapped' \ K : \E v : Has(k, v)' /\ Has(k, v)
    BY <1>1
  <1>7. \A k \in Mapped' \ K : storeBar'[k] = storeBar[k]
    BY <1>2, <1>5, <1>6
  <1> QED
    BY <1>4, <1>6, <1>7, StoreDomain

\* A step that no read sees.
LEMMA StoreSame ==
  ASSUME TypeOK, TypeOK', ItemInv, Mapped' = Mapped, \A k, v : Has(k, v) => Has(k, v)'
  PROVE  storeBar' = storeBar /\ \A k \in Mapped' : \E v : Has(k, v)'
  <1>1. /\ \A k \in Mapped' \ {} : \E v : Has(k, v)'
        /\ \A k \in Mapped' \ {} : storeBar'[k] = storeBar[k]
        /\ storeBar' = [k \in Mapped' |-> storeBar'[k]]
    BY StoreStep
  <1>2. storeBar = [k \in Mapped |-> storeBar[k]]
    BY StoreDomain
  <1>3. [k \in Mapped' |-> storeBar'[k]] = [k \in Mapped |-> storeBar[k]]
    BY <1>1
  <1> QED
    BY <1>1, <1>2, <1>3

\* A key gets a value.
LEMMA StoreSet ==
  ASSUME TypeOK, TypeOK', ItemInv, NEW j, NEW u, Has(j, u)', Mapped' = Mapped \cup {j},
         \A k, v : k # j /\ Has(k, v) => Has(k, v)'
  PROVE  /\ storeBar' = [k \in DOMAIN storeBar \cup {j} |-> IF k = j THEN u ELSE storeBar[k]]
         /\ \A k \in Mapped' : \E v : Has(k, v)'
  <1>1. /\ \A k \in Mapped' \ {j} : \E v : Has(k, v)'
        /\ \A k \in Mapped' \ {j} : storeBar'[k] = storeBar[k]
        /\ DOMAIN storeBar = Mapped /\ storeBar' = [k \in Mapped' |-> storeBar'[k]]
    BY StoreStep
  <1>2. (TypeOK => \A k, v : Has(k, v) => k \in DOMAIN storeBar /\ storeBar[k] = v)'
    BY HasStore, PTL
  <1>3. storeBar'[j] = u
    BY <1>2
  <1>4. [k \in Mapped' |-> storeBar'[k]] = [k \in Mapped \cup {j} |-> IF k = j THEN u ELSE storeBar[k]]
    BY <1>1, <1>3
  <1> QED
    BY <1>1, <1>4

\* A key goes.
LEMMA StoreDrop ==
  ASSUME TypeOK, TypeOK', ItemInv, NEW j, Mapped' = Mapped \ {j},
         \A k, v : k # j /\ Has(k, v) => Has(k, v)'
  PROVE  /\ storeBar' = [k \in DOMAIN storeBar \ {j} |-> storeBar[k]]
         /\ \A k \in Mapped' : \E v : Has(k, v)'
  <1>1. /\ \A k \in Mapped' \ {j} : \E v : Has(k, v)'
        /\ \A k \in Mapped' \ {j} : storeBar'[k] = storeBar[k]
        /\ DOMAIN storeBar = Mapped /\ storeBar' = [k \in Mapped' |-> storeBar'[k]]
    BY StoreStep
  <1>2. [k \in Mapped' |-> storeBar'[k]] = [k \in Mapped \ {j} |-> storeBar[k]]
    BY <1>1
  <1> QED
    BY <1>1, <1>2

-----------------------------------------------------------------------------
(* Writes that have taken effect and are not answered *)

\* Where they are.
LEMMA WrittenPending ==
  ASSUME NEW op
  PROVE  /\ Written(op) = {i \in PendingOps(op) : ~io_queue[i].hit /\ io_queue[i].ev = "ok"}
         /\ Written(op) \subseteq Pending
  BY DEF Written, PendingOps, Pending

\* Only they have a result before they are answered.
LEMMA OutSame ==
  ASSUME \A op \in {"UPDATE", "DELETE"} : Written(op)' = Written(op),
         \A i \in Pending : io_queue'[i].c = io_queue[i].c /\ Request(io_queue[i])' = Request(io_queue[i])
  PROVE  outBar' = outBar /\ Erased' = Erased
  <1>1. \A op : Written(op) \subseteq Pending
    BY WrittenPending
  <1>2. Written("UPDATE")' = Written("UPDATE") /\ Written("DELETE")' = Written("DELETE")
    OBVIOUS
  <1>3. Erased' = Erased
    BY <1>1, <1>2 DEF Erased
  <1>4. \A c \in Clients : (\E i \in Written("UPDATE") \cup Written("DELETE") : io_queue[i].c = c)'
                       <=> (\E i \in Written("UPDATE") \cup Written("DELETE") : io_queue[i].c = c)
    BY <1>1, <1>2
  <1> QED
    BY <1>3, <1>4 DEF outBar

\* A client whose AIO is in neither queue, or has not taken effect, has none.
LEMMA OutPending ==
  ASSUME NEW c \in Clients, \A i \in Written("UPDATE") \cup Written("DELETE") : io_queue[i].c # c
  PROVE  outBar[c] = KV!Pending
  BY DEF outBar, KV!Pending

\* Pending AIOs that stay as they are.
LEMMA WrittenSame ==
  ASSUME Pending' = Pending,
         \A i \in Pending : /\ Request(io_queue[i])' = Request(io_queue[i])
                            /\ (io_queue'[i].hit <=> io_queue[i].hit) /\ io_queue'[i].ev = io_queue[i].ev
                            /\ io_queue'[i].c = io_queue[i].c
  PROVE  (\A op : Written(op)' = Written(op)) /\ outBar' = outBar /\ Erased' = Erased
  <1>1. ASSUME NEW op PROVE Written(op)' = Written(op)
    <2>1. Written(op) = {i \in PendingOps(op) : ~io_queue[i].hit /\ io_queue[i].ev = "ok"}
      BY WrittenPending
    <2>2. Written(op)' = {i \in PendingOps(op)' : ~io_queue'[i].hit /\ io_queue'[i].ev = "ok"}
      BY DEF Written, PendingOps, Pending
    <2>3. PendingOps(op)' = PendingOps(op) /\ PendingOps(op) \subseteq Pending
      BY DEF PendingOps
    <2> QED
      BY <2>1, <2>2, <2>3
  <1> QED
    BY <1>1, OutSame

\* While requests are drained there are none.
LEMMA DrainWritten ==
  ASSUME TypeOK, LoopInv, EventInv, phase = "drain"
  PROVE  (\A op : Written(op) = {}) /\ Erased = {} /\ Mapped = DOMAIN index
         /\ \A c \in Clients : outBar[c] = KV!Pending
  <1>1. pos = 0 /\ \A i \in Pending : i >= pos
    BY DEF LoopInv, Pending, TypeOK
  <1>2. \A op : Written(op) = {}
    BY <1>1, WrittenPending DEF EventInv, PendingOps
  <1>3. Erased = {}
    BY <1>2 DEF Erased
  <1> QED
    BY <1>2, <1>3, OutPending DEF Mapped

-----------------------------------------------------------------------------
(* Whose bytes a write changes *)

\* The slab of a pending DELETE is no live key's, and a PUT has it only if it comes later.
LEMMA DeletedSlab ==
  ASSUME TypeOK, SlabInv, FreedInv, NEW i \in PendingOps("DELETE")
  PROVE  /\ \A k \in Live : ~Clash(index[k], io_queue[i].slab)
         /\ \A j \in PendingOps("PUT") : Clash(io_queue[j].slab, io_queue[i].slab)
                                           => i < j /\ io_queue[j].slab = io_queue[i].slab
  <1>1. /\ \A m, n \in PendingOps("PUT") : m # n => ~Clash(io_queue[m].slab, io_queue[n].slab)
        /\ \A k \in Live : \A n \in PendingOps("PUT") : ~Clash(index[k], io_queue[n].slab)
        /\ \A s \in SlabSizes : \A m \in DOMAIN free_slab[s] :
             /\ \A k \in Live : ~Clash(index[k], free_slab[s][m])
             /\ \A n \in PendingOps("PUT") : ~Clash(io_queue[n].slab, free_slab[s][m])
    BY DEF SlabInv, SlabsExclusive, PendingPuts
  <1>2. CASE \E s \in SlabSizes : \E n \in DOMAIN free_slab[s] : free_slab[s][n] = io_queue[i].slab
    BY <1>1, <1>2
  <1>3. CASE \E j \in PendingOps("PUT") : i < j /\ io_queue[j].slab = io_queue[i].slab
    BY <1>1, <1>3
  <1> QED
    BY <1>2, <1>3 DEF FreedInv

\* It does not matter which slab is named first.
LEMMA ClashSym ==
  ASSUME NEW s, NEW t
  PROVE  Clash(s, t) <=> Clash(t, s)
  BY DEF Clash

\* A write becomes visible when it is carried out, or when its page is patched.
Due(w) ==
  /\ w = pos /\ w \in Pending /\ Request(io_queue[w]).op \in Writes
  /\ \/ phase = "submit" /\ ~io_queue[w].hit
     \/ phase = "finish" /\ io_queue[w].hit

\* A key of the map that is not live waits for its DELETE.
LEMMA NotLive ==
  ASSUME TypeOK, SlabInv, NEW k \in Mapped, k \notin Live
  PROVE  \E i \in PendingOps("DELETE") : /\ Request(io_queue[i]).key = k /\ io_queue[i].slab = index[k]
                                         /\ i \notin Written("DELETE")
  <1>1. k \in DOMAIN index /\ k \notin Erased /\ k \in PendingDeletes
    BY DEF Mapped, Live
  <1>2. PICK i \in PendingOps("DELETE") : Request(io_queue[i]).key = k
    BY <1>1 DEF PendingDeletes
  <1>3. io_queue[i].slab = index[k]
    BY <1>2 DEF SlabInv, DeleteInv
  <1>4. i \notin Written("DELETE")
    BY <1>1, <1>2 DEF Erased
  <1> QED
    BY <1>2, <1>3, <1>4

\* The key of a pending GET or UPDATE is live, and in the map.
LEMMA UsedLive ==
  ASSUME TypeOK, KVInv, NEW w \in PendingOps("GET") \cup PendingOps("UPDATE"),
         NEW k, k = Request(io_queue[w]).key
  PROVE  k \in Live /\ k \in Mapped /\ io_queue[w].slab = index[k]
  <1>1. w \in Pending /\ Request(io_queue[w]).op \in {"GET", "UPDATE"}
    BY DEF PendingOps
  <1>2. k \in DOMAIN index /\ io_queue[w].slab = index[k]
    BY DEF KVInv, UseInv
  <1>3. ASSUME NEW i \in PendingOps("DELETE") PROVE Request(io_queue[i]).key # k
    <2>1. io_queue[i].c \in Clients /\ io_queue[w].c \in Clients
      BY <1>1, PendingType DEF PendingOps
    <2> QED
      BY <1>1, <2>1 DEF KVInv, TogetherInv, Request, PendingOps
  <1>4. k \notin PendingDeletes
    BY <1>3 DEF PendingDeletes
  <1>5. k \notin Erased
    BY <1>3, WrittenPending DEF Erased
  <1> QED
    BY <1>2, <1>4, <1>5 DEF Live, Mapped

\* Then it changes no item of another key.
LEMMA DueKeys ==
  ASSUME TypeOK, SlabInv, KVInv, NEW w, Due(w), NEW k \in Mapped,
         Request(io_queue[w]).op # "PUT" => k # Request(io_queue[w]).key
  PROVE  ~Clash(index[k], io_queue[w].slab)
  <1> DEFINE op == Request(io_queue[w]).op
  <1>1. w \in Pending /\ op \in Writes /\ w \in PendingOps(op)
    BY DEF Due, PendingOps
  <1>2. CASE k \in Live
    <2>1. CASE op = "PUT"
      BY <1>1, <1>2, <2>1 DEF SlabInv, SlabsExclusive, PendingPuts
    <2>2. CASE op = "DELETE"
      BY <1>1, <1>2, <2>2, DeletedSlab DEF KVInv
    <2>3. CASE op = "UPDATE"
      <3>1. PICK j : j = Request(io_queue[w]).key
        OBVIOUS
      <3>2. j \in Live /\ io_queue[w].slab = index[j] /\ k # j
        BY <1>1, <2>3, <3>1, UsedLive
      <3> QED
        BY <1>2, <3>2 DEF SlabInv, SlabsExclusive
    <2> QED
      BY <1>1, <2>1, <2>2, <2>3 DEF Writes
  <1>3. CASE k \notin Live
    <2>1. PICK i \in PendingOps("DELETE") : /\ Request(io_queue[i]).key = k /\ io_queue[i].slab = index[k]
                                            /\ i \notin Written("DELETE")
      BY <1>3, NotLive
    <2>2. i \in Pending /\ i \in Nat /\ pos \in Nat
      BY DEF PendingOps, Pending, TypeOK
    <2>3. CASE op = "PUT"
      <3> SUFFICES ASSUME Clash(index[k], io_queue[w].slab) PROVE FALSE
        OBVIOUS
      <3>1. i < w /\ io_queue[w].slab = io_queue[i].slab
        BY <1>1, <2>1, <2>3, ClashSym, DeletedSlab DEF KVInv
      <3>2. phase = "submit" /\ ~io_queue[w].hit /\ w = pos
        BY <2>2, <3>1 DEF Due, Pending
      <3>3. io_queue[i].ev = "ok"
        <4>1. io_queue[i].ev # "none" /\ io_queue[i].ev # "err"
          BY <2>2, <3>1, <3>2 DEF KVInv, EventInv, PendingOps, Writes, SlabInv, DeleteInv
        <4> QED
          BY <2>2, <4>1, AioType DEF Aio
      <3>4. io_queue[i].hit
        BY <2>1, <3>3, WrittenPending
      <3>5. PageAt(i) = PageAt(w) /\ i \in DOMAIN io_queue /\ w \in DOMAIN io_queue
        BY <1>1, <2>2, <3>1 DEF PageAt, Pending
      <3> QED
        BY <3>1, <3>2, <3>4, <3>5 DEF KVInv, HitsLast
    <2>4. CASE op = "DELETE"
      <3>1. i # w
        BY <2>1, <2>4
      <3> QED
        BY <1>1, <2>1, <2>4, <3>1 DEF KVInv, FreedInv
    <2>5. CASE op = "UPDATE"
      <3>1. PICK j : j = Request(io_queue[w]).key
        OBVIOUS
      <3>2. j \in Live /\ io_queue[w].slab = index[j]
        BY <1>1, <2>5, <3>1, UsedLive
      <3>3. ~Clash(index[j], io_queue[i].slab)
        BY <3>2, DeletedSlab DEF KVInv
      <3> QED
        BY <2>1, <3>2, <3>3, ClashSym
    <2> QED
      BY <1>1, <2>3, <2>4, <2>5 DEF Writes
  <1> QED
    BY <1>2, <1>3

\* Nor what another PUT has written.
LEMMA DuePuts ==
  ASSUME TypeOK, SlabInv, KVInv, NEW w, Due(w), NEW j \in Written("PUT"), j # w
  PROVE  ~Clash(io_queue[j].slab, io_queue[w].slab)
  <1> DEFINE op == Request(io_queue[w]).op
  <1>1. w \in Pending /\ op \in Writes /\ w \in PendingOps(op)
    BY DEF Due, PendingOps
  <1>2. j \in PendingOps("PUT") /\ ~io_queue[j].hit /\ io_queue[j].ev = "ok" /\ j \in Pending
    BY WrittenPending
  <1>3. CASE op = "PUT"
    BY <1>1, <1>2, <1>3 DEF SlabInv, SlabsExclusive
  <1>4. CASE op = "DELETE"
    <2> SUFFICES ASSUME Clash(io_queue[j].slab, io_queue[w].slab) PROVE FALSE
      OBVIOUS
    <2>1. w < j /\ io_queue[j].slab = io_queue[w].slab
      BY <1>1, <1>2, <1>4, DeletedSlab DEF KVInv
    <2>2. phase = "finish"
      <3>1. j \in Nat /\ pos \in Nat
        BY <1>2 DEF Pending, TypeOK
      <3> QED
        BY <1>2, <2>1, <3>1 DEF Due, KVInv, EventInv
    <2>3. io_queue[w].hit
      BY <2>2 DEF Due
    <2>4. PageAt(j) = PageAt(w) /\ j \in DOMAIN io_queue /\ w \in DOMAIN io_queue
      BY <1>1, <1>2, <2>1 DEF PageAt, Pending
    <2> QED
      BY <1>2, <2>1, <2>3, <2>4 DEF KVInv, HitsLast
  <1>5. CASE op = "UPDATE"
    <2>1. PICK k : k = Request(io_queue[w]).key
      OBVIOUS
    <2>2. k \in Live /\ io_queue[w].slab = index[k]
      BY <1>1, <1>5, <2>1, UsedLive
    <2> QED
      BY <1>2, <2>2, ClashSym DEF SlabInv, SlabsExclusive, PendingPuts
  <1> QED
    BY <1>1, <1>3, <1>4, <1>5 DEF Writes

-----------------------------------------------------------------------------
(* What a step changes of what reads see *)

\* Nothing outside the cells of A.
ViewKept(A) ==
  \A p \in Nat \X Nat : \A a \in PageAddrs(p) : a \notin A => CellAt(View(p), a)' = CellAt(View(p), a)

\* An item that has no cell there stays.
LEMMA KeptItem ==
  ASSUME NEW A, ViewKept(A), NEW slab \in Slab, NEW k \in Keys, NEW v, ItemSize[k] <= slab.size,
         Holds(slab, k, v), \A i \in 0 .. slab.size - 1 : Addr(slab, i) \notin A
  PROVE  Holds(slab, k, v)'
  <1>1. PICK p : p = PageOf(slab)
    OBVIOUS
  <1>2. p \in Nat \X Nat
    BY <1>1, PageType
  <1>3. ASSUME NEW i \in 0 .. slab.size - 1
        PROVE  CellAt(View(p), Addr(slab, i))' = CellAt(View(p), Addr(slab, i))
    <2>1. PICK a : a = Addr(slab, i)
      OBVIOUS
    <2>2. a \in PageAddrs(p) /\ a \notin A
      BY <1>1, <2>1, SlabInPage
    <2>3. CellAt(View(p), a)' = CellAt(View(p), a)
      BY <1>2, <2>2 DEF ViewKept
    <2> QED
      BY <2>1, <2>3 DEF Addr
  <1> QED
    BY <1>1, <1>3, HoldsKept

\* What a key of the map has.
LEMMA HasSlab ==
  ASSUME TypeOK, FitInv, NEW k, NEW v, Has(k, v), NEW slab, slab = index[k]
  PROVE  k \in Keys /\ k \in Mapped /\ slab \in Slab /\ ItemSize[k] <= slab.size /\ Holds(slab, k, v)
  BY DEF Has, Mapped, TypeOK, FitInv

\* And what a PUT has that has written its item.
LEMMA WrittenPut ==
  ASSUME TypeOK, FitInv, ItemInv, NEW j \in Written("PUT"), NEW slab, NEW k, NEW v,
         slab = io_queue[j].slab, k = Request(io_queue[j]).key, v = Request(io_queue[j]).val
  PROVE  k \in Keys /\ slab \in Slab /\ ItemSize[k] <= slab.size /\ Holds(slab, k, v)
  <1>1. j \in PendingOps("PUT") /\ j \in Pending /\ Request(io_queue[j]).op = "PUT"
    BY WrittenPending DEF PendingOps
  <1>2. slab \in Slab /\ k \in Keys
    BY <1>1, AioType DEF Writes
  <1> QED
    BY <1>1, <1>2 DEF FitInv, ItemInv

\* A key that keeps its slab and its item keeps its value.
LEMMA HasKept ==
  ASSUME NEW k, NEW v, Has(k, v), NEW slab, slab = index[k], k \in Mapped', index'[k] = slab, Holds(slab, k, v)'
  PROVE  Has(k, v)'
  BY DEF Has

\* ItemInv in terms of the map.
LEMMA ItemsNext ==
  ASSUME \A k \in Mapped' : \E v : Has(k, v)',
         \A i \in Written("PUT")' : \A slab, k, v :
           slab = io_queue'[i].slab /\ k = Request(io_queue[i])'.key /\ v = Request(io_queue[i])'.val
             => Holds(slab, k, v)'
  PROVE  ItemInv'
  <1>1. \A k \in (DOMAIN index \ Erased)' : (\E v \in Values : Holds(index[k], k, v))'
    BY DEF Has, Mapped
  <1>2. \A i \in Written("PUT")' : Holds(io_queue[i].slab, Request(io_queue[i]).key, Request(io_queue[i]).val)'
    OBVIOUS
  <1> QED
    BY <1>1, <1>2 DEF ItemInv

\* A step that no read sees.
LEMMA QuietItems ==
  ASSUME TypeOK, TypeOK', KVInv, ViewKept({}), UNCHANGED index, Erased' = Erased,
         Written("PUT")' \subseteq Written("PUT"),
         \A i \in Written("PUT")' : io_queue'[i].slab = io_queue[i].slab /\ Request(io_queue[i])' = Request(io_queue[i])
  PROVE  storeBar' = storeBar /\ ItemInv'
  <1>1. FitInv /\ ItemInv
    BY DEF KVInv
  <1>2. Mapped' = Mapped
    BY DEF Mapped
  <1>3. ASSUME NEW k, NEW v, Has(k, v) PROVE Has(k, v)'
    <2>1. PICK slab : slab = index[k]
      OBVIOUS
    <2>2. k \in Keys /\ k \in Mapped /\ slab \in Slab /\ ItemSize[k] <= slab.size /\ Holds(slab, k, v)
      BY <1>1, <1>3, <2>1, HasSlab
    <2>3. Holds(slab, k, v)'
      BY <2>2, KeptItem
    <2> QED
      BY <1>2, <1>3, <2>1, <2>2, <2>3, HasKept
  <1>4. ASSUME NEW i \in Written("PUT")', NEW slab, NEW k, NEW v,
               slab = io_queue'[i].slab, k = Request(io_queue[i])'.key, v = Request(io_queue[i])'.val
        PROVE  Holds(slab, k, v)'
    <2>1. i \in Written("PUT") /\ slab = io_queue[i].slab /\ k = Request(io_queue[i]).key /\ v = Request(io_queue[i]).val
      BY <1>4
    <2>2. k \in Keys /\ slab \in Slab /\ ItemSize[k] <= slab.size /\ Holds(slab, k, v)
      BY <1>1, <2>1, WrittenPut
    <2> QED
      BY <2>2, KeptItem
  <1>5. storeBar' = storeBar /\ \A k \in Mapped' : \E v : Has(k, v)'
    BY <1>1, <1>2, <1>3, StoreSame
  <1> QED
    BY <1>4, <1>5, ItemsNext

\* A write that becomes visible.
LEMMA DueItems ==
  ASSUME TypeOK, SlabInv, KVInv, NEW w, Due(w), ViewKept(DOMAIN Payload(io_queue[w]))
  PROVE  /\ \A k, v, slab : /\ Has(k, v) /\ slab = index[k]
                            /\ Request(io_queue[w]).op # "PUT" => k # Request(io_queue[w]).key
                            => Holds(slab, k, v)'
         /\ \A j \in Written("PUT") : \A slab, k, v :
              /\ slab = io_queue[j].slab /\ k = Request(io_queue[j]).key /\ v = Request(io_queue[j]).val
              /\ j # w
              => Holds(slab, k, v)'
  <1>1. FitInv /\ ItemInv /\ w \in Pending /\ Request(io_queue[w]).op \in Writes
    BY DEF KVInv, Due
  <1>2. PICK A : A = DOMAIN Payload(io_queue[w])
    OBVIOUS
  <1>3. ViewKept(A)
    BY <1>2 DEF ViewKept
  <1>4. \A slab \in Slab : ~Clash(slab, io_queue[w].slab) => \A i \in 0 .. slab.size - 1 : Addr(slab, i) \notin A
    BY <1>1, <1>2, PayloadAway
  <1>5. ASSUME NEW k, NEW v, NEW slab, Has(k, v), slab = index[k],
               Request(io_queue[w]).op # "PUT" => k # Request(io_queue[w]).key
        PROVE  Holds(slab, k, v)'
    <2>1. k \in Keys /\ k \in Mapped /\ slab \in Slab /\ ItemSize[k] <= slab.size /\ Holds(slab, k, v)
      BY <1>1, <1>5, HasSlab
    <2>2. ~Clash(slab, io_queue[w].slab)
      BY <1>5, <2>1, DueKeys
    <2> QED
      BY <1>3, <1>4, <2>1, <2>2, KeptItem
  <1>6. ASSUME NEW j \in Written("PUT"), NEW slab, NEW k, NEW v, j # w,
               slab = io_queue[j].slab, k = Request(io_queue[j]).key, v = Request(io_queue[j]).val
        PROVE  Holds(slab, k, v)'
    <2>1. k \in Keys /\ slab \in Slab /\ ItemSize[k] <= slab.size /\ Holds(slab, k, v)
      BY <1>1, <1>6, WrittenPut
    <2>2. ~Clash(slab, io_queue[w].slab)
      BY <1>6, DuePuts
    <2> QED
      BY <1>3, <1>4, <2>1, <2>2, KeptItem
  <1> QED
    BY <1>5, <1>6

\* The view of a page depends on its frame.
LEMMA ViewAt ==
  ASSUME NEW p
  PROVE  /\ View(p) = IF p \in DOMAIN cache /\ ~ Unread(p) THEN cache[p] ELSE disk
         /\ View(p)' = IF p \in DOMAIN cache' /\ ~ Unread(p)' THEN cache'[p] ELSE disk'
  BY FilledPage DEF View

\* Frames that stay are seen as before.
LEMMA ViewSame ==
  ASSUME UNCHANGED <<disk, cache>>, \A p : Unread(p)' <=> Unread(p)
  PROVE  ViewKept({})
  <1>1. \A p : View(p)' = View(p)
    BY ViewAt
  <1> QED
    BY <1>1 DEF ViewKept, CellAt

-----------------------------------------------------------------------------
(* AIOs that stay as they are *)

\* What their slabs are is not changed.
LEMMA UseSame ==
  ASSUME UseInv, FreedInv, UNCHANGED <<index, free_slab>>, DOMAIN cache \subseteq DOMAIN cache', Pending' = Pending,
         \A i \in Pending : io_queue'[i].slab = io_queue[i].slab /\ Request(io_queue[i])' = Request(io_queue[i])
  PROVE  UseInv' /\ FreedInv'
  <1>1. \A op : PendingOps(op)' = PendingOps(op) /\ PendingOps(op) \subseteq Pending
    BY DEF PendingOps
  <1>2. \A i \in Pending : PageAt(i)' = PageAt(i)
    BY DEF PageAt, PageOf, Page, Addr
  <1>3. UseInv'
    <2>1. ASSUME NEW i \in PendingOps("GET")' PROVE Lookup(PageAt(i))'
      BY <1>1, <1>2 DEF UseInv, Lookup
    <2>2. ASSUME NEW i \in PendingOps("GET")' \cup PendingOps("UPDATE")'
          PROVE  Request(io_queue[i])'.key \in DOMAIN index' /\ io_queue'[i].slab = index'[Request(io_queue[i])'.key]
      BY <1>1 DEF UseInv
    <2> QED
      BY <2>1, <2>2 DEF UseInv
  <1>4. FreedInv'
    BY <1>1 DEF FreedInv, Clash
  <1> QED
    BY <1>3, <1>4

\* Nor whether they patch their pages.
LEMMA HitsLastSame ==
  ASSUME HitsLast, DOMAIN io_queue' = DOMAIN io_queue,
         \A i \in DOMAIN io_queue : io_queue'[i].slab = io_queue[i].slab /\ io_queue'[i].hit = io_queue[i].hit
  PROVE  HitsLast'
  <1>1. \A i \in DOMAIN io_queue : PageAt(i)' = PageAt(i)
    BY DEF PageAt, PageOf, Page, Addr
  <1> QED
    BY <1>1 DEF HitsLast

\* Answering a client does not bring requests together.
LEMMA TogetherAnswer ==
  ASSUME TypeOK, TogetherInv, NEW c \in Clients, NEW res, FinishRequest(c, res)
  PROVE  TogetherInv'
  <1>1. \A d \in Clients : req'[d] = IF d = c THEN NoReq ELSE req[d]
    BY DEF FinishRequest, TypeOK
  <1> QED
    BY <1>1 DEF TogetherInv, NoReq

\* Steps of the map: nothing happens, or a request takes effect and is answered.
LEMMA QuietNext ==
  ASSUME Silent, storeBar' = storeBar, outBar' = outBar
  PROVE  KV!Next
  BY DEF KV!Next, KV!Quiet, Silent, NoReply, KV!NoReply

\* The same for an answer.
LEMMA AnswerNext ==
  ASSUME NEW c \in Clients, NEW res, FinishRequest(c, res), req[c] # NoReq, outBar[c] = KV!Pending,
         KV!Effect(req[c], res, storeBar'), outBar' = outBar
  PROVE  KV!Next
  <1>1. reply'.res = res /\ reply' = [c |-> c, req |-> req[c], res |-> res] /\ req' = [req EXCEPT ![c] = NoReq]
    BY DEF FinishRequest
  <1>2. KV!DoReturn(c)
    BY <1>1 DEF KV!DoReturn, KV!Answer, KV!NoReq, NoReq
  <1> QED
    BY <1>2 DEF KV!Next

-----------------------------------------------------------------------------
(* Submit, and the steps from phase to phase *)

\* Worker::Submit: the request is called, and requests that exclude each other are not
\* outstanding together.
LEMMA KVSubmit ==
  ASSUME Linear, TypeOK, TypeOK', SlabInv, KVInv, NEW c \in Clients, NEW r \in Requests, Submit(c, r)
  PROVE  KVInv' /\ KV!Next
  <1>1. UNCHANGED <<disk, cache, index, io_queue, phase, pos>> /\ UNCHANGED slabVars
        /\ req[c] = NoReq /\ req' = [req EXCEPT ![c] = r] /\ reply' = NoReply
    BY DEF Submit, loopVars, fileVars
  <1>2. /\ Pending' = Pending
        /\ \A d \in Clients : req'[d] = IF d = c THEN r ELSE req[d]
        /\ \A i \in Pending : Request(io_queue[i])' = Request(io_queue[i])
    BY SubmitQueue DEF SlabInv
  <1>3. Pending \subseteq DOMAIN io_queue /\ (phase # "finish" => Pending = DOMAIN io_queue)
    BY DEF Pending
  <1>4. TogetherInv'
    <2>1. \A d \in Clients : req[d] # NoReq => CanOverlap(req[d], r)
      BY DEF Submit
    <2>2. \A d \in Clients : req[d].op # "NONE" => req[d] # NoReq
      BY OutstandingType
    <2>3. ASSUME NEW a \in Clients, NEW b \in Clients, req'[a].op = "SCAN", req'[b].op \in {"GET", "PUT", "UPDATE"}
          PROVE  FALSE
      <3>1. CASE a = c /\ b # c
        <4>1. r.op = "SCAN" /\ req[b].op \in {"GET", "PUT", "UPDATE"} /\ CanOverlap(req[b], r)
          BY <1>2, <2>1, <2>2, <2>3, <3>1
        <4> QED
          BY <4>1 DEF CanOverlap, Linear
      <3>2. CASE a # c /\ b = c
        <4>1. req[a].op = "SCAN" /\ r.op \in {"GET", "PUT", "UPDATE"} /\ CanOverlap(req[a], r)
          BY <1>2, <2>1, <2>2, <2>3, <3>2
        <4> QED
          BY <4>1 DEF CanOverlap, Linear
      <3>3. CASE a # c /\ b # c
        BY <1>2, <2>3, <3>3 DEF KVInv, TogetherInv
      <3>4. CASE a = c /\ b = c
        BY <2>3, <3>4
      <3> QED
        BY <3>1, <3>2, <3>3, <3>4
    <2>4. ASSUME NEW a \in Clients, NEW b \in Clients, req'[a].op \in {"GET", "UPDATE"}, req'[b].op = "DELETE"
          PROVE  req'[a].key # req'[b].key
      <3>1. CASE a = c /\ b # c
        <4>1. r.op \in {"GET", "UPDATE"} /\ req[b].op = "DELETE" /\ CanOverlap(req[b], r)
          BY <1>2, <2>1, <2>2, <2>4, <3>1
        <4> QED
          BY <1>2, <3>1, <4>1 DEF CanOverlap, Linear
      <3>2. CASE a # c /\ b = c
        <4>1. req[a].op \in {"GET", "UPDATE"} /\ r.op = "DELETE" /\ CanOverlap(req[a], r)
          BY <1>2, <2>1, <2>2, <2>4, <3>2
        <4> QED
          BY <1>2, <3>2, <4>1 DEF CanOverlap, Linear
      <3>3. CASE a # c /\ b # c
        BY <1>2, <2>4, <3>3 DEF KVInv, TogetherInv
      <3>4. CASE a = c /\ b = c
        BY <2>4, <3>4
      <3> QED
        BY <3>1, <3>2, <3>3, <3>4
    <2> QED
      BY <2>3, <2>4 DEF TogetherInv
  <1>5. UseInv' /\ FreedInv'
    BY <1>1, <1>2, UseSame DEF KVInv, slabVars
  <1>6. EventInv'
    BY <1>1, <1>2 DEF KVInv, EventInv
  <1>7. FitInv'
    BY <1>1, <1>2, FitSame DEF KVInv, slabVars
  <1>8. HitInv({"PUT", "UPDATE"})'
    BY <1>1, <1>2, <1>3, HitSame DEF KVInv
  <1>9. HitsLast'
    BY <1>1, HitsLastSame DEF KVInv
  <1>10. \A p : Unread(p)' <=> Unread(p)
    BY <1>1, <1>2, <1>3 DEF Unread, FirstRead, PageAt, PageOf, Page, Addr
  <1>11. (\A op : Written(op)' = Written(op)) /\ outBar' = outBar /\ Erased' = Erased
    BY <1>1, <1>2, WrittenSame
  <1>12. storeBar' = storeBar /\ ItemInv'
    <2>1. ViewKept({})
      BY <1>1, <1>10, ViewSame
    <2>2. Written("PUT")' = Written("PUT") /\ Written("PUT") \subseteq Pending
      BY <1>11, WrittenPending
    <2> QED
      BY <1>1, <1>2, <1>11, <2>1, <2>2, QuietItems
  <1>13. KV!Next
    <2>1. KV!Call(c)
      BY <1>1, <1>11, <1>12 DEF KV!Call, KV!NoReq, NoReq, KV!NoReply, NoReply
    <2> QED
      BY <2>1 DEF KV!Next
  <1> QED
    BY <1>4, <1>5, <1>6, <1>7, <1>8, <1>9, <1>12, <1>13 DEF KVInv

\* Drained and GetEvents change nothing a client can see.
LEMMA KVTurn ==
  ASSUME TypeOK, TypeOK', SlabInv, KVInv, Drained \/ GetEvents \/ UNCHANGED vars
  PROVE  KVInv' /\ storeBar' = storeBar /\ outBar' = outBar
  <1>1. LoopInv /\ QueueInv
    BY DEF SlabInv
  <1>2. /\ UNCHANGED <<req, index, io_queue>> /\ UNCHANGED slabVars
        /\ Pending' = Pending
        /\ \A i \in Pending : Request(io_queue[i])' = Request(io_queue[i])
    BY <1>1, TurnQueue
  <1>3. UNCHANGED <<disk, cache>>
    BY DEF Drained, GetEvents, vars, fileVars
  <1>4. io_queue \in Seq(Aio) /\ Len(io_queue) \in Nat /\ DOMAIN io_queue = 1 .. Len(io_queue) /\ pos \in Nat
        /\ Pending \subseteq DOMAIN io_queue
    BY DEF TypeOK, Pending
  <1>5. \A i \in DOMAIN io_queue : Request(io_queue[i])' = Request(io_queue[i])
    BY <1>2 DEF Request
  <1>6. \A i \in DOMAIN io_queue : FirstRead(i)' = FirstRead(i) /\ PageAt(i)' = PageAt(i)
    BY <1>2, <1>5 DEF FirstRead, PageAt, PageOf, Page, Addr
  <1>7. TogetherInv'
    BY <1>2 DEF KVInv, TogetherInv
  <1>8. UseInv' /\ FreedInv'
    BY <1>2, <1>3, UseSame DEF KVInv, slabVars
  <1>9. FitInv'
    BY <1>2, FitSame DEF KVInv, slabVars
  <1>10. HitInv({"PUT", "UPDATE"})'
    <2>1. phase' # "finish" => phase # "finish"
      BY DEF Drained, GetEvents, vars
    <2> QED
      BY <1>2, <1>3, <1>5, <2>1, HitSame DEF KVInv
  <1>11. HitsLast'
    BY <1>2, HitsLastSame DEF KVInv
  <1>12. EventInv' /\ \A p : Unread(p)' <=> Unread(p)
    <2>1. CASE Drained
      <3>1. phase = "drain" /\ pos = 0 /\ phase' = "submit" /\ pos' = 1
        BY <1>1, <2>1 DEF Drained, LoopInv
      <3>2. EventInv'
        BY <1>2, <1>4, <3>1 DEF KVInv, EventInv
      <3>3. \A p : Unread(p)' <=> Unread(p)
        BY <1>2, <1>4, <1>6, <3>1 DEF Unread
      <3> QED
        BY <3>2, <3>3
    <2>2. CASE GetEvents
      <3>1. phase = "submit" /\ pos > Len(io_queue)
        BY <2>2 DEF GetEvents
      <3>2. \A i \in DOMAIN io_queue : i < pos
        BY <1>4, <3>1
      <3>3. CASE io_queue = <<>>
        <4>1. DOMAIN io_queue = {}
          BY <3>3
        <4> QED
          BY <1>2, <1>4, <4>1 DEF Unread, EventInv
      <3>4. CASE io_queue # <<>>
        <4>1. phase' = "finish" /\ pos' = 1
          BY <2>2, <3>4 DEF GetEvents
        <4>2. EventInv'
          BY <1>2, <1>4, <3>2, <4>1 DEF KVInv, EventInv
        <4>3. \A p : Unread(p)' <=> Unread(p)
          BY <1>4, <3>2, <4>1 DEF Unread
        <4> QED
          BY <4>2, <4>3
      <3> QED
        BY <3>3, <3>4
    <2>3. CASE UNCHANGED vars
      <3>1. phase' = phase /\ pos' = pos
        BY <2>3 DEF vars
      <3> QED
        BY <1>2, <1>6, <3>1 DEF Unread, KVInv, EventInv
    <2> QED
      BY <2>1, <2>2, <2>3
  <1>13. (\A op : Written(op)' = Written(op)) /\ outBar' = outBar /\ Erased' = Erased
    BY <1>2, WrittenSame
  <1>14. storeBar' = storeBar /\ ItemInv'
    <2>1. ViewKept({})
      BY <1>3, <1>12, ViewSame
    <2>2. Written("PUT")' = Written("PUT") /\ Written("PUT") \subseteq Pending
      BY <1>13, WrittenPending
    <2> QED
      BY <1>2, <1>13, <2>1, <2>2, QuietItems
  <1> QED
    BY <1>7, <1>8, <1>9, <1>10, <1>11, <1>12, <1>13, <1>14 DEF KVInv

-----------------------------------------------------------------------------
(* "drain" *)

\* ProcessRequest_ when it answers at once: pages may be read as they are on disk.
LEMMA KVRefuse ==
  ASSUME TypeOK, TypeOK', SlabInv, KVInv, NEW c, NEW op, NEW res, Pop(c, op), FinishRequest(c, res),
         UNCHANGED <<io_queue, index, slabVars, disk>>,
         DOMAIN cache \subseteq DOMAIN cache',
         \A p \in DOMAIN cache : cache'[p] = cache[p],
         \A p \in DOMAIN cache' \ DOMAIN cache :
           /\ \A a \in PageAddrs(p) : CellAt(cache'[p], a) = DiskAt(a)
           /\ \A i \in Pending : Request(io_queue[i]).op \notin {"PUT", "UPDATE"}
  PROVE  /\ KVInv' /\ storeBar' = storeBar /\ outBar' = outBar
         /\ c \in Clients /\ req[c] # NoReq /\ outBar[c] = KV!Pending /\ Mapped = DOMAIN index
         /\ \A p : Unread(p)' <=> Unread(p)
         /\ \A k, v, slab : Has(k, v) /\ slab = index[k] => Holds(slab, k, v)'
  <1>1. LoopInv /\ QueueInv /\ FitInv /\ HitInv({"PUT", "UPDATE"}) /\ EventInv
    BY DEF SlabInv, KVInv
  <1>2. c \in Clients /\ req[c] # NoReq /\ phase = "drain" /\ phase' = "drain" /\ pos' = pos /\ op = req[c].op
    BY <1>1, PopQueue DEF Pop
  <1>3. /\ Pending' = Pending /\ Pending = DOMAIN io_queue
        /\ \A i \in Pending : Request(io_queue[i])' = Request(io_queue[i])
    BY <1>1, AnswerQueue, PopQueue
  <1>4. FitInv' /\ HitInv({"PUT", "UPDATE"})' /\ \A p : Unread(p)' = Unread(p)
    BY <1>1, HitRefuse
  <1>5. TogetherInv'
    BY <1>2, TogetherAnswer DEF KVInv
  <1>6. UseInv' /\ FreedInv'
    BY <1>3, UseSame DEF KVInv, slabVars
  <1>7. EventInv'
    BY <1>1, <1>2, <1>3 DEF EventInv
  <1>8. HitsLast'
    BY HitsLastSame DEF KVInv
  <1>9. ViewKept({})
    <2> SUFFICES ASSUME NEW p \in Nat \X Nat, NEW a \in PageAddrs(p)
                 PROVE  CellAt(View(p), a)' = CellAt(View(p), a)
      BY DEF ViewKept
    <2>1. CellAt(View(p), a)' = CellAt(View(p)', a)
      BY DEF CellAt
    <2>2. CASE p \in DOMAIN cache
      <3>1. View(p)' = View(p)
        BY <1>4, <2>2, ViewAt
      <3> QED
        BY <2>1, <3>1
    <2>3. CASE p \notin DOMAIN cache'
      <3>1. View(p)' = View(p)
        BY <2>3, ViewAt
      <3> QED
        BY <2>1, <3>1
    <2>4. CASE p \in DOMAIN cache' \ DOMAIN cache
      <3>1. View(p) = disk /\ (View(p)' = cache'[p] \/ View(p)' = disk)
        BY <2>4, ViewAt
      <3>2. CellAt(cache'[p], a) = CellAt(disk, a)
        BY <2>4 DEF CellAt, DiskAt
      <3> QED
        BY <2>1, <3>1, <3>2
    <2> QED
      BY <2>2, <2>3, <2>4
  <1>10. (\A o : Written(o)' = Written(o)) /\ outBar' = outBar /\ Erased' = Erased
    BY <1>3, WrittenSame
  <1>11. Written("PUT") \subseteq Pending
    BY WrittenPending
  <1>12. storeBar' = storeBar /\ ItemInv'
    BY <1>3, <1>9, <1>10, <1>11, QuietItems
  <1>13. outBar[c] = KV!Pending /\ Mapped = DOMAIN index
    BY <1>1, <1>2, DrainWritten
  <1>14. ASSUME NEW k, NEW v, NEW slab, Has(k, v), slab = index[k]
         PROVE  Holds(slab, k, v)'
    <2>1. k \in Keys /\ slab \in Slab /\ ItemSize[k] <= slab.size /\ Holds(slab, k, v)
      BY <1>1, <1>14, HasSlab
    <2> QED
      BY <1>9, <2>1, KeptItem
  <1> QED
    BY <1>2, <1>4, <1>5, <1>6, <1>7, <1>8, <1>10, <1>12, <1>13, <1>14 DEF KVInv

\* A request that is refused takes effect on a map that has not its key, or has it.
LEMMA KVMiss ==
  ASSUME TypeOK, TypeOK', SlabInv, KVInv, NEW c, GetMiss(c) \/ UpdateMiss(c) \/ DeleteMiss(c) \/ PutExists(c)
  PROVE  KVInv' /\ KV!Next
  <1>1. PICK op, res :
           /\ op \in {"GET", "UPDATE", "DELETE", "PUT"} /\ Pop(c, op) /\ FinishRequest(c, res)
           /\ UNCHANGED <<io_queue, index, slabVars, disk>> /\ cache' = cache /\ req[c].op = op
           /\ \/ op # "PUT" /\ res = ENOENT /\ req[c].key \notin DOMAIN index
              \/ op = "PUT" /\ res = EEXIST /\ req[c].key \in DOMAIN index
    BY DEF GetMiss, UpdateMiss, DeleteMiss, PutExists, Miss, Refuse, Pop, fileVars
  <1>2. /\ KVInv' /\ storeBar' = storeBar /\ outBar' = outBar
        /\ c \in Clients /\ req[c] # NoReq /\ outBar[c] = KV!Pending /\ Mapped = DOMAIN index
    BY <1>1, KVRefuse
  <1>3. DOMAIN storeBar = DOMAIN index
    BY <1>2, StoreDomain
  <1>4. KV!Effect(req[c], res, storeBar')
    BY <1>1, <1>2, <1>3 DEF KV!Effect, KV!ENOENT, KV!EEXIST, ENOENT, EEXIST
  <1> QED
    BY <1>1, <1>2, <1>4, AnswerNext

\* A SCAN gets the items of the map: no read or PUT or UPDATE is under way.
LEMMA KVScan ==
  ASSUME TypeOK, TypeOK', SlabInv, KVInv, NEW c, Scan(c)
  PROVE  KVInv' /\ KV!Next
  <1>1. Pop(c, "SCAN") /\ UNCHANGED <<disk, index, io_queue, slabVars>> /\ c \in Clients /\ req[c].op = "SCAN"
    BY PopType DEF Scan, Pop, SlabInv
  <1> DEFINE range == {j \in DOMAIN index : InRange(req[c], j)}
             slabs == {index[k] : k \in range}
             read == {ItemIn(cache'[PageOf(slab)], slab) : slab \in slabs}
             frames == [p \in {PageOf(slab) : slab \in slabs} |-> PageFrame(p)]
  <1>2. cache' = NewEntries(frames) /\ FinishRequest(c, <<"scan", read>>)
    BY DEF Scan
  <1>3. PICK new : new = frames /\ cache' = NewEntries(new)
    BY <1>2
  <1>4. DOMAIN new = {PageOf(slab) : slab \in slabs} /\ \A p \in DOMAIN new : new[p] = PageFrame(p)
    BY <1>3
  <1>5. /\ DOMAIN cache' = DOMAIN new \cup DOMAIN cache
        /\ \A p \in DOMAIN cache : cache'[p] = cache[p]
        /\ \A p \in DOMAIN new \ DOMAIN cache : cache'[p] = new[p]
    BY <1>3, NewEntriesAt
  <1> HIDE DEF frames
  <1>6. \A p \in DOMAIN cache' \ DOMAIN cache : \A a \in PageAddrs(p) : CellAt(cache'[p], a) = DiskAt(a)
    BY <1>4, <1>5, FrameAt
  <1>7. \A i \in Pending : Request(io_queue[i]).op \notin {"GET", "PUT", "UPDATE"}
    BY <1>1, AioType DEF KVInv, TogetherInv, Request
  <1> HIDE DEF read
  <1>8. PICK res : res = <<"scan", read>>
    OBVIOUS
  <1>9. FinishRequest(c, res)
    BY <1>2, <1>8
  <1>10. /\ KVInv' /\ storeBar' = storeBar /\ outBar' = outBar
         /\ req[c] # NoReq /\ outBar[c] = KV!Pending /\ Mapped = DOMAIN index
    BY <1>1, <1>5, <1>6, <1>7, <1>9, KVRefuse
  <1>11. /\ \A p : Unread(p)' <=> Unread(p)
         /\ \A k, v, slab : Has(k, v) /\ slab = index[k] => Holds(slab, k, v)'
    BY <1>1, <1>5, <1>6, <1>7, <1>9, KVRefuse
  <1>12. \A p : ~ Unread(p)'
    <2>1. Pending = DOMAIN io_queue
      BY <1>1 DEF Pending, Pop
    <2>2. \A p : ~ Unread(p)
      BY <1>7, <2>1 DEF Unread, FirstRead
    <2> QED
      BY <1>11, <2>2
  <1>13. ASSUME NEW k \in range
         PROVE  ItemIn(cache'[PageOf(index[k])], index[k]) = <<k, storeBar[k]>>
    <2>1. PICK v : Has(k, v)
      BY <1>10 DEF KVInv, ItemInv, Has, Mapped
    <2>2. PICK slab : slab = index[k]
      OBVIOUS
    <2>3. Holds(slab, k, v)' /\ k \in Keys
      BY <1>11, <2>1, <2>2 DEF TypeOK
    <2>4. (\A s, j, u : j \in Keys /\ Holds(s, j, u) => ItemIn(View(PageOf(s)), s) = <<j, u>>)'
      BY ItemRead, PTL
    <2>5. PICK p : p = PageOf(slab)
      OBVIOUS
    <2>6. View(p)' = cache'[p]
      <3>1. p \in DOMAIN cache'
        BY <1>4, <1>5, <2>2, <2>5
      <3> QED
        BY <1>12, <3>1, ViewAt
    <2>7. ItemIn(View(p), slab)' = <<k, v>>
      BY <2>3, <2>4, <2>5 DEF PageOf, Page, Addr
    <2>8. ItemIn(cache'[p], slab) = <<k, v>>
      <3>1. ItemIn(View(p), slab)' = ItemIn(View(p)', slab)
        BY DEF ItemIn, Addr, ItemCell, Zero, Junk, Invalid
      <3> QED
        BY <2>6, <2>7, <3>1
    <2>9. storeBar[k] = v
      BY <2>1, HasStore
    <2> QED
      BY <2>2, <2>5, <2>8, <2>9
  <1>14. read = {<<k, storeBar[k]>> : k \in range}
    <2>1. read = {ItemIn(cache'[PageOf(index[k])], index[k]) : k \in range}
      BY DEF read
    <2> HIDE DEF range
    <2> QED
      BY <1>13, <2>1
  <1>15. range = {j \in DOMAIN storeBar : req[c].min_key <= j /\ j < req[c].max_key}
    BY <1>10, StoreDomain DEF InRange
  <1>16. KV!Effect(req[c], res, storeBar')
    <2> HIDE DEF range
    <2>1. res = <<"scan", {<<k, storeBar[k]>> : k \in {j \in DOMAIN storeBar : req[c].min_key <= j /\ j < req[c].max_key}}>>
      BY <1>8, <1>14, <1>15
    <2> QED
      BY <1>1, <1>10, <2>1 DEF KV!Effect
  <1> QED
    BY <1>1, <1>9, <1>10, <1>16, AnswerNext

\* ProcessRequest_ when it leaves an AIO: nothing of the map changes, and the slab a DELETE
\* frees is on a free list until a PUT behind it takes it.
LEMMA KVEnqueue ==
  ASSUME TypeOK, TypeOK', SlabInv, KVInv, NEW c, NEW op, NEW slab, Enqueues(c, op, slab),
         op \in {"GET", "UPDATE"} => req[c].key \in DOMAIN index /\ slab = index[req[c].key],
         \A s \in SlabSizes : \A m \in DOMAIN free_slab[s] :
           \/ \E x \in DOMAIN free_slab'[s] : free_slab'[s][x] = free_slab[s][m]
           \/ op = "PUT" /\ free_slab[s][m] = slab,
         op = "DELETE" => /\ \E s \in SlabSizes : \E x \in DOMAIN free_slab'[s] : free_slab'[s][x] = slab
                          /\ \A j \in PendingOps("DELETE") : ~Clash(io_queue[j].slab, slab)
  PROVE  KVInv' /\ KV!Next
  <1>1. LoopInv /\ QueueInv /\ FitInv /\ HitInv({"PUT", "UPDATE"}) /\ EventInv /\ UseInv /\ FreedInv /\ HitsLast
    BY DEF SlabInv, KVInv
  <1>2. /\ c \in Clients /\ phase = "drain" /\ phase' = "drain" /\ pos' = pos /\ pos = 0
        /\ index' = index /\ req' = req /\ req[c].op = op
        /\ DOMAIN io_queue = Pending
        /\ \A i \in Pending : /\ io_queue'[i] = io_queue[i]
                              /\ Request(io_queue[i])' = Request(io_queue[i])
                              /\ (FirstRead(i)' <=> FirstRead(i)) /\ PageAt(i)' = PageAt(i)
    BY <1>1, EnqueueAio
  <1>3. PICK n \in Nat :
              /\ DOMAIN io_queue' = Pending \cup {n} /\ Pending' = Pending \cup {n} /\ n \notin Pending
              /\ \A i \in Pending : i \in Nat /\ i < n
              /\ io_queue'[n].c = c /\ io_queue'[n].slab = slab /\ io_queue'[n].ev = "none"
              /\ (io_queue'[n].hit <=> Lookup(PageOf(slab)))
              /\ Request(io_queue[n])' = req[c] /\ PageAt(n)' = PageOf(slab)
              /\ (FirstRead(n)' <=> op = "GET" /\ ~ Lookup(PageOf(slab)))
    BY <1>1, EnqueueAio
  <1>4. /\ FitInv' /\ HitInv({"PUT", "UPDATE"})'
        /\ \A p \in DOMAIN cache' : Unread(p)' \/ (p \in DOMAIN cache /\ cache'[p] = cache[p] /\ ~ Unread(p))
    <2>1. {"PUT", "UPDATE"} \in SUBSET Writes
      BY DEF Writes
    <2> QED
      BY <1>1, <2>1, HitEnqueue
  <1>5. /\ UNCHANGED disk /\ Silent /\ DOMAIN cache \subseteq DOMAIN cache'
        /\ op \in {"GET", "PUT", "UPDATE", "DELETE"} /\ slab \in Slab
        /\ op = "GET" => PageOf(slab) \in DOMAIN cache'
    BY DEF Enqueues, IOEnqueue
  <1>6. \A o : PendingOps(o)' = PendingOps(o) \cup IF o = op THEN {n} ELSE {}
    <2> TAKE o
    <2>1. PendingOps(o)' = {i \in Pending \cup {n} : Request(io_queue[i])'.op = o}
      BY <1>3 DEF PendingOps
    <2>2. PendingOps(o) = {i \in Pending : Request(io_queue[i]).op = o}
      BY DEF PendingOps
    <2> QED
      BY <1>2, <1>3, <2>1, <2>2
  <1>7. TogetherInv'
    BY <1>2 DEF KVInv, TogetherInv
  <1>8. UseInv'
    <2>1. ASSUME NEW i \in PendingOps("GET")' \cup PendingOps("UPDATE")'
          PROVE  Request(io_queue[i])'.key \in DOMAIN index' /\ io_queue'[i].slab = index'[Request(io_queue[i])'.key]
      <3>1. CASE i = n
        <4>1. op \in {"GET", "UPDATE"}
          BY <1>3, <1>6, <3>1 DEF PendingOps
        <4> QED
          BY <1>2, <1>3, <3>1, <4>1
      <3>2. CASE i # n
        <4>1. i \in PendingOps("GET") \cup PendingOps("UPDATE") /\ i \in Pending
          BY <1>6, <3>2 DEF PendingOps
        <4> QED
          BY <1>1, <1>2, <4>1 DEF UseInv
      <3> QED
        BY <3>1, <3>2
    <2>2. ASSUME NEW i \in PendingOps("GET")' PROVE Lookup(PageAt(i))'
      <3>1. CASE i = n
        <4>1. op = "GET"
          BY <1>3, <1>6, <3>1 DEF PendingOps
        <4> QED
          BY <1>3, <1>5, <3>1, <4>1 DEF Lookup
      <3>2. CASE i # n
        <4>1. i \in PendingOps("GET") /\ i \in Pending
          BY <1>6, <3>2 DEF PendingOps
        <4> QED
          BY <1>1, <1>2, <1>5, <4>1 DEF UseInv, Lookup
      <3> QED
        BY <3>1, <3>2
    <2> QED
      BY <2>1, <2>2 DEF UseInv
  <1>9. FreedInv'
    <2> SUFFICES ASSUME NEW i \in PendingOps("DELETE")'
                 PROVE  /\ \/ \E s \in SlabSizes : \E m \in DOMAIN free_slab'[s] : free_slab'[s][m] = io_queue'[i].slab
                           \/ \E j \in PendingOps("PUT")' : i < j /\ io_queue'[j].slab = io_queue'[i].slab
                        /\ \A j \in PendingOps("DELETE")' : j # i => ~Clash(io_queue'[j].slab, io_queue'[i].slab)
      BY DEF FreedInv, Clash
    <2>1. CASE i = n
      <3>1. op = "DELETE"
        BY <1>3, <1>6, <2>1 DEF PendingOps
      <3>2. ASSUME NEW j \in PendingOps("DELETE")', j # i PROVE ~Clash(io_queue'[j].slab, io_queue'[i].slab)
        <4>1. j \in PendingOps("DELETE") /\ j \in Pending
          BY <1>6, <2>1, <3>2 DEF PendingOps
        <4> QED
          BY <1>2, <1>3, <2>1, <3>1, <4>1
      <3> QED
        BY <1>3, <2>1, <3>1, <3>2
    <2>2. CASE i # n
      <3>1. i \in PendingOps("DELETE") /\ i \in Pending /\ io_queue'[i].slab = io_queue[i].slab
        BY <1>2, <1>6, <2>2 DEF PendingOps
      <3>2. ASSUME NEW j \in PendingOps("DELETE")', j # i PROVE ~Clash(io_queue'[j].slab, io_queue'[i].slab)
        <4>1. CASE j = n
          <5>1. op = "DELETE"
            BY <1>3, <1>6, <4>1 DEF PendingOps
          <5> QED
            BY <1>3, <3>1, <4>1, <5>1, ClashSym
        <4>2. CASE j # n
          <5>1. j \in PendingOps("DELETE") /\ j \in Pending
            BY <1>6, <4>2 DEF PendingOps
          <5> QED
            BY <1>1, <1>2, <3>1, <3>2, <5>1 DEF FreedInv
        <4> QED
          BY <4>1, <4>2
      <3>3. CASE \E s \in SlabSizes : \E m \in DOMAIN free_slab[s] : free_slab[s][m] = io_queue[i].slab
        <4>1. PICK s \in SlabSizes : \E m \in DOMAIN free_slab[s] : free_slab[s][m] = io_queue[i].slab
          BY <3>3
        <4>2. PICK m \in DOMAIN free_slab[s] : free_slab[s][m] = io_queue[i].slab
          BY <4>1
        <4>3. CASE op = "PUT" /\ free_slab[s][m] = slab
          <5>1. n \in PendingOps("PUT")' /\ i < n /\ io_queue'[n].slab = io_queue'[i].slab
            BY <1>3, <1>6, <3>1, <4>2, <4>3
          <5> QED
            BY <3>2, <5>1
        <4>4. CASE \E x \in DOMAIN free_slab'[s] : free_slab'[s][x] = free_slab[s][m]
          BY <3>1, <3>2, <4>2, <4>4
        <4> QED
          BY <4>3, <4>4
      <3>4. CASE \E j \in PendingOps("PUT") : i < j /\ io_queue[j].slab = io_queue[i].slab
        <4>1. PICK j \in PendingOps("PUT") : i < j /\ io_queue[j].slab = io_queue[i].slab
          BY <3>4
        <4>2. j \in PendingOps("PUT")' /\ io_queue'[j].slab = io_queue[j].slab
          BY <1>2, <1>6 DEF PendingOps
        <4> QED
          BY <3>1, <3>2, <4>1, <4>2
      <3> QED
        BY <1>1, <3>1, <3>3, <3>4 DEF FreedInv
    <2> QED
      BY <2>1, <2>2
  <1>10. EventInv'
    <2>1. \A i \in Pending' : io_queue'[i].ev = "none" /\ i >= pos'
      BY <1>1, <1>2, <1>3 DEF EventInv
    <2>2. \A i \in Pending' : ~ (i < pos')
      BY <1>2, <1>3, <2>1
    <2> QED
      BY <1>2, <2>1, <2>2 DEF EventInv
  <1>11. HitsLast'
    <2> SUFFICES ASSUME NEW i \in DOMAIN io_queue', NEW j \in DOMAIN io_queue', i < j, PageAt(i)' = PageAt(j)',
                        io_queue'[i].hit
                 PROVE  io_queue'[j].hit
      BY DEF HitsLast
    <2>1. i # n
      BY <1>3
    <2>2. i \in Pending /\ io_queue[i].hit /\ PageAt(i) = PageAt(j)'
      BY <1>2, <1>3, <2>1
    <2>3. CASE j = n
      BY <1>1, <1>2, <1>3, <2>2, <2>3 DEF HitInv
    <2>4. CASE j # n
      BY <1>1, <1>2, <1>3, <2>2, <2>4 DEF HitsLast
    <2> QED
      BY <2>3, <2>4
  <1>12. ViewKept({})
    <2>1. ASSUME NEW p PROVE View(p)' = View(p)
      <3>1. CASE p \in DOMAIN cache' /\ ~ Unread(p)'
        <4>1. p \in DOMAIN cache /\ cache'[p] = cache[p] /\ ~ Unread(p)
          BY <1>4, <3>1
        <4> QED
          BY <3>1, <4>1, ViewAt
      <3>2. CASE p \notin DOMAIN cache'
        BY <1>5, <3>2, ViewAt
      <3>3. CASE Unread(p)'
        <4>1. PICK i \in Pending' : FirstRead(i)' /\ PageAt(i)' = p
          BY <1>2, <1>3, <3>3 DEF Unread
        <4>2. p \notin DOMAIN cache \/ Unread(p)
          <5>1. CASE i = n
            BY <1>3, <4>1, <5>1 DEF Lookup
          <5>2. CASE i # n
            <6>1. i \in DOMAIN io_queue /\ i >= pos /\ FirstRead(i) /\ PageAt(i) = p
              BY <1>2, <1>3, <4>1, <5>2
            <6> QED
              BY <1>2, <6>1 DEF Unread
          <5> QED
            BY <5>1, <5>2
        <4> QED
          BY <1>5, <3>3, <4>2, ViewAt
      <3> QED
        BY <3>1, <3>2, <3>3
    <2> QED
      BY <2>1 DEF ViewKept, CellAt
  <1>13. \A o : Written(o) = {} /\ Written(o)' = {}
    <2>1. \A o : Written(o) = {}
      BY <1>1, <1>2, DrainWritten
    <2>2. \A i \in DOMAIN io_queue' : io_queue'[i].ev = "none"
      BY <1>1, <1>2, <1>3 DEF EventInv
    <2>3. \A o : Written(o)' = {}
      BY <2>2 DEF Written
    <2> QED
      BY <2>1, <2>3
  <1>14. outBar' = outBar /\ Erased' = Erased
    BY <1>2, <1>13, OutSame
  <1>15. storeBar' = storeBar /\ ItemInv'
    <2>1. Written("PUT")' = {}
      BY <1>13
    <2> QED
      BY <1>2, <1>12, <1>14, <2>1, QuietItems
  <1>16. KV!Next
    BY <1>5, <1>14, <1>15, QuietNext
  <1> QED
    BY <1>4, <1>7, <1>8, <1>9, <1>10, <1>11, <1>15, <1>16 DEF KVInv

\* Get, Put, Update and Delete are such steps.
LEMMA KVProcess ==
  ASSUME TypeOK, TypeOK', SlabInv, KVInv, NEW c, ProcessRequest(c)
  PROVE  KVInv' /\ KV!Next
  <1>1. LoopInv /\ QueueInv /\ FitInv
    BY DEF SlabInv, KVInv
  <1>2. \A s \in SlabSizes : \A m \in DOMAIN free_slab[s] :
          free_slab' = free_slab => \E x \in DOMAIN free_slab'[s] : free_slab'[s][x] = free_slab[s][m]
    OBVIOUS
  <1>3. CASE Get(c)
    <2>1. PICK slab : slab = index[req[c].key]
      OBVIOUS
    <2>2. Enqueues(c, "GET", slab) /\ req[c].key \in DOMAIN index /\ free_slab' = free_slab
      BY <1>1, <1>3, <2>1, GetEnqueues DEF Get, slabVars
    <2> QED
      BY <1>2, <2>1, <2>2, KVEnqueue
  <1>4. CASE Update(c)
    <2>1. PICK slab : slab = index[req[c].key]
      OBVIOUS
    <2>2. Enqueues(c, "UPDATE", slab) /\ req[c].key \in DOMAIN index /\ free_slab' = free_slab
      BY <1>1, <1>4, <2>1, UpdateEnqueues DEF Update, slabVars
    <2> QED
      BY <1>2, <2>1, <2>2, KVEnqueue
  <1>5. CASE Put(c)
    <2>1. PICK k, slab, s0 : k = req[c].key /\ slab = NewSlab(ItemSize[k]) /\ s0 = Fit(ItemSize[k])
      OBVIOUS
    <2>2. Enqueues(c, "PUT", slab) /\ Create(ItemSize[k])
      BY <1>1, <1>5, <2>1, PutEnqueues DEF Put
    <2>3. \A s \in SlabSizes : \A m \in DOMAIN free_slab[s] :
           \/ \E x \in DOMAIN free_slab'[s] : free_slab'[s][x] = free_slab[s][m]
           \/ free_slab[s][m] = slab
      <3>1. CASE ReuseFree(s0)
        <4>1. free_slab[s0] # <<>> /\ free_slab' = [free_slab EXCEPT ![s0] = Tail(free_slab[s0])] /\ slab = Head(free_slab[s0])
          BY <2>1, <3>1 DEF ReuseFree, NewSlab
        <4> SUFFICES ASSUME NEW s \in SlabSizes, NEW m \in DOMAIN free_slab[s], free_slab[s][m] # slab
                     PROVE  \E x \in DOMAIN free_slab'[s] : free_slab'[s][x] = free_slab[s][m]
          OBVIOUS
        <4>2. free_slab[s] \in Seq(Slab) /\ DOMAIN free_slab = SlabSizes
          BY DEF TypeOK
        <4>3. CASE s = s0
          <5>1. free_slab'[s] = Tail(free_slab[s]) /\ slab = free_slab[s][1] /\ free_slab[s] # <<>>
            BY <4>1, <4>2, <4>3
          <5>2. m # 1 /\ m \in Nat /\ m \in 1 .. Len(free_slab[s])
            BY <4>2, <5>1
          <5>3. m - 1 \in DOMAIN free_slab'[s] /\ free_slab'[s][m - 1] = free_slab[s][m]
            BY <4>2, <5>1, <5>2
          <5> QED
            BY <5>3
        <4>4. CASE s # s0
          <5>1. free_slab'[s] = free_slab[s]
            BY <4>1, <4>2, <4>4
          <5> QED
            BY <5>1
        <4> QED
          BY <4>3, <4>4
      <3>2. CASE ~ ReuseFree(s0)
        <4>1. free_slab' = free_slab
          BY <2>1, <2>2, <3>2 DEF Create, OpenFile, NextInFile
        <4> QED
          BY <1>2, <4>1
      <3> QED
        BY <3>1, <3>2
    <2> QED
      BY <2>2, <2>3, KVEnqueue
  <1>6. CASE Delete(c)
    <2>1. PICK k, slab : k = req[c].key /\ slab = index[k]
      OBVIOUS
    <2>2. Enqueues(c, "DELETE", slab) /\ Free(slab) /\ k \in DOMAIN index /\ Pop(c, "DELETE")
      BY <1>1, <1>6, <2>1, DeleteEnqueues DEF Delete
    <2>3. slab \in Slab /\ slab.size \in SlabSizes
      BY <2>2 DEF Enqueues, Slab
    <2>4. free_slab' = [free_slab EXCEPT ![slab.size] = Append(free_slab[slab.size], slab)] /\ DOMAIN free_slab = SlabSizes
          /\ \A s \in SlabSizes : free_slab[s] \in Seq(Slab)
      BY <2>2 DEF Free, TypeOK
    <2>5. ASSUME NEW s \in SlabSizes, NEW m \in DOMAIN free_slab[s]
          PROVE  \E x \in DOMAIN free_slab'[s] : free_slab'[s][x] = free_slab[s][m]
      <3>1. CASE s = slab.size
        <4>1. free_slab'[s] = Append(free_slab[s], slab)
          BY <2>4, <3>1
        <4>2. m \in DOMAIN free_slab'[s] /\ free_slab'[s][m] = free_slab[s][m]
          BY <2>3, <2>4, <4>1
        <4> QED
          BY <4>2
      <3>2. CASE s # slab.size
        <4>1. free_slab'[s] = free_slab[s]
          BY <2>4, <3>2
        <4> QED
          BY <4>1
      <3> QED
        BY <3>1, <3>2
    <2>6. \E s \in SlabSizes : \E x \in DOMAIN free_slab'[s] : free_slab'[s][x] = slab
      <3>1. PICK s : s = slab.size
        OBVIOUS
      <3>2. free_slab'[s] = Append(free_slab[s], slab) /\ free_slab[s] \in Seq(Slab)
        BY <2>3, <2>4, <3>1
      <3>3. PICK x : x = Len(free_slab[s]) + 1
        OBVIOUS
      <3>4. x \in DOMAIN free_slab'[s] /\ free_slab'[s][x] = slab
        BY <2>3, <3>2, <3>3
      <3> QED
        BY <2>3, <3>1, <3>4
    <2>7. k \in Live
      <3>1. c \in Clients /\ req[c].op = "DELETE" /\ \A i \in Pending : io_queue[i].c # c
        BY <1>1, <2>2, PopQueue DEF Pop
      <3>2. ASSUME NEW i \in PendingOps("DELETE") PROVE Request(io_queue[i]).key # k
        <4>1. io_queue[i].c \in Clients /\ io_queue[i].c # c /\ req[io_queue[i].c].op = "DELETE"
          BY <3>1, PendingType DEF PendingOps, Request
        <4> QED
          BY <2>1, <3>1, <4>1 DEF SlabInv, DeletesDiffer, Request
      <3> QED
        BY <2>2, <3>2 DEF Live, PendingDeletes
    <2>8. \A j \in PendingOps("DELETE") : ~Clash(io_queue[j].slab, slab)
      BY <2>1, <2>7, ClashSym, DeletedSlab DEF KVInv
    <2> QED
      BY <2>1, <2>2, <2>5, <2>6, <2>8, KVEnqueue
  <1>7. CASE GetMiss(c) \/ UpdateMiss(c) \/ DeleteMiss(c) \/ PutExists(c)
    BY <1>7, KVMiss
  <1>8. CASE Scan(c)
    BY <1>8, KVScan
  <1> QED
    BY <1>3, <1>4, <1>5, <1>6, <1>7, <1>8 DEF ProcessRequest

-----------------------------------------------------------------------------
(* "submit" *)

\* A write that takes effect before it is answered gives its client a result.
LEMMA OutDo ==
  ASSUME NEW w, NEW c \in Clients,
         (Written("UPDATE") \cup Written("DELETE"))' = Written("UPDATE") \cup Written("DELETE") \cup {w},
         \A i \in Written("UPDATE") \cup Written("DELETE") : io_queue'[i].c = io_queue[i].c,
         io_queue'[w].c = c
  PROVE  outBar' = [outBar EXCEPT ![c] = Ok] /\ outBar'[c] = Ok
  <1>1. PICK U : U = Written("UPDATE") \cup Written("DELETE")
    OBVIOUS
  <1>2. outBar = [d \in Clients |-> IF \E i \in U : io_queue[i].c = d THEN Ok ELSE <<"pending">>]
    BY <1>1 DEF outBar
  <1>3. outBar' = [d \in Clients |-> IF \E i \in U \cup {w} : io_queue'[i].c = d THEN Ok ELSE <<"pending">>]
    BY <1>1 DEF outBar, Ok
  <1>4. \A d \in Clients : (\E i \in U \cup {w} : io_queue'[i].c = d) <=> d = c \/ \E i \in U : io_queue[i].c = d
    BY <1>1
  <1>5. [d \in Clients |-> IF \E i \in U \cup {w} : io_queue'[i].c = d THEN Ok ELSE <<"pending">>]
        = [d \in Clients |-> IF d = c THEN Ok ELSE outBar[d]]
    BY <1>2, <1>4
  <1>6. outBar' = [d \in Clients |-> IF d = c THEN Ok ELSE outBar[d]] /\ DOMAIN outBar = Clients
    BY <1>2, <1>3, <1>5
  <1> QED
    BY <1>6

\* An event is set: what stays, and which writes have now taken effect.
LEMMA KVEvent ==
  ASSUME TypeOK, TypeOK', SlabInv, KVInv, NEW ev \in {"none", "ok", "err"}, SetEvent(ev),
         DOMAIN cache' = DOMAIN cache, Request(io_queue[pos]).op \in Writes => ev # "none",
         ev = "err" => ~WritesWork /\ Request(io_queue[pos]).op \in Writes
  PROVE  /\ TogetherInv' /\ UseInv' /\ FreedInv' /\ EventInv' /\ FitInv' /\ HitInv({"PUT", "UPDATE"})' /\ HitsLast'
         /\ Silent /\ index' = index /\ pos \in Pending /\ phase = "submit"
         /\ \A op : Written(op)' = Written(op) \cup IF ev = "ok" /\ pos \in PendingOps(op) /\ ~io_queue[pos].hit THEN {pos} ELSE {}
         /\ \A op : pos \notin Written(op) /\ Written(op) \subseteq Pending
         /\ \A i \in Pending : /\ io_queue'[i].c = io_queue[i].c /\ io_queue'[i].slab = io_queue[i].slab
                               /\ Request(io_queue[i])' = Request(io_queue[i])
         /\ \A p : Unread(p)' => Unread(p)
         /\ \A p : Unread(p) => Unread(p)' \/ (FirstRead(pos) /\ PageAt(pos) = p)
         /\ \A i \in Pending : i > pos /\ FirstRead(i) => Unread(PageAt(i))'
  <1>1. LoopInv /\ QueueInv /\ FitInv /\ HitInv({"PUT", "UPDATE"}) /\ EventInv /\ UseInv /\ FreedInv /\ HitsLast
    BY DEF SlabInv, KVInv
  <1>2. /\ phase = "submit" /\ pos \in DOMAIN io_queue
        /\ UNCHANGED <<req, index, phase>> /\ UNCHANGED slabVars
        /\ Pending = DOMAIN io_queue /\ Pending' = Pending /\ DOMAIN io_queue' = DOMAIN io_queue
        /\ \A i \in Pending : Request(io_queue[i])' = Request(io_queue[i])
        /\ \A i \in Pending :
             /\ io_queue'[i].c = io_queue[i].c /\ io_queue'[i].slab = io_queue[i].slab
             /\ io_queue'[i].hit = io_queue[i].hit
             /\ io_queue'[i].ev = IF i = pos THEN ev ELSE io_queue[i].ev
    BY <1>1, SetEventQueue
  <1>3. /\ FitInv' /\ HitInv({"PUT", "UPDATE"})'
        /\ \A p : Unread(p) => Unread(p)' \/ (FirstRead(pos) /\ PageAt(pos) = p)
        /\ \A i \in Pending : i > pos /\ FirstRead(i) => Unread(PageAt(i))'
    BY <1>1, SetEventCells
  <1>4. pos' = pos + 1 /\ Silent /\ pos \in Nat /\ \A i \in Pending : i \in Nat
    BY DEF SetEvent, TypeOK, Pending
  <1>5. TogetherInv'
    BY <1>2 DEF KVInv, TogetherInv
  <1>6. UseInv' /\ FreedInv'
    BY <1>1, <1>2, UseSame DEF slabVars
  <1>7. HitsLast'
    BY <1>1, <1>2, HitsLastSame
  <1>8. \A i \in Pending : /\ i >= pos => io_queue[i].ev = "none"
                           /\ i < pos /\ Request(io_queue[i]).op \in Writes => io_queue[i].ev # "none"
                           /\ io_queue[i].ev = "err" => ~WritesWork /\ Request(io_queue[i]).op \in Writes
    BY <1>1, <1>2 DEF EventInv
  <1>9. EventInv'
    <2> SUFFICES ASSUME NEW i \in Pending
                 PROVE  /\ io_queue'[i].ev = "err" => ~WritesWork /\ Request(io_queue[i])'.op \in Writes
                        /\ i >= pos' => io_queue'[i].ev = "none"
                        /\ i < pos' /\ Request(io_queue[i])'.op \in Writes => io_queue'[i].ev # "none"
      BY <1>2 DEF EventInv, Writes, WritesWork
    <2>1. CASE i = pos
      BY <1>2, <1>4, <2>1
    <2>2. CASE i # pos
      <3>1. i >= pos' => i >= pos
        BY <1>4
      <3>2. i < pos' => i < pos
        BY <1>4, <2>2
      <3> QED
        BY <1>2, <1>8, <2>2, <3>1, <3>2
    <2> QED
      BY <2>1, <2>2
  <1>10. \A op : pos \notin Written(op) /\ Written(op) \subseteq Pending
    BY <1>2, <1>4, <1>8 DEF Written
  <1>11. ASSUME NEW op
         PROVE  Written(op)' = Written(op) \cup IF ev = "ok" /\ pos \in PendingOps(op) /\ ~io_queue[pos].hit THEN {pos} ELSE {}
    <2>1. Written(op) = {i \in Pending : Request(io_queue[i]).op = op /\ ~io_queue[i].hit /\ io_queue[i].ev = "ok"}
      BY <1>2 DEF Written
    <2>2. Written(op)' = {i \in Pending : Request(io_queue[i])'.op = op /\ ~io_queue'[i].hit /\ io_queue'[i].ev = "ok"}
      BY <1>2 DEF Written
    <2>3. pos \in PendingOps(op) <=> Request(io_queue[pos]).op = op
      BY <1>2 DEF PendingOps
    <2>4. \A i \in Pending : i # pos => (i \in Written(op)' <=> i \in Written(op))
      BY <1>2, <2>1, <2>2
    <2>5. pos \in Written(op)' <=> ev = "ok" /\ pos \in PendingOps(op) /\ ~io_queue[pos].hit
      BY <1>2, <2>2, <2>3
    <2>6. Written(op)' \subseteq Pending /\ Written(op) \subseteq Pending /\ pos \notin Written(op)
      BY <1>10, <2>2
    <2> QED
      BY <2>4, <2>5, <2>6
  <1>12. ASSUME NEW p, Unread(p)' PROVE Unread(p)
    <2>1. PICK i \in Pending : i >= pos' /\ FirstRead(i)' /\ PageAt(i)' = p
      BY <1>2, <1>12 DEF Unread
    <2>2. i >= pos /\ FirstRead(i) /\ PageAt(i) = p
      BY <1>2, <1>4, <2>1 DEF FirstRead, PageAt, PageOf, Page, Addr
    <2> QED
      BY <1>2, <2>2 DEF Unread
  <1> QED
    BY <1>2, <1>3, <1>4, <1>5, <1>6, <1>7, <1>9, <1>10, <1>11, <1>12

\* A pread fills its frame with what reads saw before.
LEMMA KVRead ==
  ASSUME TypeOK, TypeOK', SlabInv, KVInv, FakeRead \/ Pread
  PROVE  KVInv' /\ KV!Next
  <1>1. PICK ev, q : ev \in {"none", "ok"} /\ SetEvent(ev) /\ q = PageAt(pos)
    BY DEF FakeRead, Pread
  <1>2. Request(io_queue[pos]).op = "GET" /\ UNCHANGED disk
        /\ (cache' = cache \/ cache' = [cache EXCEPT ![q] = PageFrame(q)])
        /\ (io_queue[pos].hit => cache' = cache)
        /\ (~io_queue[pos].hit => cache' = [cache EXCEPT ![q] = PageFrame(q)])
    BY <1>1 DEF FakeRead, Pread, PageAt, fileVars
  <1>3. /\ TogetherInv' /\ UseInv' /\ FreedInv' /\ EventInv' /\ FitInv' /\ HitInv({"PUT", "UPDATE"})' /\ HitsLast'
        /\ Silent /\ index' = index /\ pos \in Pending /\ phase = "submit"
        /\ \A op : Written(op)' = Written(op) \cup IF ev = "ok" /\ pos \in PendingOps(op) /\ ~io_queue[pos].hit THEN {pos} ELSE {}
        /\ \A op : Written(op) \subseteq Pending
        /\ \A i \in Pending : /\ io_queue'[i].c = io_queue[i].c /\ io_queue'[i].slab = io_queue[i].slab
                              /\ Request(io_queue[i])' = Request(io_queue[i])
        /\ \A p : Unread(p)' => Unread(p)
        /\ \A p : Unread(p) => Unread(p)' \/ (FirstRead(pos) /\ PageAt(pos) = p)
    <2>1. DOMAIN cache' = DOMAIN cache
      BY <1>2
    <2>2. Request(io_queue[pos]).op \notin Writes
      BY <1>2 DEF Writes
    <2> QED
      BY <1>1, <2>1, <2>2, KVEvent
  <1>4. \A op \in Writes : Written(op)' = Written(op)
    BY <1>2, <1>3 DEF PendingOps, Writes
  <1>5. ViewKept({})
    <2> SUFFICES ASSUME NEW p \in Nat \X Nat, NEW a \in PageAddrs(p)
                 PROVE  CellAt(View(p), a)' = CellAt(View(p), a)
      BY DEF ViewKept
    <2>1. CellAt(View(p), a)' = CellAt(View(p)', a)
      BY DEF CellAt
    <2>2. CASE ~ (FirstRead(pos) /\ q = p)
      <3>1. Unread(p)' <=> Unread(p)
        BY <1>1, <1>3, <2>2
      <3>2. p \in DOMAIN cache => cache'[p] = cache[p]
        BY <1>2, <2>2 DEF FirstRead
      <3>3. View(p)' = View(p)
        BY <1>2, <3>1, <3>2, ViewAt
      <3> QED
        BY <2>1, <3>3
    <2>3. CASE FirstRead(pos) /\ q = p
      <3>1. p \in DOMAIN cache
        <4>1. pos \in PendingOps("GET")
          BY <1>2, <1>3 DEF PendingOps
        <4>2. Lookup(PageAt(pos))
          BY <4>1 DEF KVInv, UseInv
        <4> QED
          BY <1>1, <2>3, <4>2 DEF Lookup
      <3>2. Unread(p)
        <4>1. pos \in DOMAIN io_queue /\ pos >= pos
          BY <1>3 DEF Pending, TypeOK
        <4> QED
          BY <1>1, <1>3, <2>3, <4>1 DEF Unread
      <3>3. View(p) = disk
        BY <3>2, ViewAt
      <3>4. cache'[p] = PageFrame(p)
        BY <1>2, <2>3, <3>1 DEF FirstRead
      <3>5. View(p)' = cache'[p] \/ View(p)' = disk
        BY <1>2, ViewAt
      <3>6. CellAt(PageFrame(p), a) = CellAt(disk, a)
        BY FrameAt DEF CellAt, DiskAt
      <3> QED
        BY <2>1, <3>3, <3>4, <3>5, <3>6
    <2> QED
      BY <2>2, <2>3
  <1>6. outBar' = outBar /\ Erased' = Erased
    BY <1>3, <1>4, OutSame DEF Writes
  <1>7. storeBar' = storeBar /\ ItemInv'
    <2>1. Written("PUT")' = Written("PUT") /\ Written("PUT") \subseteq Pending
      BY <1>3, <1>4 DEF Writes
    <2> QED
      BY <1>3, <1>5, <1>6, <2>1, QuietItems
  <1> QED
    BY <1>3, <1>6, <1>7, QuietNext DEF KVInv

\* What the steps of a pwrite have in common.
LEMMA KVPwriteEvent ==
  ASSUME TypeOK, TypeOK', SlabInv, KVInv, Pwrite
  PROVE  /\ TogetherInv' /\ UseInv' /\ FreedInv' /\ EventInv' /\ FitInv' /\ HitInv({"PUT", "UPDATE"})' /\ HitsLast'
         /\ Silent /\ index' = index /\ pos \in Pending /\ phase = "submit"
         /\ Request(io_queue[pos]).op \in Writes /\ UNCHANGED cache
         /\ \A op : Written(op)' = Written(op) \cup IF pos \in PendingOps(op) /\ ~io_queue[pos].hit THEN {pos} ELSE {}
         /\ \A op : pos \notin Written(op) /\ Written(op) \subseteq Pending
         /\ \A i \in Pending : /\ io_queue'[i].c = io_queue[i].c /\ io_queue'[i].slab = io_queue[i].slab
                               /\ Request(io_queue[i])' = Request(io_queue[i])
         /\ \A p : Unread(p)' <=> Unread(p)
         /\ \A i \in Pending : i > pos /\ FirstRead(i) => Unread(PageAt(i))'
         /\ \A a : CellAt(disk', a) = IF a \in DOMAIN Payload(io_queue[pos]) THEN Payload(io_queue[pos])[a] ELSE CellAt(disk, a)
  <1>1. SetEvent("ok") /\ Request(io_queue[pos]).op \in Writes /\ UNCHANGED cache
        /\ disk' = Over(disk, Payload(io_queue[pos]))
    BY DEF Pwrite
  <1>2. /\ TogetherInv' /\ UseInv' /\ FreedInv' /\ EventInv' /\ FitInv' /\ HitInv({"PUT", "UPDATE"})' /\ HitsLast'
        /\ Silent /\ index' = index /\ pos \in Pending /\ phase = "submit"
        /\ \A op : Written(op)' = Written(op) \cup IF pos \in PendingOps(op) /\ ~io_queue[pos].hit THEN {pos} ELSE {}
        /\ \A op : pos \notin Written(op) /\ Written(op) \subseteq Pending
        /\ \A i \in Pending : /\ io_queue'[i].c = io_queue[i].c /\ io_queue'[i].slab = io_queue[i].slab
                              /\ Request(io_queue[i])' = Request(io_queue[i])
        /\ \A p : Unread(p)' => Unread(p)
        /\ \A p : Unread(p) => Unread(p)' \/ (FirstRead(pos) /\ PageAt(pos) = p)
        /\ \A i \in Pending : i > pos /\ FirstRead(i) => Unread(PageAt(i))'
    BY <1>1, KVEvent
  <1>3. ~FirstRead(pos)
    BY <1>1 DEF FirstRead, Writes
  <1>4. \A a : CellAt(disk', a) = IF a \in DOMAIN Payload(io_queue[pos]) THEN Payload(io_queue[pos])[a] ELSE CellAt(disk, a)
    BY <1>1, OverAt
  <1> QED
    BY <1>1, <1>2, <1>3, <1>4

\* The write of an AIO that will patch the page is not seen yet.
LEMMA KVPwriteHit ==
  ASSUME TypeOK, TypeOK', SlabInv, KVInv, Pwrite, io_queue[pos].hit
  PROVE  KVInv' /\ KV!Next
  <1>1. /\ TogetherInv' /\ UseInv' /\ FreedInv' /\ EventInv' /\ FitInv' /\ HitInv({"PUT", "UPDATE"})' /\ HitsLast'
        /\ Silent /\ index' = index /\ pos \in Pending /\ phase = "submit"
        /\ Request(io_queue[pos]).op \in Writes /\ UNCHANGED cache
        /\ \A op : Written(op)' = Written(op) /\ Written(op) \subseteq Pending
        /\ \A i \in Pending : /\ io_queue'[i].c = io_queue[i].c /\ io_queue'[i].slab = io_queue[i].slab
                              /\ Request(io_queue[i])' = Request(io_queue[i])
        /\ \A p : Unread(p)' <=> Unread(p)
        /\ \A a : CellAt(disk', a) = IF a \in DOMAIN Payload(io_queue[pos]) THEN Payload(io_queue[pos])[a] ELSE CellAt(disk, a)
    BY KVPwriteEvent
  <1>2. PICK q, A : q = PageAt(pos) /\ A = DOMAIN Payload(io_queue[pos])
    OBVIOUS
  <1>3. A \subseteq PageAddrs(q) /\ q \in Nat \X Nat
    BY <1>1, <1>2, PayloadInPage, AioType DEF KVInv
  <1>4. q \in DOMAIN cache /\ ~Unread(q)
    <2>1. HitInv({"PUT", "UPDATE"}) /\ pos \in DOMAIN io_queue /\ pos \in Nat
      BY <1>1 DEF KVInv, Pending, TypeOK
    <2>2. q \in DOMAIN cache
      BY <1>2, <2>1 DEF HitInv, Lookup
    <2>3. ASSUME NEW i \in DOMAIN io_queue, i >= pos, FirstRead(i), PageAt(i) = q PROVE FALSE
      <3>1. i # pos
        BY <1>1, <2>3 DEF FirstRead, Writes
      <3>2. pos < i
        <4>1. i \in Nat
          BY DEF TypeOK
        <4> QED
          BY <2>1, <2>3, <3>1, <4>1
      <3> QED
        BY <1>1, <1>2, <2>1, <2>3, <3>2 DEF HitInv
    <2> QED
      BY <2>2, <2>3 DEF Unread
  <1>5. ViewKept({})
    <2> SUFFICES ASSUME NEW p \in Nat \X Nat, NEW a \in PageAddrs(p)
                 PROVE  CellAt(View(p), a)' = CellAt(View(p), a)
      BY DEF ViewKept
    <2>1. CellAt(View(p), a)' = CellAt(View(p)', a)
      BY DEF CellAt
    <2>2. CASE p \in DOMAIN cache /\ ~Unread(p)
      <3>1. View(p)' = View(p)
        BY <1>1, <2>2, ViewAt
      <3> QED
        BY <2>1, <3>1
    <2>3. CASE ~ (p \in DOMAIN cache /\ ~Unread(p))
      <3>1. View(p)' = disk' /\ View(p) = disk
        BY <1>1, <2>3, ViewAt
      <3>2. p # q
        BY <1>4, <2>3
      <3>3. a \notin A
        BY <1>3, <3>2, PagesApart
      <3>4. CellAt(disk', a) = CellAt(disk, a)
        BY <1>1, <1>2, <3>3
      <3> QED
        BY <2>1, <3>1, <3>4
    <2> QED
      BY <2>2, <2>3
  <1>6. outBar' = outBar /\ Erased' = Erased
    BY <1>1, OutSame
  <1>7. storeBar' = storeBar /\ ItemInv'
    <2>1. Written("PUT")' = Written("PUT") /\ Written("PUT") \subseteq Pending
      BY <1>1
    <2> QED
      BY <1>1, <1>5, <1>6, <2>1, QuietItems
  <1> QED
    BY <1>1, <1>6, <1>7, QuietNext DEF KVInv

\* Any other write is seen when it is carried out: the frame of its page, if it has one, is
\* still to be filled.
LEMMA KVPwriteDue ==
  ASSUME TypeOK, TypeOK', SlabInv, KVInv, Pwrite, ~io_queue[pos].hit
  PROVE  /\ Due(pos) /\ ViewKept(DOMAIN Payload(io_queue[pos]))
         /\ Request(io_queue[pos]).op \in {"PUT", "UPDATE"} =>
              \A slab, k, v : /\ slab = io_queue[pos].slab /\ k = Request(io_queue[pos]).key
                              /\ v = Request(io_queue[pos]).val
                              => Holds(slab, k, v)'
  <1>1. /\ pos \in Pending /\ phase = "submit" /\ Request(io_queue[pos]).op \in Writes /\ UNCHANGED cache
        /\ \A p : Unread(p)' <=> Unread(p)
        /\ \A i \in Pending : i > pos /\ FirstRead(i) => Unread(PageAt(i))'
        /\ \A a : CellAt(disk', a) = IF a \in DOMAIN Payload(io_queue[pos]) THEN Payload(io_queue[pos])[a] ELSE CellAt(disk, a)
    BY KVPwriteEvent
  <1>2. Due(pos)
    BY <1>1 DEF Due
  <1>3. PICK A : A = DOMAIN Payload(io_queue[pos])
    OBVIOUS
  <1>4. ASSUME NEW p \in Nat \X Nat, NEW a \in PageAddrs(p), a \notin A
        PROVE  CellAt(View(p), a)' = CellAt(View(p), a)
    <2>1. CellAt(View(p), a)' = CellAt(View(p)', a)
      BY DEF CellAt
    <2>2. View(p)' = View(p) \/ (View(p)' = disk' /\ View(p) = disk)
      BY <1>1, ViewAt
    <2>3. CellAt(disk', a) = CellAt(disk, a)
      BY <1>1, <1>3, <1>4
    <2> QED
      BY <2>1, <2>2, <2>3
  <1>5. ViewKept(A)
    BY <1>4 DEF ViewKept
  <1>6. ASSUME NEW slab, NEW k, NEW v, Request(io_queue[pos]).op \in {"PUT", "UPDATE"}, slab = io_queue[pos].slab,
               k = Request(io_queue[pos]).key, v = Request(io_queue[pos]).val
        PROVE  Holds(slab, k, v)'
    <2>1. PICK q : q = PageOf(slab)
      OBVIOUS
    <2>2. q = PageAt(pos) /\ pos \in DOMAIN io_queue
      BY <1>1, <1>6, <2>1 DEF PageAt, Pending
    <2>3. View(q)' = disk'
      <3>1. CASE q \in DOMAIN cache
        <4>1. PICK r \in DOMAIN io_queue : pos < r /\ FirstRead(r) /\ PageAt(r) = q
          BY <1>1, <1>6, <2>2, <3>1 DEF KVInv, HitInv, Lookup
        <4>2. r \in Pending /\ r > pos
          BY <1>1, <4>1 DEF Pending, TypeOK
        <4>3. PICK x : x = PageAt(r)
          OBVIOUS
        <4>4. Unread(q)
          <5>1. r >= pos /\ phase # "finish"
            BY <1>1, <4>1 DEF TypeOK
          <5> QED
            BY <4>1, <5>1 DEF Unread
        <4> QED
          BY <1>1, <4>4, ViewAt
      <3>2. CASE q \notin DOMAIN cache
        BY <1>1, <3>2, ViewAt
      <3> QED
        BY <3>1, <3>2
    <2>4. ASSUME NEW i \in 0 .. ItemSize[k] - 1
          PROVE  CellAt(View(q), Addr(slab, i))' = ItemCell(k, v, i)
      <3>1. PICK a : a = Addr(slab, i)
        OBVIOUS
      <3>2. a \in DOMAIN Payload(io_queue[pos]) /\ Payload(io_queue[pos])[a] = ItemCell(k, v, i)
        BY <1>1, <1>6, <3>1, PayloadItem
      <3>3. CellAt(View(q), a)' = CellAt(View(q)', a)
        BY DEF CellAt
      <3>4. CellAt(View(q)', a) = ItemCell(k, v, i)
        BY <1>1, <2>3, <3>2
      <3> QED
        BY <3>1, <3>3, <3>4 DEF Addr
    <2> QED
      BY <2>1, <2>4 DEF Holds, ItemCell, PageOf, Page, Addr
  <1> QED
    BY <1>2, <1>3, <1>5, <1>6 DEF ViewKept

\* The item of a PUT is in no slab of the map.
LEMMA KVPwritePut ==
  ASSUME TypeOK, TypeOK', SlabInv, KVInv, Pwrite, ~io_queue[pos].hit, Request(io_queue[pos]).op = "PUT"
  PROVE  ItemInv' /\ KV!Next
  <1>1. /\ Silent /\ index' = index /\ pos \in Pending
        /\ \A op : Written(op)' = Written(op) \cup IF pos \in PendingOps(op) /\ ~io_queue[pos].hit THEN {pos} ELSE {}
        /\ \A op : Written(op) \subseteq Pending
        /\ \A i \in Pending : /\ io_queue'[i].c = io_queue[i].c /\ io_queue'[i].slab = io_queue[i].slab
                              /\ Request(io_queue[i])' = Request(io_queue[i])
    BY KVPwriteEvent
  <1>2. /\ Due(pos) /\ ViewKept(DOMAIN Payload(io_queue[pos]))
        /\ \A slab, k, v : /\ slab = io_queue[pos].slab /\ k = Request(io_queue[pos]).key
                           /\ v = Request(io_queue[pos]).val
                           => Holds(slab, k, v)'
    BY KVPwriteDue
  <1>3. /\ \A k, v, slab : Has(k, v) /\ slab = index[k] => Holds(slab, k, v)'
        /\ \A j \in Written("PUT") : \A slab, k, v :
              /\ slab = io_queue[j].slab /\ k = Request(io_queue[j]).key /\ v = Request(io_queue[j]).val
              /\ j # pos
              => Holds(slab, k, v)'
    BY <1>2, DueItems
  <1>4. Written("PUT")' = Written("PUT") \cup {pos} /\ \A op \in {"UPDATE", "DELETE"} : Written(op)' = Written(op)
    BY <1>1 DEF PendingOps
  <1>5. outBar' = outBar /\ Erased' = Erased
    BY <1>1, <1>4, OutSame
  <1>6. Mapped' = Mapped
    BY <1>1, <1>5 DEF Mapped
  <1>7. ASSUME NEW k, NEW v, Has(k, v) PROVE Has(k, v)'
    <2>1. PICK slab : slab = index[k]
      OBVIOUS
    <2>2. Holds(slab, k, v)' /\ k \in Mapped'
      BY <1>3, <1>6, <1>7, <2>1 DEF Has
    <2> QED
      BY <1>1, <1>7, <2>1, <2>2, HasKept
  <1>8. storeBar' = storeBar /\ \A k \in Mapped' : \E v : Has(k, v)'
    BY <1>6, <1>7, StoreSame DEF KVInv
  <1>9. ASSUME NEW i \in Written("PUT")', NEW slab, NEW k, NEW v,
               slab = io_queue'[i].slab, k = Request(io_queue[i])'.key, v = Request(io_queue[i])'.val
        PROVE  Holds(slab, k, v)'
    <2>1. i \in Pending
      BY <1>1, <1>4
    <2>2. slab = io_queue[i].slab /\ k = Request(io_queue[i]).key /\ v = Request(io_queue[i]).val
      BY <1>1, <1>9, <2>1
    <2> QED
      BY <1>2, <1>3, <1>4, <2>2
  <1>10. ItemInv'
    BY <1>8, <1>9, ItemsNext
  <1> QED
    BY <1>1, <1>5, <1>8, <1>10, QuietNext

\* An UPDATE or a DELETE takes effect.
LEMMA KVPwriteDo ==
  ASSUME TypeOK, TypeOK', SlabInv, KVInv, Pwrite, ~io_queue[pos].hit, Request(io_queue[pos]).op \in {"UPDATE", "DELETE"}
  PROVE  ItemInv' /\ KV!Next
  <1>1. PICK c, op, j, slab : /\ c = io_queue[pos].c /\ op = Request(io_queue[pos]).op /\ j = Request(io_queue[pos]).key
                              /\ slab = io_queue[pos].slab
    OBVIOUS
  <1>2. /\ Silent /\ index' = index /\ pos \in Pending /\ op \in {"UPDATE", "DELETE"}
        /\ \A o : Written(o)' = Written(o) \cup IF pos \in PendingOps(o) /\ ~io_queue[pos].hit THEN {pos} ELSE {}
        /\ \A o : pos \notin Written(o) /\ Written(o) \subseteq Pending
        /\ \A i \in Pending : /\ io_queue'[i].c = io_queue[i].c /\ io_queue'[i].slab = io_queue[i].slab
                              /\ Request(io_queue[i])' = Request(io_queue[i])
    BY <1>1, KVPwriteEvent
  <1>3. /\ Due(pos) /\ ViewKept(DOMAIN Payload(io_queue[pos]))
        /\ op = "UPDATE" => \A u : u = Request(io_queue[pos]).val => Holds(slab, j, u)'
    BY <1>1, KVPwriteDue
  <1>4. /\ \A k, v, s : Has(k, v) /\ s = index[k] /\ k # j => Holds(s, k, v)'
        /\ \A i \in Written("PUT") : \A s, k, v :
              /\ s = io_queue[i].slab /\ k = Request(io_queue[i]).key /\ v = Request(io_queue[i]).val
              /\ i # pos
              => Holds(s, k, v)'
    BY <1>1, <1>3, DueItems
  <1>5. Written(op)' = Written(op) \cup {pos} /\ \A o : o # op => Written(o)' = Written(o)
    BY <1>1, <1>2 DEF PendingOps
  <1>6. ASSUME NEW k, NEW v, Has(k, v), k # j, k \in Mapped' PROVE Has(k, v)'
    <2>1. PICK s : s = index[k]
      OBVIOUS
    <2>2. Holds(s, k, v)'
      BY <1>4, <1>6, <2>1
    <2> QED
      BY <1>2, <1>6, <2>1, <2>2, HasKept
  <1>7. ASSUME NEW i \in Written("PUT")', NEW s, NEW k, NEW v,
               s = io_queue'[i].slab, k = Request(io_queue[i])'.key, v = Request(io_queue[i])'.val
        PROVE  Holds(s, k, v)'
    <2>1. i \in Pending /\ i \in Written("PUT") /\ i # pos
      BY <1>2, <1>5
    <2>2. s = io_queue[i].slab /\ k = Request(io_queue[i]).key /\ v = Request(io_queue[i]).val
      BY <1>2, <1>7, <2>1
    <2> QED
      BY <1>4, <2>1, <2>2
  <1>8. c \in Clients /\ req[c] # NoReq /\ req[c].op = op /\ req[c].key = j
    BY <1>1, <1>2, PendingType DEF SlabInv, QueueInv, Request
  <1>9. outBar[c] = KV!Pending
    <2>1. \A i \in Pending : i # pos => io_queue[i].c # c
      BY <1>1, <1>2 DEF SlabInv, QueueInv
    <2> QED
      BY <1>2, <1>8, <2>1, OutPending
  <1>10. outBar' = [outBar EXCEPT ![c] = Ok] /\ outBar'[c] = Ok
    <2>1. (Written("UPDATE") \cup Written("DELETE"))' = Written("UPDATE") \cup Written("DELETE") \cup {pos}
      BY <1>2, <1>5
    <2>2. PICK w : w = pos
      OBVIOUS
    <2>3. io_queue'[w].c = c
      BY <1>1, <1>2, <2>2
    <2> QED
      BY <1>2, <1>8, <2>1, <2>2, <2>3, OutDo
  <1>11. op = "UPDATE" => storeBar' = KV!Set(j, req[c].val) /\ j \in Mapped /\ \A k \in Mapped' : \E v : Has(k, v)'
    <2> HAVE op = "UPDATE"
    <2>1. pos \in PendingOps("UPDATE")
      BY <1>1, <1>2 DEF PendingOps
    <2>2. j \in Mapped /\ slab = index[j]
      BY <1>1, <2>1, UsedLive
    <2>3. Mapped' = Mapped
      <3>1. Written("DELETE")' = Written("DELETE")
        BY <1>5, <2>1
      <3>2. Erased' = Erased
        BY <1>2, <3>1 DEF Erased
      <3> QED
        BY <1>2, <3>2 DEF Mapped
    <2>4. PICK u : u = req[c].val
      OBVIOUS
    <2>5. u \in Values /\ u = Request(io_queue[pos]).val
      BY <1>1, <1>8, <2>1, <2>4, OutstandingType DEF Request
    <2>6. Has(j, u)'
      <3>1. Holds(slab, j, u)'
        BY <1>3, <2>1, <2>5
      <3>2. index'[j] = slab /\ j \in Mapped'
        BY <1>2, <2>2, <2>3
      <3> QED
        BY <2>5, <3>1, <3>2 DEF Has
    <2>7. Mapped' = Mapped \cup {j}
      BY <2>2, <2>3
    <2>8. \A k, v : k # j /\ Has(k, v) => Has(k, v)'
      BY <1>6, <2>3 DEF Has
    <2>9. /\ storeBar' = [k \in DOMAIN storeBar \cup {j} |-> IF k = j THEN u ELSE storeBar[k]]
          /\ \A k \in Mapped' : \E v : Has(k, v)'
      BY <2>6, <2>7, <2>8, StoreSet DEF KVInv
    <2> QED
      BY <2>2, <2>4, <2>9 DEF KV!Set
  <1>12. op = "DELETE" => storeBar' = KV!Drop(j) /\ j \in Mapped /\ \A k \in Mapped' : \E v : Has(k, v)'
    <2> HAVE op = "DELETE"
    <2>1. pos \in PendingOps("DELETE")
      BY <1>1, <1>2 DEF PendingOps
    <2>2. j \in DOMAIN index
      BY <1>1, <2>1 DEF SlabInv, DeleteInv
    <2>3. \A i \in Written("DELETE") : Request(io_queue[i]).key # j
      <3> SUFFICES ASSUME NEW i \in Written("DELETE") PROVE Request(io_queue[i]).key # j
        OBVIOUS
      <3>1. i \in Pending /\ i # pos /\ Request(io_queue[i]).op = "DELETE"
        BY <1>2 DEF Written
      <3>2. io_queue[i].c \in Clients /\ io_queue[i].c # c
        BY <1>1, <1>2, <3>1, PendingType DEF SlabInv, QueueInv
      <3> QED
        BY <1>8, <2>1, <3>1, <3>2 DEF SlabInv, DeletesDiffer, Request
    <2>4. j \in Mapped
      BY <2>2, <2>3 DEF Mapped, Erased
    <2>5. Erased' = Erased \cup {j}
      <3>1. Written("DELETE")' = Written("DELETE") \cup {pos}
        BY <1>5, <2>1
      <3> QED
        BY <1>1, <1>2, <3>1 DEF Erased
    <2>6. Mapped' = Mapped \ {j}
      BY <1>2, <2>5 DEF Mapped
    <2>7. \A k, v : k # j /\ Has(k, v) => Has(k, v)'
      BY <1>6, <2>6 DEF Has
    <2>8. /\ storeBar' = [k \in DOMAIN storeBar \ {j} |-> storeBar[k]]
          /\ \A k \in Mapped' : \E v : Has(k, v)'
      BY <2>6, <2>7, StoreDrop DEF KVInv
    <2> QED
      BY <2>4, <2>8 DEF KV!Drop
  <1>13. ItemInv'
    BY <1>2, <1>7, <1>11, <1>12, ItemsNext
  <1>14. KV!Effect(req[c], Ok, storeBar')
    <2>1. j \in DOMAIN storeBar
      BY <1>2, <1>11, <1>12, StoreDomain
    <2>2. CASE op = "UPDATE"
      BY <1>8, <1>11, <2>1, <2>2 DEF KV!Effect, KV!Ok, Ok
    <2>3. CASE op = "DELETE"
      BY <1>8, <1>12, <2>1, <2>3 DEF KV!Effect, KV!Ok, Ok
    <2> QED
      BY <1>2, <2>2, <2>3
  <1>15. KV!Do(c)
    <2>1. Ok # KV!Pending
      BY DEF Ok, KV!Pending
    <2>2. outBar'[c] # KV!Pending /\ outBar' = [outBar EXCEPT ![c] = outBar'[c]] /\ KV!Effect(req[c], outBar'[c], storeBar')
      BY <1>10, <1>14, <2>1
    <2>3. reply' = KV!NoReply /\ req' = req /\ req[c] # KV!NoReq
      BY <1>2, <1>8 DEF Silent, NoReply, KV!NoReply, NoReq, KV!NoReq
    <2> QED
      BY <1>9, <2>2, <2>3 DEF KV!Do
  <1> QED
    BY <1>8, <1>13, <1>15 DEF KV!Next

\* A write that fails is not seen.
LEMMA KVWriteFails ==
  ASSUME TypeOK, TypeOK', SlabInv, KVInv, PwriteFails
  PROVE  KVInv' /\ KV!Next
  <1>1. /\ SetEvent("err") /\ Request(io_queue[pos]).op \in Writes /\ ~WritesWork
        /\ UNCHANGED <<disk, cache>> /\ ~FirstRead(pos)
    BY DEF PwriteFails, WritesWork, fileVars, FirstRead, Writes
  <1>2. /\ TogetherInv' /\ UseInv' /\ FreedInv' /\ EventInv' /\ FitInv' /\ HitInv({"PUT", "UPDATE"})' /\ HitsLast'
        /\ Silent /\ index' = index
        /\ \A op : Written(op)' = Written(op) /\ Written(op) \subseteq Pending
        /\ \A i \in Pending : /\ io_queue'[i].c = io_queue[i].c /\ io_queue'[i].slab = io_queue[i].slab
                              /\ Request(io_queue[i])' = Request(io_queue[i])
        /\ \A p : Unread(p)' => Unread(p)
        /\ \A p : Unread(p) => Unread(p)' \/ (FirstRead(pos) /\ PageAt(pos) = p)
    BY <1>1, KVEvent
  <1>3. ViewKept({})
    BY <1>1, <1>2, ViewSame
  <1>4. outBar' = outBar /\ Erased' = Erased
    BY <1>2, OutSame
  <1>5. storeBar' = storeBar /\ ItemInv'
    <2>1. Written("PUT")' = Written("PUT") /\ Written("PUT") \subseteq Pending
      BY <1>2
    <2> QED
      BY <1>2, <1>3, <1>4, <2>1, QuietItems
  <1> QED
    BY <1>2, <1>4, <1>5, QuietNext DEF KVInv

\* "submit", whatever the AIO is: no read fails.
LEMMA KVIoSubmit ==
  ASSUME Linear, TypeOK, TypeOK', SlabInv, KVInv, IoSubmit
  PROVE  KVInv' /\ KV!Next
  <1>1. CASE FakeRead \/ Pread
    BY <1>1, KVRead
  <1>2. CASE Pwrite
    <2>1. CASE io_queue[pos].hit
      BY <1>2, <2>1, KVPwriteHit
    <2>2. CASE ~io_queue[pos].hit
      <3>1. /\ TogetherInv' /\ UseInv' /\ FreedInv' /\ EventInv' /\ FitInv' /\ HitInv({"PUT", "UPDATE"})' /\ HitsLast'
            /\ Request(io_queue[pos]).op \in Writes
        BY <1>2, KVPwriteEvent
      <3>2. ItemInv' /\ KV!Next
        BY <1>2, <2>2, <3>1, KVPwritePut, KVPwriteDo DEF Writes
      <3> QED
        BY <3>1, <3>2 DEF KVInv
    <2> QED
      BY <2>1, <2>2
  <1>3. ~PreadFails
    BY DEF PreadFails, Linear
  <1> QED
    BY <1>1, <1>2, <1>3, KVWriteFails DEF IoSubmit

-----------------------------------------------------------------------------
(* "finish" *)

\* An AIO is answered, and patches its page if that was cached.
Finishes(op, res) ==
  /\ op \in {"GET", "PUT", "UPDATE", "DELETE"} /\ Finish(op, res)
  /\ op = "GET" => UNCHANGED cache
  /\ op # "GET" => PatchPage(io_queue[pos])

\* Where it is, whose it is, and what becomes of the frames.
LEMMA FinishesAio ==
  ASSUME TypeOK, SlabInv, KVInv, NEW op, NEW res, Finishes(op, res), NEW c, c = io_queue[pos].c
  PROVE  /\ phase = "finish" /\ pos \in Pending /\ pos \in PendingOps(op) /\ Pending' = Pending \ {pos} /\ pos \in Nat
         /\ \A i \in Pending : i \in Nat /\ i >= pos
         /\ \A i \in Pending' : io_queue'[i] = io_queue[i] /\ Request(io_queue[i])' = Request(io_queue[i])
         /\ (phase' = "finish" /\ io_queue' = io_queue) \/ io_queue' = <<>>
         /\ UNCHANGED disk /\ UNCHANGED slabVars
         /\ c \in Clients /\ req[c] # NoReq /\ req[c] = Request(io_queue[pos]) /\ req[c].op = op /\ FinishRequest(c, res)
         /\ \A i \in Pending : i # pos => io_queue[i].c # c
         /\ op \in {"GET", "DELETE"} \/ WritesWork => Success(io_queue[pos])
         /\ op # "GET" => (Success(io_queue[pos]) <=> io_queue[pos].ev = "ok")
         /\ DOMAIN cache' = DOMAIN cache
         /\ \A p : ~Unread(p) /\ ~Unread(p)'
  <1>1. LoopInv /\ QueueInv /\ EventInv
    BY DEF SlabInv, KVInv
  <1>2. Finish(op, res) /\ op \in {"GET", "PUT", "UPDATE", "DELETE"}
    BY DEF Finishes
  <1>3. /\ pos \in Pending /\ Pending' = Pending \ {pos}
        /\ \A i \in Pending' : io_queue'[i] = io_queue[i] /\ Request(io_queue[i])' = Request(io_queue[i])
    BY <1>1, <1>2, FinishQueue
  <1>4. /\ phase = "finish" /\ Request(io_queue[pos]).op = op /\ FinishRequest(c, res) /\ UNCHANGED disk /\ UNCHANGED slabVars
        /\ (phase' = "finish" /\ io_queue' = io_queue) \/ io_queue' = <<>>
    BY <1>2 DEF Finish
  <1>5. pos \in Nat /\ \A i \in Pending : i \in Nat /\ i >= pos
    BY <1>3, <1>4 DEF Pending, TypeOK
  <1>6. c \in Clients /\ req[c] # NoReq /\ req[c] = Request(io_queue[pos])
        /\ \A i \in Pending : i # pos => io_queue[i].c # c
    BY <1>1, <1>3, PendingType DEF QueueInv, Request
  <1>7. /\ op \in {"GET", "DELETE"} \/ WritesWork => Success(io_queue[pos])
        /\ op # "GET" => (Success(io_queue[pos]) <=> io_queue[pos].ev = "ok")
    <2>1. /\ io_queue[pos].ev = "err" => ~WritesWork /\ op \in Writes
          /\ op \in Writes => io_queue[pos].ev # "none"
      BY <1>1, <1>3, <1>4 DEF EventInv
    <2>2. op = "DELETE" => io_queue[pos].ev # "err"
      BY <1>3, <1>4 DEF SlabInv, DeleteInv, PendingOps
    <2>3. io_queue[pos].ev \in {"none", "ok", "err"}
      BY <1>3, AioType DEF Aio
    <2> QED
      BY <1>2, <2>1, <2>2, <2>3 DEF Success, Writes
  <1>8. DOMAIN cache' = DOMAIN cache
    BY DEF Finishes, PatchPage
  <1>9. \A p : ~Unread(p)
    BY <1>4 DEF Unread
  <1>10. \A p : ~Unread(p)'
    <2>1. CASE phase' = "finish"
      BY <2>1 DEF Unread
    <2>2. CASE io_queue' = <<>>
      <3>1. DOMAIN io_queue' = {}
        BY <2>2
      <3> QED
        BY <3>1 DEF Unread
    <2> QED
      BY <1>4, <2>1, <2>2
  <1> QED
    BY <1>3, <1>4, <1>5, <1>6, <1>7, <1>8, <1>9, <1>10 DEF PendingOps

\* The invariant but for the items: only a DELETE takes a key from the index.
LEMMA FinishesInv ==
  ASSUME TypeOK, SlabInv, KVInv, NEW op, NEW res, Finishes(op, res),
         \A k \in DOMAIN index : \/ k \in DOMAIN index' /\ index'[k] = index[k]
                                 \/ op = "DELETE" /\ k = Request(io_queue[pos]).key,
         \A k \in DOMAIN index' : ItemSize[k] <= index'[k].size
  PROVE  TogetherInv' /\ UseInv' /\ FreedInv' /\ EventInv' /\ FitInv' /\ HitInv({"PUT", "UPDATE"})' /\ HitsLast'
  <1>1. PICK c : c = io_queue[pos].c
    OBVIOUS
  <1>2. /\ phase = "finish" /\ pos \in Pending /\ Pending' = Pending \ {pos} /\ pos \in Nat
        /\ \A i \in Pending : i \in Nat /\ i >= pos
        /\ \A i \in Pending' : io_queue'[i] = io_queue[i] /\ Request(io_queue[i])' = Request(io_queue[i])
        /\ (phase' = "finish" /\ io_queue' = io_queue) \/ io_queue' = <<>>
        /\ UNCHANGED slabVars
        /\ c \in Clients /\ req[c] = Request(io_queue[pos]) /\ req[c].op = op /\ FinishRequest(c, res)
        /\ DOMAIN cache' = DOMAIN cache
    BY <1>1, FinishesAio
  <1>3. LoopInv /\ QueueInv /\ FitInv /\ HitInv({"PUT", "UPDATE"}) /\ EventInv /\ UseInv /\ FreedInv /\ HitsLast /\ TogetherInv
    BY DEF SlabInv, KVInv
  <1>4. TogetherInv'
    BY <1>2, <1>3, TogetherAnswer
  <1>5. FitInv' /\ HitInv({"PUT", "UPDATE"})'
    BY <1>2, <1>3, HitFinish DEF Finishes
  <1>6. \A o : PendingOps(o)' = PendingOps(o) \ {pos} /\ PendingOps(o)' \subseteq Pending'
    BY <1>2 DEF PendingOps
  <1>7. UseInv'
    <2>1. ASSUME NEW i \in PendingOps("GET")' \cup PendingOps("UPDATE")'
          PROVE  Request(io_queue[i])'.key \in DOMAIN index' /\ io_queue'[i].slab = index'[Request(io_queue[i])'.key]
      <3>1. i \in PendingOps("GET") \cup PendingOps("UPDATE") /\ i \in Pending' /\ i \in Pending
        BY <1>2, <1>6
      <3>2. PICK k : k = Request(io_queue[i]).key
        OBVIOUS
      <3>3. k \in DOMAIN index /\ io_queue[i].slab = index[k]
        BY <1>3, <3>1, <3>2 DEF UseInv
      <3>4. ~ (op = "DELETE" /\ k = Request(io_queue[pos]).key)
        <4>1. io_queue[i].c \in Clients /\ req[io_queue[i].c].op \in {"GET", "UPDATE"} /\ k = req[io_queue[i].c].key
          BY <3>1, <3>2, PendingType DEF PendingOps, Request
        <4> QED
          BY <1>2, <1>3, <4>1 DEF TogetherInv
      <3> QED
        BY <1>2, <3>1, <3>2, <3>3, <3>4
    <2>2. ASSUME NEW i \in PendingOps("GET")' PROVE Lookup(PageAt(i))'
      <3>1. i \in PendingOps("GET") /\ i \in Pending'
        BY <1>6
      <3>2. PageAt(i)' = PageAt(i)
        BY <1>2, <3>1 DEF PageAt, PageOf, Page, Addr
      <3> QED
        BY <1>2, <1>3, <3>1, <3>2 DEF UseInv, Lookup
    <2> QED
      BY <2>1, <2>2 DEF UseInv
  <1>8. FreedInv'
    <2> SUFFICES ASSUME NEW i \in PendingOps("DELETE")'
                 PROVE  /\ \/ \E s \in SlabSizes : \E m \in DOMAIN free_slab'[s] : free_slab'[s][m] = io_queue'[i].slab
                           \/ \E j \in PendingOps("PUT")' : i < j /\ io_queue'[j].slab = io_queue'[i].slab
                        /\ \A j \in PendingOps("DELETE")' : j # i => ~Clash(io_queue'[j].slab, io_queue'[i].slab)
      BY DEF FreedInv, Clash
    <2>1. i \in PendingOps("DELETE") /\ i \in Pending' /\ i # pos /\ i \in Nat /\ i >= pos /\ io_queue'[i] = io_queue[i]
          /\ free_slab' = free_slab
      BY <1>2, <1>6 DEF slabVars
    <2>2. \A j \in PendingOps("DELETE")' : j # i => ~Clash(io_queue'[j].slab, io_queue'[i].slab)
      BY <1>2, <1>3, <1>6, <2>1 DEF FreedInv
    <2>3. CASE \E s \in SlabSizes : \E m \in DOMAIN free_slab[s] : free_slab[s][m] = io_queue[i].slab
      BY <2>1, <2>2, <2>3
    <2>4. CASE \E j \in PendingOps("PUT") : i < j /\ io_queue[j].slab = io_queue[i].slab
      <3>1. PICK j \in PendingOps("PUT") : i < j /\ io_queue[j].slab = io_queue[i].slab
        BY <2>4
      <3>2. j \in Nat /\ j # pos
        BY <1>2, <2>1, <3>1 DEF PendingOps
      <3>3. j \in PendingOps("PUT")' /\ io_queue'[j] = io_queue[j]
        BY <1>2, <1>6, <3>2
      <3> QED
        BY <2>1, <2>2, <3>1, <3>3
    <2> QED
      BY <1>3, <2>1, <2>3, <2>4 DEF FreedInv
  <1>9. EventInv'
    <2>1. CASE phase' = "finish" /\ io_queue' = io_queue
      BY <1>2, <1>3, <2>1 DEF EventInv
    <2>2. CASE io_queue' = <<>>
      <3>1. Pending' = {}
        BY <2>2 DEF Pending
      <3> QED
        BY <3>1 DEF EventInv
    <2> QED
      BY <1>2, <2>1, <2>2
  <1>10. HitsLast'
    <2>1. CASE io_queue' = io_queue
      BY <1>3, <2>1, HitsLastSame
    <2>2. CASE io_queue' = <<>>
      <3>1. DOMAIN io_queue' = {}
        BY <2>2
      <3> QED
        BY <3>1 DEF HitsLast
    <2> QED
      BY <1>2, <2>1, <2>2
  <1> QED
    BY <1>4, <1>5, <1>7, <1>8, <1>9, <1>10

\* A write that was not seen when it was carried out.
Late == io_queue[pos].hit \/ ~Success(io_queue[pos])

\* It leaves the writes that have taken effect, and its client has no result any more.
LEMMA FinishesOut ==
  ASSUME TypeOK, SlabInv, KVInv, NEW op, NEW res, Finishes(op, res), NEW c, c = io_queue[pos].c
  PROVE  /\ \A o : Written(o)' = Written(o) \ {pos}
         /\ \A o \in Writes : pos \in Written(o) <=> o = op /\ ~Late
         /\ \A i : \A o : i \in Written(o)' => i \in Pending' /\ i # pos
         /\ op \in {"GET", "PUT"} \/ Late => outBar[c] = KV!Pending /\ outBar' = outBar
         /\ ~ (op \in {"GET", "PUT"} \/ Late) => outBar[c] = Ok /\ outBar' = [outBar EXCEPT ![c] = KV!Pending]
  <1>1. /\ phase = "finish" /\ pos \in Pending /\ pos \in PendingOps(op) /\ Pending' = Pending \ {pos}
        /\ \A i \in Pending' : io_queue'[i] = io_queue[i] /\ Request(io_queue[i])' = Request(io_queue[i])
        /\ c \in Clients
        /\ \A i \in Pending : i # pos => io_queue[i].c # c
        /\ op # "GET" => (Success(io_queue[pos]) <=> io_queue[pos].ev = "ok")
    BY FinishesAio
  <1>2. \A o : Written(o) = {i \in PendingOps(o) : ~io_queue[i].hit /\ io_queue[i].ev = "ok"} /\ Written(o) \subseteq Pending
    BY WrittenPending
  <1>3. ASSUME NEW o PROVE Written(o)' = Written(o) \ {pos}
    <2>1. Written(o)' = {i \in PendingOps(o)' : ~io_queue'[i].hit /\ io_queue'[i].ev = "ok"}
      BY DEF Written, PendingOps, Pending
    <2>2. PendingOps(o)' = PendingOps(o) \ {pos} /\ PendingOps(o)' \subseteq Pending'
      BY <1>1 DEF PendingOps
    <2> QED
      BY <1>1, <1>2, <2>1, <2>2
  <1>4. ASSUME NEW o \in Writes PROVE pos \in Written(o) <=> o = op /\ ~Late
    <2>1. pos \in PendingOps(o) <=> o = op
      BY <1>1 DEF PendingOps
    <2> QED
      BY <1>1, <1>2, <2>1 DEF Writes, Late
  <1>5. PICK U : U = Written("UPDATE") \cup Written("DELETE")
    OBVIOUS
  <1>6. U \subseteq Pending /\ (pos \in U <=> ~ (op \in {"GET", "PUT"} \/ Late))
    <2>1. op \in {"GET", "PUT", "UPDATE", "DELETE"}
      BY DEF Finishes
    <2>2. pos \in Written("UPDATE") <=> op = "UPDATE" /\ ~Late
      BY <1>4 DEF Writes
    <2>3. pos \in Written("DELETE") <=> op = "DELETE" /\ ~Late
      BY <1>4 DEF Writes
    <2> QED
      BY <1>2, <1>5, <2>1, <2>2, <2>3
  <1>7. outBar = [d \in Clients |-> IF \E i \in U : io_queue[i].c = d THEN Ok ELSE <<"pending">>]
    BY <1>5 DEF outBar
  <1>8. outBar' = [d \in Clients |-> IF \E i \in U \ {pos} : io_queue[i].c = d THEN Ok ELSE <<"pending">>]
    <2>1. outBar' = [d \in Clients |-> IF \E i \in (Written("UPDATE") \cup Written("DELETE"))' : io_queue'[i].c = d THEN Ok ELSE <<"pending">>]
      BY DEF outBar, Ok
    <2>2. (Written("UPDATE") \cup Written("DELETE"))' = U \ {pos}
      BY <1>3, <1>5
    <2>3. \A i \in U \ {pos} : io_queue'[i] = io_queue[i]
      BY <1>1, <1>6
    <2>4. \A d : (\E i \in (Written("UPDATE") \cup Written("DELETE"))' : io_queue'[i].c = d) <=> (\E i \in U \ {pos} : io_queue[i].c = d)
      BY <2>2, <2>3
    <2> QED
      BY <2>1, <2>4
  <1>9. \A i \in U \ {pos} : io_queue[i].c # c
    BY <1>1, <1>6
  <1>10. CASE pos \notin U
    <2>1. U \ {pos} = U
      BY <1>10
    <2>2. outBar' = outBar
      BY <1>7, <1>8, <2>1
    <2>3. outBar[c] = KV!Pending
      BY <1>1, <1>7, <1>9, <2>1 DEF KV!Pending
    <2> QED
      BY <1>1, <1>2, <1>3, <1>4, <1>6, <1>10, <2>2, <2>3
  <1>11. CASE pos \in U
    <2>1. outBar[c] = Ok
      BY <1>1, <1>7, <1>11
    <2>2. \A d \in Clients : d # c => ((\E i \in U \ {pos} : io_queue[i].c = d) <=> (\E i \in U : io_queue[i].c = d))
      BY <1>11
    <2>3. ~ \E i \in U \ {pos} : io_queue[i].c = c
      BY <1>9
    <2>4. DOMAIN outBar = Clients /\ DOMAIN outBar' = Clients
      BY <1>7, <1>8
    <2>5. \A d \in Clients : outBar'[d] = IF d = c THEN <<"pending">> ELSE outBar[d]
      BY <1>7, <1>8, <2>2, <2>3
    <2>6. outBar' = [d \in Clients |-> outBar'[d]]
      BY <1>8
    <2>7. outBar' = [outBar EXCEPT ![c] = <<"pending">>]
      BY <2>4, <2>5, <2>6
    <2> QED
      BY <1>1, <1>2, <1>3, <1>4, <1>6, <1>11, <2>1, <2>7 DEF KV!Pending
  <1> QED
    BY <1>10, <1>11

\* What reads see changes when a page is patched, to the item of the write.
LEMMA FinishesItems ==
  ASSUME TypeOK, SlabInv, KVInv, NEW op, NEW res, Finishes(op, res), Success(io_queue[pos]), NEW slab, NEW j, NEW u,
         slab = io_queue[pos].slab, j = Request(io_queue[pos]).key, u = Request(io_queue[pos]).val
  PROVE  /\ \A k, v, s : Has(k, v) /\ s = index[k] /\ (io_queue[pos].hit /\ op \in {"UPDATE", "DELETE"} => k # j) => Holds(s, k, v)'
         /\ \A i \in Written("PUT")' : \A s, k, v :
              s = io_queue'[i].slab /\ k = Request(io_queue[i])'.key /\ v = Request(io_queue[i])'.val => Holds(s, k, v)'
         /\ op = "PUT" \/ (op = "UPDATE" /\ io_queue[pos].hit) => Holds(slab, j, u)'
  <1>1. PICK c : c = io_queue[pos].c
    OBVIOUS
  <1>2. /\ phase = "finish" /\ pos \in Pending /\ pos \in PendingOps(op) /\ UNCHANGED disk
        /\ \A i \in Pending' : io_queue'[i] = io_queue[i] /\ Request(io_queue[i])' = Request(io_queue[i])
        /\ DOMAIN cache' = DOMAIN cache
        /\ \A p : ~Unread(p) /\ ~Unread(p)'
    BY <1>1, FinishesAio
  <1>3. /\ Written("PUT")' = Written("PUT") \ {pos}
        /\ \A i \in Written("PUT")' : i \in Pending'
        /\ op = "PUT" /\ ~io_queue[pos].hit => pos \in Written("PUT")
    BY <1>1, FinishesOut DEF Writes, Late
  <1>4. FitInv /\ ItemInv /\ op \in {"GET", "PUT", "UPDATE", "DELETE"} /\ Request(io_queue[pos]).op = op
    BY <1>2 DEF KVInv, Finishes, PendingOps
  <1>5. \A p : /\ View(p) = IF p \in DOMAIN cache THEN cache[p] ELSE disk
               /\ View(p)' = IF p \in DOMAIN cache THEN cache'[p] ELSE disk
    BY <1>2, ViewAt
  <1>6. CASE op # "GET" /\ io_queue[pos].hit
    <2>1. Due(pos)
      BY <1>2, <1>4, <1>6 DEF Due, Writes
    <2>2. PICK q, new : q = PageAt(pos) /\ new = Payload(io_queue[pos])
      OBVIOUS
    <2>3. cache' = [cache EXCEPT ![q] = Over(cache[q], new)] /\ q \in DOMAIN cache /\ q = PageOf(slab)
      <3>1. cache' = [cache EXCEPT ![q] = Over(cache[q], new)]
        BY <1>2, <1>6, <2>2 DEF Finishes, PatchPage, PageAt
      <3>2. q \in DOMAIN cache
        BY <1>2, <1>6, <2>2 DEF KVInv, HitInv, Lookup, Pending
      <3> QED
        BY <2>2, <3>1, <3>2 DEF PageAt
    <2>4. ViewKept(DOMAIN new)
      <3> SUFFICES ASSUME NEW p \in Nat \X Nat, NEW a \in PageAddrs(p), a \notin DOMAIN new
                   PROVE  CellAt(View(p), a)' = CellAt(View(p), a)
        BY DEF ViewKept
      <3>1. CellAt(View(p), a)' = CellAt(View(p)', a)
        BY DEF CellAt
      <3>2. CASE p = q
        <4>1. View(p)' = Over(View(p), new)
          BY <1>5, <2>3, <3>2
        <4> QED
          BY <3>1, <4>1, OverAt
      <3>3. CASE p # q
        <4>1. View(p)' = View(p)
          BY <1>5, <2>3, <3>3
        <4> QED
          BY <3>1, <4>1
      <3> QED
        BY <3>2, <3>3
    <2>5. ViewKept(DOMAIN Payload(io_queue[pos]))
      BY <2>2, <2>4 DEF ViewKept
    <2>6. /\ \A k, v, s : /\ Has(k, v) /\ s = index[k]
                          /\ Request(io_queue[pos]).op # "PUT" => k # Request(io_queue[pos]).key
                          => Holds(s, k, v)'
          /\ \A i \in Written("PUT") : \A s, k, v :
               /\ s = io_queue[i].slab /\ k = Request(io_queue[i]).key /\ v = Request(io_queue[i]).val
               /\ i # pos
               => Holds(s, k, v)'
      BY <2>1, <2>5, DueItems
    <2>7. ASSUME op \in {"PUT", "UPDATE"} PROVE Holds(slab, j, u)'
      <3>1. ASSUME NEW i \in 0 .. ItemSize[j] - 1
            PROVE  CellAt(View(q), Addr(slab, i))' = ItemCell(j, u, i)
        <4>1. PICK a : a = Addr(slab, i)
          OBVIOUS
        <4>2. a \in DOMAIN new /\ new[a] = ItemCell(j, u, i)
          BY <1>2, <1>4, <2>2, <2>7, <4>1, PayloadItem
        <4>3. View(q)' = Over(cache[q], new)
          BY <1>5, <2>3
        <4>4. CellAt(View(q), a)' = CellAt(View(q)', a)
          BY DEF CellAt
        <4>5. CellAt(View(q)', a) = ItemCell(j, u, i)
          BY <4>2, <4>3, OverAt
        <4> QED
          BY <4>1, <4>4, <4>5 DEF Addr
      <3> QED
        BY <2>3, <3>1 DEF Holds, ItemCell, PageOf, Page, Addr
    <2>8. \A k, v, s : Has(k, v) /\ s = index[k] /\ (io_queue[pos].hit /\ op \in {"UPDATE", "DELETE"} => k # j) => Holds(s, k, v)'
      BY <1>4, <1>6, <2>6
    <2>9. \A i \in Written("PUT")' : \A s, k, v :
            s = io_queue'[i].slab /\ k = Request(io_queue[i])'.key /\ v = Request(io_queue[i])'.val => Holds(s, k, v)'
      BY <1>2, <1>3, <2>6
    <2> QED
      BY <2>7, <2>8, <2>9
  <1>7. CASE ~ (op # "GET" /\ io_queue[pos].hit)
    <2>1. cache' = cache
      BY <1>4, <1>7 DEF Finishes, PatchPage
    <2>2. ViewKept({})
      BY <1>2, <2>1, ViewSame
    <2>3. ASSUME NEW k, NEW v, NEW s, Has(k, v), s = index[k] PROVE Holds(s, k, v)'
      <3>1. k \in Keys /\ s \in Slab /\ ItemSize[k] <= s.size /\ Holds(s, k, v)
        BY <1>4, <2>3, HasSlab
      <3> QED
        BY <2>2, <3>1, KeptItem
    <2>4. ASSUME NEW i \in Written("PUT"), NEW s, NEW k, NEW v,
                 s = io_queue[i].slab, k = Request(io_queue[i]).key, v = Request(io_queue[i]).val
          PROVE  Holds(s, k, v)'
      <3>1. k \in Keys /\ s \in Slab /\ ItemSize[k] <= s.size /\ Holds(s, k, v)
        BY <1>4, <2>4, WrittenPut
      <3> QED
        BY <2>2, <3>1, KeptItem
    <2>5. \A i \in Written("PUT")' : \A s, k, v :
            s = io_queue'[i].slab /\ k = Request(io_queue[i])'.key /\ v = Request(io_queue[i])'.val => Holds(s, k, v)'
      BY <1>2, <1>3, <2>4
    <2>6. op = "PUT" => Holds(slab, j, u)'
      BY <1>3, <1>7, <2>4
    <2> QED
      BY <1>7, <2>3, <2>5, <2>6
  <1> QED
    BY <1>6, <1>7

\* A GET is answered with the value of its key.
LEMMA KVFinishGet ==
  ASSUME TypeOK, TypeOK', SlabInv, KVInv, FinishGet
  PROVE  KVInv' /\ KV!Next
  <1>1. PICK c, slab, j, u, item, res :
          /\ c = io_queue[pos].c /\ slab = io_queue[pos].slab
          /\ j = Request(io_queue[pos]).key /\ u = Request(io_queue[pos]).val
          /\ item = ItemIn(cache[PageOf(slab)], slab)
          /\ res = IF ~Success(io_queue[pos]) THEN EIO ELSE IF item = Invalid THEN Invalid ELSE <<"val", item[2]>>
    OBVIOUS
  <1>2. Finishes("GET", res) /\ index' = index
    BY <1>1 DEF FinishGet, Finishes
  <1>3. TogetherInv' /\ UseInv' /\ FreedInv' /\ EventInv' /\ FitInv' /\ HitInv({"PUT", "UPDATE"})' /\ HitsLast'
    BY <1>2, FinishesInv DEF KVInv, FitInv
  <1>4. /\ pos \in Pending /\ pos \in PendingOps("GET")
        /\ \A i \in Pending' : io_queue'[i] = io_queue[i] /\ Request(io_queue[i])' = Request(io_queue[i])
        /\ c \in Clients /\ req[c] # NoReq /\ req[c] = Request(io_queue[pos]) /\ req[c].op = "GET" /\ FinishRequest(c, res)
        /\ Success(io_queue[pos]) /\ \A p : ~Unread(p) /\ ~Unread(p)'
    BY <1>1, <1>2, FinishesAio
  <1>5. /\ \A o : Written(o)' = Written(o) \ {pos}
        /\ \A o \in Writes : pos \notin Written(o)
        /\ \A i : \A o : i \in Written(o)' => i \in Pending'
        /\ outBar[c] = KV!Pending /\ outBar' = outBar
    BY <1>1, <1>2, FinishesOut DEF Writes
  <1>6. /\ \A k, v, s : Has(k, v) /\ s = index[k] => Holds(s, k, v)'
        /\ \A i \in Written("PUT")' : \A s, k, v :
              s = io_queue'[i].slab /\ k = Request(io_queue[i])'.key /\ v = Request(io_queue[i])'.val => Holds(s, k, v)'
    BY <1>1, <1>2, <1>4, FinishesItems
  <1>7. Mapped' = Mapped
    <2>1. Written("DELETE")' = Written("DELETE") /\ \A i \in Written("DELETE")' : i \in Pending'
      BY <1>5 DEF Writes
    <2>2. Erased' = Erased
      BY <1>4, <2>1 DEF Erased
    <2> QED
      BY <1>2, <2>2 DEF Mapped
  <1>8. ASSUME NEW k, NEW v, Has(k, v) PROVE Has(k, v)'
    <2>1. PICK s : s = index[k]
      OBVIOUS
    <2>2. Holds(s, k, v)' /\ k \in Mapped'
      BY <1>6, <1>7, <1>8, <2>1 DEF Has
    <2> QED
      BY <1>2, <1>8, <2>1, <2>2, HasKept
  <1>9. storeBar' = storeBar /\ \A k \in Mapped' : \E v : Has(k, v)'
    BY <1>7, <1>8, StoreSame DEF KVInv
  <1>10. ItemInv'
    BY <1>6, <1>9, ItemsNext
  <1>11. j \in Mapped /\ slab = index[j]
    BY <1>1, <1>4, UsedLive
  <1>12. PICK v : Has(j, v)
    BY <1>11 DEF KVInv, ItemInv, Has, Mapped
  <1>13. j \in DOMAIN storeBar /\ storeBar[j] = v
    BY <1>12, HasStore
  <1>14. item = <<j, v>>
    <2>1. PageOf(slab) \in DOMAIN cache
      BY <1>1, <1>4 DEF KVInv, UseInv, Lookup, PageAt
    <2>2. View(PageOf(slab)) = cache[PageOf(slab)]
      BY <1>4, <2>1, ViewAt
    <2>3. j \in Keys /\ Holds(slab, j, v)
      BY <1>11, <1>12 DEF Has, Mapped, TypeOK
    <2> QED
      BY <1>1, <2>2, <2>3, ItemRead
  <1>15. res = <<"val", storeBar[j]>>
    <2>1. item # Invalid /\ item[2] = v
      BY <1>14 DEF Invalid
    <2> QED
      BY <1>1, <1>4, <1>13, <2>1
  <1>16. KV!Effect(req[c], res, storeBar')
    BY <1>1, <1>4, <1>9, <1>13, <1>15 DEF KV!Effect
  <1> QED
    BY <1>3, <1>4, <1>5, <1>10, <1>16, AnswerNext DEF KVInv

\* A PUT or an UPDATE whose write failed is answered with EIO and leaves the map alone.
LEMMA KVFinishFails ==
  ASSUME TypeOK, TypeOK', SlabInv, KVInv, FinishPut \/ FinishUpdate, ~Success(io_queue[pos])
  PROVE  KVInv' /\ KV!Next
  <1>1. PICK c, op : c = io_queue[pos].c /\ op \in {"PUT", "UPDATE"} /\ Finishes(op, EIO) /\ index' = index
    BY DEF FinishPut, FinishUpdate, Finishes, WriteResult
  <1>2. cache' = cache
    BY <1>1 DEF Finishes, PatchPage
  <1>3. /\ pos \in Pending /\ UNCHANGED disk /\ ~WritesWork
        /\ \A i \in Pending' : io_queue'[i] = io_queue[i] /\ Request(io_queue[i])' = Request(io_queue[i])
        /\ c \in Clients /\ req[c] # NoReq /\ req[c].op = op /\ FinishRequest(c, EIO)
        /\ \A p : ~Unread(p) /\ ~Unread(p)'
    BY <1>1, FinishesAio
  <1>4. TogetherInv' /\ UseInv' /\ FreedInv' /\ EventInv' /\ FitInv' /\ HitInv({"PUT", "UPDATE"})' /\ HitsLast'
    BY <1>1, FinishesInv DEF KVInv, FitInv
  <1>5. /\ \A o : Written(o)' = Written(o) \ {pos}
        /\ \A o \in Writes : pos \notin Written(o)
        /\ \A i : \A o : i \in Written(o)' => i \in Pending'
        /\ outBar[c] = KV!Pending /\ outBar' = outBar
    BY <1>1, FinishesOut DEF Late
  <1>6. Erased' = Erased
    <2>1. Written("DELETE")' = Written("DELETE") /\ \A i \in Written("DELETE")' : i \in Pending'
      BY <1>5 DEF Writes
    <2> QED
      BY <1>3, <2>1 DEF Erased
  <1>7. ViewKept({})
    BY <1>2, <1>3, ViewSame
  <1>8. storeBar' = storeBar /\ ItemInv'
    BY <1>1, <1>3, <1>5, <1>6, <1>7, QuietItems
  <1>9. KV!Effect(req[c], EIO, storeBar')
    BY <1>1, <1>3, <1>8 DEF KV!Effect, KV!EIO, EIO, WritesWork
  <1> QED
    BY <1>3, <1>4, <1>5, <1>8, <1>9, AnswerNext DEF KVInv

\* A PUT gives its key to the map.
LEMMA KVFinishPut ==
  ASSUME TypeOK, TypeOK', SlabInv, LeakInv, KVInv, FinishPut, Success(io_queue[pos])
  PROVE  KVInv' /\ KV!Next
  <1>1. PICK c, slab, j, u : /\ c = io_queue[pos].c /\ slab = io_queue[pos].slab
                             /\ j = Request(io_queue[pos]).key /\ u = Request(io_queue[pos]).val
    OBVIOUS
  <1>2. PICK res : res = WriteResult(io_queue[pos])
    OBVIOUS
  <1>3. Finishes("PUT", res)
    BY <1>2 DEF FinishPut, Finishes
  <1>4. /\ pos \in Pending /\ pos \in PendingOps("PUT")
        /\ \A i \in Pending' : io_queue'[i] = io_queue[i] /\ Request(io_queue[i])' = Request(io_queue[i])
        /\ c \in Clients /\ req[c] # NoReq /\ req[c] = Request(io_queue[pos]) /\ req[c].op = "PUT" /\ FinishRequest(c, res)
    BY <1>1, <1>3, FinishesAio
  <1>5. res = Ok /\ j \notin DOMAIN index /\ j \in Keys /\ u \in Values
    BY <1>1, <1>2, <1>4, OutstandingType DEF WriteResult, LeakInv, PutInv
  <1>6. index' = [k \in DOMAIN index \cup {j} |-> IF k = j THEN slab ELSE index[k]]
    BY <1>1, <1>4, <1>5 DEF FinishPut
  <1>7. TogetherInv' /\ UseInv' /\ FreedInv' /\ EventInv' /\ FitInv' /\ HitInv({"PUT", "UPDATE"})' /\ HitsLast'
    <2>1. \A k \in DOMAIN index : k \in DOMAIN index' /\ index'[k] = index[k]
      BY <1>5, <1>6
    <2>2. ItemSize[j] <= slab.size
      BY <1>1, <1>4 DEF KVInv, FitInv
    <2>3. \A k \in DOMAIN index' : ItemSize[k] <= index'[k].size
      BY <1>6, <2>2 DEF KVInv, FitInv
    <2> QED
      BY <1>3, <2>1, <2>3, FinishesInv
  <1>8. /\ \A o : Written(o)' = Written(o) \ {pos}
        /\ \A o \in Writes : pos \in Written(o) <=> o = "PUT" /\ ~io_queue[pos].hit
        /\ \A i : \A o : i \in Written(o)' => i \in Pending'
        /\ outBar[c] = KV!Pending /\ outBar' = outBar
    BY <1>1, <1>3, FinishesOut DEF Late
  <1>9. /\ \A k, v, s : Has(k, v) /\ s = index[k] => Holds(s, k, v)'
        /\ \A i \in Written("PUT")' : \A s, k, v :
              s = io_queue'[i].slab /\ k = Request(io_queue[i])'.key /\ v = Request(io_queue[i])'.val => Holds(s, k, v)'
        /\ Holds(slab, j, u)'
    BY <1>1, <1>3, FinishesItems
  <1>10. Mapped' = Mapped \cup {j} /\ j \notin Mapped
    <2>1. Written("DELETE")' = Written("DELETE") /\ \A i \in Written("DELETE")' : i \in Pending'
      BY <1>8 DEF Writes
    <2>2. Erased' = Erased
      BY <1>4, <2>1 DEF Erased
    <2>3. j \notin Erased
      <3>1. Written("DELETE") \subseteq PendingOps("DELETE")
        BY WrittenPending
      <3> QED
        BY <1>5, <3>1 DEF Erased, SlabInv, DeleteInv
    <2>4. DOMAIN index' = DOMAIN index \cup {j}
      BY <1>6
    <2> QED
      BY <1>5, <2>2, <2>3, <2>4 DEF Mapped
  <1>11. ASSUME NEW k, NEW v, Has(k, v), k # j PROVE Has(k, v)'
    <2>1. PICK s : s = index[k]
      OBVIOUS
    <2>2. Holds(s, k, v)' /\ k \in Mapped' /\ index'[k] = s
      BY <1>6, <1>9, <1>10, <1>11, <2>1 DEF Has, Mapped
    <2> QED
      BY <1>11, <2>1, <2>2, HasKept
  <1>12. Has(j, u)'
    <2>1. j \in Mapped' /\ index'[j] = slab
      BY <1>6, <1>10
    <2> QED
      BY <1>5, <1>9, <2>1 DEF Has
  <1>13. /\ storeBar' = [k \in DOMAIN storeBar \cup {j} |-> IF k = j THEN u ELSE storeBar[k]]
         /\ \A k \in Mapped' : \E v : Has(k, v)'
    BY <1>10, <1>11, <1>12, StoreSet DEF KVInv
  <1>14. ItemInv'
    BY <1>9, <1>13, ItemsNext
  <1>15. KV!Effect(req[c], res, storeBar')
    <2>1. req[c].key = j /\ req[c].val = u /\ j \notin DOMAIN storeBar /\ storeBar' = KV!Set(j, u)
      BY <1>1, <1>4, <1>10, <1>13, StoreDomain DEF KV!Set
    <2> QED
      BY <1>4, <1>5, <2>1 DEF KV!Effect, KV!Ok, Ok
  <1> QED
    BY <1>4, <1>7, <1>8, <1>14, <1>15, AnswerNext DEF KVInv

\* An answer to a request that has taken effect.
LEMMA ReturnNext ==
  ASSUME NEW c \in Clients, FinishRequest(c, Ok), outBar[c] = Ok, outBar' = [outBar EXCEPT ![c] = KV!Pending],
         storeBar' = storeBar
  PROVE  KV!Next
  <1>1. Ok # KV!Pending
    BY DEF Ok, KV!Pending
  <1>2. KV!Return(c)
    BY <1>1 DEF KV!Return, KV!Answer, FinishRequest, KV!NoReq, NoReq
  <1> QED
    BY <1>2 DEF KV!Next

\* An UPDATE whose page is patched takes effect now, any other has before.
LEMMA KVFinishUpdate ==
  ASSUME TypeOK, TypeOK', SlabInv, KVInv, FinishUpdate, Success(io_queue[pos])
  PROVE  KVInv' /\ KV!Next
  <1>1. PICK c, slab, j, u : /\ c = io_queue[pos].c /\ slab = io_queue[pos].slab
                             /\ j = Request(io_queue[pos]).key /\ u = Request(io_queue[pos]).val
    OBVIOUS
  <1>2. PICK res : res = WriteResult(io_queue[pos])
    OBVIOUS
  <1>3. Finishes("UPDATE", res) /\ index' = index
    BY <1>2 DEF FinishUpdate, Finishes
  <1>4. /\ pos \in Pending /\ pos \in PendingOps("UPDATE")
        /\ \A i \in Pending' : io_queue'[i] = io_queue[i] /\ Request(io_queue[i])' = Request(io_queue[i])
        /\ c \in Clients /\ req[c] # NoReq /\ req[c] = Request(io_queue[pos]) /\ req[c].op = "UPDATE" /\ FinishRequest(c, res)
    BY <1>1, <1>3, FinishesAio
  <1>5. res = Ok /\ u \in Values
    BY <1>1, <1>2, <1>4, OutstandingType DEF WriteResult
  <1>6. TogetherInv' /\ UseInv' /\ FreedInv' /\ EventInv' /\ FitInv' /\ HitInv({"PUT", "UPDATE"})' /\ HitsLast'
    BY <1>3, FinishesInv DEF KVInv, FitInv
  <1>7. /\ \A o : Written(o)' = Written(o) \ {pos}
        /\ \A o \in Writes : pos \in Written(o) <=> o = "UPDATE" /\ ~io_queue[pos].hit
        /\ \A i : \A o : i \in Written(o)' => i \in Pending'
        /\ io_queue[pos].hit => outBar[c] = KV!Pending /\ outBar' = outBar
        /\ ~io_queue[pos].hit => outBar[c] = Ok /\ outBar' = [outBar EXCEPT ![c] = KV!Pending]
    BY <1>1, <1>3, FinishesOut DEF Late
  <1>8. /\ \A k, v, s : Has(k, v) /\ s = index[k] /\ (io_queue[pos].hit => k # j) => Holds(s, k, v)'
        /\ \A i \in Written("PUT")' : \A s, k, v :
              s = io_queue'[i].slab /\ k = Request(io_queue[i])'.key /\ v = Request(io_queue[i])'.val => Holds(s, k, v)'
        /\ io_queue[pos].hit => Holds(slab, j, u)'
    BY <1>1, <1>3, FinishesItems
  <1>9. Mapped' = Mapped
    <2>1. Written("DELETE")' = Written("DELETE") /\ \A i \in Written("DELETE")' : i \in Pending'
      BY <1>7 DEF Writes
    <2>2. Erased' = Erased
      BY <1>4, <2>1 DEF Erased
    <2> QED
      BY <1>3, <2>2 DEF Mapped
  <1>10. ASSUME NEW k, NEW v, Has(k, v), io_queue[pos].hit => k # j PROVE Has(k, v)'
    <2>1. PICK s : s = index[k]
      OBVIOUS
    <2>2. Holds(s, k, v)' /\ k \in Mapped'
      BY <1>8, <1>9, <1>10, <2>1 DEF Has
    <2> QED
      BY <1>3, <1>10, <2>1, <2>2, HasKept
  <1>11. CASE ~io_queue[pos].hit
    <2>1. storeBar' = storeBar /\ \A k \in Mapped' : \E v : Has(k, v)'
      BY <1>9, <1>10, <1>11, StoreSame DEF KVInv
    <2>2. ItemInv'
      BY <1>8, <2>1, ItemsNext
    <2>3. KV!Next
      BY <1>4, <1>5, <1>7, <1>11, <2>1, ReturnNext
    <2> QED
      BY <1>6, <2>2, <2>3 DEF KVInv
  <1>12. CASE io_queue[pos].hit
    <2>1. j \in Mapped /\ slab = index[j]
      BY <1>1, <1>4, UsedLive
    <2>2. Has(j, u)'
      <3>1. index'[j] = slab /\ j \in Mapped' /\ Holds(slab, j, u)'
        BY <1>3, <1>8, <1>9, <1>12, <2>1
      <3> QED
        BY <1>5, <3>1 DEF Has
    <2>3. Mapped' = Mapped \cup {j}
      BY <1>9, <2>1
    <2>4. /\ storeBar' = [k \in DOMAIN storeBar \cup {j} |-> IF k = j THEN u ELSE storeBar[k]]
          /\ \A k \in Mapped' : \E v : Has(k, v)'
      BY <1>10, <2>2, <2>3, StoreSet DEF KVInv
    <2>5. ItemInv'
      BY <1>8, <2>4, ItemsNext
    <2>6. KV!Effect(req[c], res, storeBar')
      <3>1. req[c].key = j /\ req[c].val = u /\ j \in DOMAIN storeBar /\ storeBar' = KV!Set(j, u)
        BY <1>1, <1>4, <2>1, <2>4, StoreDomain DEF KV!Set
      <3> QED
        BY <1>4, <1>5, <3>1 DEF KV!Effect, KV!Ok, Ok
    <2>7. KV!Next
      BY <1>4, <1>7, <1>12, <2>6, AnswerNext
    <2> QED
      BY <1>6, <2>5, <2>7 DEF KVInv
  <1> QED
    BY <1>11, <1>12

\* So does a DELETE; the key leaves the index and what is erased of it in one step.
LEMMA KVFinishDelete ==
  ASSUME TypeOK, TypeOK', SlabInv, KVInv, FinishDelete
  PROVE  KVInv' /\ KV!Next
  <1>1. PICK c, slab, j, u : /\ c = io_queue[pos].c /\ slab = io_queue[pos].slab
                             /\ j = Request(io_queue[pos]).key /\ u = Request(io_queue[pos]).val
    OBVIOUS
  <1>2. PICK res : res = WriteResult(io_queue[pos])
    OBVIOUS
  <1>3. Finishes("DELETE", res)
    BY <1>2 DEF FinishDelete, Finishes
  <1>4. /\ pos \in Pending /\ pos \in PendingOps("DELETE")
        /\ \A i \in Pending' : io_queue'[i] = io_queue[i] /\ Request(io_queue[i])' = Request(io_queue[i])
        /\ c \in Clients /\ req[c] # NoReq /\ req[c] = Request(io_queue[pos]) /\ req[c].op = "DELETE" /\ FinishRequest(c, res)
        /\ \A i \in Pending : i # pos => io_queue[i].c # c
        /\ Success(io_queue[pos])
    BY <1>1, <1>3, FinishesAio
  <1>5. res = Ok /\ j \in DOMAIN index
    BY <1>1, <1>2, <1>4 DEF WriteResult, SlabInv, DeleteInv
  <1>6. index' = [k \in DOMAIN index \ {j} |-> index[k]]
    BY <1>1, <1>4 DEF FinishDelete
  <1>7. TogetherInv' /\ UseInv' /\ FreedInv' /\ EventInv' /\ FitInv' /\ HitInv({"PUT", "UPDATE"})' /\ HitsLast'
    <2>1. \A k \in DOMAIN index : (k \in DOMAIN index' /\ index'[k] = index[k]) \/ k = Request(io_queue[pos]).key
      BY <1>1, <1>6
    <2>2. \A k \in DOMAIN index' : ItemSize[k] <= index'[k].size
      BY <1>6 DEF KVInv, FitInv
    <2> QED
      BY <1>3, <2>1, <2>2, FinishesInv
  <1>8. /\ \A o : Written(o)' = Written(o) \ {pos}
        /\ \A o \in Writes : pos \in Written(o) <=> o = "DELETE" /\ ~io_queue[pos].hit
        /\ \A i : \A o : i \in Written(o)' => i \in Pending'
        /\ io_queue[pos].hit => outBar[c] = KV!Pending /\ outBar' = outBar
        /\ ~io_queue[pos].hit => outBar[c] = Ok /\ outBar' = [outBar EXCEPT ![c] = KV!Pending]
    BY <1>1, <1>3, <1>4, FinishesOut DEF Late
  <1>9. /\ \A k, v, s : Has(k, v) /\ s = index[k] /\ k # j => Holds(s, k, v)'
        /\ \A i \in Written("PUT")' : \A s, k, v :
              s = io_queue'[i].slab /\ k = Request(io_queue[i])'.key /\ v = Request(io_queue[i])'.val => Holds(s, k, v)'
    BY <1>1, <1>3, <1>4, FinishesItems
  <1>10. ASSUME NEW i \in Written("DELETE"), i # pos PROVE Request(io_queue[i]).key # j
    <2>1. i \in Pending /\ Request(io_queue[i]).op = "DELETE"
      BY WrittenPending DEF Written
    <2>2. io_queue[i].c \in Clients /\ io_queue[i].c # c
      BY <1>4, <1>10, <2>1, PendingType
    <2> QED
      BY <1>1, <1>4, <2>1, <2>2 DEF SlabInv, DeletesDiffer, Request
  <1>11. Erased' = Erased \ {j}
    <2>1. Erased' = {Request(io_queue[i]).key : i \in Written("DELETE") \ {pos}}
      <3>1. Written("DELETE")' = Written("DELETE") \ {pos} /\ \A i \in Written("DELETE")' : i \in Pending'
        BY <1>8
      <3> QED
        BY <1>4, <3>1 DEF Erased
    <2>2. Erased = {Request(io_queue[i]).key : i \in Written("DELETE")}
      BY DEF Erased
    <2> QED
      BY <1>1, <1>10, <2>1, <2>2
  <1>12. Mapped' = Mapped \ {j} /\ DOMAIN index' = DOMAIN index \ {j}
    BY <1>6, <1>11 DEF Mapped
  <1>13. j \in Mapped <=> io_queue[pos].hit
    <2>1. CASE io_queue[pos].hit
      <3>1. pos \notin Written("DELETE")
        BY <1>8, <2>1 DEF Writes
      <3>2. j \notin Erased
        BY <1>10, <3>1 DEF Erased
      <3> QED
        BY <1>5, <2>1, <3>2 DEF Mapped
    <2>2. CASE ~io_queue[pos].hit
      <3>1. pos \in Written("DELETE")
        BY <1>8, <2>2 DEF Writes
      <3>2. j \in Erased
        BY <1>1, <3>1 DEF Erased
      <3> QED
        BY <2>2, <3>2 DEF Mapped
    <2> QED
      BY <2>1, <2>2
  <1>14. ASSUME NEW k, NEW v, Has(k, v), k # j PROVE Has(k, v)'
    <2>1. PICK s : s = index[k]
      OBVIOUS
    <2>2. Holds(s, k, v)' /\ k \in Mapped' /\ index'[k] = s
      BY <1>6, <1>9, <1>12, <1>14, <2>1 DEF Has, Mapped
    <2> QED
      BY <1>14, <2>1, <2>2, HasKept
  <1>15. CASE ~io_queue[pos].hit
    <2>1. j \notin Mapped /\ Mapped' = Mapped
      BY <1>12, <1>13, <1>15
    <2>2. \A k, v : Has(k, v) => Has(k, v)'
      BY <1>14, <2>1 DEF Has
    <2>3. storeBar' = storeBar /\ \A k \in Mapped' : \E v : Has(k, v)'
      BY <2>1, <2>2, StoreSame DEF KVInv
    <2>4. ItemInv'
      BY <1>9, <2>3, ItemsNext
    <2>5. KV!Next
      BY <1>4, <1>5, <1>8, <1>15, <2>3, ReturnNext
    <2> QED
      BY <1>7, <2>4, <2>5 DEF KVInv
  <1>16. CASE io_queue[pos].hit
    <2>1. /\ storeBar' = [k \in DOMAIN storeBar \ {j} |-> storeBar[k]]
          /\ \A k \in Mapped' : \E v : Has(k, v)'
      BY <1>12, <1>14, StoreDrop DEF KVInv
    <2>2. ItemInv'
      BY <1>9, <2>1, ItemsNext
    <2>3. KV!Effect(req[c], res, storeBar')
      <3>1. req[c].key = j /\ j \in DOMAIN storeBar /\ storeBar' = KV!Drop(j)
        BY <1>1, <1>4, <1>13, <1>16, <2>1, StoreDomain DEF KV!Drop
      <3> QED
        BY <1>4, <1>5, <3>1 DEF KV!Effect, KV!Ok, Ok
    <2>4. KV!Next
      BY <1>4, <1>8, <1>16, <2>3, AnswerNext
    <2> QED
      BY <1>7, <2>2, <2>4 DEF KVInv
  <1> QED
    BY <1>15, <1>16

-----------------------------------------------------------------------------
(* The refinement *)

\* A worker starts as an empty map.
LEMMA KVInit == Init => KVInv /\ KV!Init
  <1> SUFFICES ASSUME Init PROVE KVInv /\ KV!Init
    OBVIOUS
  <1>1. io_queue = <<>> /\ DOMAIN io_queue = {} /\ index = <<>> /\ DOMAIN index = {} /\ req = [c \in Clients |-> NoReq]
        /\ free_slab = [s \in SlabSizes |-> <<>>]
    BY DEF Init, SlabInit
  <1>2. Pending = {} /\ (\A op : PendingOps(op) = {}) /\ \A op : Written(op) = {}
    BY <1>1 DEF Pending, PendingOps, Written
  <1>3. TogetherInv
    BY <1>1 DEF TogetherInv, NoReq
  <1>4. UseInv /\ FreedInv /\ EventInv
    BY <1>2 DEF UseInv, FreedInv, EventInv
  <1>5. FitInv
    BY <1>1, <1>2 DEF FitInv
  <1>6. HitInv({"PUT", "UPDATE"}) /\ HitsLast
    BY <1>1 DEF HitInv, HitsLast
  <1>7. ItemInv
    BY <1>1, <1>2 DEF ItemInv
  <1>8. KV!Init
    BY DEF Init, KV!Init, storeBar, outBar, KV!NoReq, NoReq, NoReply, KV!NoReply, KV!Pending, Erased, Written
  <1> QED
    BY <1>3, <1>4, <1>5, <1>6, <1>7, <1>8 DEF KVInv

\* Every step keeps the invariant and is a step of the map.
LEMMA KVStep ==
  ASSUME Linear, TypeOK, TypeOK', SlabInv, LeakInv, KVInv, [Next]_vars
  PROVE  KVInv' /\ [KV!Next]_(KV!vars)
  <1>1. CASE \E c \in Clients, r \in Requests : Submit(c, r)
    BY <1>1, KVSubmit
  <1>2. CASE \E c \in Clients : ProcessRequest(c)
    BY <1>2, KVProcess
  <1>3. CASE IoSubmit
    BY <1>3, KVIoSubmit
  <1>4. CASE FinishAio
    BY <1>4, KVFinishGet, KVFinishFails, KVFinishPut, KVFinishUpdate, KVFinishDelete DEF FinishAio
  <1>5. CASE Drained \/ GetEvents
    <2>1. KVInv' /\ storeBar' = storeBar /\ outBar' = outBar
      BY <1>5, KVTurn
    <2>2. Silent
      BY <1>5 DEF Drained, GetEvents
    <2> QED
      BY <2>1, <2>2, QuietNext
  <1>6. CASE UNCHANGED vars
    <2>1. KVInv' /\ storeBar' = storeBar /\ outBar' = outBar
      BY <1>6, KVTurn
    <2>2. req' = req /\ reply' = reply
      BY <1>6 DEF vars
    <2> QED
      BY <2>1, <2>2 DEF KV!vars
  <1> QED
    BY <1>1, <1>2, <1>3, <1>4, <1>5, <1>6 DEF Next, Main

\* KVInv: keys of the index that no DELETE has cleared have their whole item where
\* FileSlabReadCallback looks for it, in the frame of its page once that is filled and in
\* the file before, and so has a PUT that was written past the cache.
THEOREM KVInvariant ==
  ASSUME Linear
  PROVE  Spec => [](TypeOK /\ SlabInv /\ LeakInv /\ KVInv)
  <1>1. Init => TypeOK /\ SlabInv /\ LeakInv /\ KVInv
    BY TypeInit, SlabInit0, LeakInit, KVInit
  <1>2. TypeOK /\ SlabInv /\ LeakInv /\ KVInv /\ [Next]_vars => (TypeOK /\ SlabInv /\ LeakInv /\ KVInv)'
    <2> SUFFICES ASSUME TypeOK, SlabInv, LeakInv, KVInv, [Next]_vars PROVE (TypeOK /\ SlabInv /\ LeakInv /\ KVInv)'
      OBVIOUS
    <2>1. Careful /\ OnePut
      BY DEF Linear
    <2>2. TypeOK'
      BY TypeStep DEF SlabInv
    <2>3. SlabInv' /\ LeakInv'
      BY <2>1, SlabStep, LeakStep
    <2>4. KVInv'
      BY <2>2, KVStep
    <2> QED
      BY <2>2, <2>3, <2>4
  <1> QED
    BY <1>1, <1>2, PTL DEF Spec

\* A worker whose clients do not delete a key somebody reads or updates, and do not scan while
\* others read, put or update, implements the map: ProcessRequest_, io_submit and AIO::Finish
\* give every request the answer it has at one instant between Submit and its callback, EIO
\* if its write failed (which the write of a DELETE must not).
THEOREM WorkerImplementsKVStore ==
  ASSUME Linear
  PROVE  Spec => ImplementsKVStore
  <1>1. Init => KV!Init
    BY KVInit
  <1>2. (TypeOK /\ SlabInv /\ LeakInv /\ KVInv) /\ (TypeOK /\ SlabInv /\ LeakInv /\ KVInv)' /\ [Next]_vars => [KV!Next]_(KV!vars)
    BY KVStep
  <1> QED
    BY <1>1, <1>2, KVInvariant, PTL DEF Spec, ImplementsKVStore, KV!Spec
=============================================================================
