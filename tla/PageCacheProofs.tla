-------------------------- MODULE PageCacheProofs ---------------------------
(***************************************************************************)
(* Proofs about PageCache: index_ leads to the entry of the page asked for, *)
(* and an entry a pread is under way for is not replaced.                   *)
(***************************************************************************)
EXTENDS PageCache, MinProofs

-----------------------------------------------------------------------------
(* Walking the list *)

\* What Walk computes is a function that meets its own definition.
IsWalk(f, e, link, n) ==
  f = [i \in 1 .. n |->
        IF i = 1 THEN e
        ELSE LET last == f[i - 1] IN IF last = Null THEN Null ELSE link[last]]

\* There is such a function: the shortest length without one cannot exist, as a
\* walk can always be continued by one step.
LEMMA WalkExists ==
  ASSUME NEW e, NEW link, NEW n \in Nat
  PROVE  \E f : IsWalk(f, e, link, n)
  <1> DEFINE Without == {k \in Nat : ~ \E f : IsWalk(f, e, link, k)}
  <1> SUFFICES ASSUME Without # {} PROVE FALSE
    OBVIOUS
  <1>1. PICK k \in Without : \A j \in Without : k <= j
    BY LeastNatural
  <1>2. k # 0
    <2>1. IsWalk([i \in 1 .. 0 |-> e], e, link, 0)
      BY DEF IsWalk
    <2> QED
      BY <1>1, <2>1
  <1>3. k - 1 \in Nat /\ k - 1 \notin Without
    BY <1>1, <1>2
  <1>4. PICK f : IsWalk(f, e, link, k - 1)
    BY <1>3
  <1> DEFINE step(x) == IF x = Null THEN Null ELSE link[x]
  <1> DEFINE g == [i \in 1 .. k |-> IF i = 1 THEN e ELSE step(f[i - 1])]
  <1>5. \A i \in 1 .. k - 1 : f[i] = IF i = 1 THEN e ELSE step(f[i - 1])
    BY <1>3, <1>4, Zenon DEF IsWalk
  <1> HIDE DEF step
  <1>6. \A i \in 1 .. k - 1 : g[i] = f[i]
    BY <1>1, <1>5
  <1>7. \A i \in 1 .. k : i = 1 \/ i - 1 \in 1 .. k - 1
    BY <1>1
  <1>8. g = [i \in 1 .. k |-> IF i = 1 THEN e ELSE step(g[i - 1])]
    BY <1>6, <1>7
  <1>9. IsWalk(g, e, link, k)
    BY <1>8, Zenon DEF IsWalk, step
  <1> QED
    BY <1>1, <1>9

\* The entries Walk meets are numbered from 1 to n.
LEMMA WalkDomain ==
  ASSUME NEW e, NEW link, NEW n \in Nat
  PROVE  DOMAIN Walk(e, link, n) = 1 .. n
  <1>1. \E f : IsWalk(f, e, link, n)
    BY WalkExists
  <1>2. Walk(e, link, n) = CHOOSE f : IsWalk(f, e, link, n)
    BY Zenon DEF Walk, IsWalk
  <1>3. IsWalk(Walk(e, link, n), e, link, n)
    BY <1>1, <1>2, Zenon
  <1> QED
    BY <1>3, Zenon DEF IsWalk

\* FirstIn finds an element of S, or nothing.
LEMMA FirstInFinds ==
  ASSUME NEW w, NEW n \in Nat, DOMAIN w = 1 .. n, NEW S, FirstIn(w, S) # Null
  PROVE  FirstIn(w, S) \in S
  <1> DEFINE found == {i \in DOMAIN w : w[i] \in S}
  <1>1. found # {}
    BY DEF FirstIn
  <1>2. Min(found) \in found
    BY <1>1, MinIsIn
  <1> QED
    BY <1>1, <1>2 DEF FirstIn

\* The entry NewEntry gives to a page is one of the cache; when the cache is full
\* it is an entry in use that does not wait, and otherwise the next free one.
LEMMA NewEntryIsFree ==
  ASSUME NEW p, Lookup(p) = Null, Fault(p) = "none",
         hash \in Seq(Pages), Len(hash) <= MaxPage
  PROVE  /\ NewEntryAt \in Entries
         /\ Full => NewEntryAt \in DOMAIN hash /\ ~ wait[NewEntryAt]
         /\ ~ Full => NewEntryAt = Len(hash) + 1
  <1>0. MaxPage \in Nat /\ MaxPage + 1 \in Nat
    BY CacheAssumption
  <1>1. CASE Full
    <2>1. Victim # Null
      BY <1>1, SMT DEF Fault
    <2>2. DOMAIN Candidates = 1 .. MaxPage + 1
      BY <1>0, WalkDomain DEF Candidates
    <2>3. Victim \in {e \in Entries : ~ wait[e]}
      BY <1>0, <2>1, <2>2, FirstInFinds DEF Victim
    <2> QED
      BY <1>1, <2>3 DEF NewEntryAt, Full, used_page, Entries
  <1>2. CASE ~ Full
    BY <1>0, <1>2 DEF NewEntryAt, Full, used_page, Entries
  <1> QED
    BY <1>1, <1>2

-----------------------------------------------------------------------------
(* The invariant *)

\* What AIO keeps of a call.
Requests == [op : {"read", "fake", "write"}, page : Pages, ent : Nat]

\* The entry a pread of this turn fills waits, and is that of the page read.
Landing ==
  \A i \in DOMAIN queue : queue[i].op = "read" =>
    queue[i].ent \in DOMAIN hash /\ wait[queue[i].ent]

\* Every frame belongs to a page, index_ names the frame of each of its pages, and
\* preads have frames of their own.
CacheInv ==
  /\ hash \in Seq(Pages)
  /\ Len(hash) <= MaxPage
  /\ IndexConsistent
  /\ wait \in [Entries -> BOOLEAN]
  /\ queue \in Seq(Requests)
  /\ Landing
  /\ PreadsLand

\* What Lookup finds is a frame of the page asked for, on the list or in index_.
LEMMA LookupIsOfPage ==
  ASSUME CacheInv, NEW p, Lookup(p) # Null
  PROVE  Lookup(p) \in DOMAIN hash /\ hash[Lookup(p)] = p
  <1> DEFINE front == Walk(lru.newest, lru.next, LookupSteps)
  <1> DEFINE found == FirstIn(front, {e \in DOMAIN hash : hash[e] = p})
  <1>1. LookupSteps \in Nat /\ DOMAIN front = 1 .. LookupSteps
    BY CacheAssumption, WalkDomain
  <1>2. found # Null => found \in {e \in DOMAIN hash : hash[e] = p}
    BY <1>1, FirstInFinds
  <1>3. \/ Lookup(p) = found
        \/ p \in DOMAIN index /\ Lookup(p) = index[p]
    BY DEF Lookup
  <1> QED
    BY <1>2, <1>3 DEF CacheInv, IndexConsistent

\* Giving a frame to a page takes the page that had it out of index_, and does not
\* touch a frame that waits.
LEMMA NewEntryStep ==
  ASSUME CacheInv, NEW p \in Pages, NEW waits \in BOOLEAN, NewEntry(p, waits)
  PROVE  /\ hash' \in Seq(Pages) /\ Len(hash') <= MaxPage /\ IndexConsistent'
         /\ wait' \in [Entries -> BOOLEAN]
         /\ NewEntryAt \in DOMAIN hash' /\ hash'[NewEntryAt] = p /\ wait'[NewEntryAt] = waits
         /\ NewEntryAt \in DOMAIN hash => ~ wait[NewEntryAt]
         /\ \A e \in DOMAIN hash :
              e \in DOMAIN hash' /\ (e # NewEntryAt => hash'[e] = hash[e] /\ wait'[e] = wait[e])
  <1> DEFINE e == NewEntryAt
  <1> DEFINE left == IF Full THEN DOMAIN index \ {hash[e]} ELSE DOMAIN index
  <1>1. /\ e \in Entries
        /\ Full => e \in DOMAIN hash /\ ~ wait[e]
        /\ ~ Full => e = Len(hash) + 1
    BY NewEntryIsFree DEF NewEntry, CacheInv
  <1>2. /\ hash' = IF Full THEN [hash EXCEPT ![e] = p] ELSE Append(hash, p)
        /\ index' = [q \in left \cup {p} |-> IF q \in left THEN index[q] ELSE e]
        /\ wait' = [wait EXCEPT ![e] = waits]
    BY DEF NewEntry
  <1>3. MaxPage \in Nat
    BY CacheAssumption
  <1>4. /\ hash \in Seq(Pages)
        /\ Len(hash) <= MaxPage
        /\ \A q \in DOMAIN index : index[q] \in DOMAIN hash /\ hash[index[q]] = q
        /\ wait \in [Entries -> BOOLEAN]
    BY DEF CacheInv, IndexConsistent
  <1>5. Full <=> Len(hash) = MaxPage
    BY DEF Full, used_page
  <1> HIDE DEF e
  <1>6. /\ hash' \in Seq(Pages) /\ Len(hash') <= MaxPage
        /\ DOMAIN hash \subseteq DOMAIN hash' /\ e \in DOMAIN hash' /\ hash'[e] = p
        /\ \A f \in DOMAIN hash : f # e => hash'[f] = hash[f]
    BY <1>1, <1>2, <1>3, <1>4, <1>5
  <1>7. ASSUME NEW q \in DOMAIN index'
        PROVE  index'[q] \in DOMAIN hash' /\ hash'[index'[q]] = q
    <2>1. CASE q \in left
      <3>1. q \in DOMAIN index /\ index'[q] = index[q]
        BY <1>2, <2>1
      <3>2. index[q] # e
        <4>1. CASE Full
          BY <1>1, <1>4, <2>1, <3>1, <4>1
        <4>2. CASE ~ Full
          BY <1>1, <1>4, <3>1, <4>2
        <4> QED
          BY <4>1, <4>2
      <3> QED
        BY <1>4, <1>6, <3>1, <3>2
    <2>2. CASE q \notin left
      BY <1>2, <1>6, <2>2
    <2> QED
      BY <2>1, <2>2
  <1>8. e \in DOMAIN hash => ~ wait[e]
    BY <1>1, <1>4
  <1>9. \A f \in DOMAIN hash : f \in Entries
    BY <1>3, <1>4 DEF Entries
  <1>10. /\ wait' \in [Entries -> BOOLEAN] /\ wait'[e] = waits
         /\ \A f \in DOMAIN hash : f # e => wait'[f] = wait[f]
    BY <1>1, <1>2, <1>4, <1>9
  <1> QED
    BY <1>6, <1>7, <1>8, <1>10 DEF IndexConsistent, e

\* A frame is given away: it is none that a pread of this turn fills.
LEMMA FrameGiven ==
  ASSUME CacheInv, NEW p \in Pages, NEW waits \in BOOLEAN, NewEntry(p, waits)
  PROVE  \A i \in DOMAIN queue : queue[i].op = "read" =>
           /\ queue[i].ent # NewEntryAt
           /\ queue[i].ent \in DOMAIN hash' /\ wait'[queue[i].ent]
           /\ hash'[queue[i].ent] = queue[i].page
  <1> SUFFICES ASSUME NEW i \in DOMAIN queue, queue[i].op = "read"
               PROVE  /\ queue[i].ent # NewEntryAt
                      /\ queue[i].ent \in DOMAIN hash' /\ wait'[queue[i].ent]
                      /\ hash'[queue[i].ent] = queue[i].page
    OBVIOUS
  <1>1. PICK f : f = queue[i].ent
    OBVIOUS
  <1>2. f \in DOMAIN hash /\ wait[f] /\ hash[f] = queue[i].page
    BY <1>1 DEF CacheInv, Landing, PreadsLand
  <1>3. /\ NewEntryAt \in DOMAIN hash => ~ wait[NewEntryAt]
        /\ \A e \in DOMAIN hash :
             e \in DOMAIN hash' /\ (e # NewEntryAt => hash'[e] = hash[e] /\ wait'[e] = wait[e])
    BY NewEntryStep
  <1>4. f # NewEntryAt
    BY <1>2, <1>3
  <1> QED
    BY <1>1, <1>2, <1>3, <1>4

\* A pread is enqueued for the frame that was given to its page.
LEMMA ReadMissStep ==
  ASSUME CacheInv, NEW p \in Pages, ReadMiss(p)
  PROVE  CacheInv'
  <1>1. NewEntry(p, TRUE)
    BY DEF ReadMiss
  <1>2. PICK r : r = [op |-> "read", page |-> p, ent |-> NewEntryAt]
    OBVIOUS
  <1>3. queue' = Append(queue, r)
    BY <1>2 DEF ReadMiss, Enqueue
  <1>4. /\ hash' \in Seq(Pages) /\ Len(hash') <= MaxPage /\ IndexConsistent'
        /\ wait' \in [Entries -> BOOLEAN]
        /\ NewEntryAt \in DOMAIN hash' /\ hash'[NewEntryAt] = p /\ wait'[NewEntryAt] = TRUE
    BY <1>1, NewEntryStep
  <1>5. \A i \in DOMAIN queue : queue[i].op = "read" =>
          /\ queue[i].ent # NewEntryAt
          /\ queue[i].ent \in DOMAIN hash' /\ wait'[queue[i].ent]
          /\ hash'[queue[i].ent] = queue[i].page
    BY <1>1, FrameGiven
  <1>6. NewEntryAt \in Nat
    BY <1>4
  <1>7. r \in Requests /\ r.op = "read" /\ r.page = p /\ r.ent = NewEntryAt
    BY <1>2, <1>6 DEF Requests
  <1>8. queue \in Seq(Requests) /\ PreadsLand
    BY DEF CacheInv
  <1>9. PICK l : l = Len(queue)
    OBVIOUS
  <1>10. /\ queue' \in Seq(Requests) /\ l \in Nat /\ DOMAIN queue = 1 .. l /\ DOMAIN queue' = 1 .. l + 1
         /\ queue'[l + 1] = r /\ \A i \in 1 .. l : queue'[i] = queue[i]
    BY <1>3, <1>7, <1>8, <1>9
  <1>11. Landing'
    BY <1>4, <1>5, <1>7, <1>10 DEF Landing
  <1>12. PreadsLand'
    <2> SUFFICES ASSUME NEW i \in 1 .. l + 1, queue'[i].op = "read"
                 PROVE  /\ hash'[queue'[i].ent] = queue'[i].page
                        /\ \A j \in 1 .. l + 1 : queue'[j].op = "read" /\ queue'[j].ent = queue'[i].ent => j = i
      BY <1>10 DEF PreadsLand
    <2>1. \A j \in 1 .. l + 1 : j \in 1 .. l \/ j = l + 1
      BY <1>10
    <2>2. CASE i = l + 1
      BY <1>4, <1>5, <1>7, <1>10, <2>1, <2>2
    <2>3. CASE i \in 1 .. l
      BY <1>5, <1>7, <1>8, <1>10, <2>1, <2>3 DEF PreadsLand
    <2> QED
      BY <2>1, <2>2, <2>3
  <1> QED
    BY <1>4, <1>10, <1>11, <1>12 DEF CacheInv

\* A frame is given to a page that is read at once.
LEMMA ReadSyncMissStep ==
  ASSUME CacheInv, NEW p \in Pages, ReadSyncMiss(p)
  PROVE  CacheInv'
  <1>1. NewEntry(p, FALSE) /\ queue' = queue
    BY DEF ReadSyncMiss
  <1>2. /\ hash' \in Seq(Pages) /\ Len(hash') <= MaxPage /\ IndexConsistent'
        /\ wait' \in [Entries -> BOOLEAN]
    BY <1>1, NewEntryStep
  <1>3. \A i \in DOMAIN queue : queue[i].op = "read" =>
          /\ queue[i].ent \in DOMAIN hash' /\ wait'[queue[i].ent]
          /\ hash'[queue[i].ent] = queue[i].page
    BY <1>1, FrameGiven
  <1>4. Landing' /\ PreadsLand'
    BY <1>1, <1>3 DEF CacheInv, Landing, PreadsLand
  <1> QED
    BY <1>1, <1>2, <1>4 DEF CacheInv

\* A request that reads nothing is enqueued.
LEMMA EnqueueStep ==
  ASSUME CacheInv, NEW op \in {"fake", "write"}, NEW p \in Pages, NEW e \in Nat, Enqueue(op, p, e),
         UNCHANGED <<index, hash, wait>>
  PROVE  CacheInv'
  <1>1. PICK r : r = [op |-> op, page |-> p, ent |-> e]
    OBVIOUS
  <1>2. queue' = Append(queue, r) /\ r \in Requests /\ r.op # "read"
    BY <1>1 DEF Enqueue, Requests
  <1>3. queue \in Seq(Requests) /\ Landing /\ PreadsLand
    BY DEF CacheInv
  <1>4. PICK l : l = Len(queue)
    OBVIOUS
  <1>5. /\ queue' \in Seq(Requests) /\ l \in Nat /\ DOMAIN queue = 1 .. l /\ DOMAIN queue' = 1 .. l + 1
        /\ queue'[l + 1] = r /\ \A i \in 1 .. l : queue'[i] = queue[i]
    BY <1>2, <1>3, <1>4
  <1>6. \A i \in 1 .. l + 1 : queue'[i].op = "read" => i \in 1 .. l
    BY <1>2, <1>5
  <1>7. Landing' /\ PreadsLand'
    BY <1>3, <1>5, <1>6 DEF Landing, PreadsLand
  <1> QED
    BY <1>5, <1>7 DEF CacheInv, IndexConsistent

\* A call keeps the invariant.
LEMMA CallStep ==
  ASSUME CacheInv, NEW p \in Pages, Call(p)
  PROVE  CacheInv'
  <1>0. Lookup(p) \in Nat
    <2>1. CASE Lookup(p) = Null
      BY <2>1 DEF Null
    <2>2. CASE Lookup(p) # Null
      <3>1. Lookup(p) \in DOMAIN hash
        BY <2>2, LookupIsOfPage
      <3>2. hash \in Seq(Pages)
        BY DEF CacheInv
      <3> QED
        BY <3>1, <3>2
    <2> QED
      BY <2>1, <2>2
  <1>1. CASE ReadHit(p)
    BY <1>0, <1>1, EnqueueStep DEF ReadHit, Hit
  <1>2. CASE ReadMiss(p)
    BY <1>2, ReadMissStep
  <1>3. CASE WriteHit(p)
    BY <1>0, <1>3, EnqueueStep DEF WriteHit, Hit
  <1>4. CASE WriteMiss(p)
    BY <1>4, EnqueueStep DEF WriteMiss, Null
  <1>5. CASE ReadSyncHit(p) \/ Stop(p)
    <2>1. UNCHANGED <<index, hash, wait, queue>>
      BY <1>5 DEF ReadSyncHit, Hit, Stop
    <2> QED
      BY <2>1 DEF CacheInv, IndexConsistent, Landing, PreadsLand
  <1>6. CASE ReadSyncMiss(p)
    BY <1>6, ReadSyncMissStep
  <1> QED
    BY <1>1, <1>2, <1>3, <1>4, <1>5, <1>6 DEF Call

\* The invariant holds at the start and is kept by every step.
LEMMA CacheInvariant == Spec => []CacheInv
  <1>1. Init => CacheInv
    BY CacheAssumption DEF Init, CacheInv, IndexConsistent, Landing, PreadsLand, Entries
  <1>2. CacheInv /\ [Next]_vars => CacheInv'
    <2> SUFFICES ASSUME CacheInv, [Next]_vars PROVE CacheInv'
      OBVIOUS
    <2>1. CASE \E p \in Pages : Call(p)
      BY <2>1, CallStep
    <2>2. CASE Flush
      <3>1. queue' = <<>> /\ UNCHANGED <<hash, index>>
        BY <2>2 DEF Flush
      <3>2. wait' \in [Entries -> BOOLEAN]
        BY <2>2 DEF Flush, CacheInv
      <3>3. Landing' /\ PreadsLand'
        BY <3>1 DEF Landing, PreadsLand
      <3> QED
        BY <3>1, <3>2, <3>3 DEF CacheInv, IndexConsistent
    <2>3. CASE UNCHANGED vars
      BY <2>3 DEF vars, CacheInv, IndexConsistent, Landing, PreadsLand
    <2> QED
      BY <2>1, <2>2, <2>3 DEF Next
  <1> QED
    BY <1>1, <1>2, PTL DEF Spec

\* index_ never leads to a frame that another page was given meanwhile, for any
\* number of pages and frames, although the list loses entries and Lookup may miss
\* a page that index_ has.
THEOREM IndexStaysConsistent == Spec => []IndexConsistent
  BY CacheInvariant, PTL DEF CacheInv

\* Lookup only finds frames of the page asked for, for any number of pages, frames
\* and steps along the list.
THEOREM LookupFindsItsPage == Spec => []LookupFinds
  <1>1. CacheInv => LookupFinds
    BY LookupIsOfPage DEF LookupFinds
  <1> QED
    BY <1>1, CacheInvariant, PTL

\* Until its callback has run, the frame of a pread is that of its page and of no
\* other pread, for any number of pages, frames and requests in a turn, whatever the
\* list has become.
THEOREM PreadsKeepTheirFrames == Spec => []PreadsLand
  BY CacheInvariant, PTL DEF CacheInv
=============================================================================
