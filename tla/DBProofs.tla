------------------------------ MODULE DBProofs ------------------------------
(***************************************************************************)
(* Proofs about batches and workers, for every number of clients and        *)
(* workers, every split function, all programs and every turn length.       *)
(***************************************************************************)
EXTENDS DBInv, SequenceTheorems, FiniteSetTheorems, TLAPS

-----------------------------------------------------------------------------
(* Sequences and requests *)

\* Appending keeps the elements and their places.
LEMMA AppendAt ==
  ASSUME NEW S, NEW s \in Seq(S), NEW e \in S
  PROVE  /\ Append(s, e) \in Seq(S)
         /\ DOMAIN Append(s, e) = DOMAIN s \cup {Len(s) + 1}
         /\ Len(Append(s, e)) = Len(s) + 1
         /\ Len(s) + 1 \notin DOMAIN s
         /\ Append(s, e)[Len(s) + 1] = e
         /\ \A i \in DOMAIN s : Append(s, e)[i] = s[i]
  BY AppendProperties, LenProperties

\* Tail moves every element but the first one place forward.
LEMMA TailAt ==
  ASSUME NEW S, NEW s \in Seq(S), s # <<>>
  PROVE  /\ Head(s) = s[1] /\ 1 \in DOMAIN s /\ Head(s) \in S
         /\ Tail(s) \in Seq(S)
         /\ Len(Tail(s)) = Len(s) - 1
         /\ \A i \in DOMAIN Tail(s) : i \in DOMAIN s /\ i + 1 \in DOMAIN s /\ Tail(s)[i] = s[i + 1]
         /\ \A i \in DOMAIN s : i # 1 => i - 1 \in DOMAIN Tail(s) /\ Tail(s)[i - 1] = s[i]
  BY HeadTailProperties, LenProperties, EmptySeq

\* Every request has a worker.
LEMMA RouteType ==
  ASSUME NEW r \in Placed
  PROVE  Route(r) \in Workers
  BY DBAssumption DEF Placed, Route

\* A batch that is handed on is not None.
LEMMA NotNone ==
  ASSUME NEW c \in Clients, NEW w \in Workers
  PROVE  [batch |-> c, to |-> w] # None
  <1>1. [batch |-> c, to |-> w].to # None.to
    BY DBAssumption DEF Workers, None
  <1> QED
    BY <1>1

\* Fanning out adds SCANs behind the requests.
LEMMA FanOutType ==
  ASSUME NEW reqs \in Seq(Placed), reqs # <<>>
  PROVE  /\ FanOut(reqs) \in Seq(Placed)
         /\ Len(FanOut(reqs)) = IF Head(reqs).op = "SCAN" /\ Head(reqs).key = 0
                                  THEN Len(reqs) + WorkerNum - 1 ELSE Len(reqs)
         /\ \A i \in 1 .. Len(reqs) : FanOut(reqs)[i] = reqs[i]
         /\ \A i \in Len(reqs) + 1 .. Len(FanOut(reqs)) :
              FanOut(reqs)[i] = [op |-> "SCAN", key |-> i - Len(reqs), place |-> Head(reqs).place]
         /\ FanOut(reqs) # <<>> /\ Head(FanOut(reqs)) = Head(reqs)
  <1>1. Head(reqs) \in Placed /\ Len(reqs) \in Nat \ {0} /\ Head(reqs) = reqs[1]
    BY TailAt, EmptySeq
  <1>2. CASE ~(Head(reqs).op = "SCAN" /\ Head(reqs).key = 0)
    BY <1>1, <1>2 DEF FanOut
  <1>3. CASE Head(reqs).op = "SCAN" /\ Head(reqs).key = 0
    <2> DEFINE more == [i \in 1 .. WorkerNum - 1 |-> [Head(reqs) EXCEPT !.key = i]]
    <2>1. WorkerNum - 1 \in Nat
      BY DBAssumption
    <2>2. Head(reqs) \in [op : {"SCAN"}, key : Workers, place : Nat]
      BY <1>1, <1>3 DEF Placed
    <2>3. \A i \in 1 .. WorkerNum - 1 :
            /\ more[i] = [op |-> "SCAN", key |-> i, place |-> Head(reqs).place]
            /\ more[i] \in Placed
      BY <1>3, <2>1, <2>2 DEF Placed, Workers
    <2>4. more \in [1 .. WorkerNum - 1 -> Placed]
      BY <2>3
    <2>5. more \in Seq(Placed) /\ Len(more) = WorkerNum - 1
      BY <2>1, <2>4
    <2>6. FanOut(reqs) = reqs \o more
      BY <1>3 DEF FanOut
    <2> HIDE DEF more
    <2>7. /\ reqs \o more \in Seq(Placed)
          /\ Len(reqs \o more) = Len(reqs) + Len(more)
          /\ \A i \in 1 .. Len(reqs) + Len(more) :
               (reqs \o more)[i] = IF i <= Len(reqs) THEN reqs[i] ELSE more[i - Len(reqs)]
      BY <2>5, ConcatProperties
    <2>8. /\ Len(FanOut(reqs)) = Len(reqs) + WorkerNum - 1
          /\ \A i \in 1 .. Len(reqs) : FanOut(reqs)[i] = reqs[i]
      BY <1>1, <2>1, <2>5, <2>6, <2>7
    <2>9. \A i \in Len(reqs) + 1 .. Len(FanOut(reqs)) :
            FanOut(reqs)[i] = [op |-> "SCAN", key |-> i - Len(reqs), place |-> Head(reqs).place]
      <3> SUFFICES ASSUME NEW i \in Len(reqs) + 1 .. Len(FanOut(reqs))
                   PROVE  FanOut(reqs)[i] = [op |-> "SCAN", key |-> i - Len(reqs), place |-> Head(reqs).place]
        OBVIOUS
      <3>1. i - Len(reqs) \in 1 .. WorkerNum - 1 /\ i \in 1 .. Len(reqs) + Len(more) /\ ~(i <= Len(reqs))
        BY <1>1, <2>1, <2>5, <2>8
      <3>2. FanOut(reqs)[i] = more[i - Len(reqs)]
        BY <2>6, <2>7, <3>1
      <3> QED
        BY <2>3, <3>1, <3>2
    <2>10. FanOut(reqs) # <<>> /\ Head(FanOut(reqs)) = Head(reqs)
      BY <1>1, <2>1, <2>6, <2>7, <2>8, TailAt, EmptySeq
    <2> QED
      BY <1>3, <2>6, <2>7, <2>8, <2>9, <2>10
  <1> QED
    BY <1>2, <1>3

-----------------------------------------------------------------------------
(* Where batches go: what each step does to the three kinds of places *)

\* The places of batches hold clients' batches, at places that are numbers.
LEMMA PlaceTypes ==
  ASSUME TypeOK
  PROVE  /\ \A c : \A t \in Threads : IsHanded(c, t) => c \in Clients /\ handing[t].to \in Workers
         /\ \A c : \A w \in Workers : \A i : IsQueued(c, w, i) => c \in Clients /\ i \in Nat \ {0}
         /\ \A c : \A w \in Workers : \A i : InIo(c, w, i) => c \in Clients /\ i \in Nat \ {0}
  <1>1. \A w \in Workers : batch_queue[w] \in Seq(Clients) /\ io_queue[w] \in Seq([batch : Clients, by : Workers])
    BY DEF TypeOK
  <1>2. \A t \in Threads : handing[t] # None => handing[t] \in [batch : Clients, to : Workers]
    BY DEF TypeOK
  <1>3. \A w \in Workers : \A i \in DOMAIN batch_queue[w] : i \in Nat \ {0} /\ batch_queue[w][i] \in Clients
    BY <1>1, LenProperties, ElementOfSeq
  <1>4. \A w \in Workers : \A i \in DOMAIN io_queue[w] :
          i \in Nat \ {0} /\ io_queue[w][i] \in [batch : Clients, by : Workers]
    <2> SUFFICES ASSUME NEW w \in Workers, NEW i \in DOMAIN io_queue[w]
                 PROVE  i \in Nat \ {0} /\ io_queue[w][i] \in [batch : Clients, by : Workers]
      OBVIOUS
    <2> DEFINE T == [batch : Clients, by : Workers]
    <2>1. io_queue[w] \in Seq(T)
      BY <1>1
    <2> HIDE DEF T
    <2>2. i \in Nat \ {0} /\ io_queue[w][i] \in T
      BY <2>1, LenProperties, ElementOfSeq
    <2> QED
      BY <2>2 DEF T
  <1>5. \A c : \A w \in Workers : \A i : InIo(c, w, i) => c \in Clients /\ i \in Nat \ {0}
    BY <1>4 DEF InIo
  <1> QED
    BY <1>2, <1>3, <1>5 DEF IsHanded, IsQueued

\* Unique without the bounds TLC needs.
LEMMA UniqueUnbounded ==
  ASSUME NEW c
  PROVE  Unique(c) <=>
         /\ \A t, u \in Threads : IsHanded(c, t) /\ IsHanded(c, u) => t = u
         /\ \A w, x \in Workers : \A i, j : IsQueued(c, w, i) /\ IsQueued(c, x, j) => w = x /\ i = j
         /\ \A w, x \in Workers : \A i, j : InIo(c, w, i) /\ InIo(c, x, j) => w = x /\ i = j
         /\ \A t \in Threads, w \in Workers : \A i : ~(IsHanded(c, t) /\ IsQueued(c, w, i))
         /\ \A t \in Threads, w \in Workers : \A i : ~(IsHanded(c, t) /\ InIo(c, w, i))
         /\ \A w, x \in Workers : \A i, j : ~(IsQueued(c, w, i) /\ InIo(c, x, j))
  BY DEF Unique, Handed, Queued, AwaitsIo, IsQueued, InIo

\* The same for the three kinds of places.
LEMMA PlacesUnbounded ==
  ASSUME NEW c
  PROVE  /\ Handed(c) <=> \E t \in Threads : IsHanded(c, t)
         /\ Queued(c) <=> \E w \in Workers : \E i : IsQueued(c, w, i)
         /\ AwaitsIo(c) <=> \E w \in Workers : \E i : InIo(c, w, i)
  BY DEF Handed, Queued, AwaitsIo, IsQueued, InIo

\* Push moves a batch to the end of a queue.
LEMMA PushMoves ==
  ASSUME TypeOK, NEW t \in Threads, Push(t)
  PROVE  /\ \A d : \A u \in Threads : IsHanded(d, u)' <=> u # t /\ IsHanded(d, u)
         /\ \A d : \A x \in Workers : \A i :
              IsQueued(d, x, i)' <=> \/ IsQueued(d, x, i)
                                     \/ /\ d = handing[t].batch /\ x = handing[t].to
                                        /\ i = Len(batch_queue[x]) + 1
         /\ \A x \in Workers : ~(Len(batch_queue[x]) + 1 \in DOMAIN batch_queue[x])
         /\ \A d : \A x \in Workers : \A i : InIo(d, x, i)' <=> InIo(d, x, i)
  <1> DEFINE c == handing[t].batch
             w == handing[t].to
  <1>1. c \in Clients /\ w \in Workers
    BY PlaceTypes DEF Push, IsHanded
  <1>2. \A x \in Workers : batch_queue[x] \in Seq(Clients)
    BY DEF TypeOK
  <1>3. \A u \in Threads : handing'[u] = IF u = t THEN None ELSE handing[u]
    BY DEF TypeOK, Push
  <1>4. \A x \in Workers : batch_queue'[x] = IF x = w THEN Append(batch_queue[x], c) ELSE batch_queue[x]
    BY <1>1 DEF TypeOK, Push
  <1>5. \A x \in Workers : /\ DOMAIN Append(batch_queue[x], c) = DOMAIN batch_queue[x] \cup {Len(batch_queue[x]) + 1}
                           /\ Len(batch_queue[x]) + 1 \notin DOMAIN batch_queue[x]
                           /\ Append(batch_queue[x], c)[Len(batch_queue[x]) + 1] = c
                           /\ \A i \in DOMAIN batch_queue[x] : Append(batch_queue[x], c)[i] = batch_queue[x][i]
    BY <1>1, <1>2, AppendAt
  <1>6. UNCHANGED io_queue
    BY DEF Push
  <1>7. \A d : \A u \in Threads : IsHanded(d, u)' <=> u # t /\ IsHanded(d, u)
    BY <1>3 DEF IsHanded, None
  <1>8. \A d : \A x \in Workers : \A i :
          IsQueued(d, x, i)' <=> IsQueued(d, x, i) \/ (d = c /\ x = w /\ i = Len(batch_queue[x]) + 1)
    <2> HIDE DEF c, w
    <2> SUFFICES ASSUME NEW d, NEW x \in Workers, NEW i
                 PROVE  IsQueued(d, x, i)' <=> IsQueued(d, x, i) \/ (d = c /\ x = w /\ i = Len(batch_queue[x]) + 1)
      OBVIOUS
    <2>1. CASE x = w
      BY <1>4, <1>5, <2>1 DEF IsQueued
    <2>2. CASE x # w
      BY <1>4, <2>2 DEF IsQueued
    <2> QED
      BY <2>1, <2>2
  <1> QED
    BY <1>5, <1>6, <1>7, <1>8 DEF InIo

\* Pop takes the first batch of a queue, the rest move up.
LEMMA PopMoves ==
  ASSUME TypeOK, NEW w \in Workers, NEW c, NEW op, Pop(w, c, op)
  PROVE  /\ c \in Clients /\ IsQueued(c, w, 1)
         /\ \A d : \A x \in Workers : \A i :
              IsQueued(d, x, i)' => IF x = w THEN IsQueued(d, x, i + 1) /\ i \in Nat \ {0}
                                    ELSE IsQueued(d, x, i)
         /\ \A d : \A x \in Workers : \A i :
              IsQueued(d, x, i) => IF x = w THEN (i = 1 /\ d = c) \/ IsQueued(d, x, i - 1)'
                                   ELSE IsQueued(d, x, i)'
  <1>1. batch_queue[w] \in Seq(Clients) /\ batch_queue[w] # <<>> /\ c = Head(batch_queue[w])
    BY DEF TypeOK, Pop
  <1>2. batch_queue'[w] = Tail(batch_queue[w]) /\ \A x \in Workers \ {w} : batch_queue'[x] = batch_queue[x]
    BY DEF TypeOK, Pop
  <1>3. c \in Clients /\ IsQueued(c, w, 1)
    BY <1>1, TailAt DEF IsQueued
  <1>4. DOMAIN Tail(batch_queue[w]) \subseteq Nat \ {0}
    BY <1>1, TailAt, LenProperties
  <1>5. \A d, i : IsQueued(d, w, i)' => IsQueued(d, w, i + 1) /\ i \in Nat \ {0}
    BY <1>1, <1>2, <1>4, TailAt DEF IsQueued
  <1>6. \A d, i : IsQueued(d, w, i) => (i = 1 /\ d = c) \/ IsQueued(d, w, i - 1)'
    BY <1>1, <1>2, TailAt DEF IsQueued
  <1>7. \A d : \A x \in Workers \ {w} : \A i : IsQueued(d, x, i)' <=> IsQueued(d, x, i)
    BY <1>2 DEF IsQueued
  <1> QED
    BY <1>3, <1>5, <1>6, <1>7

\* Finish takes the first AIO of an io_queue_.
LEMMA FinishMoves ==
  ASSUME TypeOK, Typed, NEW w \in Workers, Finish(w)
  PROVE  LET c == Head(io_queue[w]).batch
         IN  /\ c \in Clients /\ InIo(c, w, 1)
             /\ \A d : \A x \in Workers : \A i :
                  InIo(d, x, i)' => IF x = w THEN InIo(d, x, i + 1) /\ i \in Nat \ {0} ELSE InIo(d, x, i)
             /\ \A d : \A x \in Workers : \A i :
                  InIo(d, x, i) => IF x = w THEN (i = 1 /\ d = c) \/ InIo(d, x, i - 1)' ELSE InIo(d, x, i)'
             /\ \A d : \A x \in Workers : \A i : IsQueued(d, x, i)' <=> IsQueued(d, x, i)
  <1> DEFINE c == Head(io_queue[w]).batch
             T == [batch : Clients, by : Workers]
  <1>1. io_queue[w] \in Seq(T) /\ io_queue[w] # <<>>
    BY DEF TypeOK, Typed, Finish
  <1>2. io_queue'[w] = Tail(io_queue[w]) /\ \A x \in Workers \ {w} : io_queue'[x] = io_queue[x]
    BY DEF TypeOK, Finish
  <1>3. c \in Clients /\ InIo(c, w, 1)
    <2>1. Head(io_queue[w]) \in T /\ Head(io_queue[w]) = io_queue[w][1] /\ 1 \in DOMAIN io_queue[w]
      BY <1>1, TailAt
    <2> QED
      BY <2>1 DEF InIo
  <1>4. DOMAIN Tail(io_queue[w]) \subseteq Nat \ {0}
    BY <1>1, TailAt, LenProperties
  <1>5. \A d, i : InIo(d, w, i)' => InIo(d, w, i + 1) /\ i \in Nat \ {0}
    BY <1>1, <1>2, <1>4, TailAt DEF InIo
  <1>6. \A d, i : InIo(d, w, i) => (i = 1 /\ d = c) \/ InIo(d, w, i - 1)'
    BY <1>1, <1>2, TailAt DEF InIo
  <1>7. \A d : \A x \in Workers \ {w} : \A i : InIo(d, x, i)' <=> InIo(d, x, i)
    BY <1>2 DEF InIo
  <1>8. \A d : \A x \in Workers : \A i : IsQueued(d, x, i)' <=> IsQueued(d, x, i)
    BY DEF Finish, IsQueued
  <1> QED
    BY <1>3, <1>5, <1>6, <1>7, <1>8

\* Submit puts a batch into the hands of the thread that runs it.
LEMMA SubmitMoves ==
  ASSUME TypeOK, NEW t \in Threads, NEW c \in Clients, NEW reqs \in Seq(Placed), reqs # <<>>,
         handing[t] = None, Submit(t, c, reqs)
  PROVE  /\ \A d : \A u \in Threads : IsHanded(d, u)' <=> IsHanded(d, u) \/ (d = c /\ u = t)
         /\ Route(Head(reqs)) \in Workers
         /\ handing' = [handing EXCEPT ![t] = [batch |-> c, to |-> Route(Head(reqs))]]
         /\ handing'[t] # None
  <1>1. Route(Head(reqs)) \in Workers
    BY RouteType, TailAt
  <1>2. [batch |-> c, to |-> Route(Head(reqs))] # None
    BY <1>1, NotNone
  <1>3. handing'[t] = [batch |-> c, to |-> Route(Head(reqs))] /\ \A u \in Threads \ {t} : handing'[u] = handing[u]
    BY DEF TypeOK, Submit
  <1>4. \A d : IsHanded(d, t)' <=> d = c
    BY <1>2, <1>3 DEF IsHanded, None
  <1>5. \A d : ~IsHanded(d, t)
    BY DEF IsHanded
  <1>6. \A d : \A u \in Threads \ {t} : IsHanded(d, u)' <=> IsHanded(d, u)
    BY <1>3 DEF IsHanded, None
  <1>7. handing'[t] # None
    BY <1>2, <1>3
  <1> QED
    BY <1>1, <1>4, <1>5, <1>6, <1>7 DEF Submit

\* The batch a worker has popped is nowhere else.
LEMMA PopLeaves ==
  ASSUME TypeOK, Owned, NEW w \in Workers, NEW c, NEW op, Pop(w, c, op)
  PROVE  /\ called[c] = 0
         /\ ~Queued(c)' /\ ~Handed(c) /\ ~AwaitsIo(c)
         /\ \A d \in Clients : d # c => (Queued(d)' <=> Queued(d))
         /\ \A d \in Clients : \A x, y \in Workers : \A i, j :
              IsQueued(d, x, i)' /\ IsQueued(d, y, j)' => x = y /\ i = j
  <1>1. /\ c \in Clients /\ IsQueued(c, w, 1)
        /\ \A d : \A x \in Workers : \A i :
             IsQueued(d, x, i)' => IF x = w THEN IsQueued(d, x, i + 1) /\ i \in Nat \ {0} ELSE IsQueued(d, x, i)
        /\ \A d : \A x \in Workers : \A i :
             IsQueued(d, x, i) => IF x = w THEN (i = 1 /\ d = c) \/ IsQueued(d, x, i - 1)' ELSE IsQueued(d, x, i)'
    BY PopMoves
  <1>2. Queued(c)
    BY <1>1, PlacesUnbounded
  <1>3. called[c] = 0 /\ Unique(c)
    BY <1>1, <1>2 DEF Owned
  <1>4. ~Handed(c) /\ ~AwaitsIo(c)
    BY <1>2, <1>3 DEF Unique
  <1>5. \A d \in Clients : \A x, y \in Workers : \A i, j : IsQueued(d, x, i) /\ IsQueued(d, y, j) => x = y /\ i = j
    BY UniqueUnbounded DEF Owned
  <1>6. \A x \in Workers : \A i : ~IsQueued(c, x, i)'
    BY <1>1, <1>5
  <1>7. ~Queued(c)'
    BY <1>6 DEF Queued
  <1>8. \A d \in Clients : d # c => (Queued(d)' <=> Queued(d))
    <2> SUFFICES ASSUME NEW d \in Clients, d # c
                 PROVE  (\E x \in Workers : \E i : IsQueued(d, x, i)') <=> (\E x \in Workers : \E i : IsQueued(d, x, i))
      BY PlacesUnbounded DEF Queued, IsQueued
    <2> QED
      BY <1>1
  <1>9. \A d \in Clients : \A x, y \in Workers : \A i, j :
          IsQueued(d, x, i)' /\ IsQueued(d, y, j)' => x = y /\ i = j
    <2> SUFFICES ASSUME NEW d \in Clients, NEW x \in Workers, NEW y \in Workers, NEW i, NEW j,
                        IsQueued(d, x, i)', IsQueued(d, y, j)'
                 PROVE  x = y /\ i = j
      OBVIOUS
    <2>1. CASE x = w /\ y = w
      BY <1>1, <1>5, <2>1
    <2>2. CASE x # w /\ y # w
      BY <1>1, <1>5, <2>2
    <2>3. CASE x = w /\ y # w
      BY <1>1, <1>5, <2>3
    <2>4. CASE x # w /\ y = w
      BY <1>1, <1>5, <2>4
    <2> QED
      BY <2>1, <2>2, <2>3, <2>4
  <1> QED
    BY <1>3, <1>4, <1>7, <1>8, <1>9

\* The batch whose AIO is finished is nowhere else.
LEMMA FinishLeaves ==
  ASSUME TypeOK, Typed, Owned, NEW w \in Workers, Finish(w),
         NEW c, c = Head(io_queue[w]).batch
  PROVE  /\ c \in Clients /\ called[c] = 0 /\ AwaitsIo(c)
         /\ ~AwaitsIo(c)' /\ ~Handed(c) /\ ~Queued(c)
         /\ \A d \in Clients : d # c => (AwaitsIo(d)' <=> AwaitsIo(d))
         /\ \A d \in Clients : \A x, y \in Workers : \A i, j :
              InIo(d, x, i)' /\ InIo(d, y, j)' => x = y /\ i = j
  <1>1. /\ c \in Clients /\ InIo(c, w, 1)
        /\ \A d : \A x \in Workers : \A i :
             InIo(d, x, i)' => IF x = w THEN InIo(d, x, i + 1) /\ i \in Nat \ {0} ELSE InIo(d, x, i)
        /\ \A d : \A x \in Workers : \A i :
             InIo(d, x, i) => IF x = w THEN (i = 1 /\ d = c) \/ InIo(d, x, i - 1)' ELSE InIo(d, x, i)'
    BY FinishMoves
  <1>2. AwaitsIo(c)
    BY <1>1, PlacesUnbounded
  <1>3. called[c] = 0 /\ Unique(c)
    BY <1>1, <1>2 DEF Owned
  <1>4. ~Handed(c) /\ ~Queued(c)
    BY <1>2, <1>3 DEF Unique
  <1>5. \A d \in Clients : \A x, y \in Workers : \A i, j : InIo(d, x, i) /\ InIo(d, y, j) => x = y /\ i = j
    BY UniqueUnbounded DEF Owned
  <1>6. \A x \in Workers : \A i : ~InIo(c, x, i)'
    BY <1>1, <1>5
  <1>7. ~AwaitsIo(c)'
    BY <1>6 DEF AwaitsIo
  <1>8. \A d \in Clients : d # c => (AwaitsIo(d)' <=> AwaitsIo(d))
    <2> SUFFICES ASSUME NEW d \in Clients, d # c
                 PROVE  (\E x \in Workers : \E i : InIo(d, x, i)') <=> (\E x \in Workers : \E i : InIo(d, x, i))
      BY PlacesUnbounded DEF AwaitsIo, InIo
    <2> QED
      BY <1>1
  <1>9. \A d \in Clients : \A x, y \in Workers : \A i, j :
          InIo(d, x, i)' /\ InIo(d, y, j)' => x = y /\ i = j
    <2> SUFFICES ASSUME NEW d \in Clients, NEW x \in Workers, NEW y \in Workers, NEW i, NEW j,
                        InIo(d, x, i)', InIo(d, y, j)'
                 PROVE  x = y /\ i = j
      OBVIOUS
    <2>1. CASE x = w /\ y = w
      BY <1>1, <1>5, <2>1
    <2>2. CASE x # w /\ y # w
      BY <1>1, <1>5, <2>2
    <2>3. CASE x = w /\ y # w
      BY <1>1, <1>5, <2>3
    <2>4. CASE x # w /\ y = w
      BY <1>1, <1>5, <2>4
    <2> QED
      BY <2>1, <2>2, <2>3, <2>4
  <1> QED
    BY <1>1, <1>2, <1>3, <1>4, <1>7, <1>8, <1>9

\* A batch that has left its place is called back, or is in the hands of a worker.
LEMMA OwnedAfter ==
  ASSUME TypeOK, Owned, NEW c \in Clients, called[c] = 0,
         ~Handed(c), ~Queued(c)', ~AwaitsIo(c)',
         \A d \in Clients : d # c => (Queued(d)' <=> Queued(d)) /\ (AwaitsIo(d)' <=> AwaitsIo(d)),
         \A d \in Clients : \A x, y \in Workers : \A i, j :
           /\ IsQueued(d, x, i)' /\ IsQueued(d, y, j)' => x = y /\ i = j
           /\ InIo(d, x, i)' /\ InIo(d, y, j)' => x = y /\ i = j,
         \A d \in Clients : d # c => called'[d] = called[d],
         \/ UNCHANGED handing /\ called'[c] # 0
         \/ /\ called'[c] = 0
            /\ \E t \in Workers : /\ handing[t] = None
                                  /\ \A d : \A u \in Threads : IsHanded(d, u)' <=> IsHanded(d, u) \/ (d = c /\ u = t)
                                  /\ \A u \in Threads \ {t} : handing'[u] = handing[u]
  PROVE  Owned'
  <1>1. CASE UNCHANGED handing /\ called'[c] # 0
    <2>1. \A d : \A u \in Threads : IsHanded(d, u)' <=> IsHanded(d, u)
      BY <1>1 DEF IsHanded, None
    <2>2. \A d : Handed(d)' <=> Handed(d)
      BY <2>1 DEF Handed
    <2> SUFFICES ASSUME NEW d \in Clients
                 PROVE  /\ Unique(d)'
                        /\ called'[d] = 0 <=> Handed(d)' \/ Queued(d)' \/ AwaitsIo(d)'
                        /\ handing'[d] # None => handing'[d].batch = d
      BY DEF Owned, None
    <2>3. Unique(d) /\ (called[d] = 0 <=> Handed(d) \/ Queued(d) \/ AwaitsIo(d))
      BY DEF Owned
    <2>4. /\ \A t, u \in Threads : IsHanded(d, t)' /\ IsHanded(d, u)' => t = u
          /\ ~(Handed(d)' /\ Queued(d)') /\ ~(Handed(d)' /\ AwaitsIo(d)') /\ ~(Queued(d)' /\ AwaitsIo(d)')
      BY <2>1, <2>2, <2>3 DEF Unique
    <2>5. Unique(d)'
      BY <2>4 DEF Unique
    <2> QED
      BY <1>1, <2>2, <2>3, <2>5 DEF Owned
  <1>2. CASE called'[c] = 0 /\ \E t \in Workers :
                /\ handing[t] = None
                /\ \A d : \A u \in Threads : IsHanded(d, u)' <=> IsHanded(d, u) \/ (d = c /\ u = t)
                /\ \A u \in Threads \ {t} : handing'[u] = handing[u]
    <2>1. PICK t \in Workers : /\ handing[t] = None
                               /\ \A d : \A u \in Threads : IsHanded(d, u)' <=> IsHanded(d, u) \/ (d = c /\ u = t)
                               /\ \A u \in Threads \ {t} : handing'[u] = handing[u]
      BY <1>2
    <2>2. t \in Threads /\ t \notin Clients
      BY DBAssumption DEF Threads
    <2>3. Handed(c)' /\ \A d \in Clients : d # c => (Handed(d)' <=> Handed(d))
      BY <2>1, <2>2 DEF Handed
    <2> SUFFICES ASSUME NEW d \in Clients
                 PROVE  /\ Unique(d)'
                        /\ called'[d] = 0 <=> Handed(d)' \/ Queued(d)' \/ AwaitsIo(d)'
                        /\ handing'[d] # None => handing'[d].batch = d
      BY DEF Owned, None
    <2>4. Unique(d) /\ (called[d] = 0 <=> Handed(d) \/ Queued(d) \/ AwaitsIo(d))
      BY DEF Owned
    <2>5. ~(Handed(d)' /\ Queued(d)') /\ ~(Handed(d)' /\ AwaitsIo(d)') /\ ~(Queued(d)' /\ AwaitsIo(d)')
      BY <2>3, <2>4 DEF Unique
    <2>6. \A u, v \in Threads : IsHanded(d, u) /\ IsHanded(d, v) => u = v
      BY <2>4 DEF Unique
    <2>7. \A u \in Threads : ~IsHanded(c, u)
      BY DEF Handed
    <2>8. \A u, v \in Threads : IsHanded(d, u)' /\ IsHanded(d, v)' => u = v
      BY <2>1, <2>6, <2>7
    <2>9. Unique(d)'
      BY <2>5, <2>8 DEF Unique
    <2>10. d \in Threads \ {t}
      BY <2>2 DEF Threads
    <2>11. handing'[d] # None => handing'[d].batch = d
      BY <2>1, <2>10 DEF Owned
    <2> QED
      BY <1>2, <2>3, <2>4, <2>9, <2>11
  <1> QED
    BY <1>1, <1>2

\* FinishRequest calls a batch back or takes it into the worker's hands.
LEMMA FinishRequestMoves ==
  ASSUME TypeOK, NEW w \in Workers, handing[w] = None, NEW c \in Clients, called[c] = 0,
         NEW reqs \in Seq(Placed), FinishRequest(w, c, reqs)
  PROVE  /\ \A d \in Clients : d # c => called'[d] = called[d]
         /\ \/ UNCHANGED handing /\ called'[c] # 0
            \/ /\ called'[c] = 0
               /\ \E t \in Workers : /\ handing[t] = None
                                     /\ \A d : \A u \in Threads : IsHanded(d, u)' <=> IsHanded(d, u) \/ (d = c /\ u = t)
                                     /\ \A u \in Threads \ {t} : handing'[u] = handing[u]
  <1>1. CASE reqs = <<>>
    <2>1. called' = [called EXCEPT ![c] = @ + 1] /\ UNCHANGED handing
      BY <1>1 DEF FinishRequest
    <2>2. called'[c] = 1 /\ \A d \in Clients : d # c => called'[d] = called[d]
      BY <2>1 DEF TypeOK
    <2> QED
      BY <2>1, <2>2
  <1>2. CASE reqs # <<>>
    <2>1. Submit(w, c, reqs) /\ UNCHANGED called
      BY <1>2 DEF FinishRequest
    <2>2. w \in Threads
      BY DEF Threads
    <2>3. /\ \A d : \A u \in Threads : IsHanded(d, u)' <=> IsHanded(d, u) \/ (d = c /\ u = w)
          /\ handing' = [handing EXCEPT ![w] = [batch |-> c, to |-> Route(Head(reqs))]]
      BY <1>2, <2>1, <2>2, SubmitMoves
    <2>4. \A u \in Threads \ {w} : handing'[u] = handing[u]
      BY <2>3 DEF TypeOK
    <2> QED
      BY <2>1, <2>3, <2>4
  <1> QED
    BY <1>1, <1>2

\* Steps that leave queues or AIOs alone leave the batches in them where they are.
LEMMA QueueKept ==
  ASSUME UNCHANGED batch_queue
  PROVE  /\ \A d, x, i : IsQueued(d, x, i)' <=> IsQueued(d, x, i)
         /\ \A d : Queued(d)' <=> Queued(d)
  BY DEF Queued, IsQueued

\* The same for io_queue_.
LEMMA IoKept ==
  ASSUME UNCHANGED io_queue
  PROVE  /\ \A d, x, i : InIo(d, x, i)' <=> InIo(d, x, i)
         /\ \A d : AwaitsIo(d)' <=> AwaitsIo(d)
  BY DEF AwaitsIo, InIo

\* A batch that is pushed goes from a thread's hands to a queue.
LEMMA OwnedPush ==
  ASSUME TypeOK, Owned, NEW t \in Threads, Push(t)
  PROVE  Owned'
  <1>1. /\ \A d : \A u \in Threads : IsHanded(d, u)' <=> u # t /\ IsHanded(d, u)
        /\ \A d : \A x \in Workers : \A i :
             IsQueued(d, x, i)' <=> \/ IsQueued(d, x, i)
                                    \/ d = handing[t].batch /\ x = handing[t].to /\ i = Len(batch_queue[x]) + 1
        /\ \A d : \A x \in Workers : \A i : InIo(d, x, i)' <=> InIo(d, x, i)
    BY PushMoves
  <1> DEFINE c == handing[t].batch
             w == handing[t].to
  <1>2. c \in Clients /\ w \in Workers /\ IsHanded(c, t)
    BY PlaceTypes DEF Push, IsHanded
  <1>3. UNCHANGED called /\ \A d \in Clients : handing'[d] = handing[d] \/ handing'[d] = None
    BY DEF Push, TypeOK, Threads
  <1> SUFFICES ASSUME NEW d \in Clients
               PROVE  /\ Unique(d)'
                      /\ called'[d] = 0 <=> Handed(d)' \/ Queued(d)' \/ AwaitsIo(d)'
                      /\ handing'[d] # None => handing'[d].batch = d
    BY DEF Owned, None
  <1>4. /\ Unique(d)
        /\ called[d] = 0 <=> Handed(d) \/ Queued(d) \/ AwaitsIo(d)
        /\ handing[d] # None => handing[d].batch = d
    BY DEF Owned
  <1>5. /\ \A u, v \in Threads : IsHanded(d, u) /\ IsHanded(d, v) => u = v
        /\ \A x, y \in Workers : \A i, j : IsQueued(d, x, i) /\ IsQueued(d, y, j) => x = y /\ i = j
        /\ \A x, y \in Workers : \A i, j : InIo(d, x, i) /\ InIo(d, y, j) => x = y /\ i = j
        /\ \A u \in Threads, x \in Workers : \A i : ~(IsHanded(d, u) /\ IsQueued(d, x, i))
        /\ \A u \in Threads, x \in Workers : \A i : ~(IsHanded(d, u) /\ InIo(d, x, i))
        /\ \A x, y \in Workers : \A i, j : ~(IsQueued(d, x, i) /\ InIo(d, y, j))
    BY <1>4, UniqueUnbounded
  <1>6. /\ Handed(d) <=> \E u \in Threads : IsHanded(d, u)
        /\ Queued(d) <=> \E x \in Workers : \E i : IsQueued(d, x, i)
        /\ AwaitsIo(d) <=> \E x \in Workers : \E i : InIo(d, x, i)
        /\ Handed(d)' <=> \E u \in Threads : IsHanded(d, u)'
        /\ Queued(d)' <=> \E x \in Workers : \E i : IsQueued(d, x, i)'
        /\ AwaitsIo(d)' <=> \E x \in Workers : \E i : InIo(d, x, i)'
    BY DEF Handed, Queued, AwaitsIo, IsQueued, InIo
  <1>7. CASE d # c
    <2>1. /\ \A u \in Threads : IsHanded(d, u)' <=> IsHanded(d, u)
          /\ \A x \in Workers : \A i : IsQueued(d, x, i)' <=> IsQueued(d, x, i)
      BY <1>1, <1>7 DEF IsHanded
    <2>2. /\ Handed(d)' <=> Handed(d)
          /\ Queued(d)' <=> Queued(d)
          /\ AwaitsIo(d)' <=> AwaitsIo(d)
      BY <1>1, <1>6, <2>1
    <2>3. Unique(d)'
      BY <1>1, <1>5, <1>6, <2>1 DEF Unique
    <2> QED
      BY <1>3, <1>4, <2>2, <2>3
  <1>8. CASE d = c
    <2>1. \A u \in Threads : ~IsHanded(d, u)'
      BY <1>1, <1>2, <1>5, <1>8
    <2>2. \A x \in Workers : \A i : ~IsQueued(d, x, i) /\ ~InIo(d, x, i)
      BY <1>2, <1>5, <1>8
    <2>3. \A x \in Workers : \A i : IsQueued(d, x, i)' <=> x = w /\ i = Len(batch_queue[x]) + 1
      BY <1>1, <1>8, <2>2
    <2>4. ~Handed(d)' /\ Queued(d)' /\ ~AwaitsIo(d)' /\ Handed(d)
      BY <1>1, <1>2, <1>6, <1>8, <2>1, <2>2, <2>3
    <2>5. Unique(d)'
      BY <1>1, <2>1, <2>2, <2>3, <2>4 DEF Unique
    <2> QED
      BY <1>3, <1>4, <2>4, <2>5
  <1> QED
    BY <1>7, <1>8

\* A batch whose request is answered goes from a queue to a worker's hands.
LEMMA OwnedAnswer ==
  ASSUME TypeOK, Typed, Owned, NEW w \in Workers, NEW c \in Clients, NEW op, Pop(w, c, op),
         UNCHANGED io_queue, FinishRequest(w, c, Tail(requests[c])), requests[c] # <<>>
  PROVE  Owned'
  <1>1. /\ called[c] = 0
        /\ ~Queued(c)' /\ ~Handed(c) /\ ~AwaitsIo(c)
        /\ \A d \in Clients : d # c => (Queued(d)' <=> Queued(d))
        /\ \A d \in Clients : \A x, y \in Workers : \A i, j :
             IsQueued(d, x, i)' /\ IsQueued(d, y, j)' => x = y /\ i = j
    BY PopLeaves
  <1>2. \A d \in Clients : \A x, y \in Workers : \A i, j : InIo(d, x, i)' /\ InIo(d, y, j)' => x = y /\ i = j
    BY IoKept, UniqueUnbounded DEF Owned
  <1>3. \A d : AwaitsIo(d)' <=> AwaitsIo(d)
    BY IoKept
  <1>4. handing[w] = None
    BY DEF Pop
  <1>5. Tail(requests[c]) \in Seq(Placed)
    BY TailAt DEF Typed
  <1>6. /\ \A d \in Clients : d # c => called'[d] = called[d]
        /\ \/ UNCHANGED handing /\ called'[c] # 0
           \/ /\ called'[c] = 0
              /\ \E t \in Workers : /\ handing[t] = None
                                    /\ \A d : \A u \in Threads : IsHanded(d, u)' <=> IsHanded(d, u) \/ (d = c /\ u = t)
                                    /\ \A u \in Threads \ {t} : handing'[u] = handing[u]
    BY <1>1, <1>4, <1>5, FinishRequestMoves
  <1> QED
    BY <1>1, <1>2, <1>3, <1>6, OwnedAfter

\* A SCAN whose callback gives up ends its batch.
LEMMA OwnedGiveUp ==
  ASSUME TypeOK, Owned, NEW w \in Workers, NEW c \in Clients, NEW op, Pop(w, c, op),
         UNCHANGED <<io_queue, handing>>,
         NEW again \in {0, 1}, called' = [called EXCEPT ![c] = @ + 1 + again]
  PROVE  Owned'
  <1>1. /\ called[c] = 0
        /\ ~Queued(c)' /\ ~Handed(c) /\ ~AwaitsIo(c)
        /\ \A d \in Clients : d # c => (Queued(d)' <=> Queued(d))
        /\ \A d \in Clients : \A x, y \in Workers : \A i, j :
             IsQueued(d, x, i)' /\ IsQueued(d, y, j)' => x = y /\ i = j
    BY PopLeaves
  <1>2. \A d \in Clients : \A x, y \in Workers : \A i, j : InIo(d, x, i)' /\ InIo(d, y, j)' => x = y /\ i = j
    BY IoKept, UniqueUnbounded DEF Owned
  <1>3. \A d : AwaitsIo(d)' <=> AwaitsIo(d)
    BY IoKept
  <1>4. called'[c] # 0 /\ \A d \in Clients : d # c => called'[d] = called[d]
    BY <1>1 DEF TypeOK
  <1> QED
    BY <1>1, <1>2, <1>3, <1>4, OwnedAfter

\* A batch whose AIO is finished goes from io_queue_ to a worker's hands.
LEMMA OwnedFinish ==
  ASSUME TypeOK, Typed, Owned, NEW w \in Workers, Finish(w)
  PROVE  Owned'
  <1>1. PICK c : c = Head(io_queue[w]).batch
    OBVIOUS
  <1>2. /\ c \in Clients /\ called[c] = 0
        /\ ~AwaitsIo(c)' /\ ~Handed(c) /\ ~Queued(c)
        /\ \A d \in Clients : d # c => (AwaitsIo(d)' <=> AwaitsIo(d))
        /\ \A d \in Clients : \A x, y \in Workers : \A i, j :
             InIo(d, x, i)' /\ InIo(d, y, j)' => x = y /\ i = j
    BY <1>1, FinishLeaves
  <1>3. UNCHANGED batch_queue /\ handing[w] = None /\ FinishRequest(w, c, requests[c])
    BY <1>1 DEF Finish
  <1>4. \A d \in Clients : \A x, y \in Workers : \A i, j : IsQueued(d, x, i)' /\ IsQueued(d, y, j)' => x = y /\ i = j
    BY <1>3, QueueKept, UniqueUnbounded DEF Owned
  <1>5. \A d : Queued(d)' <=> Queued(d)
    BY <1>3, QueueKept
  <1>6. requests[c] \in Seq(Placed)
    BY <1>2 DEF Typed
  <1>7. /\ \A d \in Clients : d # c => called'[d] = called[d]
        /\ \/ UNCHANGED handing /\ called'[c] # 0
           \/ /\ called'[c] = 0
              /\ \E t \in Workers : /\ handing[t] = None
                                    /\ \A d : \A u \in Threads : IsHanded(d, u)' <=> IsHanded(d, u) \/ (d = c /\ u = t)
                                    /\ \A u \in Threads \ {t} : handing'[u] = handing[u]
    BY <1>2, <1>3, <1>6, FinishRequestMoves
  <1> QED
    BY <1>2, <1>4, <1>5, <1>7, OwnedAfter

\* What a client submits.
LEMMA ProgramType ==
  ASSUME NEW p \in Programs
  PROVE  LET reqs == [i \in DOMAIN p |-> [op |-> p[i].op, key |-> p[i].key, place |-> i]]
         IN  /\ reqs \in Seq(Placed) /\ reqs # <<>>
             /\ Len(reqs) = Len(p) /\ DOMAIN reqs = DOMAIN p
             /\ \A i \in DOMAIN p :
                  /\ reqs[i].op = p[i].op /\ reqs[i].key = p[i].key /\ reqs[i].place = i
                  /\ p[i].op = "SCAN" => p[i].key = 0
                  /\ p[i].op \in {"POINT", "SCAN"}
                  /\ p[i] \in Request
  <1> DEFINE R(i) == [op |-> p[i].op, key |-> p[i].key, place |-> i]
             reqs == [i \in DOMAIN p |-> R(i)]
  <1>1. p \in Seq(Request) /\ p # <<>> /\ \A i \in DOMAIN p : p[i].op = "SCAN" => p[i].key = 0
    BY DBAssumption
  <1>2. Len(p) \in Nat \ {0} /\ DOMAIN p = 1 .. Len(p) /\ \A i \in DOMAIN p : p[i] \in Request
    BY <1>1, LenProperties, ElementOfSeq, EmptySeq
  <1>3. \A i \in DOMAIN p : R(i) \in Placed /\ p[i].op \in {"POINT", "SCAN"}
    BY <1>2 DEF Request, Placed
  <1>4. reqs \in [1 .. Len(p) -> Placed]
    BY <1>2, <1>3
  <1>5. reqs \in Seq(Placed) /\ Len(reqs) = Len(p)
    BY <1>2, <1>4
  <1>6. reqs # <<>>
    <2> HIDE DEF reqs
    <2> QED
      BY <1>2, <1>5, EmptySeq
  <1> QED
    BY <1>1, <1>2, <1>3, <1>5, <1>6

\* A new batch is in its client's hands, which were empty.
LEMMA OwnedClientSubmit ==
  ASSUME TypeOK, Owned, NEW c \in Clients, NEW p \in Programs, ClientSubmit(c, p)
  PROVE  Owned' /\ handing[c] = None
  <1> DEFINE reqs == [i \in DOMAIN p |-> [op |-> p[i].op, key |-> p[i].key, place |-> i]]
  <1>1. reqs \in Seq(Placed) /\ reqs # <<>>
    BY ProgramType
  <1>2. Submit(c, c, reqs) /\ UNCHANGED <<batch_queue, io_queue>>
    BY DEF ClientSubmit
  <1> HIDE DEF reqs
  <1>3. called[c] > 0 /\ called' = [called EXCEPT ![c] = 0] /\ called[c] # 0
    BY DEF ClientSubmit, TypeOK
  <1>4. ~Handed(c) /\ ~Queued(c) /\ ~AwaitsIo(c) /\ (handing[c] # None => handing[c].batch = c)
    BY <1>3 DEF Owned
  <1>5. c \in Threads
    BY DEF Threads
  <1>6. handing[c] = None
    BY <1>4, <1>5 DEF Handed, IsHanded
  <1>7. /\ \A d : \A u \in Threads : IsHanded(d, u)' <=> IsHanded(d, u) \/ (d = c /\ u = c)
        /\ handing' = [handing EXCEPT ![c] = [batch |-> c, to |-> Route(Head(reqs))]]
    BY <1>1, <1>2, <1>5, <1>6, SubmitMoves
  <1>8. \A d : Handed(d)' <=> Handed(d) \/ d = c
    BY <1>5, <1>7 DEF Handed
  <1>9. \A d : (Queued(d)' <=> Queued(d)) /\ (AwaitsIo(d)' <=> AwaitsIo(d))
    BY <1>2, QueueKept, IoKept
  <1> SUFFICES ASSUME NEW d \in Clients
               PROVE  /\ Unique(d)'
                      /\ called'[d] = 0 <=> Handed(d)' \/ Queued(d)' \/ AwaitsIo(d)'
                      /\ handing'[d] # None => handing'[d].batch = d
    BY <1>6 DEF Owned, None
  <1>10. Unique(d) /\ (called[d] = 0 <=> Handed(d) \/ Queued(d) \/ AwaitsIo(d))
    BY DEF Owned
  <1>11. called'[d] = IF d = c THEN 0 ELSE called[d]
    BY <1>3 DEF TypeOK
  <1>12. handing'[d] # None => handing'[d].batch = d
    BY <1>5, <1>7 DEF TypeOK, Owned, Threads
  <1>13. \A u, v \in Threads : IsHanded(d, u)' /\ IsHanded(d, v)' => u = v
    BY <1>4, <1>7, <1>10 DEF Unique, Handed
  <1>14. ~(Handed(d)' /\ Queued(d)') /\ ~(Handed(d)' /\ AwaitsIo(d)') /\ ~(Queued(d)' /\ AwaitsIo(d)')
    BY <1>4, <1>8, <1>9, <1>10 DEF Unique
  <1>15. \A x, y \in Workers : \A i, j : /\ IsQueued(d, x, i)' /\ IsQueued(d, y, j)' => x = y /\ i = j
                                         /\ InIo(d, x, i)' /\ InIo(d, y, j)' => x = y /\ i = j
    BY <1>2, <1>10, QueueKept, IoKept, UniqueUnbounded
  <1>16. Unique(d)'
    BY <1>13, <1>14, <1>15 DEF Unique
  <1> QED
    BY <1>4, <1>8, <1>9, <1>10, <1>11, <1>12, <1>16

\* An AIO is added to the io_queue_ of the worker that makes it.
LEMMA IOEnqueueMoves ==
  ASSUME TypeOK, Routed, NEW w \in Workers, NEW c \in Clients, IOEnqueue(w, c)
  PROVE  /\ cur_worker[c] = w
         /\ io_queue' = [io_queue EXCEPT ![w] = Append(@, [batch |-> c, by |-> w])]
         /\ \A d : \A x \in Workers : \A i :
              InIo(d, x, i)' <=> InIo(d, x, i) \/ (d = c /\ x = w /\ i = Len(io_queue[x]) + 1)
  <1>1. batch_queue[w] \in Seq(Clients) /\ batch_queue[w] # <<>> /\ c = Head(batch_queue[w])
    BY DEF TypeOK, IOEnqueue, Pop
  <1>2. 1 \in DOMAIN batch_queue[w] /\ c = batch_queue[w][1]
    BY <1>1, TailAt
  <1>3. cur_worker[c] = w
    BY <1>2 DEF Routed, AtWorker
  <1>4. io_queue' = [io_queue EXCEPT ![w] = Append(@, [batch |-> c, by |-> w])]
    BY <1>3 DEF IOEnqueue
  <1> DEFINE T == [batch : Clients, by : Workers]
             e == [batch |-> c, by |-> w]
  <1>5. e \in T /\ e.batch = c /\ \A x \in Workers : io_queue[x] \in Seq(T)
    BY DEF TypeOK
  <1>6. \A x \in Workers : io_queue'[x] = IF x = w THEN Append(io_queue[x], e) ELSE io_queue[x]
    BY <1>4 DEF TypeOK
  <1> HIDE DEF T, e
  <1>7. \A x \in Workers : /\ DOMAIN Append(io_queue[x], e) = DOMAIN io_queue[x] \cup {Len(io_queue[x]) + 1}
                           /\ Len(io_queue[x]) + 1 \notin DOMAIN io_queue[x]
                           /\ Append(io_queue[x], e)[Len(io_queue[x]) + 1] = e
                           /\ \A i \in DOMAIN io_queue[x] : Append(io_queue[x], e)[i] = io_queue[x][i]
    BY <1>5, AppendAt
  <1>8. ASSUME NEW d, NEW x \in Workers, NEW i
        PROVE  InIo(d, x, i)' <=> InIo(d, x, i) \/ (d = c /\ x = w /\ i = Len(io_queue[x]) + 1)
    <2>1. CASE x = w
      BY <1>5, <1>6, <1>7, <2>1 DEF InIo
    <2>2. CASE x # w
      BY <1>6, <2>2 DEF InIo
    <2> QED
      BY <2>1, <2>2
  <1> QED
    BY <1>3, <1>4, <1>8

\* A batch that waits for an AIO goes from a queue to io_queue_.
LEMMA OwnedIOEnqueue ==
  ASSUME TypeOK, Owned, Routed, NEW w \in Workers, NEW c \in Clients, IOEnqueue(w, c)
  PROVE  Owned'
  <1>1. /\ called[c] = 0
        /\ ~Queued(c)' /\ ~Handed(c) /\ ~AwaitsIo(c)
        /\ \A d \in Clients : d # c => (Queued(d)' <=> Queued(d))
        /\ \A d \in Clients : \A x, y \in Workers : \A i, j :
             IsQueued(d, x, i)' /\ IsQueued(d, y, j)' => x = y /\ i = j
    BY PopLeaves DEF IOEnqueue
  <1>2. \A d : \A x \in Workers : \A i :
          InIo(d, x, i)' <=> InIo(d, x, i) \/ (d = c /\ x = w /\ i = Len(io_queue[x]) + 1)
    BY IOEnqueueMoves
  <1>3. UNCHANGED <<handing, called>>
    BY DEF IOEnqueue
  <1>4. \A d, u : IsHanded(d, u)' <=> IsHanded(d, u)
    BY <1>3 DEF IsHanded, None
  <1>5. \A d : Handed(d)' <=> Handed(d)
    BY <1>4 DEF Handed
  <1>6. \A d : (AwaitsIo(d) <=> \E x \in Workers : \E i : InIo(d, x, i))
            /\ (AwaitsIo(d)' <=> \E x \in Workers : \E i : InIo(d, x, i)')
    BY DEF AwaitsIo, InIo
  <1>7. \A d : AwaitsIo(d)' <=> AwaitsIo(d) \/ d = c
    BY <1>2, <1>6
  <1> SUFFICES ASSUME NEW d \in Clients
               PROVE  /\ Unique(d)'
                      /\ called'[d] = 0 <=> Handed(d)' \/ Queued(d)' \/ AwaitsIo(d)'
                      /\ handing'[d] # None => handing'[d].batch = d
    BY DEF Owned, None
  <1>8. Unique(d) /\ (called[d] = 0 <=> Handed(d) \/ Queued(d) \/ AwaitsIo(d))
    BY DEF Owned
  <1>9. \A x, y \in Workers : \A i, j : InIo(d, x, i) /\ InIo(d, y, j) => x = y /\ i = j
    BY <1>8, UniqueUnbounded
  <1>10. \A x, y \in Workers : \A i, j : InIo(d, x, i)' /\ InIo(d, y, j)' => x = y /\ i = j
    <2>1. \A x \in Workers : \A i : ~InIo(c, x, i)
      BY <1>1, <1>6
    <2> QED
      BY <1>2, <1>9, <2>1
  <1>11. ~(Handed(d)' /\ Queued(d)') /\ ~(Handed(d)' /\ AwaitsIo(d)') /\ ~(Queued(d)' /\ AwaitsIo(d)')
    BY <1>1, <1>5, <1>7, <1>8 DEF Unique
  <1>12. Unique(d)'
    BY <1>1, <1>4, <1>8, <1>10, <1>11 DEF Unique
  <1> QED
    BY <1>1, <1>3, <1>5, <1>7, <1>8, <1>12 DEF Owned

-----------------------------------------------------------------------------
(* Types *)

\* The route part of TypeOK follows from the type of the requests.
LEMMA RoutesType ==
  ASSUME NEW f \in [Clients -> Seq(Placed)]
  PROVE  \A c \in Clients : \A i \in DOMAIN f[c] : Route(f[c][i]) \in Workers
  <1> SUFFICES ASSUME NEW c \in Clients, NEW i \in DOMAIN f[c]
               PROVE  Route(f[c][i]) \in Workers
    OBVIOUS
  <1>1. f[c] \in Seq(Placed)
    OBVIOUS
  <1>2. f[c][i] \in Placed
    BY <1>1, LenProperties, ElementOfSeq
  <1> QED
    BY <1>2, RouteType

\* Submit keeps the types of what it sets.
LEMMA SubmitType ==
  ASSUME TypeOK, Typed, NEW t \in Threads, NEW c \in Clients, NEW reqs \in Seq(Placed), reqs # <<>>,
         Submit(t, c, reqs)
  PROVE  /\ requests' \in [Clients -> Seq(Placed)]
         /\ cur_worker' \in [Clients -> Workers]
         /\ handing' \in [Threads -> [batch : Clients, to : Workers] \cup {None}]
         /\ requests'[c] = FanOut(reqs) /\ cur_worker'[c] = Route(Head(reqs))
         /\ \A d \in Clients \ {c} : requests'[d] = requests[d] /\ cur_worker'[d] = cur_worker[d]
  <1>1. FanOut(reqs) \in Seq(Placed)
    BY FanOutType
  <1>2. Route(Head(reqs)) \in Workers
    BY RouteType, TailAt
  <1>3. requests' \in [Clients -> Seq(Placed)] /\ requests'[c] = FanOut(reqs) /\ \A d \in Clients \ {c} : requests'[d] = requests[d]
    BY <1>1 DEF Typed, Submit
  <1>4. cur_worker' \in [Clients -> Workers] /\ cur_worker'[c] = Route(Head(reqs)) /\ \A d \in Clients \ {c} : cur_worker'[d] = cur_worker[d]
    BY <1>2 DEF TypeOK, Submit
  <1>5. handing' \in [Threads -> [batch : Clients, to : Workers] \cup {None}]
    BY <1>2 DEF TypeOK, Submit
  <1> QED
    BY <1>3, <1>4, <1>5

\* So does FinishRequest.
LEMMA FinishRequestType ==
  ASSUME TypeOK, Typed, NEW w \in Workers, NEW c \in Clients, called[c] = 0, NEW reqs \in Seq(Placed),
         FinishRequest(w, c, reqs)
  PROVE  /\ requests' \in [Clients -> Seq(Placed)]
         /\ cur_worker' \in [Clients -> Workers]
         /\ handing' \in [Threads -> [batch : Clients, to : Workers] \cup {None}]
         /\ called' \in [Clients -> 0 .. 3]
         /\ \A d \in Clients \ {c} : requests'[d] = requests[d] /\ cur_worker'[d] = cur_worker[d]
         /\ \/ reqs = <<>> /\ requests'[c] = <<>> /\ called'[c] = 1 /\ UNCHANGED <<cur_worker, handing>>
            \/ reqs # <<>> /\ Submit(w, c, reqs) /\ UNCHANGED called
  <1>1. CASE reqs = <<>>
    <2>1. called' = [called EXCEPT ![c] = 1]
      BY <1>1 DEF FinishRequest
    <2>2. requests' = [requests EXCEPT ![c] = <<>>] /\ UNCHANGED <<cur_worker, handing>>
      BY <1>1 DEF FinishRequest
    <2>3. requests' \in [Clients -> Seq(Placed)]
      BY <2>2, EmptySeq DEF Typed
    <2>4. called' \in [Clients -> 0 .. 3] /\ called'[c] = 1
      BY <2>1 DEF TypeOK
    <2>5. requests'[c] = <<>> /\ \A d \in Clients \ {c} : requests'[d] = requests[d]
      BY <2>2 DEF Typed
    <2> QED
      BY <1>1, <2>2, <2>3, <2>4, <2>5 DEF TypeOK
  <1>2. CASE reqs # <<>>
    <2>1. Submit(w, c, reqs) /\ UNCHANGED called /\ w \in Threads
      BY <1>2 DEF FinishRequest, Threads
    <2> QED
      BY <1>2, <2>1, SubmitType DEF TypeOK
  <1> QED
    BY <1>1, <1>2

\* Pop keeps the types of what it sets.
LEMMA PopType ==
  ASSUME TypeOK, Typed, NEW w \in Workers, NEW c \in Clients, NEW op, Pop(w, c, op), requests[c] # <<>>
  PROVE  /\ batch_queue' \in [Workers -> Seq(Clients)]
         /\ cnt' \in [Workers -> 0 .. MaxEvent]
         /\ cnt'[w] = cnt[w] + 1 /\ \A x \in Workers \ {w} : cnt'[x] = cnt[x]
         /\ done' \in [Clients -> Seq(Nat \X Workers)]
         /\ done'[c] = Append(done[c], <<Head(requests[c]).place, w>>)
         /\ \A d \in Clients \ {c} : done'[d] = done[d]
         /\ UNCHANGED <<phase, program>>
  <1>1. batch_queue[w] \in Seq(Clients) /\ batch_queue[w] # <<>>
    BY DEF TypeOK, Pop
  <1>2. Tail(batch_queue[w]) \in Seq(Clients)
    BY <1>1, TailAt
  <1>3. batch_queue' \in [Workers -> Seq(Clients)]
    BY <1>2 DEF TypeOK, Pop
  <1>4. /\ cnt' \in [Workers -> 0 .. MaxEvent]
        /\ cnt'[w] = cnt[w] + 1 /\ \A x \in Workers \ {w} : cnt'[x] = cnt[x]
    <2>1. cnt' = [cnt EXCEPT ![w] = cnt[w] + 1] /\ cnt[w] < MaxEvent /\ cnt \in [Workers -> 0 .. MaxEvent]
      BY DEF TypeOK, Pop
    <2>2. cnt[w] + 1 \in 0 .. MaxEvent
      BY <2>1, DBAssumption
    <2> QED
      BY <2>1, <2>2
  <1>5. Head(requests[c]).place \in Nat
    <2>1. Head(requests[c]) \in Placed
      BY TailAt DEF Typed
    <2> QED
      BY <2>1 DEF Placed
  <1>6. Append(done[c], <<Head(requests[c]).place, w>>) \in Seq(Nat \X Workers)
    BY <1>5, AppendProperties DEF Typed
  <1>7. done' = [done EXCEPT ![c] = Append(@, <<Head(requests[c]).place, w>>)]
    BY DEF Pop
  <1>8. /\ done' \in [Clients -> Seq(Nat \X Workers)]
        /\ done'[c] = Append(done[c], <<Head(requests[c]).place, w>>)
        /\ \A d \in Clients \ {c} : done'[d] = done[d]
    <2> DEFINE S == Seq(Nat \X Workers)
               new == Append(done[c], <<Head(requests[c]).place, w>>)
    <2>1. new \in S /\ done \in [Clients -> S] /\ done' = [done EXCEPT ![c] = new]
      BY <1>6, <1>7 DEF Typed
    <2> HIDE DEF S, new
    <2>2. done' \in [Clients -> S] /\ done'[c] = new /\ \A d \in Clients \ {c} : done'[d] = done[d]
      BY <2>1
    <2> QED
      BY <2>2 DEF S, new
  <1> QED
    BY <1>3, <1>4, <1>8 DEF Pop

-----------------------------------------------------------------------------
(* Routes *)

\* Routed, batch by batch.
LEMMA RoutedUnbounded ==
  Routed <=> \A d :
    /\ \A t \in Threads : IsHanded(d, t) => AtWorker(d, handing[t].to)
    /\ \A w \in Workers : \A i : IsQueued(d, w, i) => AtWorker(d, w)
  BY DEF Routed, IsHanded, IsQueued

\* The batch that is popped is at its worker.
LEMMA PopRouted ==
  ASSUME TypeOK, Routed, NEW w \in Workers, NEW c, NEW op, Pop(w, c, op)
  PROVE  requests[c] # <<>> /\ cur_worker[c] = w /\ Route(Head(requests[c])) = w
  <1>1. IsQueued(c, w, 1)
    BY PopMoves
  <1> QED
    BY <1>1, RoutedUnbounded DEF AtWorker

\* A step that takes c out of its place, and submits it or does not, keeps all
\* batches at their workers.
LEMMA RoutedAfter ==
  ASSUME TypeOK, Typed, Routed, NEW c \in Clients, ~Handed(c), ~Queued(c)',
         \A d \in Clients \ {c} : requests'[d] = requests[d] /\ cur_worker'[d] = cur_worker[d],
         \A d : \A x \in Workers : \A i : IsQueued(d, x, i)' => d \in Clients /\ \E j : IsQueued(d, x, j),
         \/ UNCHANGED handing
         \/ \E t \in Threads : \E reqs \in Seq(Placed) : reqs # <<>> /\ handing[t] = None /\ Submit(t, c, reqs)
  PROVE  Routed'
  <1>1. \A d : /\ \A t \in Threads : IsHanded(d, t) => AtWorker(d, handing[t].to)
               /\ \A w \in Workers : \A i : IsQueued(d, w, i) => AtWorker(d, w)
    BY RoutedUnbounded
  <1>2. \A d \in Clients \ {c} : \A w : AtWorker(d, w)' <=> AtWorker(d, w)
    BY DEF AtWorker, Route
  <1>3. \A w \in Workers : \A i : ~IsQueued(c, w, i)'
    BY DEF Queued, IsQueued
  <1>4. \A d : \A w \in Workers : \A i : IsQueued(d, w, i)' => AtWorker(d, w)'
    BY <1>1, <1>2, <1>3
  <1>5. \A d : \A t \in Threads : IsHanded(d, t)' => AtWorker(d, handing[t].to)'
    <2>1. CASE UNCHANGED handing
      <3>1. \A d, t : IsHanded(d, t)' <=> IsHanded(d, t)
        BY <2>1 DEF IsHanded, None
      <3>2. \A d : \A t \in Threads : IsHanded(d, t) => d \in Clients /\ d # c
        BY PlaceTypes DEF Handed
      <3> QED
        BY <1>1, <2>1, <3>1, <3>2 DEF AtWorker, Route
    <2>2. ASSUME NEW t \in Threads, NEW reqs \in Seq(Placed), reqs # <<>>, handing[t] = None, Submit(t, c, reqs)
          PROVE  \A d : \A u \in Threads : IsHanded(d, u)' => AtWorker(d, handing[u].to)'
      <3>1. /\ \A d : \A u \in Threads : IsHanded(d, u)' <=> IsHanded(d, u) \/ (d = c /\ u = t)
            /\ handing' = [handing EXCEPT ![t] = [batch |-> c, to |-> Route(Head(reqs))]]
        BY <2>2, SubmitMoves
      <3>2. requests'[c] = FanOut(reqs) /\ cur_worker'[c] = Route(Head(reqs))
        BY <2>2, SubmitType
      <3>3. FanOut(reqs) # <<>> /\ Head(FanOut(reqs)) = Head(reqs)
        BY <2>2, FanOutType
      <3>4. AtWorker(c, Route(Head(reqs)))'
        BY <3>2, <3>3 DEF AtWorker, Route
      <3>5. handing'[t].to = Route(Head(reqs)) /\ \A u \in Threads \ {t} : handing'[u] = handing[u]
        BY <3>1 DEF TypeOK
      <3>6. \A d : \A u \in Threads : IsHanded(d, u) => d \in Clients /\ d # c /\ u # t
        BY <2>2, PlaceTypes DEF Handed, IsHanded
      <3>7. ASSUME NEW d, NEW u \in Threads, IsHanded(d, u)'
            PROVE  AtWorker(d, handing[u].to)'
        <4>1. CASE d = c /\ u = t
          BY <3>4, <3>5, <4>1 DEF AtWorker, Route
        <4>2. CASE IsHanded(d, u)
          <5>1. handing'[u].to = handing[u].to /\ d \in Clients \ {c}
            BY <3>5, <3>6, <4>2
          <5>2. AtWorker(d, handing[u].to)
            BY <1>1, <4>2
          <5> QED
            BY <5>1, <5>2 DEF AtWorker, Route
        <4> QED
          BY <3>1, <3>7, <4>1, <4>2
      <3> QED
        BY <3>7
    <2> QED
      BY <2>1, <2>2
  <1> QED
    BY <1>4, <1>5 DEF Routed, IsHanded, IsQueued, AtWorker, None

-----------------------------------------------------------------------------
(* What is owed to a batch *)

\* A new batch owes its whole program, and does so in order.
LEMMA AccountsStart ==
  ASSUME NEW p \in Programs,
         NEW reqs, reqs = [i \in DOMAIN p |-> [op |-> p[i].op, key |-> p[i].key, place |-> i]]
  PROVE  Accounts(p, reqs, FALSE, <<>>) /\ Ordered(p, reqs, <<>>)
  <1>1. /\ DOMAIN reqs = DOMAIN p
        /\ \A i \in DOMAIN p :
             /\ reqs[i].op = p[i].op /\ reqs[i].key = p[i].key /\ reqs[i].place = i
             /\ p[i].op = "SCAN" => p[i].key = 0
             /\ p[i].op \in {"POINT", "SCAN"}
    BY ProgramType
  <1> DEFINE owes(i) == Owes(reqs[i], FALSE /\ i = 1)
  <1>2. \A i \in DOMAIN p : Where(p[i]) = owes(i)
    BY <1>1 DEF Where, Owes, Route
  <1>3. Accounts(p, reqs, FALSE, <<>>)
    <2>1. \A n \in DOMAIN <<>> : FALSE
      OBVIOUS
    <2>2. \A i \in DOMAIN p : \A w \in Where(p[i]) : \E j \in DOMAIN reqs : reqs[j].place = i /\ w \in owes(j)
      BY <1>1, <1>2
    <2> HIDE DEF owes
    <2>3. \A i, j \in DOMAIN reqs : i # j /\ reqs[i].place = reqs[j].place => owes(i) \cap owes(j) = {}
      BY <1>1
    <2> QED
      BY <1>1, <2>1, <2>2, <2>3 DEF Accounts, owes
  <1>4. Ordered(p, reqs, <<>>)
    BY <1>1 DEF Ordered
  <1> QED
    BY <1>3, <1>4

\* Fanning out the first request replaces one that stands for all workers by one
\* for each.
LEMMA AccountsFanOut ==
  ASSUME NEW prog, NEW dn, NEW reqs \in Seq(Placed), reqs # <<>>,
         Accounts(prog, reqs, FALSE, dn), Ordered(prog, reqs, dn)
  PROVE  Accounts(prog, FanOut(reqs), TRUE, dn) /\ Ordered(prog, FanOut(reqs), dn)
  <1> DEFINE fan == FanOut(reqs)
             N == Len(reqs)
             owed(i) == Owes(reqs[i], FALSE /\ i = 1)
             owes(i) == Owes(fan[i], TRUE /\ i = 1)
             scan == Head(reqs).op = "SCAN" /\ Head(reqs).key = 0
  <1>1. /\ fan \in Seq(Placed)
        /\ Len(fan) = IF scan THEN N + WorkerNum - 1 ELSE N
        /\ \A i \in 1 .. N : fan[i] = reqs[i]
        /\ \A i \in N + 1 .. Len(fan) : fan[i] = [op |-> "SCAN", key |-> i - N, place |-> Head(reqs).place]
    BY FanOutType
  <1>2. N \in Nat \ {0} /\ DOMAIN reqs = 1 .. N /\ Head(reqs) = reqs[1] /\ DOMAIN fan = 1 .. Len(fan) /\ Len(fan) \in Nat
    BY <1>1, TailAt, LenProperties, EmptySeq
  <1>3. WorkerNum \in Nat \ {0} /\ Workers = 0 .. WorkerNum - 1
    BY DBAssumption DEF Workers
  <1>4. /\ \A i \in DOMAIN reqs :
             /\ reqs[i].place \in DOMAIN prog
             /\ prog[reqs[i].place].op = reqs[i].op
             /\ reqs[i].op = "POINT" => prog[reqs[i].place].key = reqs[i].key
        /\ \A n \in DOMAIN dn : dn[n][1] \in DOMAIN prog /\ dn[n][2] \in Where(prog[dn[n][1]])
        /\ \A i, j \in DOMAIN reqs : i # j /\ reqs[i].place = reqs[j].place => owed(i) \cap owed(j) = {}
        /\ \A i \in DOMAIN reqs, n \in DOMAIN dn : dn[n][1] = reqs[i].place => dn[n][2] \notin owed(i)
        /\ \A m, n \in DOMAIN dn : dn[m] = dn[n] => m = n
        /\ \A p \in DOMAIN prog : \A w \in Where(prog[p]) :
             \/ \E n \in DOMAIN dn : dn[n] = <<p, w>>
             \/ \E i \in DOMAIN reqs : reqs[i].place = p /\ w \in owed(i)
    BY DEF Accounts
  <1>5. \A i \in 1 .. N : i # 1 => owes(i) = owed(i) /\ fan[i] = reqs[i]
    BY <1>1
  <1>6. CASE ~scan
    <2>1. DOMAIN fan = DOMAIN reqs /\ \A i \in DOMAIN reqs : fan[i] = reqs[i] /\ owes(i) = owed(i)
      BY <1>1, <1>2, <1>5, <1>6 DEF Owes
    <2>2. Accounts(prog, fan, TRUE, dn)
      BY <1>4, <2>1 DEF Accounts
    <2>3. Ordered(prog, fan, dn)
      BY <2>1 DEF Ordered
    <2> QED
      BY <2>2, <2>3
  <1>7. CASE scan
    <2> DEFINE q == reqs[1].place
    <2> HIDE DEF fan, N, scan
    <2>1. reqs[1].op = "SCAN" /\ reqs[1].key = 0 /\ fan[1] = reqs[1] /\ owed(1) = Workers /\ owes(1) = {0}
      BY <1>1, <1>2, <1>7 DEF Owes, Route, scan
    <2>2. \A i \in N + 1 .. Len(fan) :
            /\ fan[i].op = "SCAN" /\ fan[i].key = i - N /\ fan[i].place = q
            /\ owes(i) = {i - N} /\ i - N \in Workers /\ i - N # 0
      <3> SUFFICES ASSUME NEW i \in N + 1 .. Len(fan)
                   PROVE  /\ fan[i].op = "SCAN" /\ fan[i].key = i - N /\ fan[i].place = q
                          /\ owes(i) = {i - N} /\ i - N \in Workers /\ i - N # 0
        OBVIOUS
      <3>1. i - N \in Workers /\ i - N # 0
        BY <1>1, <1>2, <1>3, <1>7
      <3>2. fan[i] = [op |-> "SCAN", key |-> i - N, place |-> q]
        BY <1>1, <1>2
      <3>3. fan[i].op = "SCAN" /\ fan[i].key = i - N /\ fan[i].place = q
        BY <3>2
      <3> QED
        BY <3>1, <3>3 DEF Owes, Route
    <2>3. \A i \in DOMAIN fan : i \in 1 .. N \/ i \in N + 1 .. Len(fan)
      BY <1>2
    <2>4. 1 .. N \subseteq DOMAIN fan /\ N + 1 .. Len(fan) \subseteq DOMAIN fan
      BY <1>1, <1>2, <1>3, <1>7
    <2>5. \A w \in Workers : w = 0 \/ N + w \in N + 1 .. Len(fan)
      BY <1>1, <1>2, <1>3, <1>7
    <2> HIDE DEF owes, owed
    <2>6. \A j \in 1 .. N : j # 1 /\ reqs[j].place = q => owed(j) \cap Workers = {}
      BY <1>2, <1>4, <2>1
    <2>7. \A n \in DOMAIN dn : dn[n][1] = q => dn[n][2] \notin Workers
      BY <1>2, <1>4, <2>1
    <2>8. \A i \in DOMAIN fan :
             /\ fan[i].place \in DOMAIN prog
             /\ prog[fan[i].place].op = fan[i].op
             /\ fan[i].op = "POINT" => prog[fan[i].place].key = fan[i].key
      BY <1>2, <1>4, <1>5, <2>1, <2>2, <2>3
    <2>9. ASSUME NEW i \in DOMAIN fan, NEW j \in DOMAIN fan, i # j, fan[i].place = fan[j].place
          PROVE  owes(i) \cap owes(j) = {}
      <3>1. CASE i \in 2 .. N /\ j \in 2 .. N
        BY <1>2, <1>4, <1>5, <2>9, <3>1
      <3>2. CASE i \in 2 .. N /\ j \notin 2 .. N
        <4>1. fan[j].place = q /\ owes(j) \subseteq Workers
          BY <1>2, <1>3, <2>1, <2>2, <2>3, <3>2
        <4>2. reqs[i].place = q /\ owes(i) = owed(i)
          BY <1>2, <1>5, <2>9, <3>2, <4>1
        <4> QED
          BY <1>2, <2>6, <3>2, <4>1, <4>2
      <3>3. CASE i \notin 2 .. N /\ j \in 2 .. N
        <4>1. fan[i].place = q /\ owes(i) \subseteq Workers
          BY <1>2, <1>3, <2>1, <2>2, <2>3, <3>3
        <4>2. reqs[j].place = q /\ owes(j) = owed(j)
          <5>1. j \in 1 .. N /\ j # 1 /\ fan[j].place = q
            BY <1>2, <2>9, <3>3, <4>1
          <5> QED
            BY <1>5, <5>1
        <4> QED
          BY <1>2, <2>6, <3>3, <4>1, <4>2
      <3>4. CASE i \notin 2 .. N /\ j \notin 2 .. N
        BY <1>2, <2>1, <2>2, <2>3, <2>9, <3>4
      <3> QED
        BY <3>1, <3>2, <3>3, <3>4
    <2>10. ASSUME NEW i \in DOMAIN fan, NEW n \in DOMAIN dn, dn[n][1] = fan[i].place
           PROVE  dn[n][2] \notin owes(i)
      <3>1. CASE i \in 2 .. N
        BY <1>2, <1>4, <1>5, <2>10, <3>1
      <3>2. CASE i \notin 2 .. N
        <4>1. fan[i].place = q /\ owes(i) \subseteq Workers
          BY <1>2, <1>3, <2>1, <2>2, <2>3, <3>2
        <4> QED
          BY <2>7, <2>10, <4>1
      <3> QED
        BY <3>1, <3>2
    <2>11. ASSUME NEW p \in DOMAIN prog, NEW w \in Where(prog[p])
           PROVE  \/ \E n \in DOMAIN dn : dn[n] = <<p, w>>
                  \/ \E i \in DOMAIN fan : fan[i].place = p /\ w \in owes(i)
      <3>1. CASE \E i \in 2 .. N : reqs[i].place = p /\ w \in owed(i)
        <4>1. PICK i \in 2 .. N : reqs[i].place = p /\ w \in owed(i)
          BY <3>1
        <4>2. i \in DOMAIN fan /\ fan[i].place = p /\ w \in owes(i)
          BY <1>2, <1>5, <2>4, <4>1
        <4> QED
          BY <4>2
      <3>2. CASE reqs[1].place = p /\ w \in owed(1)
        <4>1. w \in Workers /\ p = q
          BY <2>1, <3>2
        <4>2. CASE w = 0
          BY <1>2, <2>1, <2>4, <4>1, <4>2
        <4>3. CASE w # 0
          <5>1. N + w \in N + 1 .. Len(fan)
            BY <2>5, <4>1, <4>3
          <5>2. fan[N + w].place = p /\ owes(N + w) = {w}
            BY <1>2, <1>3, <2>2, <4>1, <5>1
          <5> QED
            BY <2>4, <5>1, <5>2
        <4> QED
          BY <4>2, <4>3
      <3> QED
        BY <1>2, <1>4, <2>11, <3>1, <3>2
    <2>12. Accounts(prog, fan, TRUE, dn)
      BY <1>4, <2>8, <2>9, <2>10, <2>11 DEF Accounts, owes
    <2>13. Ordered(prog, fan, dn)
      <3>1. \A i \in DOMAIN fan : fan[i].op = "POINT" => i \in DOMAIN reqs /\ fan[i] = reqs[i]
        BY <1>2, <1>5, <2>1, <2>2, <2>3
      <3> QED
        BY <3>1 DEF Ordered
    <2> QED
      BY <2>12, <2>13 DEF fan
  <1> QED
    BY <1>6, <1>7

\* Carrying out the first request of a batch settles what it owes.
LEMMA AccountsPop ==
  ASSUME NEW prog, NEW dn \in Seq(Nat \X Workers), NEW reqs \in Seq(Placed), reqs # <<>>,
         Accounts(prog, reqs, TRUE, dn), Ordered(prog, reqs, dn),
         NEW w \in Workers, w = Route(Head(reqs))
  PROVE  LET new == Append(dn, <<Head(reqs).place, w>>)
         IN  Accounts(prog, Tail(reqs), FALSE, new) /\ Ordered(prog, Tail(reqs), new)
  <1> DEFINE e == <<Head(reqs).place, w>>
             new == Append(dn, e)
             rest == Tail(reqs)
             L == Len(dn) + 1
             owes(i) == Owes(reqs[i], TRUE /\ i = 1)
             owed(i) == Owes(rest[i], FALSE /\ i = 1)
  <1>1. /\ Head(reqs) = reqs[1] /\ 1 \in DOMAIN reqs /\ Head(reqs) \in Placed
        /\ \A i \in DOMAIN rest : i \in DOMAIN reqs /\ i + 1 \in DOMAIN reqs /\ rest[i] = reqs[i + 1]
        /\ \A i \in DOMAIN reqs : i # 1 => i - 1 \in DOMAIN rest /\ rest[i - 1] = reqs[i]
    BY TailAt
  <1>2. DOMAIN reqs \subseteq Nat \ {0} /\ DOMAIN rest \subseteq Nat \ {0}
    BY TailAt, LenProperties
  <1>3. e \in Nat \X Workers /\ e[1] = reqs[1].place /\ e[2] = w
    BY <1>1 DEF Placed
  <1>4. /\ DOMAIN new = DOMAIN dn \cup {L}
        /\ L \notin DOMAIN dn
        /\ new[L] = e
        /\ \A n \in DOMAIN dn : new[n] = dn[n]
    BY <1>3, AppendAt
  <1>5. /\ \A i \in DOMAIN reqs :
             /\ reqs[i].place \in DOMAIN prog
             /\ prog[reqs[i].place].op = reqs[i].op
             /\ reqs[i].op = "POINT" => prog[reqs[i].place].key = reqs[i].key
        /\ \A n \in DOMAIN dn : dn[n][1] \in DOMAIN prog /\ dn[n][2] \in Where(prog[dn[n][1]])
        /\ \A i, j \in DOMAIN reqs : i # j /\ reqs[i].place = reqs[j].place => owes(i) \cap owes(j) = {}
        /\ \A i \in DOMAIN reqs, n \in DOMAIN dn : dn[n][1] = reqs[i].place => dn[n][2] \notin owes(i)
        /\ \A m, n \in DOMAIN dn : dn[m] = dn[n] => m = n
        /\ \A p \in DOMAIN prog : \A x \in Where(prog[p]) :
             \/ \E n \in DOMAIN dn : dn[n] = <<p, x>>
             \/ \E i \in DOMAIN reqs : reqs[i].place = p /\ x \in owes(i)
    BY DEF Accounts
  <1>6. owes(1) = {w} /\ w \in Where(prog[reqs[1].place])
    <2>1. Route(reqs[1]) = w
      BY <1>1
    <2>2. owes(1) = {w}
      BY <2>1 DEF Owes
    <2>3. CASE reqs[1].op = "SCAN"
      BY <1>1, <1>5, <2>2, <2>3 DEF Where
    <2>4. CASE reqs[1].op = "POINT"
      BY <1>1, <1>5, <2>1, <2>2, <2>4 DEF Where, Route
    <2> QED
      BY <1>1, <2>3, <2>4 DEF Placed
  <1>7. \A i \in DOMAIN rest : owed(i) = owes(i + 1)
    BY <1>1, <1>2 DEF Owes
  <1>8. \A n \in DOMAIN dn : dn[n] = <<dn[n][1], dn[n][2]>>
    BY LenProperties, ElementOfSeq
  <1> HIDE DEF e, new, rest, L, owes, owed
  <1>9. \A i \in DOMAIN rest :
          /\ rest[i].place \in DOMAIN prog
          /\ prog[rest[i].place].op = rest[i].op
          /\ rest[i].op = "POINT" => prog[rest[i].place].key = rest[i].key
    BY <1>1, <1>5
  <1>10. \A n \in DOMAIN new : new[n][1] \in DOMAIN prog /\ new[n][2] \in Where(prog[new[n][1]])
    BY <1>1, <1>3, <1>4, <1>5, <1>6
  <1>11. \A i, j \in DOMAIN rest : i # j /\ rest[i].place = rest[j].place => owed(i) \cap owed(j) = {}
    <2> SUFFICES ASSUME NEW i \in DOMAIN rest, NEW j \in DOMAIN rest, i # j, rest[i].place = rest[j].place
                 PROVE  owed(i) \cap owed(j) = {}
      OBVIOUS
    <2>1. i + 1 \in DOMAIN reqs /\ j + 1 \in DOMAIN reqs /\ i + 1 # j + 1 /\ reqs[i + 1].place = reqs[j + 1].place
      BY <1>1, <1>2
    <2> QED
      BY <1>5, <1>7, <2>1
  <1>12. ASSUME NEW i \in DOMAIN rest, NEW n \in DOMAIN new, new[n][1] = rest[i].place
         PROVE  new[n][2] \notin owed(i)
    <2>1. i + 1 \in DOMAIN reqs /\ i + 1 # 1 /\ rest[i] = reqs[i + 1] /\ owed(i) = owes(i + 1)
      BY <1>1, <1>2, <1>7
    <2>2. CASE n \in DOMAIN dn
      BY <1>4, <1>5, <1>12, <2>1, <2>2
    <2>3. CASE n = L
      <3>1. new[n] = e /\ reqs[1].place = reqs[i + 1].place
        BY <1>3, <1>4, <1>12, <2>1, <2>3
      <3>2. owes(1) \cap owes(i + 1) = {}
        BY <1>1, <1>5, <2>1, <3>1
      <3> QED
        BY <1>3, <1>6, <2>1, <3>1, <3>2
    <2> QED
      BY <1>4, <2>2, <2>3
  <1>13. \A n \in DOMAIN dn : dn[n] # e
    BY <1>1, <1>3, <1>5, <1>6
  <1>14. \A m, n \in DOMAIN new : new[m] = new[n] => m = n
    BY <1>4, <1>5, <1>13
  <1>15. ASSUME NEW p \in DOMAIN prog, NEW x \in Where(prog[p])
         PROVE  \/ \E n \in DOMAIN new : new[n] = <<p, x>>
                \/ \E i \in DOMAIN rest : rest[i].place = p /\ x \in owed(i)
    <2>1. CASE \E n \in DOMAIN dn : dn[n] = <<p, x>>
      BY <1>4, <2>1
    <2>2. CASE reqs[1].place = p /\ x \in owes(1)
      <3>1. e = <<p, x>>
        BY <1>1, <1>6, <2>2 DEF e
      <3> QED
        BY <1>4, <3>1
    <2>3. CASE \E i \in DOMAIN reqs : i # 1 /\ reqs[i].place = p /\ x \in owes(i)
      <3>1. PICK i \in DOMAIN reqs : i # 1 /\ reqs[i].place = p /\ x \in owes(i)
        BY <2>3
      <3>2. i - 1 \in DOMAIN rest /\ rest[i - 1] = reqs[i] /\ (i - 1) + 1 = i
        BY <1>1, <1>2, <3>1
      <3>3. owed(i - 1) = owes(i)
        BY <1>7, <3>2
      <3> QED
        BY <3>1, <3>2, <3>3
    <2> QED
      BY <1>5, <1>15, <2>1, <2>2, <2>3
  <1>16. Accounts(prog, rest, FALSE, new)
    BY <1>9, <1>10, <1>11, <1>12, <1>14, <1>15 DEF Accounts, owed
  <1>17. Ordered(prog, rest, new)
    <2>1. \A i, j \in DOMAIN rest :
            i < j /\ rest[i].op = "POINT" /\ rest[j].op = "POINT" => rest[i].place < rest[j].place
      <3> SUFFICES ASSUME NEW i \in DOMAIN rest, NEW j \in DOMAIN rest, i < j,
                          rest[i].op = "POINT", rest[j].op = "POINT"
                   PROVE  rest[i].place < rest[j].place
        OBVIOUS
      <3>1. i + 1 \in DOMAIN reqs /\ j + 1 \in DOMAIN reqs /\ i + 1 < j + 1
        BY <1>1, <1>2
      <3> QED
        BY <1>1, <3>1 DEF Ordered
    <2>2. ASSUME NEW i \in DOMAIN rest, NEW n \in DOMAIN new,
                 rest[i].op = "POINT", prog[new[n][1]].op = "POINT"
          PROVE  new[n][1] < rest[i].place
      <3>1. i + 1 \in DOMAIN reqs /\ 1 < i + 1 /\ rest[i] = reqs[i + 1]
        BY <1>1, <1>2
      <3>2. CASE n \in DOMAIN dn
        BY <1>4, <2>2, <3>1, <3>2 DEF Ordered
      <3>3. CASE n = L
        <4>1. new[n][1] = reqs[1].place
          BY <1>3, <1>4, <3>3
        <4>2. reqs[1].op = "POINT"
          BY <1>1, <1>5, <2>2, <4>1
        <4> QED
          BY <1>1, <2>2, <3>1, <4>1, <4>2 DEF Ordered
      <3> QED
        BY <1>4, <3>2, <3>3
    <2> QED
      BY <2>1, <2>2 DEF Ordered
  <1> QED
    BY <1>16, <1>17 DEF new, rest, e

\* Accounted holds after a step that changes the account of c only.
LEMMA AccountedAfter ==
  ASSUME Accounted, NEW c,
         \A d \in Clients \ {c} : /\ called'[d] = called[d] /\ program'[d] = program[d]
                                  /\ requests'[d] = requests[d] /\ done'[d] = done[d]
                                  /\ AwaitsIo(d)' <=> AwaitsIo(d),
         c \in Clients /\ called'[c] = 0 =>
           /\ AwaitsIo(c)' => Accounts(program'[c], requests'[c], FALSE, done'[c])
           /\ ~AwaitsIo(c)' => Accounts(program'[c], requests'[c], TRUE, done'[c])
           /\ Ordered(program'[c], requests'[c], done'[c])
  PROVE  Accounted'
  <1>1. ASSUME NEW d \in Clients, called'[d] = 0
        PROVE  /\ AwaitsIo(d)' => Accounts(program'[d], requests'[d], FALSE, done'[d])
               /\ ~AwaitsIo(d)' => Accounts(program'[d], requests'[d], TRUE, done'[d])
               /\ Ordered(program'[d], requests'[d], done'[d])
    <2>1. CASE d = c
      BY <1>1, <2>1
    <2>2. CASE d # c
      BY <1>1, <2>2 DEF Accounted
    <2> QED
      BY <2>1, <2>2
  <1>2. \A d \in Clients : called'[d] = 0 =>
          /\ IF AwaitsIo(d)' THEN Accounts(program[d], requests[d], FALSE, done[d])'
                             ELSE Accounts(program[d], requests[d], TRUE, done[d])'
          /\ Ordered(program[d], requests[d], done[d])'
    BY <1>1 DEF Accounts, Ordered, Where, Owes, Route
  <1> QED
    BY <1>2 DEF Accounted

\* What FinishRequest makes of the account of its batch.
LEMMA FinishRequestAccounts ==
  ASSUME TypeOK, Typed, NEW w \in Workers, NEW c \in Clients, called[c] = 0, NEW reqs \in Seq(Placed),
         FinishRequest(w, c, reqs), NEW prog, NEW dn,
         Accounts(prog, reqs, FALSE, dn), Ordered(prog, reqs, dn)
  PROVE  called'[c] = 0 => Accounts(prog, requests'[c], TRUE, dn) /\ Ordered(prog, requests'[c], dn)
  <1>1. \/ reqs = <<>> /\ called'[c] = 1
        \/ reqs # <<>> /\ Submit(w, c, reqs)
    BY FinishRequestType
  <1>2. w \in Threads
    BY DEF Threads
  <1>3. reqs # <<>> /\ Submit(w, c, reqs) => requests'[c] = FanOut(reqs)
    BY <1>2, SubmitType
  <1>4. CASE reqs = <<>> /\ called'[c] = 1
    BY <1>4
  <1>5. CASE reqs # <<>> /\ Submit(w, c, reqs)
    <2>1. Accounts(prog, FanOut(reqs), TRUE, dn) /\ Ordered(prog, FanOut(reqs), dn)
      BY <1>5, AccountsFanOut
    <2> QED
      BY <1>3, <1>5, <2>1
  <1> QED
    BY <1>1, <1>4, <1>5

-----------------------------------------------------------------------------
(* BatchInv is kept by every step *)

\* The initial state.
LEMMA BatchInvInit == Init => BatchInv
  <1> SUFFICES ASSUME Init PROVE BatchInv
    OBVIOUS
  <1>1. WorkerNum \in Nat \ {0} /\ MaxEvent \in Nat \ {0}
    BY DBAssumption
  <1>2. Typed
    BY EmptySeq DEF Init, Typed
  <1>3. TypeOK
    <2>1. 0 \in Workers
      BY <1>1 DEF Workers
    <2>2. /\ batch_queue \in [Workers -> Seq(Clients)]
          /\ io_queue \in [Workers -> Seq([batch : Clients, by : Workers])]
          /\ \A w \in Workers : Len(io_queue[w]) = 0
      BY EmptySeq DEF Init
    <2> QED
      BY <1>1, <2>1, <2>2 DEF Init, TypeOK
  <1>4. \A c : ~Handed(c) /\ ~Queued(c) /\ ~AwaitsIo(c)
    <2>1. \A c : \A t \in Threads : ~IsHanded(c, t)
      BY DEF Init, IsHanded
    <2>2. \A c : \A w \in Workers : \A i : ~IsQueued(c, w, i) /\ ~InIo(c, w, i)
      BY DEF Init, IsQueued, InIo
    <2> QED
      BY <2>1, <2>2 DEF Handed, Queued, AwaitsIo
  <1>5. Owned
    <2>1. \A c \in Clients : called[c] = 1 /\ c \in Threads /\ handing[c] = None
      BY DEF Init, Threads
    <2>2. \A c \in Clients : Unique(c)
      BY <1>4 DEF Unique, Handed, Queued, AwaitsIo
    <2> QED
      BY <1>4, <2>1, <2>2 DEF Owned
  <1>6. Routed
    BY DEF Init, Routed
  <1>7. Accounted
    BY DEF Init, Accounted
  <1> QED
    BY <1>2, <1>3, <1>5, <1>6, <1>7 DEF BatchInv

\* Push.
LEMMA PushStep ==
  ASSUME BatchInv, NEW t \in Threads, Push(t)
  PROVE  BatchInv'
  <1> USE DEF BatchInv
  <1> DEFINE c == handing[t].batch
             w == handing[t].to
  <1>1. c \in Clients /\ w \in Workers /\ IsHanded(c, t)
    BY PlaceTypes DEF Push, IsHanded
  <1>2. UNCHANGED <<program, requests, cur_worker, io_queue, cnt, phase, done, called>>
    BY DEF Push, loopVars
  <1>3. Typed'
    BY <1>2 DEF Typed
  <1>4. TypeOK'
    <2>1. handing' \in [Threads -> [batch : Clients, to : Workers] \cup {None}]
      BY DEF Push, TypeOK
    <2>2. batch_queue' \in [Workers -> Seq(Clients)]
      <3>1. Append(batch_queue[w], c) \in Seq(Clients)
        BY <1>1, AppendProperties DEF TypeOK
      <3> QED
        BY <3>1 DEF Push, TypeOK
    <2> QED
      BY <1>2, <2>1, <2>2 DEF TypeOK, Route, None
  <1>5. Owned'
    BY OwnedPush
  <1>6. /\ \A d : \A u \in Threads : IsHanded(d, u)' <=> u # t /\ IsHanded(d, u)
        /\ \A d : \A x \in Workers : \A i :
             IsQueued(d, x, i)' <=> \/ IsQueued(d, x, i)
                                    \/ d = handing[t].batch /\ x = handing[t].to /\ i = Len(batch_queue[x]) + 1
        /\ \A d : \A x \in Workers : \A i : InIo(d, x, i)' <=> InIo(d, x, i)
    BY PushMoves
  <1>7. Routed'
    <2>1. \A d : /\ \A u \in Threads : IsHanded(d, u) => AtWorker(d, handing[u].to)
                 /\ \A x \in Workers : \A i : IsQueued(d, x, i) => AtWorker(d, x)
      BY RoutedUnbounded
    <2>2. \A d, x : AtWorker(d, x)' <=> AtWorker(d, x)
      BY <1>2 DEF AtWorker, Route
    <2>3. AtWorker(c, w)
      BY <1>1, <2>1
    <2>4. \A d : \A x \in Workers : \A i : IsQueued(d, x, i)' => AtWorker(d, x)'
      BY <1>6, <2>1, <2>2, <2>3
    <2>5. \A u \in Threads : u # t => handing'[u] = handing[u]
      BY DEF Push, TypeOK
    <2>6. \A d : \A u \in Threads : IsHanded(d, u)' => AtWorker(d, handing[u].to)'
      BY <1>2, <1>6, <2>1, <2>5 DEF AtWorker, Route
    <2> QED
      BY <2>4, <2>6 DEF Routed, IsHanded, IsQueued, AtWorker, None
  <1>8. Accounted'
    <2>1. \A d : AwaitsIo(d)' <=> AwaitsIo(d)
      BY <1>2, IoKept
    <2>2. PICK x : x \notin Clients
      <3>1. 0 \in Workers
        BY DBAssumption DEF Workers
      <3> QED
        BY <3>1, DBAssumption
    <2> QED
      BY <1>2, <2>1, <2>2, AccountedAfter
  <1> QED
    BY <1>3, <1>4, <1>5, <1>7, <1>8

\* A client submits a batch.
LEMMA ClientSubmitStep ==
  ASSUME BatchInv, NEW c \in Clients, NEW p \in Programs, ClientSubmit(c, p)
  PROVE  BatchInv'
  <1> USE DEF BatchInv
  <1>1. PICK reqs : reqs = [i \in DOMAIN p |-> [op |-> p[i].op, key |-> p[i].key, place |-> i]]
    OBVIOUS
  <1>2. reqs \in Seq(Placed) /\ reqs # <<>>
    BY <1>1, ProgramType
  <1>3. Submit(c, c, reqs) /\ UNCHANGED <<batch_queue, io_queue, cnt, phase>>
    BY <1>1 DEF ClientSubmit, loopVars
  <1>4. Owned' /\ handing[c] = None /\ c \in Threads
    BY OwnedClientSubmit DEF Threads
  <1>5. /\ requests' \in [Clients -> Seq(Placed)]
        /\ cur_worker' \in [Clients -> Workers]
        /\ handing' \in [Threads -> [batch : Clients, to : Workers] \cup {None}]
        /\ requests'[c] = FanOut(reqs)
        /\ \A d \in Clients \ {c} : requests'[d] = requests[d] /\ cur_worker'[d] = cur_worker[d]
    BY <1>2, <1>3, <1>4, SubmitType
  <1>6. /\ program' = [program EXCEPT ![c] = p]
        /\ done' = [done EXCEPT ![c] = <<>>]
        /\ called' = [called EXCEPT ![c] = 0]
    BY DEF ClientSubmit
  <1>7. program' \in [Clients -> Programs \cup {<<>>}] /\ called' \in [Clients -> 0 .. 3]
    BY <1>6 DEF TypeOK
  <1>8. done' \in [Clients -> Seq(Nat \X Workers)]
    BY <1>6, EmptySeq DEF Typed
  <1>9. Typed'
    BY <1>3, <1>5, <1>8 DEF Typed
  <1>10. TypeOK'
    <2>1. \A d \in Clients : \A i \in DOMAIN requests'[d] : Route(requests'[d][i]) \in Workers
      BY <1>5, RoutesType
    <2> QED
      BY <1>3, <1>5, <1>7, <2>1 DEF TypeOK, Route, None
  <1>11. called[c] # 0
    BY DEF ClientSubmit, TypeOK
  <1>12. ~Handed(c) /\ ~Queued(c)
    BY <1>11 DEF Owned
  <1>13. \A d, x, i : IsQueued(d, x, i)' <=> IsQueued(d, x, i)
    BY <1>3, QueueKept
  <1>14. \A d : (Queued(d)' <=> Queued(d)) /\ (AwaitsIo(d)' <=> AwaitsIo(d))
    BY <1>3, QueueKept, IoKept
  <1>15. Routed'
    <2>1. \A d : \A x \in Workers : \A i : IsQueued(d, x, i)' => d \in Clients /\ \E j : IsQueued(d, x, j)
      BY <1>13, PlaceTypes
    <2> QED
      BY <1>2, <1>3, <1>4, <1>5, <1>12, <1>14, <2>1, RoutedAfter
  <1>16. Accounted'
    <2>1. Accounts(p, FanOut(reqs), TRUE, <<>>) /\ Ordered(p, FanOut(reqs), <<>>)
      BY <1>1, <1>2, AccountsStart, AccountsFanOut
    <2>2. program'[c] = p /\ done'[c] = <<>> /\ called'[c] = 0
      BY <1>6 DEF TypeOK, Typed
    <2>3. \A d \in Clients \ {c} : program'[d] = program[d] /\ done'[d] = done[d] /\ called'[d] = called[d]
      BY <1>6 DEF TypeOK, Typed
    <2>4. ~AwaitsIo(c)'
      BY <1>11, <1>14 DEF Owned
    <2> QED
      BY <1>5, <1>14, <2>1, <2>2, <2>3, <2>4, AccountedAfter
  <1> QED
    BY <1>4, <1>9, <1>10, <1>15, <1>16

\* What a Pop means to the account of its batch.
LEMMA PopAccounts ==
  ASSUME BatchInv, NEW w \in Workers, NEW c \in Clients, NEW op, Pop(w, c, op)
  PROVE  /\ called[c] = 0 /\ requests[c] \in Seq(Placed) /\ requests[c] # <<>>
         /\ Tail(requests[c]) \in Seq(Placed)
         /\ program' = program /\ phase' = phase
         /\ Accounts(program[c], Tail(requests[c]), FALSE, done'[c])
         /\ Ordered(program[c], Tail(requests[c]), done'[c])
  <1> USE DEF BatchInv
  <1>1. called[c] = 0 /\ ~AwaitsIo(c)
    BY PopLeaves
  <1>2. requests[c] # <<>> /\ Route(Head(requests[c])) = w
    BY PopRouted
  <1>3. requests[c] \in Seq(Placed) /\ done[c] \in Seq(Nat \X Workers)
    BY DEF Typed
  <1>4. Accounts(program[c], requests[c], TRUE, done[c]) /\ Ordered(program[c], requests[c], done[c])
    BY <1>1 DEF Accounted
  <1>5. done'[c] = Append(done[c], <<Head(requests[c]).place, w>>) /\ UNCHANGED <<phase, program>>
    BY <1>2, PopType
  <1>6. Tail(requests[c]) \in Seq(Placed)
    BY <1>2, <1>3, TailAt
  <1>7. /\ Accounts(program[c], Tail(requests[c]), FALSE, Append(done[c], <<Head(requests[c]).place, w>>))
        /\ Ordered(program[c], Tail(requests[c]), Append(done[c], <<Head(requests[c]).place, w>>))
    BY <1>2, <1>3, <1>4, AccountsPop
  <1> QED
    BY <1>1, <1>2, <1>3, <1>5, <1>6, <1>7

\* What stays queued after a Pop was queued before.
LEMMA PopQueued ==
  ASSUME TypeOK, NEW w \in Workers, NEW c, NEW op, Pop(w, c, op)
  PROVE  \A d : \A x \in Workers : \A i : IsQueued(d, x, i)' => d \in Clients /\ \E j : IsQueued(d, x, j)
  <1> SUFFICES ASSUME NEW d, NEW x \in Workers, NEW i, IsQueued(d, x, i)'
               PROVE  d \in Clients /\ \E j : IsQueued(d, x, j)
    OBVIOUS
  <1>1. \E j : IsQueued(d, x, j)
    BY PopMoves
  <1> QED
    BY <1>1, PlaceTypes

\* A turn that pops one batch more has room for as many AIOs as before.
LEMMA CountGrows ==
  ASSUME NEW f \in [Workers -> 0 .. MaxEvent], NEW g \in [Workers -> 0 .. MaxEvent], NEW w \in Workers,
         g[w] = f[w] + 1, \A x \in Workers \ {w} : g[x] = f[x]
  PROVE  \A x \in Workers : f[x] \in Nat /\ g[x] \in Nat /\ f[x] <= g[x]
  <1> SUFFICES ASSUME NEW x \in Workers
               PROVE  f[x] \in Nat /\ g[x] \in Nat /\ f[x] <= g[x]
    OBVIOUS
  <1>1. f[x] \in Nat /\ g[x] \in Nat
    BY DBAssumption
  <1>2. CASE x = w
    BY <1>1, <1>2
  <1>3. CASE x # w
    BY <1>1, <1>3
  <1> QED
    BY <1>2, <1>3

\* A request is answered at once and the batch handed on or called back.
LEMMA AnswerStep ==
  ASSUME BatchInv, NEW w \in Workers, NEW c \in Clients, NEW op, Pop(w, c, op),
         FinishRequest(w, c, Tail(requests[c])), UNCHANGED io_queue
  PROVE  BatchInv'
  <1> USE DEF BatchInv
  <1>1. PICK reqs : reqs = Tail(requests[c])
    OBVIOUS
  <1>2. /\ called[c] = 0 /\ requests[c] # <<>> /\ reqs \in Seq(Placed)
        /\ program' = program /\ phase' = phase
        /\ Accounts(program[c], reqs, FALSE, done'[c])
        /\ Ordered(program[c], reqs, done'[c])
    BY <1>1, PopAccounts
  <1>3. FinishRequest(w, c, reqs) /\ handing[w] = None
    BY <1>1 DEF Pop
  <1>4. /\ requests' \in [Clients -> Seq(Placed)]
        /\ cur_worker' \in [Clients -> Workers]
        /\ handing' \in [Threads -> [batch : Clients, to : Workers] \cup {None}]
        /\ called' \in [Clients -> 0 .. 3]
        /\ \A d \in Clients \ {c} : requests'[d] = requests[d] /\ cur_worker'[d] = cur_worker[d]
        /\ \/ UNCHANGED handing
           \/ reqs # <<>> /\ Submit(w, c, reqs)
    BY <1>2, <1>3, FinishRequestType
  <1>5. /\ batch_queue' \in [Workers -> Seq(Clients)]
        /\ cnt' \in [Workers -> 0 .. MaxEvent]
        /\ cnt'[w] = cnt[w] + 1 /\ \A x \in Workers \ {w} : cnt'[x] = cnt[x]
        /\ done' \in [Clients -> Seq(Nat \X Workers)]
        /\ \A d \in Clients \ {c} : done'[d] = done[d]
    BY <1>2, PopType
  <1>6. Typed'
    BY <1>2, <1>4, <1>5 DEF Typed
  <1>7. TypeOK'
    <2>1. \A d \in Clients : \A i \in DOMAIN requests'[d] : Route(requests'[d][i]) \in Workers
      BY <1>4, RoutesType
    <2>2. \A x \in Workers : Len(io_queue'[x]) <= cnt'[x]
      <3>1. \A x \in Workers : cnt[x] \in Nat /\ cnt'[x] \in Nat /\ cnt[x] <= cnt'[x]
        BY <1>5, CountGrows DEF TypeOK
      <3>2. \A x \in Workers : Len(io_queue[x]) \in Nat /\ Len(io_queue[x]) <= cnt[x]
        BY LenProperties DEF TypeOK
      <3> QED
        BY <3>1, <3>2
    <2> QED
      BY <1>2, <1>4, <1>5, <2>1, <2>2 DEF TypeOK, Route, None
  <1>8. Owned'
    BY <1>2, OwnedAnswer
  <1>9. ~Queued(c)' /\ ~Handed(c) /\ ~AwaitsIo(c)
    BY PopLeaves
  <1>10. w \in Threads
    BY DEF Threads
  <1>11. Routed'
    <2>1. \A d : \A x \in Workers : \A i : IsQueued(d, x, i)' => d \in Clients /\ \E j : IsQueued(d, x, j)
      BY PopQueued
    <2> QED
      BY <1>2, <1>3, <1>4, <1>9, <1>10, <2>1, RoutedAfter
  <1>12. Accounted'
    <2>1. \A d : AwaitsIo(d)' <=> AwaitsIo(d)
      BY IoKept
    <2>2. called'[c] = 0 => /\ Accounts(program[c], requests'[c], TRUE, done'[c])
                            /\ Ordered(program[c], requests'[c], done'[c])
      BY <1>2, <1>3, FinishRequestAccounts
    <2>3. \A d \in Clients \ {c} : called'[d] = called[d]
      BY <1>2, <1>3, FinishRequestMoves
    <2> QED
      BY <1>2, <1>4, <1>5, <1>9, <2>1, <2>2, <2>3, AccountedAfter
  <1> QED
    BY <1>6, <1>7, <1>8, <1>11, <1>12

\* A scan callback gives up and the batch is ended.
LEMMA GiveUpStep ==
  ASSUME BatchInv, NEW w \in Workers, NEW c \in Clients, NEW op, Pop(w, c, op),
         requests' = [requests EXCEPT ![c] = <<>>],
         NEW again \in {0, 1}, called' = [called EXCEPT ![c] = @ + 1 + again],
         UNCHANGED <<cur_worker, handing, io_queue>>
  PROVE  BatchInv'
  <1> USE DEF BatchInv
  <1>1. called[c] = 0 /\ requests[c] # <<>> /\ program' = program /\ phase' = phase
    BY PopAccounts
  <1>2. requests' \in [Clients -> Seq(Placed)] /\ \A d \in Clients \ {c} : requests'[d] = requests[d]
    BY EmptySeq DEF Typed
  <1>3. /\ called' \in [Clients -> 0 .. 3] /\ called'[c] # 0
        /\ \A d \in Clients \ {c} : called'[d] = called[d]
    <2>1. called' = [called EXCEPT ![c] = 1 + again] /\ called \in [Clients -> 0 .. 3]
      BY <1>1 DEF TypeOK
    <2>2. 1 + again \in 1 .. 2
      OBVIOUS
    <2> QED
      BY <2>1, <2>2
  <1>4. /\ batch_queue' \in [Workers -> Seq(Clients)]
        /\ cnt' \in [Workers -> 0 .. MaxEvent]
        /\ cnt'[w] = cnt[w] + 1 /\ \A x \in Workers \ {w} : cnt'[x] = cnt[x]
        /\ done' \in [Clients -> Seq(Nat \X Workers)]
        /\ \A d \in Clients \ {c} : done'[d] = done[d]
    BY <1>1, PopType
  <1>5. Typed'
    BY <1>1, <1>2, <1>4 DEF Typed
  <1>6. TypeOK'
    <2>1. \A d \in Clients : \A i \in DOMAIN requests'[d] : Route(requests'[d][i]) \in Workers
      BY <1>2, RoutesType
    <2>2. \A x \in Workers : Len(io_queue'[x]) <= cnt'[x]
      <3>1. \A x \in Workers : cnt[x] \in Nat /\ cnt'[x] \in Nat /\ cnt[x] <= cnt'[x]
        BY <1>4, CountGrows DEF TypeOK
      <3>2. \A x \in Workers : Len(io_queue[x]) \in Nat /\ Len(io_queue[x]) <= cnt[x]
        BY LenProperties DEF TypeOK
      <3> QED
        BY <3>1, <3>2
    <2> QED
      BY <1>1, <1>3, <1>4, <2>1, <2>2 DEF TypeOK, Route, None
  <1>7. Owned'
    BY OwnedGiveUp
  <1>8. ~Queued(c)' /\ ~Handed(c)
    BY PopLeaves
  <1>9. Routed'
    <2>1. \A d : \A x \in Workers : \A i : IsQueued(d, x, i)' => d \in Clients /\ \E j : IsQueued(d, x, j)
      BY PopQueued
    <2> QED
      BY <1>2, <1>8, <2>1, RoutedAfter
  <1>10. Accounted'
    BY <1>1, <1>2, <1>3, <1>4, IoKept, AccountedAfter
  <1> QED
    BY <1>5, <1>6, <1>7, <1>9, <1>10

\* A request is enqueued for I/O.
LEMMA IOEnqueueStep ==
  ASSUME BatchInv, NEW w \in Workers, NEW c \in Clients, IOEnqueue(w, c)
  PROVE  BatchInv'
  <1> USE DEF BatchInv
  <1>1. /\ Pop(w, c, "POINT") /\ requests' = [requests EXCEPT ![c] = Tail(@)]
        /\ UNCHANGED <<cur_worker, handing, called>>
    BY DEF IOEnqueue
  <1>2. /\ called[c] = 0 /\ requests[c] # <<>> /\ Tail(requests[c]) \in Seq(Placed)
        /\ program' = program /\ phase' = phase
        /\ Accounts(program[c], Tail(requests[c]), FALSE, done'[c])
        /\ Ordered(program[c], Tail(requests[c]), done'[c])
    BY <1>1, PopAccounts
  <1>3. /\ requests' \in [Clients -> Seq(Placed)] /\ requests'[c] = Tail(requests[c])
        /\ \A d \in Clients \ {c} : requests'[d] = requests[d]
    BY <1>1, <1>2 DEF Typed
  <1>4. /\ batch_queue' \in [Workers -> Seq(Clients)]
        /\ cnt' \in [Workers -> 0 .. MaxEvent]
        /\ cnt'[w] = cnt[w] + 1 /\ \A x \in Workers \ {w} : cnt'[x] = cnt[x]
        /\ done' \in [Clients -> Seq(Nat \X Workers)]
        /\ \A d \in Clients \ {c} : done'[d] = done[d]
    BY <1>1, <1>2, PopType
  <1>5. /\ io_queue' = [io_queue EXCEPT ![w] = Append(@, [batch |-> c, by |-> w])]
        /\ \A d : \A x \in Workers : \A i :
             InIo(d, x, i)' <=> InIo(d, x, i) \/ (d = c /\ x = w /\ i = Len(io_queue[x]) + 1)
    BY IOEnqueueMoves
  <1> DEFINE T == [batch : Clients, by : Workers]
             e == [batch |-> c, by |-> w]
  <1>6. e \in T /\ io_queue \in [Workers -> Seq(T)] /\ io_queue' = [io_queue EXCEPT ![w] = Append(@, e)]
    BY <1>5 DEF TypeOK
  <1>7. /\ io_queue' \in [Workers -> Seq(T)]
        /\ \A x \in Workers : Len(io_queue'[x]) = IF x = w THEN Len(io_queue[x]) + 1 ELSE Len(io_queue[x])
        /\ io_queue'[w] # <<>> /\ \A x \in Workers \ {w} : io_queue'[x] = io_queue[x]
    <2> HIDE DEF T, e
    <2>1. Append(io_queue[w], e) \in Seq(T) /\ Len(Append(io_queue[w], e)) = Len(io_queue[w]) + 1 /\ Append(io_queue[w], e) # <<>>
      BY <1>6, AppendProperties
    <2> QED
      BY <1>6, <2>1
  <1>8. Typed'
    BY <1>2, <1>3, <1>4, <1>7 DEF Typed
  <1>9. TypeOK'
    <2>1. \A d \in Clients : \A i \in DOMAIN requests'[d] : Route(requests'[d][i]) \in Workers
      BY <1>3, RoutesType
    <2>2. \A x \in Workers : Len(io_queue'[x]) <= cnt'[x]
      <3>1. \A x \in Workers : cnt[x] \in Nat /\ cnt'[x] \in Nat
        BY <1>4, CountGrows DEF TypeOK
      <3>2. \A x \in Workers : Len(io_queue[x]) \in Nat /\ Len(io_queue[x]) <= cnt[x]
        BY LenProperties DEF TypeOK
      <3> SUFFICES ASSUME NEW x \in Workers PROVE Len(io_queue'[x]) <= cnt'[x]
        OBVIOUS
      <3>3. CASE x = w
        <4>1. Len(io_queue'[x]) = Len(io_queue[x]) + 1 /\ cnt'[x] = cnt[x] + 1
          BY <1>4, <1>7, <3>3
        <4> QED
          BY <3>1, <3>2, <4>1
      <3>4. CASE x # w
        <4>1. Len(io_queue'[x]) = Len(io_queue[x]) /\ cnt'[x] = cnt[x]
          BY <1>4, <1>7, <3>4
        <4> QED
          BY <3>2, <4>1
      <3> QED
        BY <3>3, <3>4
    <2> QED
      BY <1>1, <1>2, <1>4, <1>7, <2>1, <2>2 DEF TypeOK, Route, None
  <1>10. Owned'
    BY OwnedIOEnqueue
  <1>11. ~Queued(c)' /\ ~Handed(c)
    BY <1>1, PopLeaves
  <1>12. Routed'
    <2>1. \A d : \A x \in Workers : \A i : IsQueued(d, x, i)' => d \in Clients /\ \E j : IsQueued(d, x, j)
      BY <1>1, PopQueued
    <2> QED
      BY <1>1, <1>3, <1>11, <2>1, RoutedAfter
  <1>13. Accounted'
    <2>1. \A d : (AwaitsIo(d) <=> \E x \in Workers : \E i : InIo(d, x, i))
              /\ (AwaitsIo(d)' <=> \E x \in Workers : \E i : InIo(d, x, i)')
      BY DEF AwaitsIo, InIo
    <2>2. \A d : AwaitsIo(d)' <=> AwaitsIo(d) \/ d = c
      BY <1>5, <2>1
    <2> QED
      BY <1>1, <1>2, <1>3, <1>4, <2>2, AccountedAfter
  <1> QED
    BY <1>8, <1>9, <1>10, <1>12, <1>13

\* The end of a turn's popping.
LEMMA DrainedStep ==
  ASSUME BatchInv, NEW w \in Workers, Drained(w)
  PROVE  BatchInv'
  <1> USE DEF BatchInv
  <1>1. UNCHANGED <<program, requests, cur_worker, handing, batch_queue, io_queue, done, called>>
    BY DEF Drained
  <1>2. \/ io_queue[w] = <<>> /\ cnt' = [cnt EXCEPT ![w] = 0] /\ UNCHANGED phase
        \/ io_queue[w] # <<>> /\ phase' = [phase EXCEPT ![w] = "finish"] /\ UNCHANGED cnt
    BY DEF Drained
  <1>3. cnt \in [Workers -> 0 .. MaxEvent] /\ phase \in [Workers -> {"drain", "finish"}] /\ MaxEvent \in Nat
    BY DBAssumption DEF TypeOK
  <1>4. cnt' \in [Workers -> 0 .. MaxEvent] /\ phase' \in [Workers -> {"drain", "finish"}]
    BY <1>2, <1>3
  <1>5. \A x \in Workers : Len(io_queue[x]) <= cnt'[x]
    <2>1. \A x \in Workers : Len(io_queue[x]) <= cnt[x]
      BY DEF TypeOK
    <2>2. CASE io_queue[w] = <<>> /\ cnt' = [cnt EXCEPT ![w] = 0]
      BY <1>3, <2>1, <2>2, EmptySeq
    <2>3. CASE UNCHANGED cnt
      BY <2>1, <2>3
    <2> QED
      BY <1>2, <2>2, <2>3
  <1>6. TypeOK'
    BY <1>1, <1>4, <1>5 DEF TypeOK, Route, None
  <1>7. Typed'
    BY <1>1, <1>2, <1>3 DEF Typed
  <1>8. /\ \A d, u : IsHanded(d, u)' <=> IsHanded(d, u)
        /\ \A d, x, i : IsQueued(d, x, i)' <=> IsQueued(d, x, i)
        /\ \A d, x, i : InIo(d, x, i)' <=> InIo(d, x, i)
    BY <1>1 DEF IsHanded, IsQueued, InIo, None
  <1>9. /\ \A d : (Handed(d)' <=> Handed(d)) /\ (Queued(d)' <=> Queued(d)) /\ (AwaitsIo(d)' <=> AwaitsIo(d))
    BY <1>1, <1>8, QueueKept, IoKept DEF Handed
  <1>10. \A d \in Clients : Unique(d)'
    BY <1>1, <1>8, <1>9 DEF Owned, Unique
  <1>11. Owned'
    BY <1>1, <1>9, <1>10 DEF Owned, None
  <1>12. Routed'
    BY <1>1 DEF Routed, AtWorker, Route, None
  <1>13. Accounted'
    <2>1. PICK x : x \notin Clients
      <3>1. 0 \in Workers
        BY DBAssumption DEF Workers
      <3> QED
        BY <3>1, DBAssumption
    <2> QED
      BY <1>1, <1>9, <2>1, AccountedAfter
  <1> QED
    BY <1>6, <1>7, <1>11, <1>12, <1>13

\* An AIO is finished and its batch handed on or called back.
LEMMA FinishStep ==
  ASSUME BatchInv, NEW w \in Workers, Finish(w)
  PROVE  BatchInv'
  <1> USE DEF BatchInv
  <1>1. PICK c : c = Head(io_queue[w]).batch
    OBVIOUS
  <1>2. /\ c \in Clients /\ called[c] = 0 /\ AwaitsIo(c)
        /\ ~AwaitsIo(c)' /\ ~Handed(c) /\ ~Queued(c)
        /\ \A d \in Clients : d # c => (AwaitsIo(d)' <=> AwaitsIo(d))
    BY <1>1, FinishLeaves
  <1>3. PICK reqs : reqs = requests[c]
    OBVIOUS
  <1>4. /\ FinishRequest(w, c, reqs) /\ handing[w] = None
        /\ UNCHANGED <<program, batch_queue, done>>
    BY <1>1, <1>3 DEF Finish
  <1>5. reqs \in Seq(Placed)
    BY <1>2, <1>3 DEF Typed
  <1>6. /\ requests' \in [Clients -> Seq(Placed)]
        /\ cur_worker' \in [Clients -> Workers]
        /\ handing' \in [Threads -> [batch : Clients, to : Workers] \cup {None}]
        /\ called' \in [Clients -> 0 .. 3]
        /\ \A d \in Clients \ {c} : requests'[d] = requests[d] /\ cur_worker'[d] = cur_worker[d]
        /\ \/ UNCHANGED handing
           \/ reqs # <<>> /\ Submit(w, c, reqs)
    BY <1>2, <1>4, <1>5, FinishRequestType
  <1> DEFINE T == [batch : Clients, by : Workers]
  <1>7. io_queue \in [Workers -> Seq(T)] /\ io_queue[w] # <<>> /\ io_queue' = [io_queue EXCEPT ![w] = Tail(@)]
    BY DEF TypeOK, Typed, Finish
  <1>8. /\ io_queue' \in [Workers -> Seq(T)]
        /\ Len(io_queue[w]) \in Nat
        /\ io_queue'[w] = Tail(io_queue[w]) /\ Len(io_queue'[w]) = Len(io_queue[w]) - 1
        /\ \A x \in Workers \ {w} : io_queue'[x] = io_queue[x]
    <2> HIDE DEF T
    <2>1. Tail(io_queue[w]) \in Seq(T) /\ Len(Tail(io_queue[w])) = Len(io_queue[w]) - 1 /\ Len(io_queue[w]) \in Nat
      BY <1>7, TailAt, LenProperties
    <2> QED
      BY <1>7, <2>1
  <1>9. cnt \in [Workers -> 0 .. MaxEvent] /\ phase \in [Workers -> {"drain", "finish"}] /\ MaxEvent \in Nat
    BY DBAssumption DEF TypeOK
  <1>10. \/ /\ Len(io_queue[w]) = 1
            /\ phase' = [phase EXCEPT ![w] = "drain"] /\ cnt' = [cnt EXCEPT ![w] = 0]
         \/ Len(io_queue[w]) # 1 /\ UNCHANGED <<phase, cnt>>
    BY DEF Finish, loopVars
  <1>11. cnt' \in [Workers -> 0 .. MaxEvent] /\ phase' \in [Workers -> {"drain", "finish"}]
    BY <1>9, <1>10
  <1>12. \A x \in Workers : Len(io_queue'[x]) <= cnt'[x]
    <2>1. \A x \in Workers : Len(io_queue[x]) <= cnt[x]
      BY DEF TypeOK
    <2>2. \A x \in Workers : cnt[x] \in Nat
      BY <1>9
    <2>3. CASE Len(io_queue[w]) = 1 /\ cnt' = [cnt EXCEPT ![w] = 0]
      <3>1. Len(io_queue'[w]) = 0 /\ cnt'[w] = 0 /\ \A x \in Workers \ {w} : cnt'[x] = cnt[x]
        BY <1>8, <1>9, <2>3
      <3> SUFFICES ASSUME NEW x \in Workers PROVE Len(io_queue'[x]) <= cnt'[x]
        OBVIOUS
      <3>2. CASE x = w
        BY <3>1, <3>2
      <3>3. CASE x # w
        <4>1. io_queue'[x] = io_queue[x] /\ cnt'[x] = cnt[x]
          BY <1>8, <3>1, <3>3
        <4> QED
          BY <2>1, <4>1
      <3> QED
        BY <3>2, <3>3
    <2>4. CASE UNCHANGED cnt
      <3> SUFFICES ASSUME NEW x \in Workers PROVE Len(io_queue'[x]) <= cnt'[x]
        OBVIOUS
      <3>1. CASE x = w
        <4>1. Len(io_queue'[x]) = Len(io_queue[x]) - 1 /\ Len(io_queue[x]) \in Nat
          BY <1>8, <3>1
        <4>2. Len(io_queue[x]) <= cnt[x] /\ cnt[x] \in Nat /\ cnt'[x] = cnt[x]
          BY <2>1, <2>2, <2>4
        <4> QED
          BY <4>1, <4>2
      <3>2. CASE x # w
        <4>1. io_queue'[x] = io_queue[x]
          BY <1>8, <3>2
        <4> QED
          BY <2>1, <2>4, <4>1
      <3> QED
        BY <3>1, <3>2
    <2> QED
      BY <1>10, <2>3, <2>4
  <1>13. Typed'
    <2>1. \A x \in Workers : phase'[x] = "finish" => io_queue'[x] # <<>>
      <3> SUFFICES ASSUME NEW x \in Workers, phase'[x] = "finish" PROVE io_queue'[x] # <<>>
        OBVIOUS
      <3>1. CASE x = w
        <4>1. Len(io_queue[w]) # 1
          BY <1>9, <1>10, <3>1
        <4>2. Len(io_queue[w]) # 0
          BY <1>7, EmptySeq
        <4>3. Len(io_queue'[w]) # 0
          BY <1>8, <4>1, <4>2
        <4> QED
          BY <3>1, <4>3, EmptySeq
      <3>2. CASE x # w
        <4>1. phase[x] = "finish"
          BY <1>9, <1>10, <3>2
        <4> QED
          BY <1>8, <3>2, <4>1 DEF Typed
      <3> QED
        BY <3>1, <3>2
    <2> QED
      BY <1>4, <1>6, <2>1 DEF Typed
  <1>14. TypeOK'
    <2>1. \A d \in Clients : \A i \in DOMAIN requests'[d] : Route(requests'[d][i]) \in Workers
      BY <1>6, RoutesType
    <2> QED
      BY <1>4, <1>6, <1>8, <1>11, <1>12, <2>1 DEF TypeOK, Route, None
  <1>15. Owned'
    BY OwnedFinish
  <1>16. Routed'
    <2>1. w \in Threads
      BY DEF Threads
    <2>2. \A d : \A x \in Workers : \A i : IsQueued(d, x, i)' => d \in Clients /\ \E j : IsQueued(d, x, j)
      BY <1>4, QueueKept, PlaceTypes
    <2>3. ~Queued(c)'
      BY <1>2, <1>4, QueueKept
    <2> QED
      BY <1>2, <1>4, <1>5, <1>6, <2>1, <2>2, <2>3, RoutedAfter
  <1>17. Accounted'
    <2>1. Accounts(program[c], reqs, FALSE, done[c]) /\ Ordered(program[c], reqs, done[c])
      BY <1>2, <1>3 DEF Accounted
    <2>2. called'[c] = 0 => /\ Accounts(program[c], requests'[c], TRUE, done[c])
                            /\ Ordered(program[c], requests'[c], done[c])
      BY <1>2, <1>4, <1>5, <2>1, FinishRequestAccounts
    <2>3. \A d \in Clients \ {c} : called'[d] = called[d]
      BY <1>2, <1>4, <1>5, FinishRequestMoves
    <2> QED
      BY <1>2, <1>4, <1>6, <2>2, <2>3, AccountedAfter
  <1> QED
    BY <1>13, <1>14, <1>15, <1>16, <1>17

\* Every step keeps BatchInv.
LEMMA BatchInvNext ==
  ASSUME BatchInv, [Next]_vars
  PROVE  BatchInv'
  <1>1. ASSUME NEW c \in Clients, Push(c)
        PROVE  BatchInv'
    BY <1>1, PushStep DEF Threads
  <1>2. ASSUME NEW c \in Clients, NEW p \in Programs, ClientSubmit(c, p)
        PROVE  BatchInv'
    BY <1>2, ClientSubmitStep
  <1>3. ASSUME NEW w \in Workers, NEW c \in Clients, Answer(w, c)
        PROVE  BatchInv'
    BY <1>3, AnswerStep DEF Answer
  <1>4. ASSUME NEW w \in Workers, NEW c \in Clients, IOEnqueue(w, c)
        PROVE  BatchInv'
    BY <1>4, IOEnqueueStep
  <1>5. ASSUME NEW w \in Workers, NEW c \in Clients, DoScan(w, c)
        PROVE  BatchInv'
    <2>1. Pop(w, c, "SCAN") /\ UNCHANGED io_queue
      BY <1>5 DEF DoScan
    <2>2. CASE FinishRequest(w, c, Tail(requests[c]))
      BY <2>1, <2>2, AnswerStep
    <2>3. CASE /\ requests' = [requests EXCEPT ![c] = <<>>]
               /\ \E again \in {0, 1} : called' = [called EXCEPT ![c] = @ + 1 + again]
               /\ UNCHANGED <<cur_worker, handing>>
      <3>1. PICK again \in {0, 1} : called' = [called EXCEPT ![c] = @ + 1 + again]
        BY <2>3
      <3> QED
        BY <2>1, <2>3, <3>1, GiveUpStep
    <2> QED
      BY <1>5, <2>2, <2>3 DEF DoScan
  <1>6. ASSUME NEW w \in Workers, Drained(w)
        PROVE  BatchInv'
    BY <1>6, DrainedStep
  <1>7. ASSUME NEW w \in Workers, Finish(w)
        PROVE  BatchInv'
    BY <1>7, FinishStep
  <1>8. ASSUME NEW w \in Workers, Push(w)
        PROVE  BatchInv'
    BY <1>8, PushStep DEF Threads
  <1>9. CASE UNCHANGED vars
    <2> USE DEF BatchInv
    <2>1. UNCHANGED <<program, requests, cur_worker, handing, batch_queue, io_queue, cnt, phase, done, called>>
      BY <1>9 DEF vars
    <2>2. TypeOK'
      BY <2>1 DEF TypeOK, Route, None
    <2>3. Typed'
      BY <2>1 DEF Typed
    <2>4. Owned'
      BY <2>1 DEF Owned, Unique, Handed, Queued, AwaitsIo, IsHanded, IsQueued, InIo, None
    <2>5. Routed'
      BY <2>1 DEF Routed, AtWorker, Route, None
    <2>6. Accounted'
      <3>1. PICK x : x \notin Clients
        <4>1. 0 \in Workers
          BY DBAssumption DEF Workers
        <4> QED
          BY <4>1, DBAssumption
      <3>2. \A d : AwaitsIo(d)' <=> AwaitsIo(d)
        BY <2>1, IoKept
      <3> QED
        BY <2>1, <3>1, <3>2, AccountedAfter
    <2> QED
      BY <2>2, <2>3, <2>4, <2>5, <2>6
  <1> QED
    BY <1>1, <1>2, <1>3, <1>4, <1>5, <1>6, <1>7, <1>8, <1>9 DEF Next, Main

-----------------------------------------------------------------------------
(* Theorems *)

\* In every behaviour a batch is in one place, at the worker of its first request,
\* and what it was given to do is either done or still in it.
THEOREM BatchInvariant == Spec => []BatchInv
  BY BatchInvInit, BatchInvNext, PTL DEF Spec

\* The variables keep their types and the AIOs of a turn fit the arrays of Main_.
THEOREM TypeCorrect == Spec => []TypeOK
  <1>1. BatchInv => TypeOK
    BY DEF BatchInv
  <1> QED
    BY <1>1, BatchInvariant, PTL

\* The places of a batch are those of IsHanded, IsQueued and InIo.
LEMMA PlacesMeaning ==
  ASSUME NEW c
  PROVE  \A q : q \in Places(c) <=>
           \/ \E t \in Threads : IsHanded(c, t) /\ q = <<"handing", t>>
           \/ \E w \in Workers : \E i \in DOMAIN batch_queue[w] : IsQueued(c, w, i) /\ q = <<"queued", w, i>>
           \/ \E w \in Workers : \E i \in DOMAIN io_queue[w] : InIo(c, w, i) /\ q = <<"io", w, i>>
  BY DEF Places, IsHanded, IsQueued, InIo

\* Batches have no lock, and need none: whatever the clients submit and however
\* the workers interleave, a batch is in exactly one place until its callback
\* has run and in none afterwards (Batch::FinishRequest, DB::Submit, Worker::Submit).
THEOREM BatchHasOneOwner == Spec => []OneOwner
  <1>1. BatchInv => OneOwner
    <2> SUFFICES ASSUME BatchInv, NEW c \in Clients
                 PROVE  Cardinality(Places(c)) = IF called[c] = 0 THEN 1 ELSE 0
      BY DEF OneOwner
    <2>1. Unique(c) /\ (called[c] = 0 <=> Handed(c) \/ Queued(c) \/ AwaitsIo(c))
      BY DEF BatchInv, Owned
    <2>2. CASE called[c] # 0
      <3>1. Places(c) = {}
        BY <2>1, <2>2, PlacesMeaning DEF Handed, Queued, AwaitsIo
      <3> QED
        BY <2>2, <3>1, FS_EmptySet
    <2>3. CASE called[c] = 0
      <3>1. \A p, q \in Places(c) : p = q
        BY <2>1, PlacesMeaning DEF Unique, Handed, Queued, AwaitsIo
      <3>2. Places(c) # {}
        BY <2>1, <2>3, PlacesMeaning DEF Handed, Queued, AwaitsIo
      <3>3. PICK p : Places(c) = {p}
        BY <3>1, <3>2
      <3> QED
        BY <2>3, <3>3, FS_Singleton
    <2> QED
      BY <2>2, <2>3
  <1> QED
    BY <1>1, BatchInvariant, PTL

\* io_queue_ has no lock, and needs none: only its own worker ever adds to it,
\* because cur_worker_ of the batch it pops names that worker (AIO::Submit).
THEOREM IoStaysLocal == Spec => []IoLocal
  <1>1. Init => IoLocal
    BY DEF Init, IoLocal
  <1>2. IoLocal /\ BatchInv /\ [Next]_vars => IoLocal'
    <2> SUFFICES ASSUME IoLocal, BatchInv, [Next]_vars PROVE IoLocal'
      OBVIOUS
    <2> USE DEF BatchInv
    <2> DEFINE T == [batch : Clients, by : Workers]
    <2>1. io_queue \in [Workers -> Seq(T)]
      BY DEF TypeOK
    <2>2. CASE UNCHANGED io_queue
      BY <2>2 DEF IoLocal
    <2>3. ASSUME NEW w \in Workers, NEW c \in Clients, IOEnqueue(w, c)
          PROVE  IoLocal'
      <3> DEFINE e == [batch |-> c, by |-> w]
      <3>1. io_queue' = [io_queue EXCEPT ![w] = Append(@, e)]
        BY <2>3, IOEnqueueMoves
      <3>2. e \in T /\ e.by = w
        OBVIOUS
      <3> HIDE DEF T, e
      <3>3. /\ DOMAIN Append(io_queue[w], e) = DOMAIN io_queue[w] \cup {Len(io_queue[w]) + 1}
            /\ Append(io_queue[w], e)[Len(io_queue[w]) + 1] = e
            /\ \A i \in DOMAIN io_queue[w] : Append(io_queue[w], e)[i] = io_queue[w][i]
        BY <2>1, <3>2, AppendAt
      <3> QED
        BY <2>1, <3>1, <3>2, <3>3 DEF IoLocal
    <2>4. ASSUME NEW w \in Workers, Finish(w)
          PROVE  IoLocal'
      <3>1. io_queue[w] # <<>> /\ io_queue' = [io_queue EXCEPT ![w] = Tail(@)]
        BY <2>4 DEF Finish, Typed
      <3> HIDE DEF T
      <3>2. \A i \in DOMAIN Tail(io_queue[w]) : i + 1 \in DOMAIN io_queue[w] /\ Tail(io_queue[w])[i] = io_queue[w][i + 1]
        BY <2>1, <3>1, TailAt
      <3> QED
        BY <2>1, <3>1, <3>2 DEF IoLocal
    <2> QED
      BY <2>2, <2>3, <2>4 DEF Next, Main, Push, ClientSubmit, Answer, DoScan, Drained, vars
  <1> QED
    BY <1>1, <1>2, BatchInvariant, PTL DEF Spec

\* What a Pop adds to the requests carried out comes behind what was done before.
LEMMA PopInOrder ==
  ASSUME BatchInv, InOrder, NEW w \in Workers, NEW c \in Clients, NEW op, Pop(w, c, op)
  PROVE  InOrder'
  <1> USE DEF BatchInv
  <1> DEFINE h == Head(requests[c])
             L == Len(done[c]) + 1
  <1>1. called[c] = 0 /\ requests[c] \in Seq(Placed) /\ requests[c] # <<>> /\ program' = program
    BY PopAccounts
  <1>2. done'[c] = Append(done[c], <<h.place, w>>) /\ \A d \in Clients \ {c} : done'[d] = done[d]
    BY <1>1, PopType
  <1>3. h = requests[c][1] /\ 1 \in DOMAIN requests[c] /\ h \in Placed
    BY <1>1, TailAt
  <1>4. <<h.place, w>> \in Nat \X Workers /\ done[c] \in Seq(Nat \X Workers)
    BY <1>3 DEF Placed, Typed
  <1>5. /\ DOMAIN done'[c] = DOMAIN done[c] \cup {L}
        /\ done'[c][L] = <<h.place, w>>
        /\ \A n \in DOMAIN done[c] : done'[c][n] = done[c][n]
    BY <1>2, <1>4, AppendAt
  <1>6. DOMAIN done[c] = 1 .. Len(done[c]) /\ Len(done[c]) \in Nat
    BY <1>4, LenProperties
  <1>7. ~AwaitsIo(c)
    BY PopLeaves
  <1>8. Accounts(program[c], requests[c], TRUE, done[c]) /\ Ordered(program[c], requests[c], done[c])
    BY <1>1, <1>7 DEF Accounted
  <1>9. program[c][h.place].op = h.op
    BY <1>3, <1>8 DEF Accounts
  <1>10. \A n \in DOMAIN done[c] :
           h.op = "POINT" /\ program[c][done[c][n][1]].op = "POINT" => done[c][n][1] < h.place
    BY <1>3, <1>8 DEF Ordered
  <1> SUFFICES ASSUME NEW d \in Clients, NEW i \in DOMAIN done'[d], NEW j \in DOMAIN done'[d], i < j,
                      program[d][done'[d][i][1]].op = "POINT", program[d][done'[d][j][1]].op = "POINT"
               PROVE  done'[d][i][1] < done'[d][j][1]
    BY <1>1 DEF InOrder
  <1>11. CASE d # c
    <2>1. done'[d] = done[d]
      BY <1>2, <1>11
    <2> QED
      BY <2>1 DEF InOrder
  <1>12. CASE d = c
    <2> HIDE DEF h
    <2>1. i \in DOMAIN done[c]
      BY <1>5, <1>6, <1>12
    <2>2. CASE j \in DOMAIN done[c]
      BY <1>5, <1>12, <2>1, <2>2 DEF InOrder
    <2>3. CASE j = L
      <3>1. done'[c][i] = done[c][i] /\ done'[c][j][1] = h.place
        BY <1>5, <2>1, <2>3
      <3>2. h.op = "POINT" /\ program[c][done[c][i][1]].op = "POINT"
        BY <1>9, <1>12, <3>1
      <3> QED
        BY <1>10, <1>12, <2>1, <3>1, <3>2
    <2> QED
      BY <1>5, <1>12, <2>2, <2>3
  <1> QED
    BY <1>11, <1>12

\* The requests of a batch that are no SCANs are carried out in the order in which
\* the client added them, though they run on different workers.
THEOREM CarriedOutInOrder == Spec => []InOrder
  <1>1. Init => InOrder
    BY DEF Init, InOrder
  <1>2. InOrder /\ BatchInv /\ [Next]_vars => InOrder'
    <2> SUFFICES ASSUME InOrder, BatchInv, [Next]_vars PROVE InOrder'
      OBVIOUS
    <2>1. ASSUME NEW w \in Workers, NEW c \in Clients, NEW op, Pop(w, c, op)
          PROVE  InOrder'
      BY <2>1, PopInOrder
    <2>2. CASE UNCHANGED <<program, done>>
      BY <2>2 DEF InOrder
    <2>3. ASSUME NEW c \in Clients, NEW p \in Programs, ClientSubmit(c, p)
          PROVE  InOrder'
      <3>1. program' = [program EXCEPT ![c] = p] /\ done' = [done EXCEPT ![c] = <<>>]
        BY <2>3 DEF ClientSubmit
      <3>2. done'[c] = <<>> /\ \A d \in Clients \ {c} : done'[d] = done[d] /\ program'[d] = program[d]
        BY <3>1 DEF BatchInv, TypeOK, Typed
      <3> QED
        BY <3>2 DEF InOrder
    <2> QED
      BY <2>1, <2>2, <2>3 DEF Next, Main, Push, Answer, IOEnqueue, DoScan, Drained, Finish, vars
  <1> QED
    BY <1>1, <1>2, BatchInvariant, PTL DEF Spec

\* A batch that owes nothing any more has had everything done once.
LEMMA NothingOwed ==
  ASSUME NEW prog, NEW dn \in Seq(Nat \X Workers), Accounts(prog, <<>>, FALSE, dn)
  PROVE  Range(dn) = Everything(prog) /\ Len(dn) = Cardinality(Everything(prog))
  <1>1. /\ \A n \in DOMAIN dn : dn[n][1] \in DOMAIN prog /\ dn[n][2] \in Where(prog[dn[n][1]])
        /\ \A m, n \in DOMAIN dn : dn[m] = dn[n] => m = n
        /\ \A p \in DOMAIN prog : \A w \in Where(prog[p]) : \E n \in DOMAIN dn : dn[n] = <<p, w>>
    BY DEF Accounts
  <1>2. Len(dn) \in Nat /\ DOMAIN dn = 1 .. Len(dn) /\ \A n \in DOMAIN dn : dn[n] = <<dn[n][1], dn[n][2]>>
    BY LenProperties, ElementOfSeq
  <1>3. Range(dn) = Everything(prog)
    <2>1. \A q \in Range(dn) : q \in Everything(prog)
      BY <1>1, <1>2 DEF Everything, Range
    <2>2. \A q \in Everything(prog) : q \in Range(dn)
      BY <1>1 DEF Everything, Range
    <2> QED
      BY <2>1, <2>2
  <1>4. dn \in Bijection(1 .. Len(dn), Everything(prog))
    <2>1. dn \in [1 .. Len(dn) -> Everything(prog)]
      BY <1>2, <1>3, LenProperties DEF Range
    <2>2. \A q \in Everything(prog) : \E n \in 1 .. Len(dn) : dn[n] = q
      BY <1>2, <1>3 DEF Range
    <2> QED
      BY <1>1, <1>2, <2>1, <2>2 DEF Bijection, Injection, Surjection, IsInjective
  <1>5. ExistsBijection(1 .. Len(dn), Everything(prog))
    BY <1>4 DEF ExistsBijection
  <1> QED
    BY <1>2, <1>3, <1>5, FS_CountingElements

\* A batch that FinishRequest calls back has had everything done once.
LEMMA FinishRequestCarriedOut ==
  ASSUME BatchInv, AllCarriedOut, BatchInv', NEW w \in Workers, handing[w] = None, NEW c \in Clients, called[c] = 0,
         NEW reqs \in Seq(Placed), FinishRequest(w, c, reqs),
         Accounts(program[c], reqs, FALSE, done'[c]),
         UNCHANGED program, \A d \in Clients \ {c} : done'[d] = done[d]
  PROVE  AllCarriedOut'
  <1> USE DEF BatchInv
  <1>1. \/ reqs = <<>> /\ called'[c] = 1
        \/ reqs # <<>> /\ UNCHANGED called
    BY FinishRequestType
  <1>2. \A d \in Clients \ {c} : called'[d] = called[d]
    BY FinishRequestMoves
  <1>3. done'[c] \in Seq(Nat \X Workers)
    BY DEF Typed
  <1>4. called'[c] = 1 => /\ Range(done'[c]) = Everything(program[c])
                          /\ Len(done'[c]) = Cardinality(Everything(program[c]))
    <2>1. CASE reqs = <<>>
      BY <1>3, <2>1, NothingOwed
    <2>2. CASE UNCHANGED called
      BY <2>2
    <2> QED
      BY <1>1, <2>1, <2>2
  <1> SUFFICES ASSUME NEW d \in Clients, called'[d] = 1
               PROVE  /\ Range(done'[d]) = Everything(program[d])
                      /\ Len(done'[d]) = Cardinality(Everything(program[d]))
    BY DEF AllCarriedOut, Everything, Where
  <1>5. CASE d = c
    BY <1>4, <1>5
  <1>6. CASE d # c
    BY <1>2, <1>6 DEF AllCarriedOut
  <1> QED
    BY <1>5, <1>6

\* When the callback of a batch runs, every request of it was carried out, once, by
\* the worker that has its key, and every SCAN once by every worker: nothing is
\* lost, repeated or run by the wrong worker on the way of a batch through any
\* number of workers, as long as scan callbacks do not give up.
THEOREM EverythingCarriedOut ==
  ASSUME ScanAnswers \subseteq {TRUE}
  PROVE  Spec => []AllCarriedOut
  <1>1. Init => AllCarriedOut
    <2> SUFFICES ASSUME Init, NEW c \in Clients
                 PROVE  /\ Range(done[c]) = Everything(program[c])
                        /\ Len(done[c]) = Cardinality(Everything(program[c]))
      BY DEF AllCarriedOut
    <2>1. done[c] = <<>> /\ program[c] = <<>>
      BY DEF Init
    <2>2. Range(<<>>) = {} /\ Everything(<<>>) = {} /\ Len(<<>>) = 0
      BY DEF Range, Everything
    <2> QED
      BY <2>1, <2>2, FS_EmptySet
  <1>2. AllCarriedOut /\ BatchInv /\ BatchInv' /\ [Next]_vars => AllCarriedOut'
    <2> SUFFICES ASSUME AllCarriedOut, BatchInv, BatchInv', [Next]_vars PROVE AllCarriedOut'
      OBVIOUS
    <2>1. ASSUME NEW w \in Workers, NEW c \in Clients, NEW op, Pop(w, c, op), FinishRequest(w, c, Tail(requests[c]))
          PROVE  AllCarriedOut'
      <3>1. /\ called[c] = 0 /\ requests[c] # <<>> /\ Tail(requests[c]) \in Seq(Placed)
            /\ program' = program
            /\ Accounts(program[c], Tail(requests[c]), FALSE, done'[c])
        BY <2>1, PopAccounts
      <3>2. handing[w] = None
        BY <2>1 DEF Pop
      <3>3. \A d \in Clients \ {c} : done'[d] = done[d]
        BY <2>1, <3>1, PopType DEF BatchInv
      <3> QED
        BY <2>1, <3>1, <3>2, <3>3, FinishRequestCarriedOut
    <2>2. ASSUME NEW w \in Workers, NEW c \in Clients, IOEnqueue(w, c)
          PROVE  AllCarriedOut'
      <3>1. Pop(w, c, "POINT") /\ UNCHANGED called
        BY <2>2 DEF IOEnqueue
      <3>2. called[c] = 0 /\ requests[c] # <<>> /\ program' = program
        BY <3>1, PopAccounts
      <3>3. \A d \in Clients \ {c} : done'[d] = done[d]
        BY <3>1, <3>2, PopType DEF BatchInv
      <3> QED
        BY <3>1, <3>2, <3>3 DEF AllCarriedOut, Everything, Where
    <2>3. ASSUME NEW w \in Workers, Finish(w)
          PROVE  AllCarriedOut'
      <3>1. PICK c : c = Head(io_queue[w]).batch
        OBVIOUS
      <3>2. c \in Clients /\ called[c] = 0 /\ AwaitsIo(c)
        BY <2>3, <3>1, FinishLeaves DEF BatchInv
      <3>3. Accounts(program[c], requests[c], FALSE, done[c]) /\ requests[c] \in Seq(Placed)
        BY <3>2 DEF BatchInv, Accounted, Typed
      <3>4. FinishRequest(w, c, requests[c]) /\ handing[w] = None /\ UNCHANGED <<program, done>>
        BY <2>3, <3>1 DEF Finish
      <3> QED
        BY <3>2, <3>3, <3>4, FinishRequestCarriedOut
    <2>4. ASSUME NEW c \in Clients, NEW p \in Programs, ClientSubmit(c, p)
          PROVE  AllCarriedOut'
      <3>1. /\ program' = [program EXCEPT ![c] = p]
            /\ done' = [done EXCEPT ![c] = <<>>]
            /\ called' = [called EXCEPT ![c] = 0]
        BY <2>4 DEF ClientSubmit
      <3>2. called'[c] = 0 /\ \A d \in Clients \ {c} : done'[d] = done[d] /\ program'[d] = program[d] /\ called'[d] = called[d]
        BY <3>1 DEF BatchInv, TypeOK, Typed
      <3> SUFFICES ASSUME NEW d \in Clients, called'[d] = 1
                   PROVE  /\ Range(done'[d]) = Everything(program'[d])
                          /\ Len(done'[d]) = Cardinality(Everything(program'[d]))
        BY DEF AllCarriedOut, Everything, Where
      <3>3. d # c
        BY <3>2
      <3>4. done'[d] = done[d] /\ program'[d] = program[d] /\ called[d] = 1
        BY <3>2, <3>3
      <3> QED
        BY <3>4 DEF AllCarriedOut
    <2>5. ASSUME NEW w \in Workers, NEW c \in Clients, DoScan(w, c)
          PROVE  AllCarriedOut'
      <3>1. Pop(w, c, "SCAN") /\ FinishRequest(w, c, Tail(requests[c]))
        BY <2>5 DEF DoScan
      <3> QED
        BY <2>1, <3>1
    <2>6. CASE UNCHANGED <<program, done, called>>
      BY <2>6 DEF AllCarriedOut, Everything, Where
    <2>7. ASSUME NEW w \in Workers, NEW c \in Clients, Answer(w, c)
          PROVE  AllCarriedOut'
      BY <2>1, <2>7 DEF Answer
    <2> QED
      BY <2>2, <2>3, <2>4, <2>5, <2>6, <2>7 DEF Next, Main, Push, Drained, vars
  <1> QED
    BY <1>1, <1>2, BatchInvariant, PTL DEF Spec
=============================================================================
