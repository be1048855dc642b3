------------------------------- MODULE DBInv --------------------------------
(***************************************************************************)
(* The invariant from which DBProofs derives the properties of DB: where    *)
(* batches are, that they are with the worker of their first request, and   *)
(* what is still owed to them.                                              *)
(***************************************************************************)
EXTENDS DB

\* Batch c is about to be pushed by t, waits at place i of the queue of w, or
\* waits for the AIO at place i of the io_queue_ of w.
IsHanded(c, t) == handing[t] # None /\ handing[t].batch = c
IsQueued(c, w, i) == i \in DOMAIN batch_queue[w] /\ batch_queue[w][i] = c
InIo(c, w, i) == i \in DOMAIN io_queue[w] /\ io_queue[w][i].batch = c

Handed(c) == \E t \in Threads : IsHanded(c, t)
Queued(c) == \E w \in Workers : \E i \in DOMAIN batch_queue[w] : IsQueued(c, w, i)
AwaitsIo(c) == \E w \in Workers : \E i \in DOMAIN io_queue[w] : InIo(c, w, i)

\* A request of a batch, with its place in the program.
Placed == [op : {"POINT"}, key : DOMAIN SplitFunc, place : Nat]
          \cup [op : {"SCAN"}, key : Workers, place : Nat]

\* More about the types, and about the turn of a worker.
Typed ==
  /\ requests \in [Clients -> Seq(Placed)]
  /\ done \in [Clients -> Seq(Nat \X Workers)]
  /\ \A w \in Workers : phase[w] = "finish" => io_queue[w] # <<>>

\* A batch is in at most one place ...
Unique(c) ==
  /\ \A t, u \in Threads : IsHanded(c, t) /\ IsHanded(c, u) => t = u
  /\ \A w, x \in Workers : \A i \in DOMAIN batch_queue[w], j \in DOMAIN batch_queue[x] :
       IsQueued(c, w, i) /\ IsQueued(c, x, j) => w = x /\ i = j
  /\ \A w, x \in Workers : \A i \in DOMAIN io_queue[w], j \in DOMAIN io_queue[x] :
       InIo(c, w, i) /\ InIo(c, x, j) => w = x /\ i = j
  /\ ~(Handed(c) /\ Queued(c)) /\ ~(Handed(c) /\ AwaitsIo(c)) /\ ~(Queued(c) /\ AwaitsIo(c))

\* ... and in one just as long as its callback has not run.  A client pushes no
\* batch but its own.
Owned ==
  \A c \in Clients :
    /\ Unique(c)
    /\ called[c] = 0 <=> Handed(c) \/ Queued(c) \/ AwaitsIo(c)
    /\ handing[c] # None => handing[c].batch = c

\* A batch goes to, and waits at, the worker of its first request, which is also
\* the one cur_worker_ names.
AtWorker(c, w) == requests[c] # <<>> /\ cur_worker[c] = w /\ Route(Head(requests[c])) = w
Routed ==
  /\ \A t \in Threads : handing[t] # None => AtWorker(handing[t].batch, handing[t].to)
  /\ \A w \in Workers : \A i \in DOMAIN batch_queue[w] : AtWorker(batch_queue[w][i], w)

\* The workers that a request of a batch still stands for: a SCAN for worker 0
\* stands for all of them until it is fanned out.
Owes(r, fanned) == IF r.op = "SCAN" /\ r.key = 0 /\ ~fanned THEN Workers ELSE {Route(r)}

\* What was carried out and what the requests left stand for make up the program,
\* without overlap.  fanned: the first of the requests left was fanned out.
Accounts(prog, reqs, fanned, dn) ==
  LET owes(i) == Owes(reqs[i], fanned /\ i = 1)
  IN  /\ \A i \in DOMAIN reqs :
           /\ reqs[i].place \in DOMAIN prog
           /\ prog[reqs[i].place].op = reqs[i].op
           /\ reqs[i].op = "POINT" => prog[reqs[i].place].key = reqs[i].key
      /\ \A n \in DOMAIN dn : dn[n][1] \in DOMAIN prog /\ dn[n][2] \in Where(prog[dn[n][1]])
      /\ \A i, j \in DOMAIN reqs : i # j /\ reqs[i].place = reqs[j].place => owes(i) \cap owes(j) = {}
      /\ \A i \in DOMAIN reqs, n \in DOMAIN dn : dn[n][1] = reqs[i].place => dn[n][2] \notin owes(i)
      /\ \A m, n \in DOMAIN dn : dn[m] = dn[n] => m = n
      /\ \A p \in DOMAIN prog : \A w \in Where(prog[p]) :
           \/ \E n \in DOMAIN dn : dn[n] = <<p, w>>
           \/ \E i \in DOMAIN reqs : reqs[i].place = p /\ w \in owes(i)

\* The requests that are no SCANs are in order, and behind those carried out.
Ordered(prog, reqs, dn) ==
  /\ \A i, j \in DOMAIN reqs :
       i < j /\ reqs[i].op = "POINT" /\ reqs[j].op = "POINT" => reqs[i].place < reqs[j].place
  /\ \A i \in DOMAIN reqs, n \in DOMAIN dn :
       reqs[i].op = "POINT" /\ prog[dn[n][1]].op = "POINT" => dn[n][1] < reqs[i].place

\* Nothing is lost, repeated or overtaken on the way of a batch.
Accounted ==
  \A c \in Clients : called[c] = 0 =>
    /\ IF AwaitsIo(c) THEN Accounts(program[c], requests[c], FALSE, done[c])
                      ELSE Accounts(program[c], requests[c], TRUE, done[c])
    /\ Ordered(program[c], requests[c], done[c])

\* The inductive invariant.
BatchInv == TypeOK /\ Typed /\ Owned /\ Routed /\ Accounted
=============================================================================
