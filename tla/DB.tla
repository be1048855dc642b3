--------------------------------- MODULE DB ---------------------------------
(***************************************************************************)
(* Batches on their way through the workers of a DB (lib/kvengine/db.cc,    *)
(* batch.cc, and Worker::Submit, IOEnqueue and Main_ of worker.cc).         *)
(*                                                                          *)
(* A batch is a list of requests and a callback.  It is handed to the       *)
(* worker of its first request; whoever finishes a request hands it on to   *)
(* the worker of the next one, and the last one runs the callback.  What a  *)
(* request does to its worker's keys is the subject of module Worker; here  *)
(* it is answered at once or after an AIO.                                  *)
(***************************************************************************)
EXTENDS Naturals, Sequences, SequencesExt

CONSTANTS
  Clients,       \* threads that submit one batch at a time
  WorkerNum,     \* thread_num of DB::Open
  SplitFunc,     \* split_func_: [keys -> Workers]
  Programs,      \* what clients put into a batch
  ScanAnswers,   \* what scan callbacks return: subset of BOOLEAN
  MaxEvent       \* AIO::MAX_EVENT

Workers == 0 .. WorkerNum - 1

\* Batch::Get, Put, Update and Delete make a POINT request, Batch::Scan a SCAN
\* for worker 0 (its key is null).
Point(k) == [op |-> "POINT", key |-> k]
Scan(i) == [op |-> "SCAN", key |-> i]
Request == [op : {"POINT"}, key : DOMAIN SplitFunc] \cup [op : {"SCAN"}, key : Workers]

ASSUME DBAssumption ==
  /\ WorkerNum \in Nat \ {0}
  /\ MaxEvent \in Nat \ {0}
  /\ Clients \cap Workers = {}
  /\ \A k \in DOMAIN SplitFunc : SplitFunc[k] \in Workers
  /\ \A p \in Programs : p \in Seq(Request) /\ p # <<>>
  /\ \A p \in Programs : \A i \in DOMAIN p : p[i].op = "SCAN" => p[i].key = 0
  /\ ScanAnswers \subseteq BOOLEAN

VARIABLES
  program,       \* program[c]: what c put into its current batch
  requests,      \* Batch::requests_ of the batch of c, with their place in program
  cur_worker,    \* Batch::cur_worker_
  handing,       \* handing[t]: the batch thread t is about to push, or None
  batch_queue,   \* Worker::batch_queue_ of every worker
  io_queue,      \* Worker::io_queue_: the batch of every AIO and who made it
  cnt, phase,    \* of Main_ of every worker
  done,          \* done[c]: <<place, worker>> of the requests carried out
  called         \* called[c]: how often the callback ran; 1 before the first batch

loopVars == <<cnt, phase>>
vars == <<program, requests, cur_worker, handing, batch_queue, io_queue, cnt, phase,
          done, called>>

None == [to |-> WorkerNum]
Threads == Clients \cup Workers

Init ==
  /\ program = [c \in Clients |-> <<>>]
  /\ requests = [c \in Clients |-> <<>>]
  /\ cur_worker = [c \in Clients |-> 0]
  /\ handing = [t \in Threads |-> None]
  /\ batch_queue = [w \in Workers |-> <<>>]
  /\ io_queue = [w \in Workers |-> <<>>]
  /\ cnt = [w \in Workers |-> 0]
  /\ phase = [w \in Workers |-> "drain"]
  /\ done = [c \in Clients |-> <<>>]
  /\ called = [c \in Clients |-> 1]

-----------------------------------------------------------------------------
(* Handing a batch to a worker *)

\* The worker of a request.
Route(r) == IF r.op = "SCAN" THEN r.key ELSE SplitFunc[r.key]

\* Mutant of FanOut: one worker too few.
FanOutShort(reqs) ==
  IF Head(reqs).op = "SCAN" /\ Head(reqs).key = 0
    THEN reqs \o [i \in 1 .. WorkerNum - 2 |-> [Head(reqs) EXCEPT !.key = i]]
    ELSE reqs

\* A SCAN that reaches the front puts a SCAN for every other worker behind the
\* last request of the batch.
FanOut(reqs) ==
  IF Head(reqs).op = "SCAN" /\ Head(reqs).key = 0
    THEN reqs \o [i \in 1 .. WorkerNum - 1 |-> [Head(reqs) EXCEPT !.key = i]]
    ELSE reqs

\* Mutant of Submit: cur_worker_ is set when the batch is first submitted only.
SubmitFirst(t, c, reqs) ==
  /\ requests' = [requests EXCEPT ![c] = FanOut(reqs)]
  /\ cur_worker' = IF t \in Clients THEN [cur_worker EXCEPT ![c] = Route(Head(reqs))]
                   ELSE cur_worker
  /\ handing' = [handing EXCEPT ![t] = [batch |-> c, to |-> Route(Head(reqs))]]

\* DB::Submit and Worker::Submit up to the Push of ThreadsafeQueue.
Submit(t, c, reqs) ==
  /\ requests' = [requests EXCEPT ![c] = FanOut(reqs)]
  /\ cur_worker' = [cur_worker EXCEPT ![c] = Route(Head(reqs))]
  /\ handing' = [handing EXCEPT ![t] = [batch |-> c, to |-> Route(Head(reqs))]]

\* Mutant of Push: the batch gets ahead of those that are waiting.
PushFront(t) ==
  /\ handing[t] # None
  /\ batch_queue' = [batch_queue EXCEPT ![handing[t].to] = <<handing[t].batch>> \o @]
  /\ handing' = [handing EXCEPT ![t] = None]
  /\ UNCHANGED <<program, requests, cur_worker, io_queue, loopVars, done, called>>

\* The Push, after which the batch is the worker's.
Push(t) ==
  /\ handing[t] # None
  /\ batch_queue' = [batch_queue EXCEPT ![handing[t].to] = Append(@, handing[t].batch)]
  /\ handing' = [handing EXCEPT ![t] = None]
  /\ UNCHANGED <<program, requests, cur_worker, io_queue, loopVars, done, called>>

\* Mutant of ClientSubmit: requests are added at the front of the list.
ClientSubmitReversed(c, p) ==
  /\ called[c] > 0
  /\ program' = [program EXCEPT ![c] = p]
  /\ Submit(c, c, Reverse([i \in DOMAIN p |-> [op |-> p[i].op, key |-> p[i].key, place |-> i]]))
  /\ done' = [done EXCEPT ![c] = <<>>]
  /\ called' = [called EXCEPT ![c] = 0]
  /\ UNCHANGED <<batch_queue, io_queue, loopVars>>

\* A client builds a batch and submits it; Submit works on a copy.
ClientSubmit(c, p) ==
  /\ called[c] > 0
  /\ program' = [program EXCEPT ![c] = p]
  /\ Submit(c, c, [i \in DOMAIN p |-> [op |-> p[i].op, key |-> p[i].key, place |-> i]])
  /\ done' = [done EXCEPT ![c] = <<>>]
  /\ called' = [called EXCEPT ![c] = 0]
  /\ UNCHANGED <<batch_queue, io_queue, loopVars>>

\* Mutant of FinishRequest: the callback runs after every request.
FinishRequestCalls(w, c, reqs) ==
  /\ called' = [called EXCEPT ![c] = @ + 1]
  /\ IF reqs = <<>>
       THEN requests' = [requests EXCEPT ![c] = <<>>] /\ UNCHANGED <<cur_worker, handing>>
       ELSE Submit(w, c, reqs)

\* Batch::FinishRequest by worker w, reqs being what is left of the batch.
FinishRequest(w, c, reqs) ==
  IF reqs = <<>>
    THEN /\ called' = [called EXCEPT ![c] = @ + 1]
         /\ requests' = [requests EXCEPT ![c] = <<>>]
         /\ UNCHANGED <<cur_worker, handing>>
    ELSE /\ Submit(w, c, reqs)
         /\ UNCHANGED called

-----------------------------------------------------------------------------
(* A worker *)

\* Mutant of Pop: the worker pops as long as there are batches.
PopUnbounded(w, c, op) ==
  /\ handing[w] = None
  /\ phase[w] = "drain"
  /\ batch_queue[w] # <<>>
  /\ c = Head(batch_queue[w])
  /\ Head(requests[c]).op = op
  /\ batch_queue' = [batch_queue EXCEPT ![w] = Tail(@)]
  /\ cnt' = [cnt EXCEPT ![w] = @ + 1]
  /\ done' = [done EXCEPT ![c] = Append(@, <<Head(requests[c]).place, w>>)]
  /\ UNCHANGED <<phase, program>>

\* TryPop of a batch whose first request is op.
Pop(w, c, op) ==
  /\ handing[w] = None
  /\ phase[w] = "drain"
  /\ cnt[w] < MaxEvent
  /\ batch_queue[w] # <<>>
  /\ c = Head(batch_queue[w])
  /\ Head(requests[c]).op = op
  /\ batch_queue' = [batch_queue EXCEPT ![w] = Tail(@)]
  /\ cnt' = [cnt EXCEPT ![w] = @ + 1]
  /\ done' = [done EXCEPT ![c] = Append(@, <<Head(requests[c]).place, w>>)]
  /\ UNCHANGED <<phase, program>>

\* The request is answered without I/O ...
Answer(w, c) ==
  /\ Pop(w, c, "POINT")
  /\ FinishRequest(w, c, Tail(requests[c]))
  /\ UNCHANGED io_queue

\* ... or its AIO goes to the io_queue_ of the batch's worker.
IOEnqueue(w, c) ==
  /\ Pop(w, c, "POINT")
  /\ requests' = [requests EXCEPT ![c] = Tail(@)]
  /\ io_queue' = [io_queue EXCEPT ![cur_worker[c]] = Append(@, [batch |-> c, by |-> w])]
  /\ UNCHANGED <<cur_worker, handing, called>>

\* A SCAN is answered at once.  When the scan callback returns false the batch is
\* finished and deleted there and then, the loop goes on, and what the
\* FinishRequest behind the loop does with the deleted batch is anybody's guess:
\* it finds its list of requests empty and runs the callback again, or not.
DoScan(w, c) ==
  /\ Pop(w, c, "SCAN")
  /\ \E more \in ScanAnswers :
       IF more THEN FinishRequest(w, c, Tail(requests[c]))
       ELSE /\ requests' = [requests EXCEPT ![c] = <<>>]
            /\ \E again \in {0, 1} : called' = [called EXCEPT ![c] = @ + 1 + again]
            /\ UNCHANGED <<cur_worker, handing>>
  /\ UNCHANGED io_queue

\* The turn is full or the queue empty.
Drained(w) ==
  /\ handing[w] = None
  /\ phase[w] = "drain"
  /\ cnt[w] > 0
  /\ cnt[w] = MaxEvent \/ batch_queue[w] = <<>>
  /\ IF io_queue[w] = <<>>
       THEN cnt' = [cnt EXCEPT ![w] = 0] /\ UNCHANGED phase
       ELSE phase' = [phase EXCEPT ![w] = "finish"] /\ UNCHANGED cnt
  /\ UNCHANGED <<program, requests, cur_worker, handing, batch_queue, io_queue, done, called>>

\* AIO::Finish, for every AIO of the turn.
Finish(w) ==
  /\ handing[w] = None
  /\ phase[w] = "finish"
  /\ LET c == Head(io_queue[w]).batch
     IN  FinishRequest(w, c, requests[c])
  /\ io_queue' = [io_queue EXCEPT ![w] = Tail(@)]
  /\ IF Len(io_queue[w]) = 1
       THEN phase' = [phase EXCEPT ![w] = "drain"] /\ cnt' = [cnt EXCEPT ![w] = 0]
       ELSE UNCHANGED loopVars
  /\ UNCHANGED <<program, batch_queue, done>>

Main(w) ==
  \/ \E c \in Clients : Answer(w, c) \/ IOEnqueue(w, c) \/ DoScan(w, c)
  \/ Drained(w)
  \/ Finish(w)
  \/ Push(w)

Next ==
  \/ \E c \in Clients : Push(c) \/ \E p \in Programs : ClientSubmit(c, p)
  \/ \E w \in Workers : Main(w)

Spec == Init /\ [][Next]_vars

\* Threads run; ThreadsafeQueue::WaitData returns when there is a batch.
FairSpec ==
  /\ Spec
  /\ \A w \in Workers : WF_vars(Main(w))
  /\ \A c \in Clients : WF_vars(Push(c))
-----------------------------------------------------------------------------
(* Properties *)

\* What each variable holds; the AIOs of a turn fit the arrays iocbs and
\* io_events of Main_.
TypeOK ==
  /\ program \in [Clients -> Programs \cup {<<>>}]
  /\ \A c \in Clients : \A i \in DOMAIN requests[c] : Route(requests[c][i]) \in Workers
  /\ cur_worker \in [Clients -> Workers]
  /\ handing \in [Threads -> [batch : Clients, to : Workers] \cup {None}]
  /\ batch_queue \in [Workers -> Seq(Clients)]
  /\ io_queue \in [Workers -> Seq([batch : Clients, by : Workers])]
  /\ \A w \in Workers : Len(io_queue[w]) <= cnt[w]
  /\ cnt \in [Workers -> 0 .. MaxEvent]
  /\ phase \in [Workers -> {"drain", "finish"}]
  /\ called \in [Clients -> 0 .. 3]

\* Where the batch of c is.
Places(c) ==
  LET in(seq, P(_)) == {i \in DOMAIN seq : P(seq[i])}
  IN  {<<"handing", t>> : t \in {u \in Threads : handing[u] # None /\ handing[u].batch = c}}
      \cup UNION { {<<"queued", w, i>> : i \in in(batch_queue[w], LAMBDA b : b = c)}
                   \cup {<<"io", w, i>> : i \in in(io_queue[w], LAMBDA a : a.batch = c)}
                   : w \in Workers }

\* Batches have no lock: from its submission to its callback a batch is in one
\* place, so one thread at a time uses it, and in none once it is deleted.
OneOwner == \A c \in Clients : Cardinality(Places(c)) = IF called[c] = 0 THEN 1 ELSE 0

\* io_queue_ has no lock either: only its own worker adds to it, though
\* AIO::Submit finds it through Batch::cur_worker_.
IoLocal == \A w \in Workers : \A i \in DOMAIN io_queue[w] : io_queue[w][i].by = w

\* Who has to carry out a request of a program, and all that has to be done for it.
Where(r) == IF r.op = "SCAN" THEN Workers ELSE {SplitFunc[r.key]}
Everything(prog) == UNION {{<<i, w>> : w \in Where(prog[i])} : i \in DOMAIN prog}

\* When the callback has run every request was carried out once by the worker
\* that has its key, and every SCAN once by every worker, so that it saw every
\* key (kvengine_test.cc:177).
AllCarriedOut ==
  \A c \in Clients : called[c] = 1 =>
    /\ Range(done[c]) = Everything(program[c])
    /\ Len(done[c]) = Cardinality(Everything(program[c]))

\* Requests other than SCANs are carried out in the order in which the client
\* added them to its batch.
InOrder ==
  \A c \in Clients : \A i, j \in DOMAIN done[c] :
    LET isPoint(n) == program[c][done[c][n][1]].op = "POINT"
    IN  i < j /\ isPoint(i) /\ isPoint(j) => done[c][i][1] < done[c][j][1]

\* The callback of a batch runs once, also when a scan callback gives up: "buf is
\* small, operation failed." (src/dir.cc:91).
CallbackOnce == \A c \in Clients : called[c] <= 1

\* Every batch is called back.
EveryBatchAnswered == \A c \in Clients : called[c] = 0 ~> called[c] > 0
=============================================================================
