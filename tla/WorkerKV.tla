------------------------------ MODULE WorkerKV ------------------------------
(***************************************************************************)
(* A worker implements the map of module KVStore.                           *)
(*                                                                          *)
(* A request that is refused, a GET and a SCAN take effect in the step that *)
(* answers them.  So does a PUT, whose key the index gets in "finish".  An  *)
(* UPDATE or a DELETE takes effect when later reads start to see it: in     *)
(* "finish" when its page is cached, and when the iocb is carried out       *)
(* otherwise.                                                               *)
(***************************************************************************)
EXTENDS Worker

\* A frame counts once its pread is done.
Filled(p) ==
  /\ Lookup(p)
  /\ \A i \in DOMAIN io_queue :
       ~ /\ i >= pos
         /\ phase # "finish"
         /\ Request(io_queue[i]).op = "GET"
         /\ ~io_queue[i].hit
         /\ PageOf(io_queue[i].slab) = p

ItemAt(slab) == ItemIn(IF Filled(PageOf(slab)) THEN cache[PageOf(slab)] ELSE disk, slab)

ValueAt(slab) == LET item == ItemAt(slab) IN IF item = Invalid THEN Invalid ELSE item[2]

\* Writes that went to disk past the cache and whose callback is still to come.
Written(op) ==
  {i \in DOMAIN io_queue : /\ Request(io_queue[i]).op = op
                           /\ ~io_queue[i].hit
                           /\ io_queue[i].ev = "ok"
                           /\ phase = "finish" => i >= pos}

Erased == {Request(io_queue[i]).key : i \in Written("DELETE")}

storeBar == [k \in DOMAIN index \ Erased |-> ValueAt(index[k])]

outBar ==
  [c \in Clients |->
     IF \E i \in Written("UPDATE") \cup Written("DELETE") : io_queue[i].c = c
     THEN Ok ELSE <<"pending">>]

KV == INSTANCE KVStore WITH store <- storeBar, out <- outBar,
                            WriteFaults <- "write_err" \in Faults

\* Every answer is one the map could have given, each request having taken
\* effect once between its submission and its callback (the assertions of
\* test/kvengine_test.cc on what Get, Put, Update, Delete and Scan return,
\* for clients that run concurrently).
ImplementsKVStore == KV!Spec
=============================================================================
