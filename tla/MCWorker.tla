------------------------------ MODULE MCWorker ------------------------------
(***************************************************************************)
(* Instances of Worker and WorkerKV for TLC.                                *)
(***************************************************************************)
EXTENDS WorkerKVInv, TLC

\* Key 1 takes one cell, key 2 one, key 3 two: with slabs of one and two cells
\* keys 1 and 2 compete for the same free list and key 3 has its own.
MCItemSize == [k \in Keys |-> IF k = 3 THEN 2 ELSE 1]

MCScans == {<<1, 2>>, <<1, 4>>}

\* Pairs that may be outstanding together on one key (with a SCAN: on any).
SafeOverlap == {<<"GET", "GET">>, <<"GET", "UPDATE">>, <<"UPDATE", "UPDATE">>,
                <<"GET", "PUT">>, <<"UPDATE", "PUT">>, <<"DELETE", "PUT">>,
                <<"SCAN", "SCAN">>, <<"SCAN", "DELETE">>}

\* What makes a SCAN meet other requests, as in test/kvengine_test.cc, where
\* every thread has keys of its own and scans.
ScanWrite == {"SCAN"} \X {"PUT", "UPDATE"}

\* Clients and values are interchangeable.
Symmetry == Permutations(Clients) \cup Permutations(Values)
=============================================================================
