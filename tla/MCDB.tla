-------------------------------- MODULE MCDB --------------------------------
(***************************************************************************)
(* Instances of DB for TLC.                                                 *)
(***************************************************************************)
EXTENDS DBInv

\* Key 1 belongs to worker 0, key 2 to worker 1, ...
MCSplit == [k \in 1 .. WorkerNum |-> k - 1]

\* Batches of one request, of several for one worker and for different ones, and
\* SCANs alone, first, last and twice.
MCPrograms == {<<Point(1)>>, <<Point(1), Point(1)>>, <<Point(2), Point(1)>>,
               <<Scan(0)>>, <<Scan(0), Point(2)>>, <<Point(1), Scan(0)>>, <<Scan(0), Scan(0)>>}
=============================================================================
