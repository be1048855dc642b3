------------------------------ MODULE MCAcked -------------------------------
(***************************************************************************)
(* Instances of WorkerAcked for TLC.                                        *)
(***************************************************************************)
EXTENDS WorkerAcked, MCWorker
=============================================================================
