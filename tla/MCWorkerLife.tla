---------------------------- MODULE MCWorkerLife ----------------------------
(* Instances of WorkerLife for TLC; the cfg files give the bounds.          *)
EXTENDS WorkerLife
=============================================================================
