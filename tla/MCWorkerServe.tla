--------------------------- MODULE MCWorkerServe ---------------------------
(* Instances of WorkerServe for TLC.                                        *)
EXTENDS WorkerServe, TLC

CONSTANTS l1, l2, c1, c2, r1, r2, r3

OnePort  == c1 :> l1 @@ c2 :> l1
TwoPorts == c1 :> l1 @@ c2 :> l2
SolePort == c1 :> l1
TlsPort  == c1 :> l2 @@ c2 :> l2
ReqSymmetry == Permutations(Reqs)
=============================================================================
