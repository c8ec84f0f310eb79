----------------------------- MODULE MCCertLife -----------------------------
(* Instances of CertLife for TLC.                                           *)
EXTENDS CertLife

CONSTANTS w1, w2
=============================================================================
