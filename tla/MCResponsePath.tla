-------------------------- MODULE MCResponsePath --------------------------
(* Instances of ResponsePath for TLC; the cfg files give the bounds.       *)
EXTENDS ResponsePath
=============================================================================
