--------------------------- MODULE MCRequestFeed ---------------------------
(* Instances of RequestFeed for TLC; the cfg files give the bounds.         *)
EXTENDS RequestFeed
=============================================================================
