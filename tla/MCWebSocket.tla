---------------------------- MODULE MCWebSocket ----------------------------
(* Instances of WebSocket for TLC; the cfg files give the bounds.           *)
EXTENDS WebSocket
=============================================================================
