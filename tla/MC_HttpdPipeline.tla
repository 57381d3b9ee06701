------------------------- MODULE MC_HttpdPipeline -------------------------
(* Instances of HttpdPipeline for TLC: the cfg files name the clients.      *)
EXTENDS HttpdPipeline
=============================================================================
