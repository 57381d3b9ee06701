---------------------------- MODULE MC_SafeLock ----------------------------
(* SafeLock for TLC: two threads, two objects, each lock nested once.       *)
EXTENDS SafeLock
=============================================================================
