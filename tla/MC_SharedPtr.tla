---------------------------- MODULE MC_SharedPtr ----------------------------
(* SharedPtr for TLC: two threads with two sp variables each, one container *)
(* cell, and as many objects as the configuration gives.                    *)
EXTENDS SharedPtr

CONSTANTS t1, t2, a1, a2, b1, b2, c1, d1, d2

MCHome(p) == IF p \in {a1, a2, d1} THEN t1 ELSE t2
=============================================================================
