--------------------------- MODULE MC_MonHistory ---------------------------
(* Two levels, 1 and 2 seconds, two rows each, as TLC checks them.         *)
EXTENDS MonHistory
MCSeconds == 0 :> 1 @@ 1 :> 2
=============================================================================
