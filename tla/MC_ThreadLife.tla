--------------------------- MODULE MC_ThreadLife ---------------------------
(* ThreadLife for TLC: one thread object that is started up to three times,  *)
(* or two objects that are started once; m_bJoin of t2 begins as garbage.    *)
EXTENDS ThreadLife, TLC

CONSTANTS t1, t2

MCStarts == {t1 :> 3 @@ t2 :> 0, t1 :> 1 @@ t2 :> 1}
=============================================================================
