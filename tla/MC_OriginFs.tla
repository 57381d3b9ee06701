----------------------------- MODULE MC_OriginFs -----------------------------
\* Two connections over the same list of origins.
EXTENDS OriginFs
=============================================================================
