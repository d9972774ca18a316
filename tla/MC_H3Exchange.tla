--------------------------- MODULE MC_H3Exchange ---------------------------
EXTENDS H3Exchange, TLC

CONSTANTS c1, a1, a2

MC_AddrsOf == (c1 :> {a1, a2})
=============================================================================
