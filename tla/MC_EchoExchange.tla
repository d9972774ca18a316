-------------------------- MODULE MC_EchoExchange --------------------------
EXTENDS EchoExchange, TLC

CONSTANTS c1, a1, a2

\* One client behind a NAT that may give it either address.
MC_AddrsOf == (c1 :> {a1, a2})
=============================================================================
