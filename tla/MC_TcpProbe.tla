----------------------------- MODULE MC_TcpProbe -----------------------------
(* Instances of TcpProbe for TLC.                                          *)
EXTENDS TcpProbe

AllServers == [genuine: BOOLEAN, hello: 1..2, reply: 1..3, plain: BOOLEAN]
==============================================================================
