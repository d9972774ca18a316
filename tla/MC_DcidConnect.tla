--------------------------- MODULE MC_DcidConnect ---------------------------
(* Instance of DcidConnect for TLC.                                        *)
EXTENDS DcidConnect

CONSTANTS chosen, drawn, s1, s2, s3
=============================================================================
