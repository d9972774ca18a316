--------------------------- MODULE ProbeContract ---------------------------
(***************************************************************************)
(* What the pipeline is promised by a probe of one address: one verdict,   *)
(* which is "usable" only for a server that qualifies.                     *)
(***************************************************************************)
CONSTANTS Servers,       \* the servers an address may lead to
          Qualifies(_)   \* those the user wants in the list

VARIABLES server, verdict

Init == server \in Servers /\ verdict = "none"

Judge ==
  /\ verdict = "none"
  /\ \/ Qualifies(server) /\ verdict' = "usable"
     \/ verdict' = "unusable"
  /\ UNCHANGED server

Spec == Init /\ [][Judge]_<<server, verdict>>
=============================================================================
