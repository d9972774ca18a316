-------------------------- MODULE AdmissionContract --------------------------
(***************************************************************************)
(* What a server that validates addresses promises, whatever it speaks on  *)
(* its connections: it offers an id of its own to an address that wants a  *)
(* connection, each id once; it has a connection only for an offer that    *)
(* was returned from the address it was made to; it has at most one        *)
(* connection per offer.                                                   *)
(***************************************************************************)
VARIABLES
    offers,     \* the offers made: id, address, id the client began with
    table       \* the offers a connection exists for

Init == offers = {} /\ table = {}

Offer(o) ==
    /\ \A p \in offers : p.cid # o.cid
    /\ offers' = offers \cup {o}
    /\ UNCHANGED table

Admit(o) ==
    /\ o \in offers
    /\ \A p \in table : p.cid # o.cid
    /\ table' = table \cup {o}
    /\ UNCHANGED offers

Release ==
    /\ table' \subseteq table
    /\ UNCHANGED offers

Next ==
    \/ Release
    \/ \E o \in offers' : Offer(o) \/ Admit(o)

Spec == Init /\ [][Next]_<<offers, table>>
=============================================================================
