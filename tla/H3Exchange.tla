----------------------------- MODULE H3Exchange -----------------------------
(***************************************************************************)
(* examples/http3-server.c and its clients, examples/http3-client.c, over  *)
(* a network that loses, repeats and reorders datagrams.                   *)
(***************************************************************************)
EXTENDS H3Server, H3Client

vars == <<toServer, toClient, serverVars, clientVars>>

TypeOK ==
    /\ toServer \subseteq ToServer
    /\ toClient \subseteq ToClient
    /\ ServerTypeOK
    /\ ClientTypeOK

Init == NetInit /\ ServerInit /\ ClientInit

Next ==
    \/ ServerNext /\ UNCHANGED clientVars
    \/ ClientNext /\ UNCHANGED serverVars

Spec == Init /\ [][Next]_vars
FairSpec == Spec /\ ServerFairness /\ ClientFairness

-----------------------------------------------------------------------------
\* The table only has connections for ids this server chose, in a Retry that
\* the client returned from the address it was sent to, each at most once.
Offers == {[cid |-> r.cid, addr |-> r.to, odcid |-> r.odcid] :
              r \in {d \in toClient : d.kind = "retry"}}
Table == {[cid |-> c, addr |-> conns[c].addr, odcid |-> conns[c].odcid] : c \in Live}
Admission == INSTANCE AdmissionContract WITH offers <- Offers, table <- Table
AdmissionSpec == Admission!Spec

\* A client has read to the end of a response only if the server answered on
\* that connection, and the server answers only what the client asked.
AnswersMatch ==
    /\ \A c \in Clients : cl[c].conn.fin => cl[c].conn.key \in answered
    /\ \A k \in answered :
         \E c \in Clients : cl[c].conn.key = k /\ cl[c].conn.written
=============================================================================
