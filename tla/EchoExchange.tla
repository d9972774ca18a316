---------------------------- MODULE EchoExchange ----------------------------
(***************************************************************************)
(* examples/server.c and its clients, examples/client.c, over a network    *)
(* that loses, repeats and reorders datagrams.                             *)
(***************************************************************************)
EXTENDS EchoServer, EchoClient

vars == <<toServer, toClient, serverVars, clientVars>>

TypeOK ==
    /\ toServer \subseteq ToServer
    /\ toClient \subseteq ToClient
    /\ ServerTypeOK
    /\ ClientTypeOK

Init == NetInit /\ ServerInit /\ ClientInit

Next ==
    \/ ServerNext /\ UNCHANGED clientVars
    \/ ClientNext /\ UNCHANGED serverVars

Spec == Init /\ [][Next]_vars

-----------------------------------------------------------------------------
\* The table only has connections for ids this server chose, in a Retry that
\* the client returned from the address it was sent to, each at most once.
Offers == {[cid |-> r.cid, addr |-> r.to, odcid |-> r.odcid] :
              r \in {d \in toClient : d.kind = "retry"}}
Table == {[cid |-> c, addr |-> conns[c].addr, odcid |-> conns[c].odcid] : c \in Live}
Admission == INSTANCE AdmissionContract WITH offers <- Offers, table <- Table
AdmissionSpec == Admission!Spec

\* However often its Initials and the Retries to them are repeated, a client
\* has one connection at a time.
OnePerClient ==
    \A c1, c2 \in Live : conns[c1].odcid = conns[c2].odcid => c1 = c2

\* The ids a server puts in its transport parameters are the ones the client
\* compares them with: no client refuses the handshake.
HandshakeAccepted ==
    \A c \in Clients :
        cl[c].conn.stage \in {"closing", "draining"} => cl[c].conn.key # 0

\* The two ends agree on the connection they have: the keys of an
\* established client are those of a connection the server made for it,
\* under the id the client writes to.
EndsAgree ==
    \A c \in Clients :
        LET s == cl[c].conn
        IN  s.key # 0 =>
              /\ s.key <= Len(accepted)
              /\ accepted[s.key].cid = s.dcid
              /\ accepted[s.key].odcid = c
              /\ accepted[s.key].addr \in AddrsOf[c]

\* A client has read to the end of a response only if the server answered on
\* that connection, and the server answers only what the client asked.
AnswersMatch ==
    /\ \A c \in Clients : cl[c].conn.fin => cl[c].conn.key \in answered
    /\ \A k \in answered :
         \E c \in Clients : cl[c].conn.key = k /\ cl[c].conn.written
=============================================================================
