---------------------------- MODULE DcidConnect ----------------------------
(***************************************************************************)
(* The connection ids of a client's handshake, in quiche-vendor/src/lib.rs,*)
(* for a connection made by connect and for one made by connect_with_dcid, *)
(* the function this project added and its HTTP/3 probe calls.  A client   *)
(* chooses an id for its first packet, may be given another by a Retry and *)
(* a third by the server's first packet, and compares all of them with the *)
(* ones the server repeats, authenticated, in its transport parameters.    *)
(*                                                                         *)
(* The server is any that follows the protocol: it asks for a Retry never, *)
(* always or, as under load, sometimes.  Datagrams stay in the network:    *)
(* they arrive late, in any order, more than once, or never.               *)
(***************************************************************************)
EXTENDS FiniteSets

CONSTANTS
    Chosen,     \* the id the caller of connect_with_dcid passes
    Drawn,      \* the id Connection::new draws
    ServerIds   \* the ids the server may draw

ASSUME IdsAssumption == Chosen # Drawn /\ {Chosen, Drawn} \cap ServerIds = {}

Apis == {"connect", "connect_with_dcid"}
Policies == {"never", "always", "sometimes"}
Ids == {Chosen, Drawn} \cup ServerIds

VARIABLES
    api,        \* the function that made the connection
    policy,     \* when the server asks for a Retry
    conn,       \* the client's connection
    accepted,   \* the server's connections
    toServer, toClient

vars == <<api, policy, conn, accepted, toServer, toClient>>

\* An id or token that may be absent is a set of at most one element.  A
\* token holds the id of the packet it was issued for.
Conn == [stage : {"handshake", "established", "refused"},
         dcid : Ids,              \* destination_id()
         secret : Ids,            \* the id the Initial keys are derived from
         peer : SUBSET ServerIds, \* got_peer_conn_id: the server's connection
         odcid : SUBSET Ids, rscid : SUBSET Ids, token : SUBSET Ids,
         didRetry : BOOLEAN]

\* Connection::new.  An odcid passed to it is kept in the parameters a client
\* never sends and marks the connection as one that had its Retry.
DidRetryAlways(a) == TRUE
DidRetry(a) == a = "connect_with_dcid"

NewConn(a) ==
    [stage |-> "handshake", dcid |-> Drawn, secret |-> Drawn, peer |-> {},
     odcid |-> {}, rscid |-> {}, token |-> {}, didRetry |-> DidRetry(a)]

Init ==
    /\ api \in Apis
    /\ policy \in Policies
    /\ conn = NewConn(api)
    /\ accepted = {} /\ toServer = {} /\ toClient = {}

-----------------------------------------------------------------------------
\* send: the first packet, with the token of a Retry, as often as it is lost.
\* Once the server has given its id, packets go to the connection it names.
SendInitial ==
    /\ conn.stage = "handshake" /\ conn.peer = {}
    /\ toServer' = toServer \cup {[dcid |-> conn.dcid, token |-> conn.token]}
    /\ UNCHANGED <<api, policy, conn, accepted, toClient>>

\* A Retry is taken once, and when its integrity tag fits the id that packets
\* are sent to now.
RetryTakenUnverified(s, d) == ~s.didRetry
RetryTaken(s, d) == ~s.didRetry /\ d.odcid = s.dcid

RecvRetry(d) ==
    /\ d.kind = "retry"
    /\ conn.stage # "refused"
    /\ RetryTaken(conn, d)
    /\ conn' = [conn EXCEPT !.token = {d.odcid}, !.didRetry = TRUE,
                            !.odcid = {conn.dcid}, !.rscid = {d.scid},
                            !.dcid = d.scid, !.secret = d.scid, !.peer = {}]
    /\ UNCHANGED <<api, policy, accepted, toServer, toClient>>

\* The id that is remembered as the first one, unless a Retry did so.
FirstIdAnew(s) == {s.dcid}
FirstId(s) == IF s.odcid = {} THEN {s.dcid} ELSE s.odcid

\* The server's first packet: its id replaces the one packets are sent to.
RecvHello(d) ==
    /\ d.kind = "hello"
    /\ conn.stage = "handshake" /\ conn.peer = {}
    /\ d.secret = conn.secret
    /\ conn' = [conn EXCEPT !.odcid = FirstId(conn), !.dcid = d.scid,
                            !.peer = {d.scid}]
    /\ UNCHANGED <<api, policy, accepted, toServer, toClient>>

\* parse_peer_transport_params
ParamsMatch(s, p) ==
    /\ p.scid = s.dcid
    /\ s.odcid # {} => p.odcid \in s.odcid
    /\ s.rscid # {} => p.rscid = s.rscid

\* The handshake packet with the parameters, once its keys are there.
RecvParams(d) ==
    /\ d.kind = "params"
    /\ conn.stage = "handshake" /\ conn.peer = {d.scid}
    /\ conn' = [conn EXCEPT !.stage = IF ParamsMatch(conn, d) THEN "established"
                                      ELSE "refused"]
    /\ UNCHANGED <<api, policy, accepted, toServer, toClient>>

-----------------------------------------------------------------------------
Fresh == ServerIds \ {d.scid : d \in toClient}
Known(i) == \E s \in accepted : s.secret = i.dcid

\* The server asks for a Retry of a packet without a token; for the same
\* packet it gives the same id again.
ServerRetries(i) ==
    /\ policy # "never" /\ i.token = {} /\ ~Known(i)
    /\ \E r \in Fresh :
         /\ \A d \in toClient : d.kind = "retry" => d.odcid # i.dcid
         /\ toClient' = toClient \cup
                {[kind |-> "retry", odcid |-> i.dcid, scid |-> r]}
    /\ UNCHANGED <<api, policy, conn, accepted, toServer>>

\* The server accepts a packet under a new id, and repeats in its parameters
\* the ids the client is to compare.
ServerAccepts(i) ==
    /\ policy = "always" => i.token # {}
    /\ ~Known(i)
    /\ \E id \in Fresh :
         LET s == [scid |-> id, secret |-> i.dcid,
                   odcid |-> IF i.token = {} THEN i.dcid
                             ELSE CHOOSE t \in i.token : TRUE,
                   rscid |-> IF i.token = {} THEN {} ELSE {i.dcid}]
         IN  /\ accepted' = accepted \cup {s}
             /\ toClient' = toClient \cup
                  {[kind |-> "hello", scid |-> id, secret |-> s.secret],
                   [kind |-> "params", scid |-> id, odcid |-> s.odcid,
                    rscid |-> s.rscid]}
    /\ UNCHANGED <<api, policy, conn, toServer>>

-----------------------------------------------------------------------------
Next ==
    \/ SendInitial
    \/ \E d \in toClient : RecvRetry(d) \/ RecvHello(d) \/ RecvParams(d)
    \/ \E i \in toServer : ServerRetries(i) \/ ServerAccepts(i)

Spec == Init /\ [][Next]_vars

\* What is sent again and again arrives at last, and a server that asks for a
\* Retry sometimes does not do so for ever.
FairSpec ==
    /\ Spec
    /\ WF_vars(SendInitial)
    /\ SF_vars(\E d \in toClient : RecvRetry(d))
    /\ SF_vars(\E d \in toClient : RecvHello(d))
    /\ SF_vars(\E d \in toClient : RecvParams(d))
    /\ WF_vars(\E i \in toServer : ServerRetries(i))
    /\ \A id \in Ids : WF_vars(\E i \in toServer : i.dcid = id /\ ServerAccepts(i))

-----------------------------------------------------------------------------
ServerPacket ==
    [kind : {"retry"}, odcid : Ids, scid : ServerIds]
    \cup [kind : {"hello"}, scid : ServerIds, secret : Ids]
    \cup [kind : {"params"}, scid : ServerIds, odcid : Ids, rscid : SUBSET Ids]

TypeOK ==
    /\ api \in Apis /\ policy \in Policies
    /\ conn \in Conn
    /\ accepted \subseteq [scid : ServerIds, secret : Ids, odcid : Ids,
                           rscid : SUBSET Ids]
    /\ toServer \subseteq [dcid : Ids, token : SUBSET Ids]
    /\ toClient \subseteq ServerPacket

\* Whatever order the Retry, the hello and the parameters come in, a client
\* refuses no server that follows the protocol, and an established client
\* agrees with the server's connection on the first id and on the Retry.
HandshakeSound ==
    /\ conn.stage # "refused"
    /\ conn.stage = "established" =>
         \E s \in accepted :
            /\ s.scid = conn.dcid
            /\ s.odcid = Drawn
            /\ s.rscid = conn.rscid

\* A connection made by connect is established at last by every server; one
\* made by connect_with_dcid by every server that does not insist on a Retry.
Connects ==
    api = "connect" \/ policy # "always" ~> conn.stage = "established"

\* The claim of connect_with_dcid's comment: the caller specifies the id that
\* the first Initial packet carries.
CarriesChosen ==
    api = "connect_with_dcid" =>
        \A i \in toServer : i.token = {} => i.dcid = Chosen
=============================================================================
