-------------------------- MODULE DcidConnectProofs --------------------------
(***************************************************************************)
(* Proofs about DcidConnect, for all sets of ids.  DcidInv says which of   *)
(* the three ids of a handshake is where: in the packets, in the server's  *)
(* connections, and at each point of the client's handshake.               *)
(***************************************************************************)
EXTENDS DcidConnect, TLAPS

PacketsInv ==
    /\ \A i \in toServer :
         \/ i.token = {} /\ i.dcid = Drawn
         \/ i.token = {Drawn} /\ i.dcid \in ServerIds
    /\ \A d \in toClient :
         /\ d.kind = "retry" => d.odcid = Drawn
         /\ d.kind = "hello" =>
              \E s \in accepted : s.scid = d.scid /\ s.secret = d.secret
         /\ d.kind = "params" =>
              \E s \in accepted :
                 s.scid = d.scid /\ s.odcid = d.odcid /\ s.rscid = d.rscid

AcceptedInv ==
    /\ \A s \in accepted :
         /\ s.odcid = Drawn
         /\ s.secret = Drawn => s.rscid = {}
         /\ s.secret # Drawn => s.rscid = {s.secret}
         /\ \E d \in toClient : d.scid = s.scid
    /\ \A s, t \in accepted : s.scid = t.scid => s = t

\* The client before and after a Retry, before and after the server's id.
Plain(k) ==
    /\ k.rscid = {} /\ k.token = {} /\ k.secret = Drawn
    /\ k.peer = {} => k.dcid = Drawn /\ k.odcid = {}
Retried(k) ==
    /\ k.secret \in ServerIds
    /\ k.rscid = {k.secret} /\ k.token = {Drawn} /\ k.odcid = {Drawn}
    /\ k.peer = {} => k.dcid = k.secret
Met(k) ==
    /\ k.peer = {k.dcid}
    /\ k.odcid = {Drawn}
    /\ \E s \in accepted : s.scid = k.dcid /\ s.secret = k.secret

ClientInv ==
    /\ Plain(conn) \/ Retried(conn)
    /\ conn.peer # {} => Met(conn)
    /\ conn.stage # "refused"
    /\ conn.stage = "established" => conn.peer # {}

DcidInv == TypeOK /\ PacketsInv /\ AcceptedInv /\ ClientInv

LEMMA InitInv == Init => DcidInv
  <1> SUFFICES ASSUME Init PROVE DcidInv
    OBVIOUS
  <1>1. conn \in Conn
    BY DEF Init, NewConn, Conn, DidRetry, Ids
  <1>2. TypeOK
    BY <1>1 DEF Init, TypeOK
  <1>3. PacketsInv /\ AcceptedInv
    BY DEF Init, PacketsInv, AcceptedInv
  <1>4. ClientInv
    BY DEF Init, NewConn, ClientInv, Plain
  <1> QED BY <1>2, <1>3, <1>4 DEF DcidInv

LEMMA SendKeeps == DcidInv /\ SendInitial => DcidInv'
  <1> SUFFICES ASSUME DcidInv, SendInitial PROVE DcidInv'
    OBVIOUS
  <1> USE DEF DcidInv
  <1>1. TypeOK'
    BY DEF TypeOK, SendInitial, Conn
  <1>2. \/ conn.token = {} /\ conn.dcid = Drawn
        \/ conn.token = {Drawn} /\ conn.dcid \in ServerIds
    BY DEF SendInitial, ClientInv, Plain, Retried
  <1>3. PacketsInv'
    BY <1>2 DEF PacketsInv, SendInitial
  <1>4. AcceptedInv' /\ ClientInv'
    BY DEF AcceptedInv, ClientInv, Plain, Retried, Met, SendInitial
  <1> QED BY <1>1, <1>3, <1>4

LEMMA RetryKeeps ==
  ASSUME DcidInv, NEW d \in toClient, RecvRetry(d)
  PROVE  DcidInv'
  <1> USE DEF DcidInv
  <1>1. d.odcid = Drawn /\ d.odcid = conn.dcid /\ d.scid \in ServerIds
    BY DEF RecvRetry, RetryTaken, PacketsInv, TypeOK, ServerPacket
  <1>2. conn.peer = {}
    <2> SUFFICES ASSUME conn.peer # {} PROVE FALSE
      OBVIOUS
    <2>1. conn.dcid \in ServerIds
      BY DEF ClientInv, Met, TypeOK, Conn
    <2> QED BY <2>1, <1>1, IdsAssumption
  <1>3. conn' \in Conn
    BY <1>1 DEF RecvRetry, TypeOK, Conn, Ids
  <1>4. TypeOK'
    BY <1>3 DEF RecvRetry, TypeOK
  <1>5. Retried(conn') /\ conn'.peer = {} /\ conn'.stage = conn.stage
    BY <1>1 DEF RecvRetry, Retried, TypeOK, Conn
  <1>6. ClientInv'
    BY <1>2, <1>5 DEF ClientInv, Retried
  <1>7. PacketsInv' /\ AcceptedInv'
    BY DEF PacketsInv, AcceptedInv, RecvRetry
  <1> QED BY <1>4, <1>6, <1>7

LEMMA HelloKeeps ==
  ASSUME DcidInv, NEW d \in toClient, RecvHello(d)
  PROVE  DcidInv'
  <1> USE DEF DcidInv
  <1>1. d.scid \in ServerIds
    BY DEF RecvHello, TypeOK, ServerPacket
  <1>2. FirstId(conn) = {Drawn}
    BY DEF RecvHello, FirstId, ClientInv, Plain, Retried
  <1>3. conn' = [conn EXCEPT !.odcid = {Drawn}, !.dcid = d.scid, !.peer = {d.scid}]
    BY <1>2 DEF RecvHello
  <1>4. conn' \in Conn
    BY <1>1, <1>3 DEF TypeOK, Conn, Ids
  <1>5. TypeOK'
    BY <1>4 DEF RecvHello, TypeOK
  <1>6. \E s \in accepted : s.scid = d.scid /\ s.secret = conn.secret
    BY DEF RecvHello, PacketsInv
  <1>7. Met(conn)'
    BY <1>3, <1>4, <1>6 DEF Met, RecvHello, TypeOK, Conn
  <1>8. (Plain(conn) \/ Retried(conn))' /\ conn'.stage = "handshake" /\ conn'.peer # {}
    BY <1>3 DEF ClientInv, Plain, Retried, RecvHello, TypeOK, Conn
  <1>9. ClientInv'
    BY <1>7, <1>8 DEF ClientInv
  <1>10. PacketsInv' /\ AcceptedInv'
    BY DEF PacketsInv, AcceptedInv, RecvHello
  <1> QED BY <1>5, <1>9, <1>10

LEMMA ParamsKeep ==
  ASSUME DcidInv, NEW d \in toClient, RecvParams(d)
  PROVE  DcidInv'
  <1> USE DEF DcidInv
  <1>1. Met(conn) /\ conn.dcid = d.scid
    BY DEF RecvParams, ClientInv, Met
  <1>2. PICK s \in accepted :
           s.scid = d.scid /\ s.odcid = d.odcid /\ s.rscid = d.rscid
    BY DEF RecvParams, PacketsInv
  <1>3. s.secret = conn.secret
    BY <1>1, <1>2 DEF Met, AcceptedInv
  <1>4. d.odcid = Drawn /\ d.scid = conn.dcid
    BY <1>1, <1>2 DEF AcceptedInv
  <1>5. d.rscid = conn.rscid
    BY <1>2, <1>3, IdsAssumption DEF AcceptedInv, ClientInv, Plain, Retried
  <1>6. ParamsMatch(conn, d)
    BY <1>1, <1>4, <1>5 DEF ParamsMatch, Met
  <1>7. conn' = [conn EXCEPT !.stage = "established"]
    BY <1>6 DEF RecvParams
  <1>8. TypeOK'
    BY <1>7 DEF RecvParams, TypeOK, Conn
  <1>9. ClientInv'
    BY <1>1, <1>7 DEF ClientInv, Plain, Retried, Met, RecvParams, TypeOK, Conn
  <1>10. PacketsInv' /\ AcceptedInv'
    BY DEF PacketsInv, AcceptedInv, RecvParams
  <1> QED BY <1>8, <1>9, <1>10

LEMMA ServerRetryKeeps ==
  ASSUME DcidInv, NEW i \in toServer, ServerRetries(i)
  PROVE  DcidInv'
  <1> USE DEF DcidInv
  <1>1. i.token = {} /\ i.dcid = Drawn
    BY DEF ServerRetries, PacketsInv
  <1>2. PICK r \in ServerIds : toClient' = toClient \cup
             {[kind |-> "retry", odcid |-> Drawn, scid |-> r]}
    BY <1>1 DEF ServerRetries, Fresh
  <1>3. TypeOK'
    BY <1>2 DEF ServerRetries, TypeOK, ServerPacket, Ids
  <1>4. PacketsInv'
    BY <1>2 DEF ServerRetries, PacketsInv
  <1>5. AcceptedInv'
    BY <1>2 DEF ServerRetries, AcceptedInv
  <1>6. ClientInv'
    BY DEF ServerRetries, ClientInv, Plain, Retried, Met
  <1> QED BY <1>3, <1>4, <1>5, <1>6

LEMMA AcceptKeeps ==
  ASSUME DcidInv, NEW i \in toServer, ServerAccepts(i)
  PROVE  DcidInv'
  <1> USE DEF DcidInv
  <1> DEFINE S(id) == [scid |-> id, secret |-> i.dcid,
                       odcid |-> IF i.token = {} THEN i.dcid
                                 ELSE CHOOSE t \in i.token : TRUE,
                       rscid |-> IF i.token = {} THEN {} ELSE {i.dcid}]
             H(id) == [kind |-> "hello", scid |-> id, secret |-> S(id).secret]
             P(id) == [kind |-> "params", scid |-> id, odcid |-> S(id).odcid,
                       rscid |-> S(id).rscid]
  <1>1. PICK id \in Fresh :
           /\ accepted' = accepted \cup {S(id)}
           /\ toClient' = toClient \cup {H(id), P(id)}
    BY DEF ServerAccepts
  <1>2. \/ i.token = {} /\ i.dcid = Drawn
        \/ i.token = {Drawn} /\ i.dcid \in ServerIds /\ i.dcid # Drawn
    <2>1. i.token = {Drawn} /\ i.dcid \in ServerIds => i.dcid # Drawn
      BY IdsAssumption
    <2> QED BY <2>1 DEF PacketsInv
  <1>3. /\ S(id).odcid = Drawn
        /\ S(id).secret = Drawn => S(id).rscid = {}
        /\ S(id).secret # Drawn => S(id).rscid = {S(id).secret}
        /\ S(id).scid = id
    BY <1>2
  <1>4. id \in ServerIds /\ i.dcid \in Ids /\ S(id).rscid \subseteq Ids
    BY <1>2 DEF Fresh, Ids
  <1>5. S(id) \in [scid : ServerIds, secret : Ids, odcid : Ids, rscid : SUBSET Ids]
    BY <1>3, <1>4 DEF Ids
  <1>6. H(id) \in ServerPacket /\ P(id) \in ServerPacket
    BY <1>3, <1>4 DEF ServerPacket, Ids
  <1>7. TypeOK'
    BY <1>1, <1>5, <1>6 DEF ServerAccepts, TypeOK
  <1> HIDE DEF S
  <1>8. H(id).kind = "hello" /\ H(id).scid = id /\ H(id).secret = S(id).secret
    OBVIOUS
  <1>9. /\ P(id).kind = "params" /\ P(id).scid = id
        /\ P(id).odcid = S(id).odcid /\ P(id).rscid = S(id).rscid
    OBVIOUS
  <1> HIDE DEF H, P
  <1>10. PacketsInv'
    BY <1>1, <1>3, <1>8, <1>9 DEF PacketsInv, ServerAccepts
  <1>11. \A s \in accepted : s.scid # id
    BY DEF AcceptedInv, Fresh
  <1>12. AcceptedInv'
    BY <1>1, <1>3, <1>8, <1>11 DEF AcceptedInv
  <1>13. ClientInv'
    BY <1>1 DEF ServerAccepts, ClientInv, Plain, Retried, Met
  <1> QED BY <1>7, <1>10, <1>12, <1>13

LEMMA StepKeeps == DcidInv /\ [Next]_vars => DcidInv'
  <1> SUFFICES ASSUME DcidInv, [Next]_vars PROVE DcidInv'
    OBVIOUS
  <1>1. CASE SendInitial
    BY <1>1, SendKeeps
  <1>2. CASE \E d \in toClient : RecvRetry(d) \/ RecvHello(d) \/ RecvParams(d)
    BY <1>2, RetryKeeps, HelloKeeps, ParamsKeep
  <1>3. CASE \E i \in toServer : ServerRetries(i) \/ ServerAccepts(i)
    BY <1>3, ServerRetryKeeps, AcceptKeeps
  <1>4. CASE UNCHANGED vars
    BY <1>4 DEF vars, DcidInv, TypeOK, PacketsInv, AcceptedInv, ClientInv,
                Plain, Retried, Met
  <1> QED BY <1>1, <1>2, <1>3, <1>4 DEF Next

LEMMA DcidInvHolds == Spec => []DcidInv
  BY InitInv, StepKeeps, PTL DEF Spec

\* The types hold in every reachable state.
THEOREM TypeCorrect == Spec => []TypeOK
  <1>1. DcidInv => TypeOK
    BY DEF DcidInv
  <1> QED BY <1>1, DcidInvHolds, PTL

\* Whatever the order of a Retry, a hello and its parameters, the client
\* refuses no server that follows the protocol, and once established it agrees
\* with the server on the first id and on the Retry.
THEOREM HandshakesSound == Spec => []HandshakeSound
  <1>1. DcidInv => HandshakeSound
    <2> SUFFICES ASSUME DcidInv PROVE HandshakeSound
      OBVIOUS
    <2> USE DEF DcidInv
    <2>1. conn.stage # "refused"
      BY DEF ClientInv
    <2>2. ASSUME conn.stage = "established"
          PROVE  \E s \in accepted : /\ s.scid = conn.dcid
                                     /\ s.odcid = Drawn
                                     /\ s.rscid = conn.rscid
      <3>1. PICK s \in accepted : s.scid = conn.dcid /\ s.secret = conn.secret
        BY <2>2 DEF ClientInv, Met
      <3>2. s.odcid = Drawn /\ s.rscid = conn.rscid
        BY <3>1, IdsAssumption DEF AcceptedInv, ClientInv, Plain, Retried
      <3> QED BY <3>1, <3>2
    <2> QED BY <2>1, <2>2 DEF HandshakeSound
  <1> QED BY <1>1, DcidInvHolds, PTL
=============================================================================
