------------------------- MODULE EchoExchangeProofs -------------------------
(***************************************************************************)
(* Proofs about examples/server.c and examples/client.c: type correctness, *)
(* the timers of the server, and the admission of clients.                 *)
(***************************************************************************)
EXTENDS EchoExchange, TLAPS

-----------------------------------------------------------------------------
(* What the library's operations return, for the proofs about the programs *)
(* that call them, as in H3ExchangeProofs.                                 *)

USE DEF ServerConn, ClientConn

\* Receiving a datagram leaves a connection of a server a connection, with
\* the identity it was accepted under.
LEMMA ServerRecvType ==
    ASSUME NEW k \in ServerConn, NEW d \in ToServer
    PROVE  /\ ServerRecv(k, d) \in ServerConn
           /\ ServerRecv(k, d).addr = k.addr
           /\ ServerRecv(k, d).odcid = k.odcid
           /\ ServerRecv(k, d).key = k.key
  <1>1. PhaseAfter[d.kind] \in {"handshake", "established", "draining"}
    BY DEF PhaseAfter, ToServer
  <1>2. QED  BY <1>1 DEF ServerRecv

\* A request is on a connection only when the client's datagram brought it,
\* protected with the connection's keys.
LEMMA ServerRecvRequest ==
    ASSUME NEW k \in ServerConn, NEW d \in ToServer
    PROVE  LET n == ServerRecv(k, d)
           IN  \/ n.request = k.request
               \/ /\ n.request = "arrived"
                  /\ d.kind = "request" /\ d.key = k.key
  <1>1. PhaseAfter[d.kind] \in {"handshake", "established", "draining"}
    BY DEF PhaseAfter, ToServer
  <1>2. QED  BY <1>1 DEF ServerRecv, Opens

\* A connection that never received anything is one nevertheless.
LEMMA NewServerConnType ==
    ASSUME NEW a \in Addrs, NEW o \in Cids, NEW n \in 1..MaxConns
    PROVE  NewServerConn(a, o, n) \in ServerConn
  BY DEF NewServerConn

\* What a server's connection sends is its part of the handshake or the
\* answer to the request, with its identity.
LEMMA ServerSendsType ==
    ASSUME NEW k \in ServerConn, NEW c \in Cids, NEW m \in ServerSends(c, k)
    PROVE  /\ m \in ToClient
           /\ \/ m = Hello(k.addr, k.odcid, c, k.key) /\ m.kind = "hello"
              \/ m = Answer(k.addr, k.key) /\ k.request = "answered" /\ m.kind = "answer"
  BY DEF ServerSends, ToClient, Hello, Answer

LEMMA ServerTimeoutsType ==
    ASSUME NEW k \in ServerConn, NEW n \in ServerTimeouts(k)
    PROVE  /\ n \in ServerConn
           /\ n.addr = k.addr /\ n.odcid = k.odcid /\ n.key = k.key
           /\ n.request = k.request
  BY DEF ServerTimeouts

LEMMA NewClientConnType ==
    ASSUME NEW c \in Clients
    PROVE  NewClientConn(c) \in ClientConn
  <1>1. 0 \in 0..MaxConns
    BY QuicConnAssumption
  <1>2. QED  BY <1>1 DEF NewClientConn, Cids

LEMMA ClientRecvType ==
    ASSUME NEW c \in Clients, NEW s \in ClientConn, NEW d \in ToClient
    PROVE  ClientRecv(c, s, d) \in ClientConn
  <1>1. CASE d.kind = "vneg"
    BY <1>1 DEF ClientRecv
  <1>2. CASE d.kind = "retry"
    <2>1. d.cid \in Cids /\ d.token \in SUBSET Token
      BY <1>2 DEF ToClient, Cids
    <2>2. QED  BY <1>2, <2>1 DEF ClientRecv
  <1>3. CASE d.kind = "hello"
    <2>1. d.key \in 0..MaxConns
      BY <1>3, QuicConnAssumption DEF ToClient
    <2>2. 0 \in 0..MaxConns
      BY QuicConnAssumption
    <2>3. QED  BY <1>3, <2>1, <2>2 DEF ClientRecv
  <1>4. CASE d.kind = "answer"
    BY <1>4 DEF ClientRecv
  <1>5. QED  BY <1>1, <1>2, <1>3, <1>4 DEF ToClient

\* What a client sends says who it is and carries its token, its id and its
\* keys as they are now.
LEMMA ClientSendsType ==
    ASSUME NEW c \in Clients, NEW s \in ClientConn, NEW m \in ClientSends(c, s)
    PROVE  /\ m \in ToServer
           /\ m.from = c
           /\ m.token # {} => m.token = s.token /\ m.dcid = s.dcid
           /\ m.kind = "request" =>
                /\ s.written /\ m.key = s.key
                /\ s.stage = "established"
  <1>1. 0 \in 0..MaxConns
    BY QuicConnAssumption
  <1>2. QED
    BY <1>1 DEF ClientSends, ToServer, Initial, Finish, Short

LEMMA ClientTimeoutsType ==
    ASSUME NEW s \in ClientConn, NEW n \in ClientTimeouts(s)
    PROVE  /\ n \in ClientConn
           /\ n.dcid = s.dcid /\ n.token = s.token /\ n.key = s.key
           /\ n.written = s.written /\ n.fin = s.fin
           /\ n.stage \in {s.stage, "closed"}
  BY DEF ClientTimeouts

LEMMA ClientCloseType ==
    ASSUME NEW s \in ClientConn
    PROVE  /\ ClientClose(s) \in ClientConn
           /\ ClientClose(s).dcid = s.dcid /\ ClientClose(s).token = s.token
           /\ ClientClose(s).key = s.key
           /\ ClientClose(s).written = s.written /\ ClientClose(s).fin = s.fin
           /\ \/ ClientClose(s).stage = s.stage
              \/ s.stage = "established" /\ ClientClose(s).stage = "closing"
  BY DEF ClientClose

HIDE DEF ServerConn, ClientConn

Entry == [cid : Cids, addr : Addrs, odcid : Cids]

-----------------------------------------------------------------------------
\* What flush_egress leaves of a connection.
LEMMA FlushedType ==
    ASSUME NEW ks, NEW c \in DOMAIN ks, ks[c] \in ServerConn,
           NEW failed, NEW left, NEW late
    PROVE  LET n == FlushEgress(ks, failed, left, late)[c]
               k == ks[c]
           IN  /\ n \in ServerConn
               /\ n.addr = k.addr /\ n.odcid = k.odcid /\ n.key = k.key
               /\ n.request = k.request /\ n.phase = k.phase
  <1> DEFINE k == ks[c]
             n == FlushEgress(ks, failed, left, late)[c]
  <1>1. n = Flushed(k, c \in failed, c \in left, c \in late)
    BY DEF FlushEgress
  <1>2. CASE c \in failed
    <2> DEFINE l == c \in left
    <2>1. n = [k EXCEPT !.out = l]
      BY <1>1, <1>2 DEF Flushed
    <2>2. l \in BOOLEAN
      OBVIOUS
    <2> HIDE DEF l
    <2>3. QED  BY <2>1, <2>2 DEF ServerConn
  <1>3. CASE c \notin failed
    <2>1. n = [k EXCEPT !.out = FALSE, !.overdue = Overdue(k, c \in late)]
      BY <1>1, <1>3 DEF Flushed
    <2>2. Overdue(k, c \in late) \in BOOLEAN
      BY DEF Overdue
    <2>3. QED  BY <2>1, <2>2 DEF ServerConn
  <1>4. QED  BY <1>2, <1>3

\* What the application makes of a connection that received something.
LEMMA EchoStreamsType ==
    ASSUME NEW k \in ServerConn, NEW n \in EchoStreams(k)
    PROVE  /\ n \in ServerConn
           /\ n.addr = k.addr /\ n.odcid = k.odcid /\ n.key = k.key
           /\ \/ n.request = k.request
              \/ k.request = "arrived" /\ n.request \in {"answered", "dropped"}
  BY DEF EchoStreams, ServerConn

LEMMA TypeInit == Init => TypeOK
  <1> SUFFICES ASSUME Init PROVE TypeOK
    OBVIOUS
  <1> USE DEF Init, NetInit, ServerInit, ClientInit
  <1>1. ServerTypeOK
    BY QuicConnAssumption DEF ServerTypeOK, Live
  <1>2. ClientTypeOK
    BY NewClientConnType DEF ClientTypeOK, Client
  <1>3. QED  BY <1>1, <1>2 DEF TypeOK

-----------------------------------------------------------------------------
\* A step of the server that offers, creates and reads nothing: connections
\* may leave the table and send what they have to send.
Speaks(m) ==
    \/ m.kind = "vneg"
    \/ \E x \in Live :
         \/ m = Hello(conns[x].addr, conns[x].odcid, x, conns[x].key)
         \/ m = Answer(conns[x].addr, conns[x].key) /\ conns[x].request = "answered"

Settles ==
    /\ UNCHANGED <<opened, accepted, answered, toServer>>
    /\ \A x \in Live' :
         /\ x \in Live
         /\ conns'[x].addr = conns[x].addr /\ conns'[x].odcid = conns[x].odcid
         /\ conns'[x].key = conns[x].key /\ conns'[x].request = conns[x].request
    /\ toClient \subseteq toClient'
    /\ \A m \in toClient' : m \in toClient \/ Speaks(m)

\* The flush loop leaves connections and timers of the table's ids only.
LEMMA FlushLoopType ==
    ASSUME TypeOK, FlushLoop
    PROVE  toClient' \subseteq ToClient /\ ServerTypeOK' /\ NoStaleTimer' /\ Settles
  <1> USE DEF TypeOK, ServerTypeOK, Live
  <1>1. PICK failed \in SUBSET MayFail(conns) :
          \E left \in SUBSET failed, late \in SUBSET (MayBeLate(conns) \ failed) :
             LET ks == FlushEgress(conns, failed, left, late)
             IN  /\ conns' = [c \in {x \in Live : Stays(ks[x])} |-> ks[c]]
                 /\ armed' = Timers(ks, failed)
                 /\ missed' = {c \in failed : Stays(ks[c])} \ armed'
                 /\ toClient' = toClient
                      \cup UNION {ServerSends(c, conns[c]) : c \in Live \ failed}
    BY DEF FlushLoop
  <1>2. PICK left \in SUBSET failed, late \in SUBSET (MayBeLate(conns) \ failed) :
             LET ks == FlushEgress(conns, failed, left, late)
             IN  /\ conns' = [c \in {x \in Live : Stays(ks[x])} |-> ks[c]]
                 /\ armed' = Timers(ks, failed)
                 /\ missed' = {c \in failed : Stays(ks[c])} \ armed'
                 /\ toClient' = toClient
                      \cup UNION {ServerSends(c, conns[c]) : c \in Live \ failed}
    BY <1>1
  <1> DEFINE ks == FlushEgress(conns, failed, left, late)
  <1>3. \A c \in Live :
          /\ ks[c] \in ServerConn
          /\ ks[c].addr = conns[c].addr /\ ks[c].odcid = conns[c].odcid
          /\ ks[c].key = conns[c].key /\ ks[c].request = conns[c].request
    <2> SUFFICES ASSUME NEW c \in Live
                 PROVE  /\ ks[c] \in ServerConn
                        /\ ks[c].addr = conns[c].addr /\ ks[c].odcid = conns[c].odcid
                        /\ ks[c].key = conns[c].key /\ ks[c].request = conns[c].request
      OBVIOUS
    <2>1. c \in DOMAIN conns /\ conns[c] \in ServerConn
      OBVIOUS
    <2>2. QED  BY <2>1, FlushedType
  <1>4. failed \subseteq Live /\ DOMAIN ks = Live
    BY DEF MayFail, FlushEgress
  <1> HIDE DEF ks
  <1>5. conns' \in [Live' -> ServerConn] /\ Live' \subseteq Cids
    BY <1>2, <1>3 DEF ks
  <1>6. armed' \subseteq Cids /\ missed' \subseteq Cids /\ armed' \subseteq Live'
    BY <1>2, <1>4 DEF Timers, ks
  <1>7. \A m \in toClient' : m \in toClient \/ (m \in ToClient /\ Speaks(m))
    <2>1. ASSUME NEW c \in Live, NEW m \in ServerSends(c, conns[c])
          PROVE  m \in ToClient /\ Speaks(m)
      BY <2>1, ServerSendsType DEF Speaks
    <2>2. toClient' = toClient
            \cup UNION {ServerSends(c, conns[c]) : c \in Live \ failed}
      BY <1>2
    <2>3. ASSUME NEW m \in toClient', m \notin toClient
          PROVE  \E c \in Live : m \in ServerSends(c, conns[c])
      BY <2>2, <2>3
    <2>4. QED  BY <2>1, <2>3
  <1>8. \A x \in Live' : x \in Live /\ conns'[x] = ks[x]
    BY <1>2 DEF ks
  <1>9. toClient \subseteq toClient'
    BY <1>2
  <1>10. Settles
    BY <1>3, <1>7, <1>8, <1>9 DEF Settles, FlushLoop
  <1>11. QED  BY <1>5, <1>6, <1>7, <1>10 DEF FlushLoop, NoStaleTimer

LEMMA TimeoutCbType ==
    ASSUME TypeOK, NoStaleTimer,
           NEW c \in armed, NEW k \in ServerTimeouts(conns[c]), TimeoutCb(c, k)
    PROVE  toClient' \subseteq ToClient /\ ServerTypeOK' /\ NoStaleTimer' /\ Settles
  <1> USE DEF TypeOK, ServerTypeOK, Live
  <1>1. /\ c \in Live /\ k \in ServerConn
        /\ k.addr = conns[c].addr /\ k.odcid = conns[c].odcid
        /\ k.key = conns[c].key /\ k.request = conns[c].request
    BY ServerTimeoutsType DEF NoStaleTimer
  <1> DEFINE one == [x \in {c} |-> k]
  <1>2. PICK failed \in SUBSET MayFail(one) :
          \E left \in SUBSET failed, late \in SUBSET (MayBeLate(one) \ failed) :
             LET after == FlushEgress(one, failed, left, late)[c]
             IN  /\ conns' = IF Stays(k) THEN [conns EXCEPT ![c] = after]
                             ELSE [x \in Live \ {c} |-> conns[x]]
                 /\ armed' = (armed \ {c}) \cup Timers([x \in {c} |-> after], failed)
                 /\ toClient' = IF failed = {}
                                THEN toClient \cup ServerSends(c, k)
                                ELSE toClient
    BY DEF TimeoutCb
  <1>3. PICK left \in SUBSET failed, late \in SUBSET (MayBeLate(one) \ failed) :
             LET after == FlushEgress(one, failed, left, late)[c]
             IN  /\ conns' = IF Stays(k) THEN [conns EXCEPT ![c] = after]
                             ELSE [x \in Live \ {c} |-> conns[x]]
                 /\ armed' = (armed \ {c}) \cup Timers([x \in {c} |-> after], failed)
                 /\ toClient' = IF failed = {}
                                THEN toClient \cup ServerSends(c, k)
                                ELSE toClient
    BY <1>2
  <1> DEFINE after == FlushEgress(one, failed, left, late)[c]
  <1>4. /\ after \in ServerConn
        /\ after.addr = k.addr /\ after.odcid = k.odcid
        /\ after.key = k.key /\ after.request = k.request /\ after.phase = k.phase
    BY <1>1, FlushedType
  <1> HIDE DEF after
  <1>5. conns' \in [Live' -> ServerConn] /\ Live' \subseteq Cids
    BY <1>1, <1>3, <1>4 DEF after
  <1>6. armed' \subseteq (armed \ {c}) \cup {x \in {c} : Stays(after)}
    BY <1>1, <1>3 DEF Timers, after
  <1>7. armed' \subseteq Cids /\ armed' \subseteq Live'
    <2>1. Stays(after) <=> Stays(k)
      BY <1>4 DEF Stays
    <2>2. QED  BY <1>1, <1>3, <1>6, <2>1 DEF NoStaleTimer
  <1>8. \A m \in toClient' : m \in toClient \/ (m \in ToClient /\ Speaks(m))
    <2>1. ASSUME NEW m \in ServerSends(c, k)
          PROVE  m \in ToClient /\ Speaks(m)
      BY <1>1, ServerSendsType DEF Speaks
    <2>2. \A m \in toClient' : m \in toClient \/ m \in ServerSends(c, k)
      BY <1>3
    <2>3. QED  BY <2>1, <2>2
  <1>9. \A x \in Live' :
          x \in Live /\ (conns'[x] = conns[x] \/ (x = c /\ conns'[x] = after))
    <2>1. CASE Stays(k)
      BY <1>1, <1>3, <2>1 DEF after
    <2>2. CASE ~Stays(k)
      BY <1>1, <1>3, <2>2 DEF after
    <2>3. QED  BY <2>1, <2>2
  <1>10. toClient \subseteq toClient'
    BY <1>3
  <1>11. Settles
    BY <1>1, <1>4, <1>8, <1>9, <1>10 DEF Settles, TimeoutCb
  <1>12. QED  BY <1>5, <1>7, <1>8, <1>11 DEF TimeoutCb, NoStaleTimer

\* A step of the server that answers datagram d with a Retry.
LEMMA RetryType ==
    ASSUME TypeOK, NoStaleTimer, NEW d \in toServer, NEW a \in Addrs, StatelessRetry(d, a)
    PROVE  toClient' \subseteq ToClient /\ ServerTypeOK' /\ NoStaleTimer'
  <1> USE DEF StatelessRetry, Unknown, Reads, gen_cid
  <1>1. d \in ToServer
    BY DEF TypeOK
  <1>2. RetryPacket(a, d.dcid, opened + 1, mint_token(d, a)) \in ToClient
    <2>1. d.dcid \in Cids
      BY <1>1 DEF ToServer
    <2>2. opened + 1 \in ServerCids
      BY QuicConnAssumption DEF TypeOK, ServerTypeOK, ServerCids
    <2>3. mint_token(d, a) \in SUBSET Token
      BY <2>1 DEF mint_token, Token
    <2>4. QED  BY <2>1, <2>2, <2>3 DEF RetryPacket, ToClient
  <1>3. opened' \in 0..Descriptors
    BY QuicConnAssumption DEF TypeOK, ServerTypeOK
  <1>4. QED  BY <1>2, <1>3 DEF TypeOK, ServerTypeOK, Live, NoStaleTimer

\* A step of the server that creates a connection for datagram d.
Creates(d, a) ==
    LET o == token_odcid(d.token)
    IN  /\ d.dcid \notin Live /\ validate_token(d.token, a)
        /\ UNCHANGED <<opened, answered, toServer, toClient>>
        /\ accepted' = Append(accepted, [cid |-> d.dcid, addr |-> a, odcid |-> o])
        /\ Live' = Live \cup {d.dcid}
        /\ \A x \in Live : conns'[x] = conns[x]
        /\ conns'[d.dcid].addr = a /\ conns'[d.dcid].odcid = o
        /\ conns'[d.dcid].key = Len(accepted) + 1
        /\ conns'[d.dcid].request = "none"

LEMMA CreateType ==
    ASSUME TypeOK, NoStaleTimer, NEW d \in toServer, NEW a \in Addrs, create_conn(d, a)
    PROVE  toClient' \subseteq ToClient /\ ServerTypeOK' /\ NoStaleTimer' /\ Creates(d, a)
  <1> DEFINE o == token_odcid(d.token)
             k == NewServerConn(a, o, Len(accepted) + 1)
             e == [cid |-> d.dcid, addr |-> a, odcid |-> o]
  <1>1. d \in ToServer /\ d.dcid \in Cids /\ d.token \subseteq Token
    BY DEF TypeOK, ToServer
  <1>2. o \in Cids
    <2>1. \E t \in d.token : TRUE
      BY DEF create_conn, validate_token
    <2>2. (CHOOSE t \in d.token : TRUE) \in d.token
      BY <2>1
    <2>3. QED  BY <1>1, <2>2 DEF token_odcid, Token
  <1> HIDE DEF o
  <1>3. Len(accepted) \in Nat /\ Len(accepted) + 1 \in 1..MaxConns
    BY QuicConnAssumption DEF create_conn, TypeOK, ServerTypeOK
  <1>4. k \in ServerConn
    BY <1>2, <1>3, NewServerConnType
  <1>5. \E n \in ServerConn :
          /\ AddConn(d.dcid, n)
          /\ n.addr = a /\ n.odcid = o /\ n.key = Len(accepted) + 1
          /\ n.request = "none"
    <2>1. /\ ServerRecv(k, d) \in ServerConn
          /\ ServerRecv(k, d).addr = a /\ ServerRecv(k, d).odcid = o
          /\ ServerRecv(k, d).key = Len(accepted) + 1
      BY <1>1, <1>4, ServerRecvType DEF NewServerConn
    <2>2. ServerRecv(k, d).request = "none"
      <3>1. Opens(k, d) => d.kind = "initial"
        BY DEF Opens, NewServerConn
      <3>2. k.request = "none"
        BY DEF NewServerConn
      <3>3. QED  BY <1>4, <3>1, <3>2 DEF ServerRecv, ServerConn
    <2>3. /\ ServerRecvFails(k) \in ServerConn
          /\ ServerRecvFails(k).addr = a /\ ServerRecvFails(k).odcid = o
          /\ ServerRecvFails(k).key = Len(accepted) + 1
          /\ ServerRecvFails(k).request = "none"
      BY <1>4 DEF ServerRecvFails, NewServerConn, ServerConn
    <2>4. AddConn(d.dcid, ServerRecv(k, d)) \/ AddConn(d.dcid, ServerRecvFails(k))
      BY DEF create_conn, o
    <2> HIDE DEF k
    <2>5. QED  BY <2>1, <2>2, <2>3, <2>4
  <1>6. PICK n \in ServerConn :
          /\ AddConn(d.dcid, n)
          /\ n.addr = a /\ n.odcid = o /\ n.key = Len(accepted) + 1
          /\ n.request = "none"
    BY <1>5
  <1>7. accepted' = Append(accepted, e)
    BY DEF create_conn, NewServerConn, o
  <1>8. e \in Entry
    BY <1>1, <1>2 DEF Entry
  <1> HIDE DEF e
  <1>9. accepted' \in Seq(Entry) /\ Len(accepted') = Len(accepted) + 1
    BY <1>7, <1>8 DEF TypeOK, ServerTypeOK, Entry
  <1>10. /\ conns' \in [Live' -> ServerConn] /\ Live' = Live \cup {d.dcid}
         /\ conns'[d.dcid] = n
         /\ \A x \in Live : x # d.dcid => conns'[x] = conns[x]
    BY <1>6 DEF AddConn, Live, TypeOK, ServerTypeOK
  <1>11. ServerTypeOK'
    <2>1. UNCHANGED <<armed, opened, answered, missed>> /\ spc' = "reading"
      BY DEF create_conn, Unknown, Reads
    <2>2. QED  BY <1>1, <1>3, <1>9, <1>10, <2>1 DEF TypeOK, ServerTypeOK, Entry
  <1>12. NoStaleTimer'
    BY <1>10 DEF NoStaleTimer, create_conn
  <1>13. Creates(d, a)
    BY <1>6, <1>7, <1>10 DEF Creates, create_conn, Unknown, Reads, e, o
  <1>14. QED  BY <1>11, <1>12, <1>13 DEF TypeOK, create_conn

\* A step of the server that gives datagram d to a connection of the table.
Serves(d, x) ==
    /\ x \in Live
    /\ UNCHANGED <<opened, accepted, toServer, toClient>>
    /\ Live' = Live
    /\ \A y \in Live : y # x => conns'[y] = conns[y]
    /\ conns'[x].addr = conns[x].addr /\ conns'[x].odcid = conns[x].odcid
    /\ conns'[x].key = conns[x].key
    /\ \/ conns'[x].request = conns[x].request
       \/ conns[x].request = "arrived"
       \/ d.kind = "request" /\ d.key = conns[x].key
    /\ answered' = IF conns'[x].request = "answered"
                   THEN answered \cup {conns[x].key} ELSE answered

LEMMA ServeType ==
    ASSUME TypeOK, NoStaleTimer, NEW d \in toServer, NEW a \in Addrs, ConnRecv(d, a)
    PROVE  /\ toClient' \subseteq ToClient /\ ServerTypeOK' /\ NoStaleTimer'
           /\ Serves(d, d.dcid)
  <1>1. d \in ToServer /\ d.dcid \in Live /\ conns[d.dcid] \in ServerConn
    BY DEF ConnRecv, TypeOK, ServerTypeOK
  <1> DEFINE k == conns[d.dcid]
             r == ServerRecv(k, d)
  <1>2. PICK n \in EchoStreams(r) :
          /\ conns' = [conns EXCEPT ![d.dcid] = n]
          /\ answered' = IF n.request = "answered"
                         THEN answered \cup {n.key} ELSE answered
    BY DEF ConnRecv
  <1>3. /\ r \in ServerConn /\ r.addr = k.addr /\ r.odcid = k.odcid /\ r.key = k.key
        /\ \/ r.request = k.request
           \/ r.request = "arrived" /\ d.kind = "request" /\ d.key = k.key
    BY <1>1, ServerRecvType, ServerRecvRequest
  <1> HIDE DEF r
  <1>4. /\ n \in ServerConn /\ n.addr = r.addr /\ n.odcid = r.odcid /\ n.key = r.key
        /\ n.request = r.request \/ r.request = "arrived"
    BY <1>3, EchoStreamsType
  <1>5. n.key \in 1..MaxConns
    BY <1>4 DEF ServerConn
  <1>6. Live' = Live /\ conns' \in [Live' -> ServerConn]
    BY <1>1, <1>2, <1>4 DEF Live, TypeOK, ServerTypeOK
  <1>7. conns'[d.dcid] = n /\ \A y \in Live : y # d.dcid => conns'[y] = conns[y]
    BY <1>1, <1>2 DEF Live, TypeOK, ServerTypeOK
  <1>8. answered' \subseteq 1..MaxConns
    BY <1>2, <1>5 DEF TypeOK, ServerTypeOK
  <1>9. UNCHANGED <<armed, opened, accepted, missed, toClient, toServer>> /\ spc' = "reading"
    BY DEF ConnRecv, Reads
  <1>10. ServerTypeOK' /\ NoStaleTimer'
    BY <1>6, <1>8, <1>9 DEF TypeOK, ServerTypeOK, NoStaleTimer
  <1>11. Serves(d, d.dcid)
    BY <1>1, <1>2, <1>3, <1>4, <1>6, <1>7, <1>9 DEF Serves
  <1>12. QED  BY <1>9, <1>10, <1>11 DEF TypeOK

\* Every step of the server is of one of these kinds.
LEMMA ServerStep ==
    ASSUME TypeOK, NoStaleTimer, ServerNext
    PROVE  /\ toClient' \subseteq ToClient /\ ServerTypeOK' /\ NoStaleTimer'
           /\ \/ Settles
              \/ \E d \in toServer, a \in Addrs : StatelessRetry(d, a)
              \/ \E d \in toServer, a \in Addrs : Creates(d, a)
              \/ \E d \in toServer : Serves(d, d.dcid)
  <1>1. ASSUME NEW d \in toServer, NEW a \in Addrs, NegotiateVersion(d, a)
        PROVE  toClient' \subseteq ToClient /\ ServerTypeOK' /\ NoStaleTimer' /\ Settles
    <2> USE DEF NegotiateVersion, Unknown, Reads
    <2>1. VersionNegotiation(a) \in ToClient /\ VersionNegotiation(a).kind = "vneg"
      BY DEF VersionNegotiation, ToClient
    <2>2. Settles
      BY <1>1, <2>1 DEF Settles, Speaks, Live
    <2>3. QED  BY <1>1, <2>1, <2>2 DEF TypeOK, ServerTypeOK, NoStaleTimer, Live
  <1>2. ASSUME NEW d \in toServer, NEW a \in Addrs, DropsDatagram(d, a) \/ CreateFails(d, a)
        PROVE  toClient' \subseteq ToClient /\ ServerTypeOK' /\ NoStaleTimer' /\ Settles
    <2>1. /\ UNCHANGED <<conns, armed, opened, accepted, answered, missed,
                         toServer, toClient>>
          /\ spc' = "reading"
      BY <1>2 DEF DropsDatagram, CreateFails, Unknown, Reads
    <2>2. QED  BY <2>1 DEF Settles, Live, TypeOK, ServerTypeOK, NoStaleTimer
  <1>3. ASSUME ParseError \/ ReadError
        PROVE  toClient' \subseteq ToClient /\ ServerTypeOK' /\ NoStaleTimer' /\ Settles
    <2>1. /\ UNCHANGED <<conns, armed, opened, accepted, answered, toServer, toClient>>
          /\ spc' \in {"idle", "reading"}
          /\ missed' \subseteq missed \cup Live
      BY <1>3 DEF ParseError, ReadError
    <2>2. QED  BY <2>1 DEF Settles, Live, TypeOK, ServerTypeOK, NoStaleTimer
  <1>4. ASSUME FlushLoop \/ ConnTimeout
        PROVE  toClient' \subseteq ToClient /\ ServerTypeOK' /\ NoStaleTimer' /\ Settles
    BY <1>4, FlushLoopType, TimeoutCbType DEF ConnTimeout
  <1>5. QED
    BY <1>1, <1>2, <1>3, <1>4, RetryType, CreateType, ServeType DEF ServerNext

\* The steps of a client, as the later proofs need them: only c's record
\* changes, its connection keeps what s has, and only what s sends is sent.
LEMMA FlushClientEffect ==
    ASSUME ClientTypeOK, NEW c \in Clients, NEW s \in ClientConn, NEW p \in Client,
           NEW run \in {"new", "idle", "reading", "exited", "failed"},
           FlushClient(c, s, p, run)
    PROVE  /\ toServer' \subseteq toServer \cup ClientSends(c, s)
           /\ toServer \subseteq toServer'
           /\ \E n \in Client :
                /\ cl' = [cl EXCEPT ![c] = n]
                /\ n.conn.dcid = s.dcid /\ n.conn.token = s.token
                /\ n.conn.key = s.key /\ n.conn.written = s.written
                /\ n.conn.fin = s.fin /\ n.conn.stage = StageAfterSend(s)
  <1>1. StageAfterSend(s) \in {"grease", "v1", "retried", "established",
                               "closing", "draining", "closed"}
    BY DEF StageAfterSend, ClientConn
  <1>2. CASE SendsAll(c, s, p, run)
    <2>1. PICK late \in BOOLEAN :
            /\ toServer' = toServer \cup ClientSends(c, s)
            /\ cl' = [cl EXCEPT ![c] =
                        [p EXCEPT !.run = run,
                                  !.conn = [s EXCEPT !.stage = StageAfterSend(s),
                                                     !.out = FALSE,
                                                     !.overdue = Overdue(s, late)],
                                  !.armed = Rearmed(p, Overdue(s, late)),
                                  !.missed = FALSE]]
      BY <1>2 DEF SendsAll
    <2> DEFINE overdue == Overdue(s, late)
               armed2 == Rearmed(p, Overdue(s, late))
               conn2 == [s EXCEPT !.stage = StageAfterSend(s), !.out = FALSE,
                                  !.overdue = overdue]
               n == [p EXCEPT !.run = run, !.conn = conn2, !.armed = armed2,
                              !.missed = FALSE]
    <2>2. overdue \in BOOLEAN /\ armed2 \in BOOLEAN
      BY DEF Overdue, Rearmed
    <2>3. cl' = [cl EXCEPT ![c] = n]
      BY <2>1
    <2> HIDE DEF overdue, armed2
    <2>4. /\ conn2 \in ClientConn
          /\ conn2.dcid = s.dcid /\ conn2.token = s.token /\ conn2.key = s.key
          /\ conn2.written = s.written /\ conn2.fin = s.fin
          /\ conn2.stage = StageAfterSend(s)
      BY <1>1, <2>2 DEF ClientConn
    <2> HIDE DEF conn2
    <2>5. n \in Client /\ n.conn = conn2
      BY <2>2, <2>4 DEF Client
    <2> HIDE DEF n
    <2>6. QED  BY <2>1, <2>3, <2>4, <2>5
  <1>3. CASE SendFails(c, s, p, run)
    <2>1. PICK left \in BOOLEAN :
            cl' = [cl EXCEPT ![c] =
                    [p EXCEPT !.run = run,
                              !.conn = [s EXCEPT !.stage = StageAfterSend(s),
                                                 !.out = left],
                              !.missed = ~p.armed]]
      BY <1>3 DEF SendFails
    <2> DEFINE missed2 == ~p.armed
               conn2 == [s EXCEPT !.stage = StageAfterSend(s), !.out = left]
               n == [p EXCEPT !.run = run, !.conn = conn2, !.missed = missed2]
    <2>2. missed2 \in BOOLEAN
      OBVIOUS
    <2>3. cl' = [cl EXCEPT ![c] = n]
      BY <2>1
    <2> HIDE DEF missed2
    <2>4. /\ conn2 \in ClientConn
          /\ conn2.dcid = s.dcid /\ conn2.token = s.token /\ conn2.key = s.key
          /\ conn2.written = s.written /\ conn2.fin = s.fin
          /\ conn2.stage = StageAfterSend(s)
      BY <1>1 DEF ClientConn
    <2> HIDE DEF conn2
    <2>5. n \in Client /\ n.conn = conn2
      BY <2>2, <2>4 DEF Client
    <2> HIDE DEF n
    <2>6. toServer' = toServer
      BY <1>3 DEF SendFails
    <2>7. QED  BY <2>3, <2>4, <2>5, <2>6
  <1>4. QED  BY <1>2, <1>3 DEF FlushClient

-----------------------------------------------------------------------------
\* What client c may be asked to send: its connection as it is, with the
\* request written, closed by the application or closed by a timeout.
MaySend(c, s) ==
    LET k == cl[c].conn
    IN  /\ s \in ClientConn
        /\ s.dcid = k.dcid /\ s.token = k.token /\ s.key = k.key /\ s.fin = k.fin
        /\ \/ s.written = k.written
           \/ s.written /\ k.stage = "established"
        /\ \/ s.stage = k.stage
           \/ k.stage = "established" /\ s.stage = "closing"
           \/ s.stage = "closed"

Ignores(c, n) == n.conn = cl[c].conn /\ toServer' = toServer
Receives(c, n) ==
    /\ \E d \in toClient :
         d.to \in AddrsOf[c] /\ n.conn = ClientRecv(c, cl[c].conn, d)
    /\ toServer' = toServer
Transmits(c, n) ==
    \E s : /\ MaySend(c, s)
           /\ toServer' \subseteq toServer \cup ClientSends(c, s)
           /\ n.conn.dcid = s.dcid /\ n.conn.token = s.token
           /\ n.conn.key = s.key /\ n.conn.written = s.written
           /\ n.conn.fin = s.fin /\ n.conn.stage = StageAfterSend(s)

\* A step of the clients is one of one client: nothing about its connection
\* changes, a datagram is received, or its connection is asked to send.
StepOf(c, n) ==
    /\ cl' = [cl EXCEPT ![c] = n]
    /\ toServer \subseteq toServer'
    /\ toClient' = toClient
    /\ Ignores(c, n) \/ Receives(c, n) \/ Transmits(c, n)

LEMMA FlushStep ==
    ASSUME ClientTypeOK, NEW c \in Clients, NEW s, MaySend(c, s),
           NEW p \in Client,
           NEW run \in {"new", "idle", "reading", "exited", "failed"},
           FlushClient(c, s, p, run), toClient' = toClient
    PROVE  \E n \in Client : StepOf(c, n)
  <1>1. s \in ClientConn
    BY DEF MaySend
  <1>2. PICK n \in Client :
          /\ cl' = [cl EXCEPT ![c] = n]
          /\ n.conn.dcid = s.dcid /\ n.conn.token = s.token
          /\ n.conn.key = s.key /\ n.conn.written = s.written
          /\ n.conn.fin = s.fin /\ n.conn.stage = StageAfterSend(s)
    BY <1>1, FlushClientEffect
  <1>3. toServer' \subseteq toServer \cup ClientSends(c, s) /\ toServer \subseteq toServer'
    BY <1>1, FlushClientEffect
  <1>4. Transmits(c, n)
    BY <1>2, <1>3 DEF Transmits
  <1>5. QED  BY <1>2, <1>3, <1>4 DEF StepOf

\* What recv_cb does to the connection before it flushes.
LEMMA RespondsMaySend ==
    ASSUME ClientTypeOK, NEW c \in Clients, ClientResponds(c)
    PROVE  \E n \in Client : StepOf(c, n)
  <1> DEFINE conn2 == [cl[c].conn EXCEPT !.written = TRUE, !.out = TRUE]
             p == IF RequestDue(cl[c])
                  THEN [cl[c] EXCEPT !.reqSent = TRUE,
                                     !.conn.written = TRUE, !.conn.out = TRUE]
                  ELSE cl[c]
             s == IF p.conn.fin THEN ClientClose(p.conn) ELSE p.conn
  <1>1. cl[c] \in Client /\ cl[c].conn \in ClientConn
    BY DEF ClientTypeOK, Client
  <1>2. CASE RequestDue(cl[c])
    <2>1. p = [cl[c] EXCEPT !.reqSent = TRUE, !.conn = conn2]
      BY <1>1, <1>2 DEF Client, ClientConn
    <2>2. /\ conn2 \in ClientConn
          /\ conn2.dcid = cl[c].conn.dcid /\ conn2.token = cl[c].conn.token
          /\ conn2.key = cl[c].conn.key /\ conn2.fin = cl[c].conn.fin
          /\ conn2.stage = cl[c].conn.stage /\ conn2.written
      BY <1>1 DEF ClientConn
    <2>3. cl[c].conn.stage = "established"
      BY <1>2 DEF RequestDue
    <2> HIDE DEF conn2
    <2>4. p \in Client /\ p.conn = conn2
      BY <1>1, <2>1, <2>2 DEF Client
    <2> HIDE DEF p
    <2>5. MaySend(c, s)
      BY <2>2, <2>3, <2>4, ClientCloseType DEF MaySend
    <2>6. FlushClient(c, s, p, "idle") /\ toClient' = toClient
      BY DEF ClientResponds, p
    <2> HIDE DEF s
    <2>7. QED  BY <2>4, <2>5, <2>6, FlushStep
  <1>3. CASE ~RequestDue(cl[c])
    <2>1. p = cl[c]
      BY <1>3
    <2>2. FlushClient(c, s, p, "idle") /\ toClient' = toClient
      BY DEF ClientResponds
    <2> HIDE DEF p
    <2>3. MaySend(c, s)
      BY <1>1, <2>1, ClientCloseType DEF MaySend, ClientConn
    <2> HIDE DEF s
    <2>4. QED  BY <1>1, <2>1, <2>2, <2>3, FlushStep
  <1>4. QED  BY <1>2, <1>3

LEMMA ClientStep ==
    ASSUME ClientTypeOK, toClient \subseteq ToClient, ClientNext
    PROVE  \E c \in Clients, n \in Client : StepOf(c, n)
  <1>1. PICK c \in Clients :
          \/ ClientMain(c)
          \/ \E d \in toClient : ClientReads(c, d)
          \/ ClientReadError(c) \/ RequestRefused(c) \/ ClientResponds(c)
          \/ \E s \in ClientTimeouts(cl[c].conn) : ClientTimeout(c, s)
    BY DEF ClientNext
  <1>2. cl[c] \in Client /\ cl[c].conn \in ClientConn
    BY DEF ClientTypeOK, Client
  <1>3. MaySend(c, cl[c].conn)
    BY <1>2 DEF MaySend, ClientConn
  <1>4. CASE ClientMain(c)
    <2>1. CASE FlushClient(c, cl[c].conn, cl[c], "idle")
      BY <1>2, <1>3, <1>4, <2>1, FlushStep DEF ClientMain
    <2>2. CASE cl' = [cl EXCEPT ![c].run = "failed"] /\ UNCHANGED <<toServer, toClient>>
      <3> DEFINE n == [cl[c] EXCEPT !.run = "failed"]
      <3>1. n \in Client /\ n.conn = cl[c].conn
        BY <1>2 DEF Client
      <3>2. StepOf(c, n)
        BY <2>2, <3>1 DEF StepOf, Ignores
      <3>3. QED  BY <3>1, <3>2
    <2>3. QED  BY <1>4, <2>1, <2>2 DEF ClientMain
  <1>5. CASE \E d \in toClient : ClientReads(c, d)
    <2>1. PICK d \in toClient : ClientReads(c, d)
      BY <1>5
    <2> DEFINE conn2 == ClientRecv(c, cl[c].conn, d)
               n == [cl[c] EXCEPT !.run = "reading", !.conn = conn2]
    <2>2. conn2 \in ClientConn
      BY <1>2, ClientRecvType
    <2>3. cl' = [cl EXCEPT ![c] = n] /\ UNCHANGED <<toServer, toClient>>
          /\ d.to \in AddrsOf[c]
      BY <1>2, <2>1 DEF ClientReads, Client
    <2> HIDE DEF conn2
    <2>4. n \in Client /\ n.conn = conn2
      BY <1>2, <2>2 DEF Client
    <2> HIDE DEF n
    <2>5. Receives(c, n)
      BY <2>3, <2>4 DEF Receives, conn2
    <2>6. QED  BY <2>3, <2>4, <2>5 DEF StepOf
  <1>6. CASE ClientReadError(c) \/ RequestRefused(c)
    <2> DEFINE missed2 == ~cl[c].armed
               n == [cl[c] EXCEPT !.run = "idle", !.missed = missed2]
    <2>1. cl' = [cl EXCEPT ![c] = n] /\ UNCHANGED <<toServer, toClient>>
      BY <1>6 DEF ClientReadError, RequestRefused
    <2>2. missed2 \in BOOLEAN
      OBVIOUS
    <2> HIDE DEF missed2
    <2>3. n \in Client /\ n.conn = cl[c].conn
      BY <1>2, <2>2 DEF Client
    <2> HIDE DEF n
    <2>4. QED  BY <2>1, <2>3 DEF StepOf, Ignores
  <1>7. CASE ClientResponds(c)
    BY <1>7, RespondsMaySend
  <1>8. CASE \E s \in ClientTimeouts(cl[c].conn) : ClientTimeout(c, s)
    <2>1. PICK s \in ClientTimeouts(cl[c].conn) : ClientTimeout(c, s)
      BY <1>8
    <2>2. MaySend(c, s)
      BY <1>2, ClientTimeoutsType DEF MaySend, ClientConn
    <2>3. RunAfterTimeout(s) \in {"new", "idle", "reading", "exited", "failed"}
      BY DEF RunAfterTimeout
    <2>4. FlushClient(c, s, cl[c], RunAfterTimeout(s)) /\ toClient' = toClient
      BY <2>1 DEF ClientTimeout
    <2>5. QED  BY <1>2, <2>2, <2>3, <2>4, FlushStep
  <1>9. QED  BY <1>1, <1>4, <1>5, <1>6, <1>7, <1>8

-----------------------------------------------------------------------------
(***************************************************************************)
(* The inductive invariant.  An id is offered once; a client that holds a  *)
(* token has the id and the address of one offer and keeps them; every     *)
(* connection, every part of the handshake and every request belongs to    *)
(* such a client.                                                          *)
(***************************************************************************)
IsRetry(r) == r.kind = "retry"

\* The Retries sent, each with a token for its own address.
RetriesInv ==
    \A r \in toClient : IsRetry(r) =>
        /\ r.cid \in 1..opened
        /\ r.token = {[addr |-> r.to, odcid |-> r.odcid]}
        /\ \A q \in toClient : IsRetry(q) /\ q.cid = r.cid => q = r

\* A client before and after it took a Retry.
Untokened(c) ==
    LET s == cl[c].conn
    IN  s.token = {} /\ s.dcid = c /\ s.stage \in {"grease", "v1", "closed"}
Tokened(c) ==
    LET s == cl[c].conn
    IN  /\ s.stage \notin {"grease", "v1"}
        /\ \E a \in AddrsOf[c] :
             /\ s.token = {[addr |-> a, odcid |-> c]}
             /\ RetryPacket(a, c, s.dcid, s.token) \in toClient
ClientsInv == \A c \in Clients : Untokened(c) \/ Tokened(c)

\* Keys come with the handshake and stay.
KeysInv ==
    \A c \in Clients :
        LET s == cl[c].conn
        IN  /\ s.stage \in {"grease", "v1", "retried"} => s.key = 0
            /\ s.stage \in {"established", "closing", "draining"} => s.key # 0

\* An Initial with a token is of a client that still has it.
InitialsInv ==
    \A d \in toServer : d.token # {} =>
        d.token = cl[d.from].conn.token /\ d.dcid = cl[d.from].conn.dcid

\* Connections are created for clients that hold a token, under their id.
AcceptedInv ==
    \A i \in 1..Len(accepted) :
        LET e == accepted[i]
        IN  /\ e.odcid \in Clients
            /\ e.addr \in AddrsOf[e.odcid]
            /\ cl[e.odcid].conn.dcid = e.cid
            /\ cl[e.odcid].conn.token = {[addr |-> e.addr, odcid |-> e.odcid]}

\* What the table holds was created and is filed under its id.
TableInv ==
    \A x \in Live :
        /\ conns[x].key \in 1..Len(accepted)
        /\ accepted[conns[x].key]
             = [cid |-> x, addr |-> conns[x].addr, odcid |-> conns[x].odcid]

HellosInv ==
    \A h \in toClient : h.kind = "hello" =>
        /\ h.key \in 1..Len(accepted)
        /\ accepted[h.key] = [cid |-> h.cid, addr |-> h.to, odcid |-> h.odcid]

AdmissionInv ==
    /\ RetriesInv /\ ClientsInv /\ KeysInv /\ InitialsInv
    /\ AcceptedInv /\ TableInv /\ HellosInv /\ EndsAgree

\* A client asked for something on the connection with keys k.
Asked(k) == \E c \in Clients : cl[c].conn.key = k /\ cl[c].conn.written /\ k # 0

RequestsInv == \A d \in toServer : d.kind = "request" => Asked(d.key)
PendingInv ==
    \A x \in Live :
        /\ conns[x].request \in {"arrived", "answered"} => Asked(conns[x].key)
        /\ conns[x].request = "answered" => conns[x].key \in answered
AnsweredInv == \A k \in answered : Asked(k)
AnswersInv == \A m \in toClient : m.kind = "answer" => m.key \in answered
FinishedInv == \A c \in Clients : cl[c].conn.fin => cl[c].conn.key \in answered

ExchangeInv ==
    RequestsInv /\ PendingInv /\ AnsweredInv /\ AnswersInv /\ FinishedInv

-----------------------------------------------------------------------------
(***************************************************************************)
(* Types and timers.  A timer callback looks its connection up in the      *)
(* table, so that types need NoStaleTimer and the two hold together.       *)
(***************************************************************************)
TypeInv == TypeOK /\ NoStaleTimer

LEMMA TypeInvInit == Init => TypeInv
  BY TypeInit DEF TypeInv, NoStaleTimer, Init, ServerInit

LEMMA StepOfType ==
    ASSUME TypeOK, NEW c \in Clients, NEW n \in Client, StepOf(c, n)
    PROVE  toServer' \subseteq ToServer /\ ClientTypeOK'
  <1>1. ClientTypeOK'
    BY DEF TypeOK, ClientTypeOK, StepOf
  <1>2. toServer' \subseteq ToServer
    <2>1. CASE Transmits(c, n)
      <3>1. PICK s \in ClientConn : toServer' \subseteq toServer \cup ClientSends(c, s)
        BY <2>1 DEF Transmits, MaySend
      <3>2. QED  BY <3>1, ClientSendsType DEF TypeOK
    <2>2. QED  BY <2>1 DEF StepOf, Ignores, Receives, TypeOK
  <1>3. QED  BY <1>1, <1>2

LEMMA TypeStep == TypeInv /\ [Next]_vars => TypeInv'
  <1> SUFFICES ASSUME TypeInv, [Next]_vars PROVE TypeInv'
    OBVIOUS
  <1> USE DEF TypeInv
  <1>1. CASE ServerNext /\ UNCHANGED clientVars
    <2>1. toServer' = toServer \/ toServer' \subseteq ToServer
      BY <1>1, ServerStep DEF Settles, StatelessRetry, Unknown, Reads, Creates, Serves
    <2>2. QED  BY <1>1, <2>1, ServerStep DEF TypeOK, clientVars, ClientTypeOK
  <1>2. CASE ClientNext /\ UNCHANGED serverVars
    <2>1. PICK c \in Clients, n \in Client : StepOf(c, n)
      BY <1>2, ClientStep DEF TypeOK
    <2>2. toServer' \subseteq ToServer /\ ClientTypeOK' /\ toClient' = toClient
      BY <2>1, StepOfType DEF StepOf
    <2>3. UNCHANGED <<conns, armed, opened, spc, accepted, answered, missed>>
      BY <1>2 DEF serverVars
    <2>4. ServerTypeOK' /\ NoStaleTimer'
      BY <2>3 DEF TypeOK, ServerTypeOK, NoStaleTimer, Live
    <2>5. QED  BY <2>2, <2>4 DEF TypeOK
  <1>3. CASE UNCHANGED vars
    <2>1. UNCHANGED <<conns, armed, opened, spc, accepted, answered, missed, cl,
                      toServer, toClient>>
      BY <1>3 DEF vars, serverVars, clientVars
    <2>2. QED
      BY <2>1 DEF TypeOK, ServerTypeOK, ClientTypeOK, NoStaleTimer, Live
  <1>4. QED  BY <1>1, <1>2, <1>3 DEF Next

\* The types of server.c and client.c hold in every state: among them, that
\* no more descriptors are used than the process has and that every entry of
\* the table is a connection.
THEOREM TypeCorrect == Spec => []TypeOK
  <1>1. TypeInv => TypeOK
    BY DEF TypeInv
  <1>2. QED  BY <1>1, TypeInvInit, TypeStep, PTL DEF Spec

\* The event loop never calls a timer callback with a connection that was
\* freed, in either callback that frees connections.
THEOREM TimersSound == Spec => []NoStaleTimer
  <1>1. TypeInv => NoStaleTimer
    BY DEF TypeInv
  <1>2. QED  BY <1>1, TypeInvInit, TypeStep, PTL DEF Spec

-----------------------------------------------------------------------------
(***************************************************************************)
(* The admission of clients.                                               *)
(***************************************************************************)

\* What receiving a datagram makes of a client's connection.
Same(s, n) == n.dcid = s.dcid /\ n.token = s.token /\ n.written = s.written

LEMMA RecvEffect ==
    ASSUME NEW c \in Clients, NEW s \in ClientConn, NEW d \in ToClient
    PROVE  LET n == ClientRecv(c, s, d)
           IN  \/ /\ Same(s, n) /\ n.key = s.key /\ n.fin = s.fin
                  /\ n.stage = s.stage \/ (s.stage = "grease" /\ n.stage = "v1")
               \/ /\ d.kind = "retry" /\ s.stage = "v1" /\ d.odcid = s.dcid
                  /\ n.dcid = d.cid /\ n.token = d.token /\ n.stage = "retried"
                  /\ n.key = s.key /\ n.written = s.written /\ n.fin = s.fin
               \/ /\ d.kind = "hello" /\ s.stage = "retried" /\ d.cid = s.dcid
                  /\ Same(s, n) /\ n.fin = s.fin
                  /\ \/ d.odcid = c /\ n.stage = "established" /\ n.key = d.key
                     \/ d.odcid # c
               \/ /\ d.kind = "answer" /\ s.stage = "established" /\ d.key = s.key
                  /\ Same(s, n) /\ n.key = s.key /\ n.stage = s.stage
  <1>1. CASE d.kind = "vneg"
    BY <1>1 DEF ClientRecv, ClientConn, Same
  <1>2. CASE d.kind = "retry"
    BY <1>2 DEF ClientRecv, RetryTaken, ClientConn, Same
  <1>3. CASE d.kind = "hello"
    BY <1>3 DEF ClientRecv, ClientConn, Same
  <1>4. CASE d.kind = "answer"
    BY <1>4 DEF ClientRecv, ClientConn, Same
  <1>5. QED  BY <1>1, <1>2, <1>3, <1>4 DEF ToClient

\* A Retry is what its fields say.
LEMMA RetryIs ==
    ASSUME NEW r \in ToClient, IsRetry(r)
    PROVE  r = RetryPacket(r.to, r.odcid, r.cid, r.token)
  BY DEF ToClient, IsRetry, RetryPacket

\* The id in a Retry that a client takes is offered to it alone: the server's
\* part of the handshake under that id names the client's first id.
LEMMA HelloIsMine ==
    ASSUME TypeOK, AdmissionInv, NEW c \in Clients, NEW h \in toClient,
           h.kind = "hello", cl[c].conn.stage = "retried", h.cid = cl[c].conn.dcid
    PROVE  h.odcid = c
  <1> DEFINE e == accepted[h.key]
             o == e.odcid
  <1>1. e = [cid |-> h.cid, addr |-> h.to, odcid |-> h.odcid] /\ h.key \in 1..Len(accepted)
    BY DEF AdmissionInv, HellosInv
  <1>2. o \in Clients /\ cl[o].conn.dcid = h.cid /\ cl[o].conn.token # {}
    <2>1. \A i \in 1..Len(accepted) :
            /\ accepted[i].odcid \in Clients
            /\ cl[accepted[i].odcid].conn.dcid = accepted[i].cid
            /\ cl[accepted[i].odcid].conn.token
                 = {[addr |-> accepted[i].addr, odcid |-> accepted[i].odcid]}
      BY DEF AdmissionInv, AcceptedInv
    <2>2. e.cid = h.cid
      BY <1>1
    <2>3. QED  BY <1>1, <2>1, <2>2
  <1> HIDE DEF o
  <1>3. Tokened(o) /\ Tokened(c)
    BY <1>2 DEF AdmissionInv, ClientsInv, Untokened
  <1>4. PICK a : RetryPacket(a, o, h.cid, cl[o].conn.token) \in toClient
    BY <1>2, <1>3 DEF Tokened
  <1>5. PICK b : RetryPacket(b, c, h.cid, cl[c].conn.token) \in toClient
    BY <1>3 DEF Tokened
  <1>6. RetryPacket(a, o, h.cid, cl[o].conn.token) = RetryPacket(b, c, h.cid, cl[c].conn.token)
    BY <1>4, <1>5 DEF AdmissionInv, RetriesInv, IsRetry, RetryPacket
  <1>7. QED  BY <1>1, <1>6 DEF RetryPacket, o

-----------------------------------------------------------------------------
\* What a step of client c does to its id, token and keys: it keeps them,
\* takes a Retry, or completes the handshake.
Keeps(c, n) ==
    LET s == cl[c].conn
    IN  /\ n.conn.dcid = s.dcid /\ n.conn.token = s.token /\ n.conn.key = s.key
        /\ s.stage \in {"grease", "v1", "closed"}
             => n.conn.stage \in {"grease", "v1", "closed"}
        /\ n.conn.stage \in {"grease", "v1"} => s.stage \in {"grease", "v1"}
        /\ n.conn.stage = "retried" => s.stage = "retried"
        /\ n.conn.stage \in {"established", "closing", "draining"}
             => s.stage \in {"established", "closing", "draining"}

Takes(c, n, r) ==
    LET s == cl[c].conn
    IN  /\ IsRetry(r) /\ r.to \in AddrsOf[c] /\ s.stage = "v1" /\ r.odcid = s.dcid
        /\ n.conn.dcid = r.cid /\ n.conn.token = r.token
        /\ n.conn.stage = "retried" /\ n.conn.key = s.key

Shakes(c, n, h) ==
    LET s == cl[c].conn
    IN  /\ h.kind = "hello" /\ h.to \in AddrsOf[c]
        /\ s.stage = "retried" /\ h.cid = s.dcid /\ h.odcid = c
        /\ n.conn.dcid = s.dcid /\ n.conn.token = s.token
        /\ n.conn.stage = "established" /\ n.conn.key = h.key

LEMMA ClientMoves ==
    ASSUME TypeOK, AdmissionInv, NEW c \in Clients, NEW n \in Client, StepOf(c, n)
    PROVE  /\ \/ Keeps(c, n)
              \/ /\ toServer' = toServer
                 /\ \E r \in toClient : Takes(c, n, r) \/ Shakes(c, n, r)
           /\ \A m \in toServer' : m \in toServer \/
                 (/\ m.from = c
                  /\ m.token # {} => m.token = cl[c].conn.token /\ m.dcid = cl[c].conn.dcid)
  <1> DEFINE s == cl[c].conn
  <1>1. s \in ClientConn
    BY DEF TypeOK, ClientTypeOK, Client
  <1>2. CASE Ignores(c, n)
    BY <1>2 DEF Ignores, Keeps
  <1>3. CASE Receives(c, n)
    <2>1. PICK d \in toClient : d.to \in AddrsOf[c] /\ n.conn = ClientRecv(c, s, d)
      BY <1>3 DEF Receives
    <2>2. d \in ToClient
      BY DEF TypeOK
    <2>3. s.stage = "retried" /\ d.kind = "hello" /\ d.cid = s.dcid => d.odcid = c
      BY HelloIsMine
    <2> HIDE DEF s
    <2>4. \/ Keeps(c, n) \/ Takes(c, n, d) \/ Shakes(c, n, d)
      BY <1>1, <2>1, <2>2, <2>3, RecvEffect DEF Keeps, Takes, Shakes, Same, IsRetry, s
    <2>5. toServer' = toServer
      BY <1>3 DEF Receives
    <2>6. QED  BY <2>4, <2>5
  <1>4. CASE Transmits(c, n)
    <2>1. PICK t : /\ MaySend(c, t)
                   /\ toServer' \subseteq toServer \cup ClientSends(c, t)
                   /\ n.conn.dcid = t.dcid /\ n.conn.token = t.token
                   /\ n.conn.key = t.key /\ n.conn.stage = StageAfterSend(t)
      BY <1>4 DEF Transmits
    <2>2. Keeps(c, n)
      BY <1>1, <2>1 DEF MaySend, Keeps, StageAfterSend, ClientConn
    <2>3. \A m \in ClientSends(c, t) :
            /\ m.from = c
            /\ m.token # {} => m.token = s.token /\ m.dcid = s.dcid
      BY <2>1, ClientSendsType DEF MaySend
    <2>4. QED  BY <2>1, <2>2, <2>3
  <1>5. QED  BY <1>2, <1>3, <1>4 DEF StepOf

LEMMA ClientAdmission ==
    ASSUME TypeOK, AdmissionInv, NEW c \in Clients, NEW n \in Client, StepOf(c, n),
           UNCHANGED serverVars
    PROVE  AdmissionInv'
  <1> DEFINE s == cl[c].conn
  <1>1. /\ UNCHANGED <<conns, opened, accepted, toClient>>
        /\ cl' = [cl EXCEPT ![c] = n]
    BY DEF serverVars, StepOf
  <1>2. cl'[c] = n /\ \A b \in Clients : b # c => cl'[b] = cl[b]
    BY <1>1 DEF TypeOK, ClientTypeOK
  <1>3. \A m \in toServer' : m \in toServer \/
           (/\ m.from = c
            /\ m.token # {} => m.token = s.token /\ m.dcid = s.dcid)
    BY ClientMoves
  <1>4. RetriesInv' /\ TableInv' /\ HellosInv'
    BY <1>1 DEF AdmissionInv, RetriesInv, TableInv, HellosInv, Live
  <1>5. \A d \in toServer : d.from \in Clients
    BY DEF TypeOK, ToServer
  <1>6. CASE Keeps(c, n)
    <2>1. n.conn.dcid = s.dcid /\ n.conn.token = s.token /\ n.conn.key = s.key
      BY <1>6 DEF Keeps
    <2>2. ClientsInv'
      <3>1. Untokened(c) => Untokened(c)'
        BY <1>2, <1>6 DEF Keeps, Untokened
      <3>2. ASSUME Tokened(c) PROVE Tokened(c)'
        <4>1. PICK a \in AddrsOf[c] :
                /\ s.token = {[addr |-> a, odcid |-> c]}
                /\ RetryPacket(a, c, s.dcid, s.token) \in toClient
          BY <3>2 DEF Tokened
        <4>2. s.stage \notin {"grease", "v1"}
          BY <3>2 DEF Tokened
        <4>3. n.conn.stage \notin {"grease", "v1"}
          BY <1>6, <4>2 DEF Keeps
        <4>4. RetryPacket(a, c, n.conn.dcid, n.conn.token) \in toClient'
          BY <1>1, <2>1, <4>1
        <4>5. QED  BY <1>2, <2>1, <4>1, <4>3, <4>4 DEF Tokened
      <3>3. \A b \in Clients : b # c => (Untokened(b) => Untokened(b)') /\ (Tokened(b) => Tokened(b)')
        BY <1>1, <1>2 DEF Untokened, Tokened
      <3>4. QED  BY <3>1, <3>2, <3>3 DEF AdmissionInv, ClientsInv
    <2>3. KeysInv'
      BY <1>2, <1>6 DEF Keeps, AdmissionInv, KeysInv
    <2>4. InitialsInv'
      BY <1>2, <1>3, <1>5, <2>1 DEF AdmissionInv, InitialsInv
    <2>5. AcceptedInv'
      BY <1>1, <1>2, <2>1 DEF AdmissionInv, AcceptedInv
    <2>6. EndsAgree'
      BY <1>1, <1>2, <2>1 DEF AdmissionInv, EndsAgree
    <2>7. QED  BY <1>4, <2>2, <2>3, <2>4, <2>5, <2>6 DEF AdmissionInv
  <1>7. CASE toServer' = toServer /\ \E r \in toClient : Takes(c, n, r)
    <2>1. PICK r \in toClient : Takes(c, n, r)
      BY <1>7
    <2>2. s.dcid = c /\ s.token = {} /\ s.key = 0
      BY <2>1 DEF Takes, AdmissionInv, ClientsInv, KeysInv, Untokened, Tokened
    <2>3. r = RetryPacket(r.to, r.odcid, r.cid, r.token)
          /\ r.token = {[addr |-> r.to, odcid |-> r.odcid]}
      BY <2>1, RetryIs DEF Takes, TypeOK, AdmissionInv, RetriesInv
    <2>4. ClientsInv'
      <3>1. Tokened(c)'
        <4>1. r.to \in AddrsOf[c] /\ n.conn.stage = "retried"
              /\ n.conn.token = {[addr |-> r.to, odcid |-> c]}
          BY <2>1, <2>2, <2>3 DEF Takes
        <4>2. RetryPacket(r.to, c, n.conn.dcid, n.conn.token) \in toClient'
          BY <1>1, <2>1, <2>2, <2>3 DEF Takes
        <4>3. QED  BY <1>2, <4>1, <4>2 DEF Tokened
      <3>2. \A b \in Clients : b # c => (Untokened(b) => Untokened(b)') /\ (Tokened(b) => Tokened(b)')
        BY <1>1, <1>2 DEF Untokened, Tokened
      <3>3. QED  BY <3>1, <3>2 DEF AdmissionInv, ClientsInv
    <2>5. KeysInv'
      BY <1>2, <2>1, <2>2 DEF Takes, AdmissionInv, KeysInv
    <2>6. InitialsInv'
      <3>1. \A d \in toServer : d.token # {} => d.from # c
        BY <2>2 DEF AdmissionInv, InitialsInv
      <3>2. QED  BY <1>2, <1>5, <1>7, <3>1 DEF AdmissionInv, InitialsInv
    <2>7. AcceptedInv'
      <3>1. \A i \in 1..Len(accepted) :
              /\ accepted[i].odcid \in Clients
              /\ cl[accepted[i].odcid].conn.token # {}
        <4>1. \A i \in 1..Len(accepted) :
                /\ accepted[i].odcid \in Clients
                /\ cl[accepted[i].odcid].conn.token
                     = {[addr |-> accepted[i].addr, odcid |-> accepted[i].odcid]}
          BY DEF AdmissionInv, AcceptedInv
        <4>2. QED  BY <4>1
      <3>2. \A i \in 1..Len(accepted) : cl'[accepted[i].odcid] = cl[accepted[i].odcid]
        BY <1>2, <2>2, <3>1
      <3>3. QED  BY <1>1, <3>2 DEF AdmissionInv, AcceptedInv
    <2>8. EndsAgree'
      BY <1>1, <1>2, <2>1, <2>2 DEF Takes, AdmissionInv, EndsAgree
    <2>9. QED  BY <1>4, <2>4, <2>5, <2>6, <2>7, <2>8 DEF AdmissionInv
  <1>8. CASE toServer' = toServer /\ \E h \in toClient : Shakes(c, n, h)
    <2>1. PICK h \in toClient : Shakes(c, n, h)
      BY <1>8
    <2>2. n.conn.dcid = s.dcid /\ n.conn.token = s.token
      BY <2>1 DEF Shakes
    <2>3. /\ h.key \in 1..Len(accepted)
          /\ accepted[h.key] = [cid |-> h.cid, addr |-> h.to, odcid |-> h.odcid]
      BY <2>1 DEF Shakes, AdmissionInv, HellosInv
    <2>4. ClientsInv'
      <3>1. Tokened(c)'
        BY <1>1, <1>2, <2>1, <2>2 DEF Shakes, AdmissionInv, ClientsInv, Untokened, Tokened
      <3>2. \A b \in Clients : b # c => (Untokened(b) => Untokened(b)') /\ (Tokened(b) => Tokened(b)')
        BY <1>1, <1>2 DEF Untokened, Tokened
      <3>3. QED  BY <3>1, <3>2 DEF AdmissionInv, ClientsInv
    <2>5. KeysInv'
      <3>1. h.key # 0
        BY <2>3
      <3>2. QED  BY <1>2, <2>1, <3>1 DEF Shakes, AdmissionInv, KeysInv
    <2>6. InitialsInv'
      BY <1>2, <1>5, <1>8, <2>2 DEF AdmissionInv, InitialsInv
    <2>7. AcceptedInv'
      BY <1>1, <1>2, <2>2 DEF AdmissionInv, AcceptedInv
    <2>8. EndsAgree'
      <3>1. /\ n.conn.key <= Len(accepted)
            /\ accepted[n.conn.key].cid = n.conn.dcid
            /\ accepted[n.conn.key].odcid = c
            /\ accepted[n.conn.key].addr \in AddrsOf[c]
        BY <2>1, <2>3 DEF Shakes
      <3>2. QED  BY <1>1, <1>2, <3>1 DEF AdmissionInv, EndsAgree
    <2>9. QED  BY <1>4, <2>4, <2>5, <2>6, <2>7, <2>8 DEF AdmissionInv
  <1>9. QED  BY <1>6, <1>7, <1>8, ClientMoves

-----------------------------------------------------------------------------
\* The clients' part of the invariant survives what does not concern it.
LEMMA ClientsApart ==
    ASSUME AdmissionInv, cl' = cl, toServer' = toServer, toClient \subseteq toClient'
    PROVE  ClientsInv' /\ KeysInv' /\ InitialsInv'
  <1>1. \A c \in Clients : (Untokened(c) => Untokened(c)') /\ (Tokened(c) => Tokened(c)')
    BY DEF Untokened, Tokened
  <1>2. QED  BY <1>1 DEF AdmissionInv, ClientsInv, KeysInv, InitialsInv

LEMMA SettlesAdmission ==
    ASSUME AdmissionInv, Settles, cl' = cl
    PROVE  AdmissionInv'
  <1>1. UNCHANGED <<opened, accepted, toServer>> /\ toClient \subseteq toClient'
    BY DEF Settles
  <1>2. \A m \in toClient' : IsRetry(m) => m \in toClient
    BY DEF Settles, Speaks, IsRetry, Hello, Answer
  <1>3. RetriesInv'
    BY <1>1, <1>2 DEF AdmissionInv, RetriesInv
  <1>4. HellosInv'
    <2> SUFFICES ASSUME NEW h \in toClient', h.kind = "hello", h \notin toClient
                 PROVE  /\ h.key \in 1..Len(accepted)
                        /\ accepted[h.key] = [cid |-> h.cid, addr |-> h.to, odcid |-> h.odcid]
      BY <1>1 DEF AdmissionInv, HellosInv
    <2>1. PICK x \in Live : h = Hello(conns[x].addr, conns[x].odcid, x, conns[x].key)
      BY DEF Settles, Speaks, Answer
    <2>2. h.to = conns[x].addr /\ h.odcid = conns[x].odcid /\ h.cid = x /\ h.key = conns[x].key
      BY <2>1 DEF Hello
    <2>3. QED  BY <2>2 DEF AdmissionInv, TableInv
  <1>5. TableInv'
    <2> SUFFICES ASSUME NEW x \in Live'
                 PROVE  /\ conns'[x].key \in 1..Len(accepted')
                        /\ accepted'[conns'[x].key]
                             = [cid |-> x, addr |-> conns'[x].addr, odcid |-> conns'[x].odcid]
      BY DEF TableInv
    <2>1. /\ x \in Live
          /\ conns'[x].addr = conns[x].addr /\ conns'[x].odcid = conns[x].odcid
          /\ conns'[x].key = conns[x].key
      BY DEF Settles
    <2>2. QED  BY <1>1, <2>1 DEF AdmissionInv, TableInv
  <1>6. AcceptedInv' /\ EndsAgree'
    BY <1>1 DEF AdmissionInv, AcceptedInv, EndsAgree
  <1>7. QED  BY <1>1, <1>3, <1>4, <1>5, <1>6, ClientsApart DEF AdmissionInv

LEMMA RetryAdmission ==
    ASSUME TypeOK, AdmissionInv, NEW d \in toServer, NEW a \in Addrs,
           StatelessRetry(d, a), cl' = cl
    PROVE  AdmissionInv'
  <1> DEFINE r == RetryPacket(a, d.dcid, opened + 1, mint_token(d, a))
  <1>1. /\ UNCHANGED <<conns, accepted, toServer>>
        /\ toClient' = toClient \cup {r} /\ opened' = opened + 1 /\ opened \in Nat
    BY QuicConnAssumption
       DEF StatelessRetry, Unknown, Reads, gen_cid, TypeOK, ServerTypeOK
  <1>2. /\ r.kind = "retry" /\ r.cid = opened + 1
        /\ r.token = {[addr |-> r.to, odcid |-> r.odcid]}
    BY DEF RetryPacket, mint_token
  <1> HIDE DEF r
  <1>3. RetriesInv'
    BY <1>1, <1>2 DEF AdmissionInv, RetriesInv, IsRetry
  <1>4. HellosInv'
    BY <1>1, <1>2 DEF AdmissionInv, HellosInv
  <1>5. TableInv' /\ AcceptedInv' /\ EndsAgree'
    BY <1>1 DEF AdmissionInv, TableInv, AcceptedInv, EndsAgree, Live
  <1>6. QED  BY <1>1, <1>3, <1>4, <1>5, ClientsApart DEF AdmissionInv

\* The connection that is created is the one offered to the client that sent
\* the datagram, at the address it came from.
LEMMA CreatesOffered ==
    ASSUME TypeOK, AdmissionInv, NEW d \in toServer, NEW a \in Addrs, Creates(d, a)
    PROVE  LET c == d.from
           IN  /\ c \in Clients /\ a \in AddrsOf[c] /\ token_odcid(d.token) = c
               /\ d.token = {[addr |-> a, odcid |-> c]}
               /\ cl[c].conn.dcid = d.dcid /\ cl[c].conn.token = d.token
               /\ RetryPacket(a, c, d.dcid, d.token) \in toClient
  <1> DEFINE c == d.from
  <1>1. PICK t \in d.token : t.addr = a
    BY DEF Creates, validate_token
  <1>2. c \in Clients
    BY DEF TypeOK, ToServer
  <1>3. d.token = cl[c].conn.token /\ d.dcid = cl[c].conn.dcid /\ d.token # {}
    BY <1>1 DEF AdmissionInv, InitialsInv
  <1>4. PICK b \in AddrsOf[c] :
          /\ d.token = {[addr |-> b, odcid |-> c]}
          /\ RetryPacket(b, c, d.dcid, d.token) \in toClient
    BY <1>2, <1>3 DEF AdmissionInv, ClientsInv, Untokened, Tokened
  <1>5. b = a
    BY <1>1, <1>4
  <1>6. token_odcid(d.token) = c
    <2>1. (CHOOSE x \in d.token : TRUE) \in d.token
      BY <1>1
    <2>2. QED  BY <1>4, <2>1 DEF token_odcid
  <1>7. QED  BY <1>2, <1>3, <1>4, <1>5, <1>6

LEMMA CreatesAdmission ==
    ASSUME TypeOK, AdmissionInv, NEW d \in toServer, NEW a \in Addrs, Creates(d, a), cl' = cl
    PROVE  AdmissionInv'
  <1> DEFINE c == d.from
             e == [cid |-> d.dcid, addr |-> a, odcid |-> c]
             n == Len(accepted) + 1
  <1>1. /\ c \in Clients /\ a \in AddrsOf[c] /\ token_odcid(d.token) = c
        /\ cl[c].conn.dcid = d.dcid
        /\ cl[c].conn.token = {[addr |-> a, odcid |-> c]}
    BY CreatesOffered
  <1>2. UNCHANGED <<opened, toServer, toClient>>
    BY DEF Creates
  <1>3. /\ Len(accepted) \in Nat /\ Len(accepted') = n
        /\ accepted'[n] = e
        /\ \A i \in 1..Len(accepted) : accepted'[i] = accepted[i]
    BY <1>1 DEF Creates, TypeOK, ServerTypeOK
  <1>4. e.cid = d.dcid /\ e.addr = a /\ e.odcid = c
    OBVIOUS
  <1> HIDE DEF e, n
  <1>5. 1..n = 1..Len(accepted) \cup {n}
    BY <1>3 DEF n
  <1>6. AcceptedInv'
    <2> SUFFICES ASSUME NEW i \in 1..n
                 PROVE  LET f == accepted'[i]
                        IN  /\ f.odcid \in Clients
                            /\ f.addr \in AddrsOf[f.odcid]
                            /\ cl[f.odcid].conn.dcid = f.cid
                            /\ cl[f.odcid].conn.token = {[addr |-> f.addr, odcid |-> f.odcid]}
      BY <1>3 DEF AcceptedInv
    <2>1. CASE i = n
      BY <1>1, <1>3, <1>4, <2>1
    <2>2. CASE i \in 1..Len(accepted)
      BY <1>3, <2>2 DEF AdmissionInv, AcceptedInv
    <2>3. QED  BY <1>5, <2>1, <2>2
  <1>7. TableInv'
    <2> SUFFICES ASSUME NEW x \in Live'
                 PROVE  /\ conns'[x].key \in 1..n
                        /\ accepted'[conns'[x].key]
                             = [cid |-> x, addr |-> conns'[x].addr, odcid |-> conns'[x].odcid]
      BY <1>3 DEF TableInv
    <2>1. CASE x = d.dcid
      BY <1>1, <1>3, <1>5, <2>1 DEF Creates, e, n
    <2>2. CASE x \in Live
      <3>1. conns'[x] = conns[x]
        BY <2>2 DEF Creates
      <3>2. QED  BY <1>3, <1>5, <2>2, <3>1 DEF AdmissionInv, TableInv
    <2>3. QED  BY <2>1, <2>2 DEF Creates
  <1>8. HellosInv'
    BY <1>2, <1>3, <1>5 DEF AdmissionInv, HellosInv
  <1>9. EndsAgree'
    <2> SUFFICES ASSUME NEW b \in Clients, cl[b].conn.key # 0
                 PROVE  LET s == cl[b].conn
                        IN  /\ s.key <= Len(accepted')
                            /\ accepted'[s.key].cid = s.dcid
                            /\ accepted'[s.key].odcid = b
                            /\ accepted'[s.key].addr \in AddrsOf[b]
      BY DEF EndsAgree
    <2>1. cl[b].conn.key \in 1..Len(accepted)
      <3>1. cl[b].conn.key \in 0..MaxConns
        BY DEF TypeOK, ClientTypeOK, Client, ClientConn
      <3>2. cl[b].conn.key <= Len(accepted)
        BY DEF AdmissionInv, EndsAgree
      <3>3. QED  BY <1>3, <3>1, <3>2
    <2>2. QED  BY <1>3, <2>1 DEF AdmissionInv, EndsAgree, n
  <1>10. RetriesInv'
    BY <1>2 DEF AdmissionInv, RetriesInv
  <1>11. QED  BY <1>2, <1>6, <1>7, <1>8, <1>9, <1>10, ClientsApart DEF AdmissionInv

LEMMA ServesAdmission ==
    ASSUME AdmissionInv, NEW d, NEW x, Serves(d, x), cl' = cl
    PROVE  AdmissionInv'
  <1>1. /\ UNCHANGED <<opened, accepted, toServer, toClient>> /\ Live' = Live
        /\ \A y \in Live : /\ conns'[y].addr = conns[y].addr
                           /\ conns'[y].odcid = conns[y].odcid
                           /\ conns'[y].key = conns[y].key
    BY DEF Serves
  <1>2. TableInv'
    BY <1>1 DEF AdmissionInv, TableInv
  <1>3. RetriesInv' /\ HellosInv' /\ AcceptedInv' /\ EndsAgree'
    BY <1>1 DEF AdmissionInv, RetriesInv, HellosInv, AcceptedInv, EndsAgree
  <1>4. QED  BY <1>1, <1>2, <1>3, ClientsApart DEF AdmissionInv

-----------------------------------------------------------------------------
SafeInv == TypeInv /\ AdmissionInv

LEMMA AdmissionInit == Init => AdmissionInv
  <1> SUFFICES ASSUME Init PROVE AdmissionInv
    OBVIOUS
  <1> USE DEF Init, NetInit, ServerInit, ClientInit, NewClientConn
  <1>1. ClientsInv /\ KeysInv /\ EndsAgree
    BY DEF ClientsInv, KeysInv, EndsAgree, Untokened
  <1>2. TableInv /\ AcceptedInv
    BY DEF TableInv, AcceptedInv, Live
  <1>3. QED  BY <1>1, <1>2 DEF AdmissionInv, RetriesInv, InitialsInv, HellosInv

LEMMA StutterAdmission == AdmissionInv /\ UNCHANGED vars => AdmissionInv'
  <1> SUFFICES ASSUME AdmissionInv, UNCHANGED vars PROVE AdmissionInv'
    OBVIOUS
  <1>1. UNCHANGED <<conns, opened, accepted, cl, toServer, toClient>>
    BY DEF vars, serverVars, clientVars
  <1>2. QED
    BY <1>1, ClientsApart
       DEF AdmissionInv, RetriesInv, TableInv, AcceptedInv, HellosInv, EndsAgree, Live

LEMMA AdmissionStep == SafeInv /\ [Next]_vars => AdmissionInv'
  <1> SUFFICES ASSUME SafeInv, [Next]_vars PROVE AdmissionInv'
    OBVIOUS
  <1> USE DEF SafeInv, TypeInv
  <1>1. CASE ServerNext /\ UNCHANGED clientVars
    <2>1. cl' = cl
      BY <1>1 DEF clientVars
    <2>2. QED
      BY <1>1, <2>1, ServerStep, SettlesAdmission, RetryAdmission,
         CreatesAdmission, ServesAdmission
  <1>2. CASE ClientNext /\ UNCHANGED serverVars
    <2>1. PICK c \in Clients, n \in Client : StepOf(c, n)
      BY <1>2, ClientStep DEF TypeOK
    <2>2. QED  BY <1>2, <2>1, ClientAdmission
  <1>3. CASE UNCHANGED vars
    BY <1>3, StutterAdmission
  <1>4. QED  BY <1>1, <1>2, <1>3 DEF Next

LEMMA SafeInvariant == Spec => []SafeInv
  <1>1. Init => SafeInv
    BY TypeInvInit, AdmissionInit DEF SafeInv
  <1>2. SafeInv /\ [Next]_vars => SafeInv'
    BY TypeStep, AdmissionStep DEF SafeInv
  <1>3. QED  BY <1>1, <1>2, PTL DEF Spec

\* However often a client's Initials and the Retries to them are repeated, the
\* table never has two connections of one client.
THEOREM OneConnectionEach == Spec => []OnePerClient
  <1>1. SafeInv => OnePerClient
    <2> SUFFICES ASSUME SafeInv, NEW x \in Live, NEW y \in Live,
                        conns[x].odcid = conns[y].odcid
                 PROVE  x = y
      BY DEF OnePerClient
    <2>1. ASSUME NEW z \in Live
          PROVE  z = cl[conns[z].odcid].conn.dcid
      <3>1. /\ conns[z].key \in 1..Len(accepted)
            /\ accepted[conns[z].key].cid = z
            /\ accepted[conns[z].key].odcid = conns[z].odcid
        <4>1. /\ conns[z].key \in 1..Len(accepted)
              /\ accepted[conns[z].key]
                   = [cid |-> z, addr |-> conns[z].addr, odcid |-> conns[z].odcid]
          BY DEF SafeInv, AdmissionInv, TableInv
        <4>2. QED  BY <4>1
      <3>2. QED  BY <3>1 DEF SafeInv, AdmissionInv, AcceptedInv
    <2>2. QED  BY <2>1
  <1>2. QED  BY <1>1, SafeInvariant, PTL

\* No client refuses the handshake because of the ids in it.
THEOREM NobodyRefuses == Spec => []HandshakeAccepted
  <1>1. SafeInv => HandshakeAccepted
    BY DEF SafeInv, AdmissionInv, KeysInv, HandshakeAccepted
  <1>2. QED  BY <1>1, SafeInvariant, PTL

\* The two ends of a connection agree on it.
THEOREM EndsMeet == Spec => []EndsAgree
  <1>1. SafeInv => EndsAgree
    BY DEF SafeInv, AdmissionInv
  <1>2. QED  BY <1>1, SafeInvariant, PTL

-----------------------------------------------------------------------------
(***************************************************************************)
(* server.c keeps the contract of a server that validates addresses.       *)
(***************************************************************************)
OfferOf(r) == [cid |-> r.cid, addr |-> r.to, odcid |-> r.odcid]

\* What a step does to the offers and to the connections that exist for them.
LEMMA AdmissionInitially == Init => Admission!Init
  BY DEF Init, NetInit, ServerInit, Admission!Init, Offers, Table, Live

LEMMA AdmissionSteps ==
    SafeInv /\ [Next]_vars => [Admission!Next]_<<Offers, Table>>
  <1> SUFFICES ASSUME SafeInv, [Next]_vars
               PROVE  Admission!Next \/ UNCHANGED <<Offers, Table>>
    OBVIOUS
  <1> USE DEF SafeInv, TypeInv
  <1>1. CASE Settles
    <2>1. \A m : m \in toClient' /\ m.kind = "retry" <=> m \in toClient /\ m.kind = "retry"
      BY <1>1 DEF Settles, Speaks, Hello, Answer
    <2>2. Offers' = Offers
      BY <2>1 DEF Offers
    <2>3. Table' \subseteq Table
      BY <1>1 DEF Settles, Table
    <2>4. QED  BY <2>2, <2>3 DEF Admission!Next, Admission!Release
  <1>2. ASSUME NEW d \in toServer, NEW a \in Addrs, StatelessRetry(d, a)
        PROVE  Admission!Next
    <2> DEFINE r == RetryPacket(a, d.dcid, opened + 1, mint_token(d, a))
               o == OfferOf(r)
    <2>1. /\ toClient' = toClient \cup {r} /\ conns' = conns
          /\ r.kind = "retry" /\ r.cid = opened + 1
      BY <1>2 DEF StatelessRetry, RetryPacket
    <2>2. o.cid = opened + 1
      BY <2>1 DEF OfferOf
    <2> HIDE DEF r
    <2>3. Offers' = Offers \cup {o} /\ Table' = Table
      BY <2>1 DEF Offers, Table, Live, OfferOf
    <2>4. \A p \in Offers : p.cid # o.cid
      <3>1. opened \in Nat
        BY DEF TypeOK, ServerTypeOK
      <3>2. QED  BY <2>2, <3>1 DEF Offers, AdmissionInv, RetriesInv, IsRetry
    <2> HIDE DEF o
    <2>5. Admission!Offer(o)
      BY <2>3, <2>4 DEF Admission!Offer
    <2>6. QED  BY <2>3, <2>5 DEF Admission!Next
  <1>3. ASSUME NEW d \in toServer, NEW a \in Addrs, Creates(d, a)
        PROVE  Admission!Next
    <2> DEFINE c == d.from
               r == RetryPacket(a, c, d.dcid, d.token)
               o == [cid |-> d.dcid, addr |-> a, odcid |-> c]
    <2>1. token_odcid(d.token) = c /\ r \in toClient
      BY <1>3, CreatesOffered
    <2>2. o \in Offers
      BY <2>1 DEF Offers, RetryPacket
    <2>3. Offers' = Offers
      BY <1>3 DEF Creates, Offers
    <2>4. Table' = Table \cup {o}
      <3>1. /\ Live' = Live \cup {d.dcid}
            /\ \A x \in Live : conns'[x] = conns[x]
            /\ conns'[d.dcid].addr = a /\ conns'[d.dcid].odcid = c
        BY <1>3, <2>1 DEF Creates
      <3>2. QED  BY <3>1 DEF Table
    <2>5. \A p \in Table : p.cid # o.cid
      BY <1>3 DEF Table, Creates
    <2> HIDE DEF o
    <2>6. Admission!Admit(o)
      BY <2>2, <2>3, <2>4, <2>5 DEF Admission!Admit
    <2>7. QED  BY <2>2, <2>3, <2>6 DEF Admission!Next
  <1>4. ASSUME NEW d \in toServer, Serves(d, d.dcid)
        PROVE  UNCHANGED <<Offers, Table>>
    <2>1. /\ Live' = Live /\ toClient' = toClient
          /\ \A y \in Live : conns'[y].addr = conns[y].addr /\ conns'[y].odcid = conns[y].odcid
      BY <1>4 DEF Serves
    <2>2. QED  BY <2>1 DEF Offers, Table
  <1>5. CASE UNCHANGED <<conns, toClient>>
    BY <1>5 DEF Offers, Table, Live
  <1>6. CASE ServerNext
    BY <1>1, <1>2, <1>3, <1>4, <1>6, ServerStep
  <1>7. CASE ClientNext /\ UNCHANGED serverVars
    BY <1>5, <1>7, ClientStep DEF TypeOK, serverVars, StepOf
  <1>8. CASE UNCHANGED vars
    BY <1>5, <1>8 DEF vars, serverVars
  <1>9. QED  BY <1>6, <1>7, <1>8 DEF Next

\* server.c implements the contract: it never offers an id twice and has a
\* connection only for an offer returned from the address it was made to, one
\* per offer at a time.
THEOREM KeepsAdmission == Spec => AdmissionSpec
  <1>1. QED
    BY SafeInvariant, AdmissionInitially, AdmissionSteps, PTL
       DEF Spec, AdmissionSpec, Admission!Spec

-----------------------------------------------------------------------------
(***************************************************************************)
(* Requests and responses.                                                 *)
(***************************************************************************)

\* A client's keys do not change once it has some, nor is its request unwritten.
LEMMA AskedStays ==
    ASSUME TypeOK, AdmissionInv, NEW b \in Clients, NEW n \in Client, StepOf(b, n)
    PROVE  /\ cl[b].conn.key # 0 => n.conn.key = cl[b].conn.key
           /\ cl[b].conn.written => n.conn.written
           /\ \A k : Asked(k) => Asked(k)'
  <1> DEFINE s == cl[b].conn
  <1>1. s.key # 0 => n.conn.key = s.key
    <2>1. ASSUME NEW h, Shakes(b, n, h) PROVE s.key = 0
      BY <2>1 DEF Shakes, AdmissionInv, KeysInv
    <2>2. QED  BY <2>1, ClientMoves DEF Keeps, Takes
  <1>2. s.written => n.conn.written
    <2>1. s \in ClientConn
      BY DEF TypeOK, ClientTypeOK, Client
    <2>2. CASE Receives(b, n)
      <3>1. PICK d \in toClient : n.conn = ClientRecv(b, s, d)
        BY <2>2 DEF Receives
      <3>2. d \in ToClient
        BY DEF TypeOK
      <3> HIDE DEF s
      <3>3. QED  BY <2>1, <3>1, <3>2, RecvEffect DEF Same
    <2>3. CASE Transmits(b, n)
      BY <2>3 DEF Transmits, MaySend
    <2>4. QED  BY <2>2, <2>3 DEF StepOf, Ignores
  <1>3. cl'[b] = n /\ \A c \in Clients : c # b => cl'[c] = cl[c]
    BY DEF StepOf, TypeOK, ClientTypeOK
  <1>4. ASSUME NEW k, Asked(k) PROVE Asked(k)'
    <2>1. PICK c \in Clients : cl[c].conn.key = k /\ cl[c].conn.written /\ k # 0
      BY <1>4 DEF Asked
    <2>2. cl'[c].conn.key = k /\ cl'[c].conn.written
      BY <1>1, <1>2, <1>3, <2>1
    <2>3. QED  BY <2>1, <2>2 DEF Asked
  <1>5. QED  BY <1>1, <1>2, <1>4

LEMMA ClientExchange ==
    ASSUME TypeOK, AdmissionInv, ExchangeInv,
           NEW b \in Clients, NEW n \in Client, StepOf(b, n), UNCHANGED serverVars
    PROVE  ExchangeInv'
  <1> DEFINE s == cl[b].conn
  <1>1. UNCHANGED <<conns, answered, toClient>>
    BY DEF serverVars, StepOf
  <1>2. cl'[b] = n /\ \A c \in Clients : c # b => cl'[c] = cl[c]
    BY DEF StepOf, TypeOK, ClientTypeOK
  <1>3. s \in ClientConn
    BY DEF TypeOK, ClientTypeOK, Client
  <1>4. PendingInv' /\ AnsweredInv' /\ AnswersInv'
    BY <1>1, AskedStays DEF ExchangeInv, PendingInv, AnsweredInv, AnswersInv, Live
  <1>5. RequestsInv'
    <2> SUFFICES ASSUME NEW m \in toServer', m.kind = "request", m \notin toServer
                 PROVE  Asked(m.key)'
      BY AskedStays DEF ExchangeInv, RequestsInv
    <2>1. PICK t : /\ MaySend(b, t)
                   /\ m \in ClientSends(b, t)
                   /\ n.conn.key = t.key /\ n.conn.written = t.written
      BY DEF StepOf, Ignores, Receives, Transmits
    <2>2. t \in ClientConn
      BY <2>1 DEF MaySend
    <2>3. t.written /\ m.key = t.key /\ t.stage = "established"
      BY <2>1, <2>2, ClientSendsType
    <2>4. t.key = s.key /\ s.stage = "established"
      BY <2>1, <2>3 DEF MaySend
    <2>5. s.key # 0
      BY <2>4 DEF AdmissionInv, KeysInv
    <2>6. QED  BY <1>2, <2>1, <2>3, <2>4, <2>5 DEF Asked
  <1>6. FinishedInv'
    <2>1. n.conn.fin => n.conn.key \in answered
      <3>1. s.fin => s.key \in answered /\ s.key # 0
        <4>1. s.fin => s.key \in answered
          BY DEF ExchangeInv, FinishedInv
        <4>2. \A k \in answered : k # 0
          BY DEF TypeOK, ServerTypeOK
        <4>3. QED  BY <4>1, <4>2
      <3>2. s.fin => n.conn.key \in answered
        BY <3>1, AskedStays
      <3>3. CASE n.conn.fin /\ ~s.fin
        <4>1. Receives(b, n)
          BY <3>3 DEF StepOf, Ignores, Transmits, MaySend
        <4>2. PICK d \in toClient : n.conn = ClientRecv(b, s, d)
          BY <4>1 DEF Receives
        <4>3. d \in ToClient
          BY DEF TypeOK
        <4> HIDE DEF s
        <4>4. d.kind = "answer" /\ n.conn.key = d.key
          BY <1>3, <3>3, <4>2, <4>3, RecvEffect DEF Same
        <4>5. QED  BY <4>4 DEF ExchangeInv, AnswersInv
      <3>4. QED  BY <3>2, <3>3
    <2>2. QED  BY <1>1, <1>2, <2>1 DEF ExchangeInv, FinishedInv
  <1>7. QED  BY <1>4, <1>5, <1>6 DEF ExchangeInv

LEMMA ServerExchange ==
    ASSUME TypeOK, NoStaleTimer, ExchangeInv, ServerNext, cl' = cl
    PROVE  ExchangeInv'
  <1>1. \A k : Asked(k)' <=> Asked(k)
    BY DEF Asked
  <1>2. CASE Settles
    <2>1. RequestsInv' /\ AnsweredInv' /\ FinishedInv'
      BY <1>1, <1>2 DEF Settles, ExchangeInv, RequestsInv, AnsweredInv, FinishedInv
    <2>2. PendingInv'
      BY <1>1, <1>2 DEF Settles, ExchangeInv, PendingInv
    <2>3. AnswersInv'
      BY <1>2 DEF Settles, Speaks, Hello, Answer, ExchangeInv, PendingInv, AnswersInv
    <2>4. QED  BY <2>1, <2>2, <2>3 DEF ExchangeInv
  <1>3. ASSUME NEW d \in toServer, NEW a \in Addrs, StatelessRetry(d, a)
        PROVE  ExchangeInv'
    <2>1. /\ UNCHANGED <<conns, answered, toServer>>
          /\ \A m \in toClient' : m.kind = "answer" => m \in toClient
      BY <1>3 DEF StatelessRetry, Unknown, Reads, RetryPacket
    <2>2. QED
      BY <1>1, <2>1 DEF ExchangeInv, RequestsInv, PendingInv, AnsweredInv,
                        AnswersInv, FinishedInv, Live
  <1>4. ASSUME NEW d \in toServer, NEW a \in Addrs, Creates(d, a)
        PROVE  ExchangeInv'
    <2>1. UNCHANGED <<answered, toServer, toClient>>
      BY <1>4 DEF Creates
    <2>2. PendingInv'
      BY <1>1, <1>4 DEF Creates, ExchangeInv, PendingInv
    <2>3. QED
      BY <1>1, <2>1, <2>2 DEF ExchangeInv, RequestsInv, AnsweredInv, AnswersInv, FinishedInv
  <1>5. ASSUME NEW d \in toServer, Serves(d, d.dcid)
        PROVE  ExchangeInv'
    <2> DEFINE x == d.dcid
    <2>1. /\ UNCHANGED <<toServer, toClient>> /\ Live' = Live /\ x \in Live
          /\ \A y \in Live : y # x => conns'[y] = conns[y]
          /\ conns'[x].key = conns[x].key
          /\ answered \subseteq answered'
      BY <1>5 DEF Serves
    <2>2. /\ conns'[x].request \in {"arrived", "answered"} => Asked(conns[x].key)
          /\ conns'[x].request = "answered" => conns[x].key \in answered'
      BY <1>5 DEF Serves, ExchangeInv, PendingInv, RequestsInv
    <2>3. \A k \in answered' : k \in answered \/ Asked(k)
      BY <1>5, <2>2 DEF Serves
    <2>4. PendingInv'
      BY <1>1, <2>1, <2>2 DEF ExchangeInv, PendingInv
    <2>5. QED
      BY <1>1, <2>1, <2>3, <2>4 DEF ExchangeInv, RequestsInv, AnsweredInv,
                                    AnswersInv, FinishedInv
  <1>6. QED  BY <1>2, <1>3, <1>4, <1>5, ServerStep

\* A client has read a response only if the server answered on its connection,
\* and the server answers only on a connection whose client asked.
THEOREM AnswersAreMatched == Spec => []AnswersMatch
  <1>1. Init => ExchangeInv
    <2> SUFFICES ASSUME Init PROVE ExchangeInv
      OBVIOUS
    <2> USE DEF Init, NetInit, ServerInit, ClientInit, NewClientConn
    <2>1. PendingInv /\ FinishedInv
      BY DEF PendingInv, FinishedInv, Live
    <2>2. QED  BY <2>1 DEF ExchangeInv, RequestsInv, AnsweredInv, AnswersInv
  <1>2. SafeInv /\ ExchangeInv /\ [Next]_vars => ExchangeInv'
    <2> SUFFICES ASSUME SafeInv, ExchangeInv, [Next]_vars PROVE ExchangeInv'
      OBVIOUS
    <2> USE DEF SafeInv, TypeInv
    <2>1. CASE ServerNext /\ UNCHANGED clientVars
      BY <2>1, ServerExchange DEF clientVars
    <2>2. CASE ClientNext /\ UNCHANGED serverVars
      <3>1. PICK c \in Clients, n \in Client : StepOf(c, n)
        BY <2>2, ClientStep DEF TypeOK
      <3>2. QED  BY <2>2, <3>1, ClientExchange
    <2>3. CASE UNCHANGED vars
      <3>1. UNCHANGED <<conns, answered, cl, toServer, toClient>>
        BY <2>3 DEF vars, serverVars, clientVars
      <3>2. QED
        BY <3>1 DEF ExchangeInv, RequestsInv, PendingInv, AnsweredInv, AnswersInv,
                    FinishedInv, Asked, Live
    <2>4. QED  BY <2>1, <2>2, <2>3 DEF Next
  <1>3. ExchangeInv => AnswersMatch
    BY DEF ExchangeInv, FinishedInv, AnsweredInv, Asked, AnswersMatch
  <1>4. QED  BY <1>1, <1>2, <1>3, SafeInvariant, PTL DEF Spec

-----------------------------------------------------------------------------
(***************************************************************************)
(* Connections without a timer.                                            *)
(***************************************************************************)

\* A connection is found closed before it ever had a timer, or is freed.
ClosedUnarmed == \A c \in Live : conns[c].phase = "closed" => c \notin armed
TimersInv == UnarmedExcused /\ ClosedAreFreed /\ ClosedUnarmed

LEMMA FlushLoopTimers ==
    ASSUME TypeOK, FlushLoop
    PROVE  TimersInv'
  <1>1. PICK failed \in SUBSET MayFail(conns) :
          \E left \in SUBSET failed, late \in SUBSET (MayBeLate(conns) \ failed) :
             LET ks == FlushEgress(conns, failed, left, late)
             IN  /\ conns' = [c \in {x \in Live : Stays(ks[x])} |-> ks[c]]
                 /\ armed' = Timers(ks, failed)
                 /\ missed' = {c \in failed : Stays(ks[c])} \ armed'
    BY DEF FlushLoop
  <1>2. PICK left \in SUBSET failed, late \in SUBSET (MayBeLate(conns) \ failed) :
             LET ks == FlushEgress(conns, failed, left, late)
             IN  /\ conns' = [c \in {x \in Live : Stays(ks[x])} |-> ks[c]]
                 /\ armed' = Timers(ks, failed)
                 /\ missed' = {c \in failed : Stays(ks[c])} \ armed'
    BY <1>1
  <1> DEFINE ks == FlushEgress(conns, failed, left, late)
  <1>3. DOMAIN ks = Live
    BY DEF FlushEgress, Live
  <1> HIDE DEF ks
  <1>4. /\ \A c \in Live' : c \in Live /\ Stays(ks[c]) /\ conns'[c] = ks[c]
        /\ armed' = Timers(ks, failed)
        /\ missed' = {c \in failed : Stays(ks[c])} \ armed'
    BY <1>2 DEF Live, ks
  <1>5. ASSUME NEW c \in Live', c \notin armed'
        PROVE  conns'[c].overdue \/ c \in missed'
    BY <1>3, <1>4, <1>5 DEF Timers, ArmedAfter
  <1>6. \A c \in Live' : conns'[c].phase # "closed"
    BY <1>4 DEF Stays
  <1>7. QED  BY <1>5, <1>6 DEF TimersInv, UnarmedExcused, ClosedAreFreed, ClosedUnarmed

LEMMA TimeoutCbTimers ==
    ASSUME TypeOK, NoStaleTimer, TimersInv,
           NEW c \in armed, NEW k \in ServerTimeouts(conns[c]), TimeoutCb(c, k)
    PROVE  TimersInv'
  <1> USE DEF TypeOK, ServerTypeOK, Live
  <1>1. c \in Live /\ k \in ServerConn
    BY ServerTimeoutsType DEF NoStaleTimer
  <1> DEFINE one == [x \in {c} |-> k]
  <1>2. PICK failed \in SUBSET MayFail(one) :
          \E left \in SUBSET failed, late \in SUBSET (MayBeLate(one) \ failed) :
             LET after == FlushEgress(one, failed, left, late)[c]
             IN  /\ conns' = IF Stays(k) THEN [conns EXCEPT ![c] = after]
                             ELSE [x \in Live \ {c} |-> conns[x]]
                 /\ armed' = (armed \ {c}) \cup Timers([x \in {c} |-> after], failed)
    BY DEF TimeoutCb
  <1>3. PICK left \in SUBSET failed, late \in SUBSET (MayBeLate(one) \ failed) :
             LET after == FlushEgress(one, failed, left, late)[c]
             IN  /\ conns' = IF Stays(k) THEN [conns EXCEPT ![c] = after]
                             ELSE [x \in Live \ {c} |-> conns[x]]
                 /\ armed' = (armed \ {c}) \cup Timers([x \in {c} |-> after], failed)
    BY <1>2
  <1> DEFINE after == FlushEgress(one, failed, left, late)[c]
  <1>4. after.phase = k.phase
    BY <1>1, FlushedType
  <1> HIDE DEF after
  <1>5. c \in armed' <=> Stays(after) /\ ArmedAfter(c, after, c \in failed)
    BY <1>3 DEF Timers, after
  <1>6. \A x \in Live \ {c} : x \in armed' <=> x \in armed
    BY <1>3 DEF Timers, after
  <1>7. /\ c \in Live' <=> Stays(k)
        /\ c \in Live' => conns'[c] = after
        /\ \A x \in Live' \ {c} : x \in Live /\ conns'[x] = conns[x]
    <2>1. CASE Stays(k)
      BY <1>1, <1>3, <2>1 DEF after
    <2>2. CASE ~Stays(k)
      BY <1>1, <1>3, <2>2 DEF after
    <2>3. QED  BY <2>1, <2>2
  <1>8. c \in Live' => after.phase # "closed" /\ (c \notin armed' => after.overdue)
    BY <1>4, <1>5, <1>7 DEF Stays, ArmedAfter
  <1>9. spc = "idle" /\ missed' = missed
    BY DEF TimeoutCb
  <1>10. ASSUME NEW x \in Live'
         PROVE  /\ x \notin armed' => conns'[x].overdue \/ x \in missed
                /\ conns'[x].phase = "closed" => x \in missed /\ x \notin armed'
    <2>1. CASE x = c
      BY <1>7, <1>8, <2>1
    <2>2. CASE x # c
      BY <1>6, <1>7, <1>9, <2>2
         DEF TimersInv, UnarmedExcused, ClosedAreFreed, ClosedUnarmed
    <2>3. QED  BY <2>1, <2>2
  <1>11. QED
    BY <1>9, <1>10 DEF TimersInv, UnarmedExcused, ClosedAreFreed, ClosedUnarmed

\* A connection that is created has no timer yet, and none is closed by what
\* it receives later.
LEMMA ReadTimers ==
    ASSUME TypeOK, NoStaleTimer, TimersInv, NEW d \in toServer, NEW a \in Addrs,
           \/ NegotiateVersion(d, a) \/ StatelessRetry(d, a) \/ DropsDatagram(d, a)
           \/ CreateFails(d, a) \/ create_conn(d, a) \/ ConnRecv(d, a)
    PROVE  TimersInv'
  <1>1. spc' = "reading" /\ armed' = armed
    BY DEF NegotiateVersion, StatelessRetry, DropsDatagram, CreateFails,
           create_conn, ConnRecv, Unknown, Reads
  <1>2. CASE conns' = conns
    BY <1>1, <1>2 DEF TimersInv, UnarmedExcused, ClosedAreFreed, ClosedUnarmed, Live
  <1>3. CASE create_conn(d, a)
    <2>1. d.dcid \notin armed
      BY <1>3 DEF create_conn, Unknown, NoStaleTimer
    <2>2. \A x \in Live' : x = d.dcid \/ (x \in Live /\ conns'[x] = conns[x])
      BY <1>3, CreateType DEF Creates
    <2>3. QED
      BY <1>1, <2>1, <2>2 DEF TimersInv, UnarmedExcused, ClosedAreFreed, ClosedUnarmed
  <1>4. CASE ConnRecv(d, a)
    <2> DEFINE k == conns[d.dcid]
    <2>1. k \in ServerConn /\ d \in ToServer /\ d.dcid \in Live
      BY <1>4 DEF ConnRecv, TypeOK, ServerTypeOK
    <2>2. PICK n \in EchoStreams(ServerRecv(k, d)) : conns' = [conns EXCEPT ![d.dcid] = n]
      BY <1>4 DEF ConnRecv
    <2>3. n.phase = ServerRecv(k, d).phase
      BY <2>1, ServerRecvType DEF EchoStreams, ServerConn
    <2>4. n.phase = "closed" => k.phase = "closed"
      <3>1. PhaseAfter[d.kind] # "closed"
        BY <2>1 DEF PhaseAfter, ToServer
      <3>2. QED  BY <2>1, <2>3, <3>1 DEF ServerRecv, ServerConn
    <2>5. \A x \in Live' : x \in Live /\ (conns'[x].phase = "closed" => conns[x].phase = "closed")
      BY <2>1, <2>2, <2>4 DEF Live, TypeOK, ServerTypeOK
    <2>6. QED
      BY <1>1, <2>5 DEF TimersInv, UnarmedExcused, ClosedAreFreed, ClosedUnarmed
  <1>5. QED
    BY <1>2, <1>3, <1>4 DEF NegotiateVersion, StatelessRetry, DropsDatagram, CreateFails

LEMMA GiveUpTimers ==
    ASSUME TimersInv, ParseError \/ ReadError
    PROVE  TimersInv'
  <1>1. CASE ParseError
    BY <1>1 DEF ParseError, TimersInv, UnarmedExcused, ClosedAreFreed, ClosedUnarmed, Live
  <1>2. CASE ReadError
    BY <1>2 DEF ReadError, TimersInv, UnarmedExcused, ClosedAreFreed, ClosedUnarmed, Live
  <1>3. QED  BY <1>1, <1>2

LEMMA TimersInvariant == Spec => []TimersInv
  <1>1. Init => TimersInv
    BY DEF Init, ServerInit, TimersInv, UnarmedExcused, ClosedAreFreed, ClosedUnarmed, Live
  <1>2. TypeInv /\ TimersInv /\ [Next]_vars => TimersInv'
    <2> SUFFICES ASSUME TypeInv, TimersInv, [Next]_vars PROVE TimersInv'
      OBVIOUS
    <2> USE DEF TypeInv
    <2>1. CASE ServerNext
      BY <2>1, ReadTimers, GiveUpTimers, FlushLoopTimers, TimeoutCbTimers
         DEF ServerNext, ConnTimeout
    <2>2. CASE UNCHANGED serverVars
      BY <2>2 DEF serverVars, TimersInv, UnarmedExcused, ClosedAreFreed, ClosedUnarmed, Live
    <2>3. QED  BY <2>1, <2>2 DEF Next, vars
  <1>3. QED  BY <1>1, <1>2, TypeInvInit, TypeStep, PTL DEF Spec

\* A connection of the server has no timer only for one of three reasons: its
\* deadline had passed when it was flushed, or its flush failed or was skipped.
THEOREM UnarmedForAReason == Spec => []UnarmedExcused
  <1>1. TimersInv => UnarmedExcused
    BY DEF TimersInv
  <1>2. QED  BY <1>1, TimersInvariant, PTL

\* A closed connection is freed in the callback that finds it closed, unless
\* that callback gave up.
THEOREM ClosedDoNotStay == Spec => []ClosedAreFreed
  <1>1. TimersInv => ClosedAreFreed
    BY DEF TimersInv
  <1>2. QED  BY <1>1, TimersInvariant, PTL

\* What flush_egress of a client leaves: a timer, or a reason for none.
LEMMA FlushClientTimer ==
    ASSUME ClientTypeOK, ClientUnarmedExcused, NEW c \in Clients, NEW s, NEW p, NEW run,
           p \in Client, s \in ClientConn, FlushClient(c, s, p, run)
    PROVE  ClientUnarmedExcused'
  <1>1. CASE SendsAll(c, s, p, run)
    <2>1. PICK late \in BOOLEAN :
            cl' = [cl EXCEPT ![c] =
                    [p EXCEPT !.run = run,
                              !.conn = [s EXCEPT !.stage = StageAfterSend(s),
                                                 !.out = FALSE,
                                                 !.overdue = Overdue(s, late)],
                              !.armed = Rearmed(p, Overdue(s, late)),
                              !.missed = FALSE]]
      BY <1>1 DEF SendsAll
    <2> DEFINE o == Overdue(s, late)
               g == Rearmed(p, o)
               k == [s EXCEPT !.stage = StageAfterSend(s), !.out = FALSE, !.overdue = o]
    <2>2. cl'[c].armed = g /\ cl'[c].conn = k
      BY <2>1 DEF ClientTypeOK, Client
    <2>3. k.overdue = o
      BY DEF ClientConn
    <2>4. o \/ g
      BY DEF Rearmed
    <2> HIDE DEF o, g, k
    <2>5. \A b \in Clients : b # c => cl'[b] = cl[b]
      BY <2>1 DEF ClientTypeOK
    <2>6. QED  BY <2>2, <2>3, <2>4, <2>5 DEF ClientUnarmedExcused
  <1>2. CASE SendFails(c, s, p, run)
    <2>1. PICK left \in BOOLEAN :
            cl' = [cl EXCEPT ![c] =
                    [p EXCEPT !.run = run,
                              !.conn = [s EXCEPT !.stage = StageAfterSend(s), !.out = left],
                              !.missed = ~p.armed]]
      BY <1>2 DEF SendFails
    <2> DEFINE k == [s EXCEPT !.stage = StageAfterSend(s), !.out = left]
               m == ~p.armed
    <2>2. cl'[c].armed = p.armed /\ cl'[c].missed = m
      BY <2>1 DEF ClientTypeOK, Client
    <2>3. \A b \in Clients : b # c => cl'[b] = cl[b]
      BY <2>1 DEF ClientTypeOK
    <2>4. QED  BY <2>2, <2>3 DEF ClientUnarmedExcused
  <1>3. QED  BY <1>1, <1>2 DEF FlushClient

\* The steps of a client that do not flush.
LEMMA UnflushedTimer ==
    ASSUME ClientTypeOK, ClientUnarmedExcused, NEW c \in Clients,
           \/ cl' = [cl EXCEPT ![c].run = "failed"]
           \/ \E d \in toClient : ClientReads(c, d)
           \/ ClientReadError(c)
           \/ RequestRefused(c)
    PROVE  ClientUnarmedExcused'
  <1>1. cl[c] \in Client
    BY DEF ClientTypeOK
  <1>2. \A b \in Clients : b # c => cl'[b] = cl[b]
    BY DEF ClientTypeOK, ClientReads, ClientReadError, RequestRefused
  <1>3. cl'[c].run # "idle" \/ cl'[c].missed \/ cl'[c].armed
    <2>1. CASE cl' = [cl EXCEPT ![c].run = "failed"] \/ \E d \in toClient : ClientReads(c, d)
      BY <1>1, <2>1 DEF ClientTypeOK, Client, ClientReads
    <2>2. CASE ClientReadError(c) \/ RequestRefused(c)
      <3> DEFINE m == ~cl[c].armed
      <3>1. cl' = [cl EXCEPT ![c].run = "idle", ![c].missed = m]
        BY <2>2 DEF ClientReadError, RequestRefused
      <3>2. cl'[c].missed = m /\ cl'[c].armed = cl[c].armed
        BY <1>1, <3>1 DEF ClientTypeOK, Client
      <3>3. QED  BY <3>2
    <2>3. QED  BY <2>1, <2>2
  <1>4. QED  BY <1>2, <1>3 DEF ClientUnarmedExcused

\* A client in its event loop has no timer only for one of the three reasons.
THEOREM ClientUnarmedForAReason == Spec => []ClientUnarmedExcused
  <1>1. Init => ClientUnarmedExcused
    BY DEF Init, ClientInit, ClientUnarmedExcused
  <1>2. TypeInv /\ ClientUnarmedExcused /\ [Next]_vars => ClientUnarmedExcused'
    <2> SUFFICES ASSUME TypeInv, ClientUnarmedExcused, [Next]_vars
                 PROVE  ClientUnarmedExcused'
      OBVIOUS
    <2>1. ClientTypeOK
      BY DEF TypeInv, TypeOK
    <2>2. ASSUME NEW c \in Clients,
                 \/ ClientMain(c)
                 \/ ClientResponds(c)
                 \/ \E s \in ClientTimeouts(cl[c].conn) : ClientTimeout(c, s)
          PROVE  ClientUnarmedExcused'
      <3>1. cl[c] \in Client /\ cl[c].conn \in ClientConn
        BY <2>1 DEF ClientTypeOK, Client
      <3>2. CASE ClientMain(c)
        BY <2>1, <3>1, <3>2, FlushClientTimer, UnflushedTimer DEF ClientMain
      <3>3. CASE ClientResponds(c)
        <4> DEFINE p == IF RequestDue(cl[c])
                        THEN [cl[c] EXCEPT !.reqSent = TRUE,
                                           !.conn.written = TRUE, !.conn.out = TRUE]
                        ELSE cl[c]
                   s == IF p.conn.fin THEN ClientClose(p.conn) ELSE p.conn
        <4>1. FlushClient(c, s, p, "idle")
          BY <3>3 DEF ClientResponds
        <4>2. p \in Client /\ p.conn \in ClientConn
          <5> DEFINE k == [cl[c].conn EXCEPT !.written = TRUE, !.out = TRUE]
          <5>1. k \in ClientConn
            BY <3>1 DEF ClientConn
          <5>2. CASE RequestDue(cl[c])
            <6>1. p = [cl[c] EXCEPT !.reqSent = TRUE, !.conn = k]
              BY <3>1, <5>2 DEF Client, ClientConn
            <6> HIDE DEF k
            <6>2. QED  BY <3>1, <5>1, <6>1 DEF Client
          <5>3. CASE ~RequestDue(cl[c])
            BY <3>1, <5>3
          <5>4. QED  BY <5>2, <5>3
        <4> HIDE DEF p
        <4>3. s \in ClientConn
          BY <4>2, ClientCloseType
        <4> HIDE DEF s
        <4>4. QED  BY <2>1, <4>1, <4>2, <4>3, FlushClientTimer
      <3>4. CASE \E s \in ClientTimeouts(cl[c].conn) : ClientTimeout(c, s)
        <4>1. PICK s \in ClientTimeouts(cl[c].conn) : ClientTimeout(c, s)
          BY <3>4
        <4>2. QED
          BY <2>1, <3>1, <4>1, ClientTimeoutsType, FlushClientTimer DEF ClientTimeout
      <3>5. QED  BY <2>2, <3>2, <3>3, <3>4
    <2>3. CASE ClientNext
      BY <2>1, <2>2, <2>3, UnflushedTimer DEF ClientNext
    <2>4. CASE UNCHANGED clientVars
      BY <2>4 DEF clientVars, ClientUnarmedExcused
    <2>5. QED  BY <2>3, <2>4 DEF Next, vars
  <1>3. QED  BY <1>1, <1>2, TypeInvInit, TypeStep, PTL DEF Spec
=============================================================================
