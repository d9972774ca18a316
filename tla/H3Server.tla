------------------------------ MODULE H3Server ------------------------------
(***************************************************************************)
(* The server of examples/http3-server.c.  It is server.c with an HTTP/3   *)
(* connection on top of each QUIC connection, made when the handshake is   *)
(* first seen to be done, and with a recv_cb that returns, flushing        *)
(* nothing, on a datagram whose header does not parse.                     *)
(***************************************************************************)
EXTENDS QuicConn

VARIABLES
    conns,      \* conns->h: the hash table, connection id -> connection
    armed,      \* ids whose ev_timer is active in the event loop
    opened,     \* descriptors of /dev/urandom opened, never closed
    spc,        \* "idle" in the event loop, "reading" inside recv_cb
    accepted,   \* history: the connections created, in order
    answered,   \* history: keys of the connections given a response
    missed      \* history: unarmed because a flush failed or was skipped

serverVars == <<conns, armed, opened, spc, accepted, answered, missed>>

Live == DOMAIN conns

ServerTypeOK ==
    /\ Live \subseteq Cids
    /\ conns \in [Live -> ServerConn]
    /\ armed \subseteq Cids
    /\ opened \in 0..Descriptors
    /\ spc \in {"idle", "reading"}
    /\ accepted \in Seq([cid : Cids, addr : Addrs, odcid : Cids])
    /\ Len(accepted) <= MaxConns
    /\ answered \subseteq 1..MaxConns
    /\ missed \subseteq Cids

ServerInit ==
    /\ conns = [c \in {} |-> c]
    /\ armed = {} /\ opened = 0 /\ spc = "idle"
    /\ accepted = <<>> /\ answered = {} /\ missed = {}

mint_token(d, a) == {[addr |-> a, odcid |-> d.dcid]}

validate_token(token, a) == \E t \in token : t.addr = a

token_odcid(token) == (CHOOSE t \in token : TRUE).odcid

-----------------------------------------------------------------------------
\* recv_cb reads datagram d, which shows the source address a.
Reads(d, a) ==
    /\ spc \in {"idle", "reading"}
    /\ d \in toServer
    /\ a \in AddrsOf[d.from]
    /\ spc' = "reading"
    /\ UNCHANGED toServer

Unknown(d, a) == Reads(d, a) /\ d.dcid \notin Live

\* A version the library does not have, which includes the 0 of a packet
\* with a short header, is answered with the versions there are.
NegotiateVersion(d, a) ==
    /\ Unknown(d, a)
    /\ d.version # "v1"
    /\ toClient' = toClient \cup {VersionNegotiation(a)}
    /\ UNCHANGED <<conns, armed, opened, accepted, answered, missed>>

\* gen_cid opens /dev/urandom for each id and leaves it open.
gen_cid == opened < Descriptors /\ opened' = opened + 1

\* A packet without a token, of whatever type, is answered with a Retry.
StatelessRetry(d, a) ==
    /\ Unknown(d, a)
    /\ d.version = "v1" /\ d.token = {}
    /\ gen_cid
    /\ toClient' = toClient
         \cup {RetryPacket(a, d.dcid, opened + 1, mint_token(d, a))}
    /\ UNCHANGED <<conns, armed, accepted, answered, missed>>

\* gen_cid fails, or the token was minted for another address: the datagram
\* is dropped.
DropsDatagram(d, a) ==
    /\ Unknown(d, a)
    /\ d.version = "v1"
    /\ \/ d.token = {} /\ opened = Descriptors
       \/ d.token # {} /\ ~validate_token(d.token, a)
    /\ UNCHANGED <<conns, armed, opened, accepted, answered, missed, toClient>>

\* calloc or quiche_accept fails.
CreateFails(d, a) ==
    /\ Unknown(d, a)
    /\ d.version = "v1" /\ validate_token(d.token, a)
    /\ "create" \in Faults
    /\ UNCHANGED <<conns, armed, opened, accepted, answered, missed, toClient>>

AddConn(cid, k) ==
    conns' = [c \in Live \cup {cid} |-> IF c = cid THEN k ELSE conns[c]]

\* create_conn files the connection under the id the packet was sent to,
\* then the packet is processed: a damaged one closes the new connection.
create_conn(d, a) ==
    /\ Unknown(d, a)
    /\ d.version = "v1" /\ validate_token(d.token, a)
    /\ Len(accepted) < MaxConns
    /\ LET k == NewServerConn(a, token_odcid(d.token), Len(accepted) + 1)
       IN  /\ accepted' = Append(accepted,
                [cid |-> d.dcid, addr |-> k.addr, odcid |-> k.odcid])
           /\ \/ AddConn(d.dcid, ServerRecv(k, d))
              \/ "corrupt" \in Faults /\ AddConn(d.dcid, ServerRecvFails(k))
    /\ UNCHANGED <<armed, opened, answered, missed, toClient>>

\* The connection is made for HTTP/3 at the first datagram after the
\* handshake; when that fails the loop goes on and a later datagram tries
\* again.  Polling finds the headers of the request: the response and its
\* body are handed over, and whether they were taken is not looked at.
Http3Events(k) ==
    LET made == [k EXCEPT !.http3 = TRUE, !.out = @ \/ ~k.http3]
        polled == IF k.request # "arrived" THEN {made}
                  ELSE {[made EXCEPT !.request = "answered", !.out = TRUE]}
                       \cup {x \in {[made EXCEPT !.request = "dropped"]} :
                                "app" \in Faults}
    IN  IF k.phase # "established" THEN {k}
        ELSE polled \cup {x \in {k} : "app" \in Faults /\ ~k.http3}

\* A datagram of a connection in the table.
ConnRecv(d, a) ==
    /\ Reads(d, a)
    /\ d.dcid \in Live
    /\ \E k \in Http3Events(ServerRecv(conns[d.dcid], d)) :
          /\ conns' = [conns EXCEPT ![d.dcid] = k]
          /\ answered' = IF k.request = "answered"
                         THEN answered \cup {k.key} ELSE answered
    /\ UNCHANGED <<armed, opened, accepted, missed, toClient>>

\* A datagram whose header does not parse makes recv_cb return: nothing that
\* was read before it in the same callback is answered yet.
ParseError ==
    /\ "junk" \in Faults
    /\ spc \in {"idle", "reading"}
    /\ spc' = "idle"
    /\ missed' = missed \cup (Live \ armed)
    /\ UNCHANGED <<conns, armed, opened, accepted, answered, toServer, toClient>>

\* recvfrom fails for good: recv_cb returns and flushes nothing.
ReadError ==
    /\ "recv" \in Faults
    /\ spc = "reading"
    /\ spc' = "idle"
    /\ missed' = missed \cup (Live \ armed)
    /\ UNCHANGED <<conns, armed, opened, accepted, answered, toServer, toClient>>

-----------------------------------------------------------------------------
\* flush_egress: what remains of connection k.  Of a send that fails, some
\* packets may be left for the next flush.
Flushed(k, failed, left, late) ==
    IF failed THEN [k EXCEPT !.out = left]
    ELSE [k EXCEPT !.out = FALSE, !.overdue = Overdue(k, late)]

\* ev_timer_again after flush_egress: with the timeout 0 of a deadline that
\* has passed it stops the timer.  A failed send returns before it.
ArmedAfterIfActive(c, k, failed) == c \in armed /\ (failed \/ ~k.overdue)
ArmedAfter(c, k, failed) == IF failed THEN c \in armed ELSE ~k.overdue

\* flush_egress over the connections of ks; failed, left and late are the
\* ones whose send failed, that then had more to send, whose deadline passed.
FlushEgress(ks, failed, left, late) ==
    [c \in DOMAIN ks |-> Flushed(ks[c], c \in failed, c \in left, c \in late)]

MayFail(ks) == {c \in DOMAIN ks : "send" \in Faults /\ ks[c].out}
MayBeLate(ks) == {c \in DOMAIN ks : ks[c].phase # "closed"}

\* HASH_DELETE, ev_timer_stop and free of the connections found closed: the
\* ones that stay in the table, and the timers that stay in the event loop.
StaysAlways(k) == TRUE
Stays(k) == k.phase # "closed"

Timers(ks, failed) ==
    {c \in DOMAIN ks : Stays(ks[c]) /\ ArmedAfter(c, ks[c], c \in failed)}

\* The socket is empty: every connection is flushed, the closed ones leave
\* the table and their timers are stopped.
FlushLoop ==
    /\ spc = "reading"
    /\ spc' = "idle"
    /\ \E failed \in SUBSET MayFail(conns) :
       \E left \in SUBSET failed, late \in SUBSET (MayBeLate(conns) \ failed) :
         LET ks == FlushEgress(conns, failed, left, late)
         IN  /\ conns' = [c \in {x \in Live : Stays(ks[x])} |-> ks[c]]
             /\ armed' = Timers(ks, failed)
             /\ missed' = {c \in failed : Stays(ks[c])} \ armed'
             /\ toClient' = toClient
                  \cup UNION {ServerSends(c, conns[c]) : c \in Live \ failed}
    /\ UNCHANGED <<opened, accepted, answered, toServer>>

\* timeout_cb of connection c: on_timeout, flush, and out of the table when
\* closed.  A failed send leaves the repeating timer as it is.
TimeoutCb(c, k) ==
    /\ spc = "idle"
    /\ c \in armed
    /\ LET ks == [x \in {c} |-> k]
       IN  \E failed \in SUBSET MayFail(ks) :
           \E left \in SUBSET failed, late \in SUBSET (MayBeLate(ks) \ failed) :
             LET after == FlushEgress(ks, failed, left, late)[c]
             IN  /\ conns' = IF Stays(k) THEN [conns EXCEPT ![c] = after]
                             ELSE [x \in Live \ {c} |-> conns[x]]
                 /\ armed' = (armed \ {c}) \cup Timers([x \in {c} |-> after], failed)
                 /\ toClient' = IF failed = {}
                                THEN toClient \cup ServerSends(c, k)
                                ELSE toClient
    /\ UNCHANGED <<opened, spc, accepted, answered, missed, toServer>>

ConnTimeout == \E c \in armed : \E k \in ServerTimeouts(conns[c]) : TimeoutCb(c, k)

-----------------------------------------------------------------------------
ServerNext ==
    \/ \E d \in toServer, a \in Addrs :
         \/ NegotiateVersion(d, a) \/ StatelessRetry(d, a)
         \/ DropsDatagram(d, a)    \/ CreateFails(d, a)
         \/ create_conn(d, a)      \/ ConnRecv(d, a)
    \/ ParseError \/ ReadError \/ FlushLoop \/ ConnTimeout

\* The event loop runs every callback that is due.  A deadline of a
\* connection does not move for ever: the peers stop sending news.
ServerFairness ==
    /\ WF_<<serverVars, toClient>>(FlushLoop)
    /\ \A c \in ServerCids :
         SF_<<serverVars, toClient>>(
            /\ c \in armed
            /\ \E k \in ServerTimeouts(conns[c]) :
                  k.phase = "closed" /\ TimeoutCb(c, k))

-----------------------------------------------------------------------------
\* A timer callback never finds its connection gone: the event loop holds no
\* timer of a connection that was freed (HASH_DELETE, ev_timer_stop, free).
NoStaleTimer == armed \subseteq Live

\* Between callbacks a connection without a timer is one whose deadline had
\* passed when it was flushed, or whose flush failed or was skipped.
UnarmedExcused ==
    spc = "idle" => \A c \in Live \ armed : conns[c].overdue \/ c \in missed

\* A connection does not stay for ever while the event loop holds its timer:
\* it is freed, or its timer is lost.
ServerFrees ==
    \A c \in ServerCids : c \in armed ~> c \notin Live \/ c \notin armed
=============================================================================
