------------------------------ MODULE QuicConn ------------------------------
(***************************************************************************)
(* What the example programs use of the QUIC library and of UDP.  A        *)
(* connection is a record that holds what the programs can tell apart: how *)
(* far its handshake is, whether it has packets to send, whether the       *)
(* deadline that timeout() last reported has passed.  Packets that carry   *)
(* the same news are one datagram.                                         *)
(*                                                                         *)
(* The network: toServer and toClient hold every datagram ever sent and    *)
(* nothing leaves them, so a datagram may arrive late, in another order,   *)
(* again after it was answered, or never.                                  *)
(***************************************************************************)
EXTENDS Naturals, FiniteSets, Sequences

CONSTANTS
    Clients,      \* client processes; each also stands for the destination id
                  \* its library draws for the first packet
    Addrs,        \* UDP addresses
    AddrsOf,      \* the addresses (NAT bindings) a client's datagrams show
    Descriptors,  \* file descriptors the server process may still open
    MaxConns,     \* bound: connections the server creates in a behaviour
    Faults        \* which failures of calls the behaviour may contain

FaultKinds == {"send", "recv", "create", "corrupt", "app", "junk", "main"}

ServerCids == 1..Descriptors        \* ids drawn by gen_cid, in order
Cids == Clients \cup ServerCids

ASSUME QuicConnAssumption ==
    /\ AddrsOf \in [Clients -> SUBSET Addrs]
    /\ \A c1, c2 \in Clients : c1 # c2 => AddrsOf[c1] \cap AddrsOf[c2] = {}
    /\ Descriptors \in Nat
    /\ MaxConns \in Nat
    /\ Clients \cap ServerCids = {}
    /\ Faults \subseteq FaultKinds

VARIABLES toServer, toClient

(***************************************************************************)
(* Datagrams.  key is the position in the server's history of the          *)
(* connection whose handshake made the packet protection keys.  version    *)
(* is what header_info reports: 0 ("short") for a short header.  A token   *)
(* is a set of at most one element, empty for a packet that carries none.  *)
(***************************************************************************)
Token == [addr : Addrs, odcid : Cids]

Initial(c, dcid, version, token) ==
    [kind |-> "initial", from |-> c, dcid |-> dcid, version |-> version,
     token |-> token, key |-> 0]
Finish(c, dcid, key) ==
    [kind |-> "finish", from |-> c, dcid |-> dcid, version |-> "v1",
     token |-> {}, key |-> key]
Short(kind, c, dcid, key) ==
    [kind |-> kind, from |-> c, dcid |-> dcid, version |-> "short",
     token |-> {}, key |-> key]

ToServer ==
    [kind : {"initial", "finish", "request", "close"}, from : Clients,
     dcid : Cids, version : {"grease", "v1", "short"},
     token : SUBSET Token, key : 0..MaxConns]

VersionNegotiation(a) == [kind |-> "vneg", to |-> a]
RetryPacket(a, odcid, cid, token) ==
    [kind |-> "retry", to |-> a, odcid |-> odcid, cid |-> cid, token |-> token]
Hello(a, odcid, cid, key) ==
    [kind |-> "hello", to |-> a, odcid |-> odcid, cid |-> cid, key |-> key]
Answer(a, key) == [kind |-> "answer", to |-> a, key |-> key]

ToClient ==
    [kind : {"vneg"}, to : Addrs]
    \cup [kind : {"retry"}, to : Addrs, odcid : Cids, cid : ServerCids,
          token : SUBSET Token]
    \cup [kind : {"hello"}, to : Addrs, odcid : Cids, cid : Cids,
          key : 1..MaxConns]
    \cup [kind : {"answer"}, to : Addrs, key : 1..MaxConns]

NetInit == toServer = {} /\ toClient = {}

-----------------------------------------------------------------------------
(***************************************************************************)
(* A connection of a server.                                               *)
(***************************************************************************)
ServerConn ==
    [addr : Addrs, odcid : Cids, key : 1..MaxConns,
     phase : {"fresh", "handshake", "established", "draining", "closed"},
     request : {"none", "arrived", "answered", "dropped"},
     out : BOOLEAN, overdue : BOOLEAN, http3 : BOOLEAN]

\* quiche_accept: a connection that has seen no packet and has no deadline.
NewServerConn(a, odcid, key) ==
    [addr |-> a, odcid |-> odcid, key |-> key, phase |-> "fresh",
     request |-> "none", out |-> FALSE, overdue |-> FALSE, http3 |-> FALSE]

\* The packets a connection has the keys and the state for.  A draining or a
\* closed one ignores what it is given.
OpensAnyKey(k, d) ==
    \/ d.kind = "initial" /\ k.phase \in {"fresh", "handshake"}
    \/ d.kind = "finish" /\ k.phase \in {"handshake", "established"}
    \/ d.kind \in {"request", "close"} /\ k.phase = "established"
Opens(k, d) ==
    \/ d.kind = "initial" /\ k.phase \in {"fresh", "handshake"}
    \/ /\ d.key = k.key
       /\ \/ d.kind = "finish" /\ k.phase \in {"handshake", "established"}
          \/ d.kind \in {"request", "close"} /\ k.phase = "established"

PhaseAfter ==
    [initial |-> "handshake", finish |-> "established",
     request |-> "established", close |-> "draining"]

\* quiche_conn_recv: a packet that opens moves the handshake on, is to be
\* acknowledged and sets the idle deadline anew; CONNECTION_CLOSE sets the
\* draining deadline, which replaces the others, and nothing more is sent.
ServerRecv(k, d) ==
    IF Opens(k, d)
    THEN [k EXCEPT !.phase = PhaseAfter[d.kind],
                   !.out = d.kind # "close",
                   !.overdue = FALSE,
                   !.request = IF d.kind = "request" /\ @ = "none"
                               THEN "arrived" ELSE @]
    ELSE k

\* quiche_conn_recv of a first packet that cannot be authenticated: the call
\* fails and, nothing having been received, the connection is closed at once.
ServerRecvFails(k) == [k EXCEPT !.phase = "closed"]

\* What quiche_conn_send writes until it returns Done.
ServerSends(cid, k) ==
    IF ~k.out THEN {}
    ELSE CASE k.phase = "handshake" -> {Hello(k.addr, k.odcid, cid, k.key)}
           [] k.phase = "established" /\ k.request = "answered"
                -> {Answer(k.addr, k.key)}
           [] OTHER -> {}

\* quiche_conn_on_timeout: no deadline has passed, or the idle or draining
\* one has, or a loss one has and there are packets to send again.
ServerTimeouts(k) ==
    {k, [k EXCEPT !.phase = "closed", !.out = FALSE]}
    \cup (IF k.phase = "draining" THEN {}
          ELSE {[k EXCEPT !.out = TRUE]})

-----------------------------------------------------------------------------
(***************************************************************************)
(* The connection of a client.  It begins with a version no server has, is *)
(* told the versions there are, is asked to return a token, and completes  *)
(* the handshake on the server's answer to the third Initial.              *)
(***************************************************************************)
ClientConn ==
    [stage : {"grease", "v1", "retried", "established", "closing",
              "draining", "closed"},
     dcid : Cids, token : SUBSET Token, key : 0..MaxConns,
     written : BOOLEAN, fin : BOOLEAN, out : BOOLEAN, overdue : BOOLEAN]

\* quiche_connect: an Initial is waiting to be sent.
NewClientConn(c) ==
    [stage |-> "grease", dcid |-> c, token |-> {}, key |-> 0,
     written |-> FALSE, fin |-> FALSE, out |-> TRUE, overdue |-> FALSE]

\* The first Retry is taken, when its integrity tag, which covers the id the
\* client chose, is right.
RetryTakenAgain(s, d) == s.stage \in {"v1", "retried", "established"}
RetryTaken(s, d)      == s.stage = "v1" /\ d.odcid = s.dcid

\* quiche_conn_recv: each kind of packet is taken in one stage and ignored in
\* every other.  The server's transport parameters repeat the id the client
\* chose and the Retry's: a mismatch closes the connection with an error.
ClientRecv(c, s, d) ==
    CASE d.kind = "vneg" /\ s.stage = "grease"
           -> [s EXCEPT !.stage = "v1", !.out = TRUE]
      [] d.kind = "retry" /\ RetryTaken(s, d)
           -> [s EXCEPT !.stage = "retried", !.out = TRUE,
                        !.dcid = d.cid, !.token = d.token]
      [] d.kind = "hello" /\ s.stage = "retried" /\ d.cid = s.dcid
           -> [s EXCEPT !.stage = IF d.odcid = c THEN "established"
                                  ELSE "closing",
                        !.key = IF d.odcid = c THEN d.key ELSE 0,
                        !.out = TRUE, !.overdue = FALSE]
      [] d.kind = "answer" /\ s.stage = "established" /\ d.key = s.key
           -> [s EXCEPT !.fin = TRUE, !.out = TRUE, !.overdue = FALSE]
      [] OTHER -> s

\* What quiche_conn_send writes until it returns Done.
ClientSends(c, s) ==
    IF ~s.out THEN {}
    ELSE CASE s.stage = "grease" -> {Initial(c, s.dcid, "grease", {})}
           [] s.stage \in {"v1", "retried"}
                -> {Initial(c, s.dcid, "v1", s.token)}
           [] s.stage = "established"
                -> {Finish(c, s.dcid, s.key)}
                   \cup (IF s.written THEN {Short("request", c, s.dcid, s.key)}
                         ELSE {})
           [] s.stage = "closing" -> {Short("close", c, s.dcid, s.key)}
           [] OTHER -> {}

\* quiche_conn_close
ClientClose(s) ==
    IF s.stage = "established" THEN [s EXCEPT !.stage = "closing", !.out = TRUE]
    ELSE s

\* quiche_conn_on_timeout
ClientTimeouts(s) ==
    {s, [s EXCEPT !.stage = "closed", !.out = FALSE]}
    \cup (IF s.stage = "draining" THEN {}
          ELSE {[s EXCEPT !.out = TRUE]})

\* The stage after quiche_conn_send: writing CONNECTION_CLOSE sets the
\* draining deadline.
StageAfterSend(s) == IF s.stage = "closing" THEN "draining" ELSE s.stage

\* Whether quiche_conn_timeout_as_nanos is 0 after the packets were sent.
\* late says that a deadline passed by now; one that had passed before is
\* replaced only when there was something to send.
Overdue(k, late) == late \/ (k.overdue /\ ~k.out)
=============================================================================
