------------------------------ MODULE H3Client ------------------------------
(***************************************************************************)
(* The clients of examples/http3-client.c.  It is client.c with an HTTP/3  *)
(* connection, made when the handshake is first seen to be done; conn_io   *)
(* comes from malloc, so that until then its http3 pointer is garbage, and *)
(* main frees what it points to after the event loop.                      *)
(***************************************************************************)
EXTENDS QuicConn

VARIABLE cl     \* per client: the process, and in conn its connection

clientVars == <<cl>>

Client ==
    [run : {"new", "idle", "reading", "exited", "failed"},
     conn : ClientConn,
     http3 : {"garbage", "null", "conn"},
     reqSent : BOOLEAN,     \* req_sent
     gaveUp : BOOLEAN,      \* history: a recv_cb returned early
     armed : BOOLEAN,       \* the ev_timer is active
     missed : BOOLEAN]      \* history: unarmed by a flush failed or skipped

ClientTypeOK == cl \in [Clients -> Client]

ClientInit ==
    cl = [c \in Clients |->
            [run |-> "new", conn |-> NewClientConn(c), http3 |-> "garbage",
             reqSent |-> FALSE, gaveUp |-> FALSE,
             armed |-> FALSE, missed |-> FALSE]]

-----------------------------------------------------------------------------
\* ev_timer_again: with the timeout 0 of a deadline that has passed it stops
\* the timer.
Rearmed(p, overdue) == ~overdue

\* flush_egress of client c whose connection is s, then the process is in
\* state run: the packets leave, and the timer is set to what the library
\* reports.
SendsAll(c, s, p, run) ==
    \E late \in (IF s.stage = "closed" THEN {FALSE} ELSE BOOLEAN) :
      LET overdue == Overdue(s, late)
      IN  /\ toServer' = toServer \cup ClientSends(c, s)
          /\ cl' = [cl EXCEPT ![c] =
                      [p EXCEPT !.run = run,
                                !.conn = [s EXCEPT !.stage = StageAfterSend(s),
                                                   !.out = FALSE,
                                                   !.overdue = overdue],
                                !.armed = Rearmed(p, overdue),
                                !.missed = FALSE]]

\* sendto fails: flush_egress returns and leaves the timer as it is.
SendFails(c, s, p, run) ==
    /\ "send" \in Faults
    /\ s.out
    /\ \E left \in BOOLEAN :
         cl' = [cl EXCEPT ![c] =
                  [p EXCEPT !.run = run,
                            !.conn = [s EXCEPT !.stage = StageAfterSend(s),
                                               !.out = left],
                            !.missed = ~p.armed]]
    /\ UNCHANGED toServer

FlushClient(c, s, p, run) == SendsAll(c, s, p, run) \/ SendFails(c, s, p, run)

-----------------------------------------------------------------------------
\* main: set-up fails and the process ends, or the connection is made, the
\* first flush is done and the event loop entered.
ClientMain(c) ==
    /\ cl[c].run = "new"
    /\ \/ FlushClient(c, cl[c].conn, cl[c], "idle")
       \/ /\ "main" \in Faults
          /\ cl' = [cl EXCEPT ![c].run = "failed"]
          /\ UNCHANGED toServer
    /\ UNCHANGED toClient

\* recv_cb: the socket has a datagram for this client.
ClientReads(c, d) ==
    /\ cl[c].run \in {"idle", "reading"}
    /\ d \in toClient
    /\ d.to \in AddrsOf[c]
    /\ cl' = [cl EXCEPT ![c].run = "reading",
                        ![c].conn = ClientRecv(c, @, d)]
    /\ UNCHANGED <<toServer, toClient>>

\* recvfrom fails for good: recv_cb returns.
ClientReadError(c) ==
    /\ "recv" \in Faults
    /\ cl[c].run = "reading"
    /\ cl' = [cl EXCEPT ![c].run = "idle", ![c].missed = ~cl[c].armed,
                        ![c].gaveUp = TRUE]
    /\ UNCHANGED <<toServer, toClient>>

RequestDue(p) == p.conn.stage = "established" /\ ~p.reqSent

\* The HTTP/3 configuration or connection cannot be made: recv_cb returns
\* and flushes nothing; the next datagram makes it try again.
Http3Refused(c) ==
    /\ "app" \in Faults
    /\ cl[c].run = "reading"
    /\ RequestDue(cl[c])
    /\ \E h \in {cl[c].http3, "null"} :
         cl' = [cl EXCEPT ![c].run = "idle", ![c].missed = ~cl[c].armed,
                          ![c].http3 = h, ![c].gaveUp = TRUE]
    /\ UNCHANGED <<toServer, toClient>>

\* The request goes out once; when HTTP/3 refuses it, its result is only
\* printed and req_sent is set all the same.
RequestedUnkept(p) == {[p EXCEPT !.reqSent = TRUE, !.conn.written = TRUE, !.conn.out = TRUE]}
Requested(p) ==
    {[p EXCEPT !.http3 = "conn", !.reqSent = TRUE,
               !.conn.written = @ \/ w, !.conn.out = TRUE] :
        w \in {TRUE} \cup {x \in {FALSE} : "app" \in Faults}}

\* The rest of recv_cb: the request once the handshake is done, close when
\* the response has ended, flush.
ClientResponds(c) ==
    /\ cl[c].run = "reading"
    /\ \E p \in (IF RequestDue(cl[c]) THEN Requested(cl[c]) ELSE {cl[c]}) :
         FlushClient(c, IF p.conn.fin THEN ClientClose(p.conn) ELSE p.conn,
                     p, "idle")
    /\ UNCHANGED toClient

\* ev_break when the connection is closed.
NeverBreaks(s) == "idle"
RunAfterTimeout(s) == IF s.stage = "closed" THEN "exited" ELSE "idle"

\* timeout_cb: on_timeout, flush, and out of the event loop when closed; main
\* then frees the HTTP/3 connection.
ClientTimeout(c, s) ==
    /\ cl[c].run = "idle"
    /\ cl[c].armed
    /\ FlushClient(c, s, cl[c], RunAfterTimeout(s))
    /\ UNCHANGED toClient

-----------------------------------------------------------------------------
ClientNext ==
    \E c \in Clients :
        \/ ClientMain(c)
        \/ \E d \in toClient : ClientReads(c, d)
        \/ ClientReadError(c) \/ Http3Refused(c) \/ ClientResponds(c)
        \/ \E s \in ClientTimeouts(cl[c].conn) : ClientTimeout(c, s)

ClientFairness ==
    \A c \in Clients :
        /\ WF_<<cl, toServer>>(ClientResponds(c))
        /\ SF_<<cl, toServer>>(
             \E s \in ClientTimeouts(cl[c].conn) :
                s.stage = "closed" /\ ClientTimeout(c, s))

-----------------------------------------------------------------------------
\* A client that started leaves its event loop or loses its timer.
ClientEnds ==
    \A c \in Clients :
        cl[c].run = "idle" ~> cl[c].run = "exited" \/ ~cl[c].armed

\* What main frees after the event loop is an HTTP/3 connection, unless the
\* handshake never completed or a callback gave up before it made one.
GarbageFreeExcused ==
    \A c \in Clients :
        cl[c].run = "exited" /\ cl[c].http3 # "conn"
            => cl[c].conn.key = 0 \/ cl[c].gaveUp
=============================================================================
