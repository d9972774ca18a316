----------------------------- MODULE EchoClient -----------------------------
(***************************************************************************)
(* The clients of examples/client.c: each process makes one connection,    *)
(* sends one request on it once the handshake is done, closes it when the  *)
(* response ends, and leaves its event loop when it is closed.             *)
(***************************************************************************)
EXTENDS QuicConn

VARIABLE cl     \* per client: the process, and in conn its connection

clientVars == <<cl>>

Client ==
    [run : {"new", "idle", "reading", "exited", "failed"},
     conn : ClientConn,
     reqSent : BOOLEAN,     \* req_sent
     armed : BOOLEAN,       \* the ev_timer is active
     missed : BOOLEAN]      \* history: unarmed by a flush failed or skipped

ClientTypeOK == cl \in [Clients -> Client]

ClientInit ==
    cl = [c \in Clients |->
            [run |-> "new", conn |-> NewClientConn(c), reqSent |-> FALSE,
             armed |-> FALSE, missed |-> FALSE]]

-----------------------------------------------------------------------------
\* ev_timer_again: with the timeout 0 of a deadline that has passed it stops
\* the timer.
RearmedIfActive(p, overdue) == p.armed /\ ~overdue
Rearmed(p, overdue) == ~overdue

\* flush_egress of client c whose connection is s, then the process is in
\* state run: the packets leave, and the timer is set to what the library
\* reports.
SendsAll(c, s, p, run) ==
    \E late \in (IF s.stage = "closed" THEN {FALSE} ELSE BOOLEAN) :
      LET overdue == Overdue(s, late)
      IN  /\ toServer' = toServer \cup ClientSends(c, s)
          /\ cl' = [cl EXCEPT ![c] =
                      [p EXCEPT !.run = run,
                                !.conn = [s EXCEPT !.stage = StageAfterSend(s),
                                                   !.out = FALSE,
                                                   !.overdue = overdue],
                                !.armed = Rearmed(p, overdue),
                                !.missed = FALSE]]

\* sendto fails: flush_egress returns and leaves the timer as it is.
SendFails(c, s, p, run) ==
    /\ "send" \in Faults
    /\ s.out
    /\ \E left \in BOOLEAN :
         cl' = [cl EXCEPT ![c] =
                  [p EXCEPT !.run = run,
                            !.conn = [s EXCEPT !.stage = StageAfterSend(s),
                                               !.out = left],
                            !.missed = ~p.armed]]
    /\ UNCHANGED toServer

FlushClient(c, s, p, run) == SendsAll(c, s, p, run) \/ SendFails(c, s, p, run)

-----------------------------------------------------------------------------
\* main: set-up fails and the process ends, or the connection is made, the
\* first flush is done and the event loop entered.
ClientMain(c) ==
    /\ cl[c].run = "new"
    /\ \/ FlushClient(c, cl[c].conn, cl[c], "idle")
       \/ /\ "main" \in Faults
          /\ cl' = [cl EXCEPT ![c].run = "failed"]
          /\ UNCHANGED toServer
    /\ UNCHANGED toClient

\* recv_cb: the socket has a datagram for this client.
ClientReads(c, d) ==
    /\ cl[c].run \in {"idle", "reading"}
    /\ d \in toClient
    /\ d.to \in AddrsOf[c]
    /\ cl' = [cl EXCEPT ![c].run = "reading",
                        ![c].conn = ClientRecv(c, @, d)]
    /\ UNCHANGED <<toServer, toClient>>

\* recvfrom fails for good: recv_cb returns.
ClientReadError(c) ==
    /\ "recv" \in Faults
    /\ cl[c].run = "reading"
    /\ cl' = [cl EXCEPT ![c].run = "idle", ![c].missed = ~cl[c].armed]
    /\ UNCHANGED <<toServer, toClient>>

RequestDue(p) == p.conn.stage = "established" /\ ~p.reqSent

\* The request is refused by the stream: recv_cb returns and flushes nothing;
\* the next datagram makes it try again.
RequestRefused(c) ==
    /\ "app" \in Faults
    /\ cl[c].run = "reading"
    /\ RequestDue(cl[c])
    /\ cl' = [cl EXCEPT ![c].run = "idle", ![c].missed = ~cl[c].armed]
    /\ UNCHANGED <<toServer, toClient>>

\* The rest of recv_cb: the request once the handshake is done, close when
\* the response has ended, flush.
ClientResponds(c) ==
    /\ cl[c].run = "reading"
    /\ LET p  == IF RequestDue(cl[c])
                 THEN [cl[c] EXCEPT !.reqSent = TRUE,
                                    !.conn.written = TRUE, !.conn.out = TRUE]
                 ELSE cl[c]
           s  == IF p.conn.fin THEN ClientClose(p.conn) ELSE p.conn
       IN  FlushClient(c, s, p, "idle")
    /\ UNCHANGED toClient

\* ev_break when the connection is closed.
RunAfterTimeout(s) == IF s.stage = "closed" THEN "exited" ELSE "idle"

\* timeout_cb: on_timeout, flush, and out of the event loop when closed.
ClientTimeout(c, s) ==
    /\ cl[c].run = "idle"
    /\ cl[c].armed
    /\ FlushClient(c, s, cl[c], RunAfterTimeout(s))
    /\ UNCHANGED toClient

-----------------------------------------------------------------------------
ClientNext ==
    \E c \in Clients :
        \/ ClientMain(c)
        \/ \E d \in toClient : ClientReads(c, d)
        \/ ClientReadError(c) \/ RequestRefused(c) \/ ClientResponds(c)
        \/ \E s \in ClientTimeouts(cl[c].conn) : ClientTimeout(c, s)

-----------------------------------------------------------------------------
\* Between callbacks a client without a timer is one whose deadline had
\* passed when it flushed, or whose flush failed or was skipped.
ClientUnarmedExcused ==
    \A c \in Clients :
        cl[c].run = "idle" /\ ~cl[c].armed
            => cl[c].conn.overdue \/ cl[c].missed
=============================================================================
