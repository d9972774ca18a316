------------------------------ MODULE H3Probe ------------------------------
(***************************************************************************)
(* test_one of quiche/src/lib.rs: one HTTP/3 request to one address before *)
(* a deadline.  The steps are those of its loop; each may find the server, *)
(* the network and the clock anywhere.  QUIC hands over the events of the  *)
(* request's stream in order whatever the datagrams do, so a server is a   *)
(* certificate and a sequence of events, and the network chooses how many  *)
(* of them each datagram completes, if it arrives.                         *)
(***************************************************************************)
EXTENDS Naturals, Sequences

CONSTANTS
  Servers,   \* records [genuine, script]: what may answer at the address
  Statuses,  \* the :status values a header block may carry
  CaSets,    \* which sources of trusted certificates can be loaded
  Deadline,  \* the tick at which the timeout has passed
  MaxClock   \* bound: the clock stops there

\* A header block without a :status (trailers) has status 0.
Headers(s) == [kind |-> "headers", status |-> s]
Plain(k)   == [kind |-> k, status |-> 0]
Events     == {Headers(s) : s \in Statuses \cup {0}}
              \cup {Plain(k) : k \in {"data", "fin", "reset", "goaway"}}

ASSUME StatusesAssumption == Statuses \subseteq Nat \ {0} /\ 200 \in Statuses
ASSUME ServersAssumption  == Servers \subseteq [genuine: BOOLEAN, script: Seq(Events)]
ASSUME CaAssumption       == CaSets \subseteq SUBSET {"bundle", "system", "conscrypt"}
ASSUME ClockAssumption    == Deadline \in Nat /\ MaxClock \in Nat /\ Deadline < MaxClock

VARIABLES
  server,       \* what answers at the address
  ca,           \* the certificate sources that can be loaded
  at,           \* the step of test_one to run next
  clock,        \* the time, in ticks
  established,  \* the TLS handshake is complete
  life,         \* the connection: open, draining after the peer closed it, or closed
  ready,        \* events of the script the connection has received
  polled,       \* events of the script h3.poll has returned
  requests,     \* requests sent (history, saturating at 2): request_sent is requests > 0
  status,       \* the status read last (0: none)
  lateReads,    \* socket reads that ended after the deadline (history, saturating at 3)
  verdict       \* what test_one returned, or "none"

vars == <<server, ca, at, clock, established, life, ready, polled, requests, status,
          lateReads, verdict>>
connVars == <<established, life, ready>>

Init ==
  /\ server \in Servers /\ ca \in CaSets
  /\ at = "setup" /\ clock = 0
  /\ established = FALSE /\ life = "open" /\ ready = 0 /\ polled = 0
  /\ requests = 0 /\ status = 0 /\ lateReads = 0 /\ verdict = "none"

\* What map_io_err, map_quiche_err and map_h3_err give.
IoErrors   == {"refused", "other"}
QuicErrors == {"invalid", "tls", "reset", "other"}
H3Errors   == {"tls", "other"}

Return(v) == verdict' = v /\ at' = "returned"
Goto(step) == at' = step /\ UNCHANGED verdict

IsLateNever == FALSE
IsLate      == clock > Deadline

\* A blocking read of the socket ends.
NoteRead == lateReads' = IF clock > Deadline /\ lateReads < 3 THEN lateReads + 1 ELSE lateReads

-----------------------------------------------------------------------------
(* Before the loop.                                                        *)

\* load_verify_locations: the bundle, else one of the two system directories.
CaLoads == ca # {}

Setup ==
  /\ at = "setup"
  /\ \/ CaLoads /\ Goto("top")
     \/ ~CaLoads /\ Return("ca")
     \/ \E e \in {"bad-ip", "bind", "cfg", "tls", "timeout"} \cup IoErrors : Return(e)
  /\ UNCHANGED <<server, ca, clock, connVars, polled, requests, status, lateReads>>

-----------------------------------------------------------------------------
(* The loop.                                                               *)

CheckDeadline ==
  /\ at = "top"
  /\ IF IsLate THEN Return("timeout") ELSE Goto("send")
  /\ UNCHANGED <<server, ca, clock, connVars, polled, requests, status, lateReads>>

\* 1) All that the connection wants to send is sent.
Send ==
  /\ at = "send"
  /\ Goto("timer") \/ Return("refused") \/ \E e \in QuicErrors : Return(e)
  /\ UNCHANGED <<server, ca, clock, connVars, polled, requests, status, lateReads>>

\* 2) A timer that has run out: a loss timer, or the one that ends the connection.
DriveTimer ==
  /\ at = "timer" /\ Goto("read")
  /\ life' \in {life, "closed"}
  /\ UNCHANGED <<server, ca, clock, established, ready, polled, requests, status, lateReads>>

\* config.verify_peer(true)
VerifyPeerOff == FALSE
VerifyPeer    == TRUE

\* What a datagram does to the connection, when it does anything.
Completes == /\ life = "open" /\ ~established /\ (VerifyPeer => server.genuine)
             /\ established' = TRUE /\ UNCHANGED <<life, ready>>
Answers   == /\ life = "open" /\ requests > 0
             /\ ready' \in ready..Len(server.script) /\ UNCHANGED <<established, life>>
Closes    == life = "open" /\ life' = "draining" /\ UNCHANGED <<established, ready>>

\* 3) A datagram is read; the deadline is checked before the next.
ReadDatagram ==
  /\ at = "read" /\ NoteRead
  /\ \/ /\ Completes \/ Answers \/ Closes \/ UNCHANGED connVars
        /\ IF IsLate THEN Return("timeout") ELSE Goto("read")
     \/ UNCHANGED connVars /\ \E e \in QuicErrors : Return(e)
  /\ UNCHANGED <<server, ca, clock, polled, requests, status>>

\* Nothing arrived within the read timeout, or the socket failed.
ReadNothing ==
  /\ at = "read" /\ NoteRead
  /\ Goto("open") \/ \E e \in IoErrors : Return(e)
  /\ UNCHANGED <<server, ca, clock, connVars, polled, requests, status>>

\* h3_conn.is_none() && conn.is_established()
MayRequest == requests = 0 /\ established

\* 4) The request is sent once the connection is established.
OpenH3 ==
  /\ at = "open"
  /\ \/ ~MayRequest /\ Goto("poll") /\ UNCHANGED requests
     \/ /\ MayRequest /\ Goto("poll")
        /\ requests' = IF requests < 2 THEN requests + 1 ELSE requests
     \/ MayRequest /\ (\E e \in H3Errors \cup {"timeout"} : Return(e)) /\ UNCHANGED requests
  /\ UNCHANGED <<server, ca, clock, connVars, polled, status, lateReads>>

\* Only a :status that parses changes the status.
StatusAlways(e) == IF e.kind = "headers" THEN e.status ELSE status
StatusAfter(e)  == IF e.kind = "headers" /\ e.status # 0 THEN e.status ELSE status

\* 5) One event of h3.poll.  A header block may carry no :status.
PollEvent ==
  /\ at = "poll" /\ requests > 0 /\ polled < ready
  /\ polled' = polled + 1
  /\ LET e == server.script[polled + 1] IN
     /\ status' = StatusAfter(e)
     /\ CASE e.kind = "reset"             -> Return("reset")
          [] e.kind \in {"fin", "goaway"} -> Goto("judge")
          [] OTHER                        -> Goto("poll")
  /\ UNCHANGED <<server, ca, clock, connVars, requests, lateReads>>

PollDone ==
  /\ at = "poll"
  /\ \/ (requests = 0 \/ polled = ready) /\ Goto("judge")
     \/ requests > 0 /\ \E e \in H3Errors : Return(e)
  /\ UNCHANGED <<server, ca, clock, connVars, polled, requests, status, lateReads>>

\* conn.stream_finished: all of the stream was read.
StreamFinished == polled > 0 /\ server.script[polled].kind = "fin"

\* status == 200
Usable == status = 200

\* Neither an answer nor the end of the stream: the connection decides.
UnansweredOnceClosed == life = "closed" \/ requests = 0 \/ (status = 0 /\ ~StreamFinished)
Unanswered           == requests = 0 \/ (status = 0 /\ ~StreamFinished)

\* 6) The verdict; drain_once reads the socket a last time after a success.
Judge ==
  /\ at = "judge"
  /\ \/ ~Unanswered /\ Usable /\ Return("ok") /\ NoteRead
     \/ ~Unanswered /\ ~Usable /\ status # 0 /\ Return("non200") /\ UNCHANGED lateReads
     \/ ~Unanswered /\ ~Usable /\ status = 0 /\ Return("no-resp") /\ UNCHANGED lateReads
     \/ Unanswered /\ life = "closed" /\ Return("timeout") /\ UNCHANGED lateReads
     \/ Unanswered /\ life # "closed" /\ Goto("top") /\ UNCHANGED lateReads
  /\ UNCHANGED <<server, ca, clock, connVars, polled, requests, status>>

Step == \/ Setup \/ CheckDeadline \/ Send \/ DriveTimer \/ ReadDatagram \/ ReadNothing
        \/ OpenH3 \/ PollEvent \/ PollDone \/ Judge

Tick == /\ verdict = "none" /\ clock < MaxClock /\ clock' = clock + 1
        /\ UNCHANGED <<server, ca, at, connVars, polled, requests, status, lateReads, verdict>>

Next == Step \/ Tick
Spec == Init /\ [][Next]_vars

\* The thread runs, no read or send blocks for ever, and time passes.
FairSpec == Spec /\ WF_vars(Step) /\ WF_vars(Tick)

-----------------------------------------------------------------------------
(* Properties.                                                             *)

Verdicts == {"none", "ok", "non200", "no-resp", "timeout", "ca", "bad-ip", "bind", "cfg"}
            \cup IoErrors \cup QuicErrors

\* The variables have their types; no request is sent before the handshake
\* is complete, and no event polled before it was received.
TypeOK ==
  /\ server \in Servers /\ ca \in CaSets
  /\ at \in {"setup", "top", "send", "timer", "read", "open", "poll", "judge", "returned"}
  /\ clock \in 0..MaxClock /\ established \in BOOLEAN /\ life \in {"open", "draining", "closed"}
  /\ (requests > 0 => established) /\ polled \in 0..ready /\ ready \in 0..Len(server.script)
  /\ requests \in 0..2 /\ status \in Statuses \cup {0} /\ lateReads \in 0..3
  /\ verdict \in Verdicts /\ (verdict = "none" <=> at # "returned")

\* A server that belongs in the list: its certificate is the domain's and it
\* answers the request with 200.
Qualifies(s) == s.genuine /\ \E i \in DOMAIN s.script : s.script[i] = Headers(200)

\* However handshake, events, timers and the deadline interleave, a probe
\* gives one verdict, and "ok" only of a server that qualifies (lib.rs:14).
Contract == INSTANCE ProbeContract WITH
  verdict <- CASE verdict = "none" -> "none" [] verdict = "ok" -> "usable" [] OTHER -> "unusable"
ContractSpec == Contract!Spec

\* One address gets one request, however often the loop comes by (lib.rs:252).
RequestOnce == requests <= 1

\* An answer in hand is not thrown away: once 200 was the last status read,
\* only the stream itself makes the probe fail, never the deadline or the
\* end of the connection (lib.rs:321-346).
AnswerKept == status = 200 /\ verdict # "none" =>
  verdict = "ok" \/ verdict \in H3Errors \/ server.script[polled].kind = "reset"

\* HTTP: a response has one final status; interim ones may come before it.
Interim(s)   == s \in 100..199
Final(e)     == e.status # 0 /\ ~Interim(e.status)
OneAnswer(s) == \A i, j \in DOMAIN s.script : Final(s.script[i]) /\ Final(s.script[j]) => i = j

\* The status polled last is that of event i.
LastStatusAt(i) == /\ server.script[i].status # 0
                   /\ \A j \in (i + 1)..polled : server.script[j].status = 0

\* A failure said to be the server's answer is its answer (lib.rs:327-339):
\* after "non200" a server of one answer has no 200 to send, polled or not,
\* and after "no-resp" its stream ended without a status.  But test_one takes
\* an interim status for the answer too: when all it has polled is a 103 it
\* says "non200" of a server that answers 200 next, and nothing is claimed.
AnswerTruthful ==
  /\ verdict = "non200" => \E i \in 1..polled :
       /\ LastStatusAt(i) /\ server.script[i].status # 200
       /\ OneAnswer(server) /\ Final(server.script[i]) =>
            \A j \in DOMAIN server.script : server.script[j] # Headers(200)
  /\ verdict = "no-resp" => StreamFinished /\ \A i \in 1..polled : server.script[i].status = 0

\* Past the deadline the socket is waited on at most twice more, 40 ms each,
\* however much the server sends: the read under way and drain_once (lib.rs:245).
LateBounded == lateReads <= 2

\* A probe returns, whatever the server sends or withholds (lib.rs:188).
Returns == <>(verdict # "none")
=============================================================================
