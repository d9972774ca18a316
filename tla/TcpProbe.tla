------------------------------- MODULE TcpProbe -------------------------------
(***************************************************************************)
(* TcpProbe.test: connect, TLS handshake with the host name checked,       *)
(* one HTTP/1.1 request, the first line of the answer.  The connect has a  *)
(* limit of its own; soTimeout limits each single read, so every piece of  *)
(* a flight or of a line that arrives starts the wait anew.                *)
(***************************************************************************)
EXTENDS Naturals

CONSTANTS
  Servers,       \* what may answer at the address
  ConnectLimit,  \* timeoutMs, in ticks
  IdleLimit,     \* soTimeout, in ticks
  MaxClock       \* bound: the clock stops there

\* genuine: the certificate is the host's; hello, reply: the reads that the
\* handshake and the first line take; plain: that line can stand in a JSON string.
ASSUME ServersAssumption ==
  Servers \subseteq [genuine: BOOLEAN, hello: Nat \ {0}, reply: Nat \ {0}, plain: BOOLEAN]
ASSUME LimitsAssumption == ConnectLimit \in Nat /\ IdleLimit \in Nat /\ MaxClock \in Nat

VARIABLES
  server,   \* what answers at the address
  at,       \* the call the thread is in
  clock,    \* ticks since t0
  idle,     \* ticks since the last piece arrived, or since the connect began
  got,      \* pieces received
  verdict   \* what the caller reads in the text returned

vars == <<server, at, clock, idle, got, verdict>>

Init == /\ server \in Servers /\ at = "connect"
        /\ clock = 0 /\ idle = 0 /\ got = 0 /\ verdict = "none"

Return(v) == at' = "returned" /\ verdict' = v

\* Any exception; the text holds its message.
Throw == Return("failed") /\ UNCHANGED <<server, clock, idle, got>>

\* timeoutMs limits the connect, soTimeout every read after it.
LimitSetLate(step) == IF step = "connect" THEN ConnectLimit ELSE IF step = "read" THEN IdleLimit ELSE MaxClock + 1
Limit(step)        == IF step = "connect" THEN ConnectLimit ELSE IdleLimit

\* ssl.connect returns or throws.
Connect ==
  /\ at = "connect"
  /\ \/ at' = "handshake" /\ idle' = 0 /\ UNCHANGED <<server, clock, got, verdict>>
     \/ Throw

\* endpointIdentificationAlgorithm = "HTTPS"
AnyCertificate(s) == TRUE
Verified(s)       == s.genuine

\* startHandshake reads the next piece; the last one settles it.
Handshake ==
  /\ at = "handshake"
  /\ \/ /\ got + 1 < server.hello
        /\ got' = got + 1 /\ idle' = 0 /\ UNCHANGED <<server, at, clock, verdict>>
     \/ /\ got + 1 = server.hello /\ Verified(server)
        /\ got' = got + 1 /\ idle' = 0 /\ at' = "write" /\ UNCHANGED <<server, clock, verdict>>
     \/ Throw

\* The request fits in the send buffer.
Write ==
  /\ at = "write"
  /\ \/ at' = "read" /\ idle' = 0 /\ UNCHANGED <<server, clock, got, verdict>>
     \/ Throw

\* readLine: the status is not looked at, and an end of the stream before
\* the line ends is a status too.  Only the messages of exceptions have
\* their quotes replaced: tcpOne cannot parse what another line makes.
ReadLine ==
  /\ at = "read"
  /\ \/ /\ got + 1 < server.hello + server.reply
        /\ got' = got + 1 /\ idle' = 0 /\ UNCHANGED <<server, at, clock, verdict>>
     \/ /\ Return(IF server.plain THEN "usable" ELSE "garbled")
        /\ got' = got + 1 /\ UNCHANGED <<server, clock, idle>>
     \/ /\ Return("usable") \/ (~server.plain /\ Return("garbled"))
        /\ UNCHANGED <<server, clock, idle, got>>
     \/ Throw

\* A SocketTimeoutException is an exception like any other.
TimesOut == at \in {"connect", "handshake", "read"} /\ idle >= Limit(at) /\ Throw

Step == Connect \/ Handshake \/ Write \/ ReadLine

\* Time passes while the thread waits; it is woken when its limit is reached.
Tick == /\ at \in {"connect", "handshake", "read"} /\ idle < Limit(at) /\ clock < MaxClock
        /\ clock' = clock + 1 /\ idle' = idle + 1 /\ UNCHANGED <<server, at, got, verdict>>

Next == Step \/ TimesOut \/ Tick
Spec == Init /\ [][Next]_vars

\* Time passes and limits are kept; the peer owes nothing.
FairSpec == Spec /\ WF_vars(Tick) /\ WF_vars(TimesOut) /\ WF_vars(Write)

-----------------------------------------------------------------------------
(* Properties.                                                             *)

\* The variables have their types, and no wait outlasts the call's limit.
TypeOK ==
  /\ server \in Servers /\ at \in {"connect", "handshake", "write", "read", "returned"}
  /\ clock \in 0..MaxClock /\ idle \in Nat /\ got \in 0..(server.hello + server.reply)
  /\ verdict \in {"none", "usable", "garbled", "failed"} /\ (verdict = "none" <=> at # "returned")
  /\ at = "connect" => idle <= ConnectLimit
  /\ at \in {"handshake", "write", "read"} => idle <= IdleLimit

\* "Any other HTTPS service is not taken for usable" (TcpProbe.kt:16): one
\* verdict per address, and "usable" only behind the host's certificate.
Contract == INSTANCE ProbeContract WITH
  Qualifies <- LAMBDA s : s.genuine,
  verdict <- CASE verdict = "none" -> "none" [] verdict = "usable" -> "usable" [] OTHER -> "unusable"
ContractSpec == Contract!Spec

\* A server holds a thread of the pool for the connect limit and one idle
\* limit per piece it sends, however it spaces them: there is no limit on
\* the whole, only as many pieces as the server likes (TcpProbe.kt:33, 40).
HeldBounded == clock <= ConnectLimit + IdleLimit * (server.hello + server.reply)

\* A probe of a server that sends finitely much returns (TcpProbe.kt:40).
Returns == <>(verdict # "none")
=============================================================================
