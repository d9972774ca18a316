---------------------------- MODULE TcpProbeProofs ----------------------------
(***************************************************************************)
(* Theorems about TcpProbe: for every set of servers, however many pieces  *)
(* they send, and all limits.                                              *)
(***************************************************************************)
EXTENDS TcpProbe, TLAPS

\* The handshake is over only for a server with the host's certificate.
Trusted == at \in {"write", "read"} \/ verdict \in {"usable", "garbled"} => server.genuine

\* While the probe is under way the last piece awaited has not arrived.
Awaiting == /\ at = "connect" => got = 0
            /\ at \in {"connect", "handshake"} => got < server.hello
            /\ at \in {"write", "read"} => got < server.hello + server.reply

\* The time before the wait that runs is paid for by the pieces received.
Held == /\ at = "connect" => clock = idle
        /\ at = "handshake" => clock <= ConnectLimit + IdleLimit * got + idle
        /\ at \in {"write", "read"} => clock <= ConnectLimit + IdleLimit * got + idle
        /\ at = "write" => idle = 0

Inv == TypeOK /\ Trusted /\ Awaiting /\ Held /\ HeldBounded

LEMMA ServerFacts ==
  ASSUME NEW s \in Servers
  PROVE  /\ s.genuine \in BOOLEAN /\ s.plain \in BOOLEAN
         /\ s.hello \in Nat \ {0} /\ s.reply \in Nat \ {0}
BY ServersAssumption

\* One more piece pays for a wait of at most IdleLimit.
LEMMA OneMore ==
  ASSUME NEW l \in Nat, NEW k \in Nat
  PROVE  l * (k + 1) = l * k + l /\ l * k \in Nat
OBVIOUS

\* More pieces never pay for less.
LEMMA Monotone ==
  ASSUME NEW l \in Nat, NEW j \in Nat, NEW k \in Nat, j <= k
  PROVE  l * j <= l * k
<1>1. k = j + (k - j) /\ k - j \in Nat OBVIOUS
<1>2. l * (j + (k - j)) = l * j + l * (k - j) /\ l * (k - j) \in Nat /\ l * j \in Nat BY <1>1
<1> QED BY <1>1, <1>2

USE DEF Return, Throw, Limit

LEMMA InitInv == Init => Inv
<1> SUFFICES ASSUME Init PROVE Inv OBVIOUS
<1>1. TypeOK BY ServerFacts, LimitsAssumption DEF Init, TypeOK
<1>2. Trusted /\ Awaiting /\ Held BY ServerFacts DEF Init, Trusted, Awaiting, Held
<1>3. HeldBounded
  <2>1. server.hello + server.reply \in Nat BY ServerFacts DEF Init
  <2>2. IdleLimit * (server.hello + server.reply) \in Nat BY <2>1, OneMore, LimitsAssumption
  <2> QED BY <2>2, LimitsAssumption DEF Init, HeldBounded
<1> QED BY <1>1, <1>2, <1>3 DEF Inv

\* An exception ends the probe and touches nothing else.
LEMMA ThrowInv == Inv /\ Throw => Inv'
BY DEF Inv, TypeOK, Trusted, Awaiting, Held, HeldBounded

\* A piece that arrives pays for the wait that ended and starts the next.
LEMMA PieceHeld ==
  ASSUME Inv, at \in {"handshake", "read"}, got' = got + 1, clock' = clock
  PROVE  clock' <= ConnectLimit + IdleLimit * got'
<1>1. got \in Nat /\ IdleLimit \in Nat /\ ConnectLimit \in Nat /\ clock \in Nat /\ idle \in Nat
  BY ServerFacts, LimitsAssumption DEF Inv, TypeOK
<1>2. clock <= ConnectLimit + IdleLimit * got + idle /\ idle <= IdleLimit
  BY DEF Inv, Held, TypeOK
<1>3. IdleLimit * (got + 1) = IdleLimit * got + IdleLimit /\ IdleLimit * got \in Nat
  BY <1>1, OneMore
<1> QED BY <1>1, <1>2, <1>3

LEMMA ConnectInv == Inv /\ Connect => Inv'
<1> SUFFICES ASSUME Inv, Connect PROVE Inv' OBVIOUS
<1>1. CASE Throw BY <1>1, ThrowInv
<1>2. CASE at' = "handshake" /\ idle' = 0 /\ UNCHANGED <<server, clock, got, verdict>>
  <2>1. TypeOK' BY <1>2, LimitsAssumption DEF Inv, TypeOK, Connect
  <2>2. Trusted' /\ Awaiting' /\ HeldBounded'
    BY <1>2 DEF Inv, TypeOK, Connect, Trusted, Awaiting, HeldBounded
  <2>3. Held'
    <3>1. clock <= ConnectLimit /\ got = 0 BY DEF Inv, Held, TypeOK, Awaiting, Connect
    <3>2. IdleLimit * 0 = 0 BY LimitsAssumption
    <3> QED BY <1>2, <3>1, <3>2, LimitsAssumption DEF Held, Inv, TypeOK
  <2> QED BY <2>1, <2>2, <2>3 DEF Inv
<1> QED BY <1>1, <1>2 DEF Connect

LEMMA HandshakeInv == Inv /\ Handshake => Inv'
<1> SUFFICES ASSUME Inv, Handshake PROVE Inv' OBVIOUS
<1>0. /\ server.hello \in Nat \ {0} /\ server.reply \in Nat \ {0} /\ got \in Nat
      /\ server \in Servers /\ at = "handshake"
  BY ServerFacts DEF Inv, TypeOK, Handshake
<1>1. CASE Throw BY <1>1, ThrowInv
<1>2. CASE /\ got + 1 < server.hello /\ got' = got + 1 /\ idle' = 0
           /\ UNCHANGED <<server, at, clock, verdict>>
  <2>1. TypeOK' BY <1>0, <1>2, LimitsAssumption DEF Inv, TypeOK
  <2>2. Trusted' /\ Awaiting' /\ HeldBounded'
    BY <1>0, <1>2 DEF Inv, TypeOK, Trusted, Awaiting, HeldBounded
  <2>3. Held'
    <3>1. clock' <= ConnectLimit + IdleLimit * got' BY <1>0, <1>2, PieceHeld
    <3>2. IdleLimit * got' \in Nat BY <1>0, <1>2, OneMore, LimitsAssumption
    <3> QED BY <1>0, <1>2, <3>1, <3>2, LimitsAssumption DEF Held
  <2> QED BY <2>1, <2>2, <2>3 DEF Inv
<1>3. CASE /\ got + 1 = server.hello /\ Verified(server) /\ got' = got + 1 /\ idle' = 0
           /\ at' = "write" /\ UNCHANGED <<server, clock, verdict>>
  <2>1. TypeOK' BY <1>0, <1>3, LimitsAssumption DEF Inv, TypeOK
  <2>2. Trusted' /\ Awaiting' /\ HeldBounded'
    BY <1>0, <1>3 DEF Inv, TypeOK, Trusted, Awaiting, HeldBounded, Verified
  <2>3. Held'
    <3>1. clock' <= ConnectLimit + IdleLimit * got' BY <1>0, <1>3, PieceHeld
    <3>2. IdleLimit * got' \in Nat BY <1>0, <1>3, OneMore, LimitsAssumption
    <3> QED BY <1>0, <1>3, <3>1, <3>2, LimitsAssumption DEF Held
  <2> QED BY <2>1, <2>2, <2>3 DEF Inv
<1> QED BY <1>1, <1>2, <1>3 DEF Handshake

LEMMA WriteInv == Inv /\ Write => Inv'
<1> SUFFICES ASSUME Inv, Write PROVE Inv' OBVIOUS
<1>1. CASE Throw BY <1>1, ThrowInv
<1>2. CASE at' = "read" /\ idle' = 0 /\ UNCHANGED <<server, clock, got, verdict>>
  BY <1>2, LimitsAssumption DEF Inv, TypeOK, Write, Trusted, Awaiting, Held, HeldBounded
<1> QED BY <1>1, <1>2 DEF Write

LEMMA ReadLineInv == Inv /\ ReadLine => Inv'
<1> SUFFICES ASSUME Inv, ReadLine PROVE Inv' OBVIOUS
<1>0. /\ server.hello \in Nat \ {0} /\ server.reply \in Nat \ {0} /\ got \in Nat
      /\ server \in Servers /\ at = "read"
  BY ServerFacts DEF Inv, TypeOK, ReadLine
<1>1. CASE Throw BY <1>1, ThrowInv
<1>2. CASE /\ got + 1 < server.hello + server.reply /\ got' = got + 1 /\ idle' = 0
           /\ UNCHANGED <<server, at, clock, verdict>>
  <2>1. TypeOK' BY <1>0, <1>2, LimitsAssumption DEF Inv, TypeOK
  <2>2. Trusted' /\ Awaiting' /\ HeldBounded'
    BY <1>0, <1>2 DEF Inv, TypeOK, Trusted, Awaiting, HeldBounded
  <2>3. Held'
    <3>1. clock' <= ConnectLimit + IdleLimit * got' BY <1>0, <1>2, PieceHeld
    <3>2. IdleLimit * got' \in Nat BY <1>0, <1>2, OneMore, LimitsAssumption
    <3> QED BY <1>0, <1>2, <3>1, <3>2, LimitsAssumption DEF Held
  <2> QED BY <2>1, <2>2, <2>3 DEF Inv
<1>3. CASE /\ at' = "returned" /\ verdict' \in {"usable", "garbled"} /\ got' \in {got, got + 1}
           /\ UNCHANGED <<server, clock, idle>>
  <2>1. got' <= server.hello + server.reply BY <1>0, <1>3 DEF Inv, Awaiting
  <2>2. TypeOK' BY <1>0, <1>3, <2>1 DEF Inv, TypeOK
  <2> QED BY <1>0, <1>3, <2>2 DEF Inv, Trusted, Awaiting, Held, HeldBounded
<1> QED BY <1>1, <1>2, <1>3 DEF ReadLine

LEMMA TickInv == Inv /\ Tick => Inv'
<1> SUFFICES ASSUME Inv, Tick PROVE Inv' OBVIOUS
<1>0. /\ server.hello \in Nat \ {0} /\ server.reply \in Nat \ {0} /\ got \in Nat /\ idle \in Nat
      /\ clock \in Nat /\ server \in Servers /\ at \in {"connect", "handshake", "read"}
      /\ ConnectLimit \in Nat /\ IdleLimit \in Nat
  BY ServerFacts, LimitsAssumption DEF Inv, TypeOK, Tick
<1>1. TypeOK' BY <1>0, LimitsAssumption DEF Inv, TypeOK, Tick
<1>2. Trusted' /\ Awaiting' BY DEF Inv, Tick, Trusted, Awaiting
<1>3. IdleLimit * got \in Nat BY <1>0, OneMore
<1>4. Held' BY <1>0, <1>3 DEF Inv, Tick, Held
<1>5. HeldBounded'
  <2> DEFINE all == server.hello + server.reply
  <2>1. all \in Nat /\ IdleLimit * all \in Nat BY <1>0, OneMore
  <2>2. CASE at = "connect" BY <1>0, <2>1, <2>2 DEF Inv, Tick, Held, HeldBounded
  <2>3. CASE at \in {"handshake", "read"}
    <3>1. clock + 1 <= ConnectLimit + IdleLimit * got + IdleLimit
      BY <1>0, <1>3, <2>3 DEF Inv, Tick, Held
    <3>2. got + 1 <= all BY <1>0, <2>3 DEF Inv, Awaiting
    <3>3. IdleLimit * (got + 1) <= IdleLimit * all BY <1>0, <2>1, <3>2, Monotone
    <3>4. IdleLimit * (got + 1) = IdleLimit * got + IdleLimit BY <1>0, OneMore
    <3>5. clock + 1 <= ConnectLimit + IdleLimit * all
      BY <1>0, <1>3, <2>1, <3>1, <3>3, <3>4
    <3> QED BY <3>5 DEF Tick, HeldBounded
  <2> QED BY <1>0, <2>2, <2>3
<1> QED BY <1>1, <1>2, <1>4, <1>5 DEF Inv

LEMMA StepInv == Inv /\ [Next]_vars => Inv'
<1> SUFFICES ASSUME Inv, [Next]_vars PROVE Inv' OBVIOUS
<1>1. CASE Step BY <1>1, ConnectInv, HandshakeInv, WriteInv, ReadLineInv DEF Step
<1>2. CASE TimesOut BY <1>2, ThrowInv DEF TimesOut
<1>3. CASE Tick BY <1>3, TickInv
<1>4. CASE UNCHANGED vars
  BY <1>4 DEF vars, Inv, TypeOK, Trusted, Awaiting, Held, HeldBounded
<1> QED BY <1>1, <1>2, <1>3, <1>4 DEF Next

\* The inductive invariant holds in every reachable state of a probe
\* (TcpProbe.kt:27-63).
THEOREM Invariance == Spec => []Inv
BY InitInv, StepInv, PTL DEF Spec

\* The types hold, and no wait outlasts its limit (TcpProbe.kt:33, 40).
THEOREM TypeCorrect == Spec => []TypeOK
<1>1. Inv => TypeOK BY DEF Inv
<1> QED BY <1>1, Invariance, PTL

\* A server that makes a probe read n pieces holds its thread for at most the
\* connect limit and n idle limits (TcpProbe.kt:33, 40).
THEOREM HeldFor == Spec => []HeldBounded
<1>1. Inv => HeldBounded BY DEF Inv
<1> QED BY <1>1, Invariance, PTL

-----------------------------------------------------------------------------
(* A probe ends.                                                           *)

\* The calls still to be made and the pieces still to be waited for, and
\* within one wait the ticks left of it.
Rank    == [connect |-> 4, handshake |-> 3, write |-> 2, read |-> 1, returned |-> 0]
ToDo    == Rank[at] + (server.hello + server.reply - got)
Longest == ConnectLimit + IdleLimit
Left    == ToDo * (Longest + 1) + (Longest - idle)

\* One wait less makes up for whatever is left of the next one.
LEMMA OneLess ==
  ASSUME NEW a \in Nat, NEW b \in Nat, NEW m \in Nat, NEW u \in 0..m, NEW v \in 0..m,
         a < b \/ (a = b /\ u < v)
  PROVE  a * (m + 1) + u \in Nat /\ a * (m + 1) + u < b * (m + 1) + v
<1>1. a * (m + 1) \in Nat /\ b * (m + 1) \in Nat OBVIOUS
<1>2. CASE a = b /\ u < v BY <1>1, <1>2
<1>3. CASE a < b
  <2>1. a + 1 <= b /\ a + 1 \in Nat /\ m + 1 \in Nat BY <1>3
  <2>2. (m + 1) * (a + 1) <= (m + 1) * b BY <2>1, Monotone
  <2>3. (m + 1) * (a + 1) = (m + 1) * a + (m + 1) BY <2>1, OneMore
  <2>4. (m + 1) * a = a * (m + 1) /\ (m + 1) * b = b * (m + 1) OBVIOUS
  <2> QED BY <1>1, <2>2, <2>3, <2>4
<1> QED BY <1>2, <1>3

LEMMA Dwindling == Inv /\ Inv' /\ Next => Left' < Left /\ Left' \in Nat
<1> SUFFICES ASSUME Inv, Inv', Next PROVE Left' < Left /\ Left' \in Nat
  OBVIOUS
<1>0. /\ server.hello \in Nat \ {0} /\ server.reply \in Nat \ {0} /\ server' = server
      /\ got \in 0..(server.hello + server.reply) /\ got' \in 0..(server.hello + server.reply)
      /\ idle \in Nat /\ ConnectLimit \in Nat /\ IdleLimit \in Nat
      /\ at # "returned" /\ (at = "connect" => idle <= ConnectLimit) /\ (at # "connect" => idle <= IdleLimit)
  BY ServerFacts, LimitsAssumption
     DEF Inv, TypeOK, Next, Step, Connect, Handshake, Write, ReadLine, TimesOut, Tick
<1>1. Longest \in Nat /\ Longest' = Longest /\ idle \in 0..Longest BY <1>0 DEF Longest
<1>2. Rank[at] \in Nat /\ Rank[at'] \in Nat BY DEF Rank, Inv, TypeOK
<1>3. ToDo \in Nat /\ ToDo' \in Nat BY <1>0, <1>2 DEF ToDo, Rank
<1>4. CASE Step \/ TimesOut
  <2>1. /\ idle' \in {0, idle}
        /\ \/ Rank[at'] < Rank[at] /\ got' \in {got, got + 1}
           \/ at' = at /\ got' = got + 1
    BY <1>0, <1>4 DEF Rank, Step, Connect, Handshake, Write, ReadLine, TimesOut
  <2>2. ToDo' < ToDo
    BY <1>0, <1>2, <2>1 DEF ToDo, Rank
  <2> HIDE DEF ToDo, Longest
  <2>3. Longest - idle \in 0..Longest /\ Longest - 0 \in 0..Longest BY <1>1
  <2>4. Longest - idle' \in 0..Longest
    <3>1. CASE idle' = 0 BY <2>3, <3>1
    <3>2. CASE idle' = idle BY <2>3, <3>2
    <3> QED BY <2>1, <3>1, <3>2
  <2> QED BY <1>1, <1>3, <2>2, <2>3, <2>4, OneLess DEF Left
<1>5. CASE Tick
  <2>1. ToDo' = ToDo BY <1>5 DEF Tick, ToDo, Rank
  <2>2. idle' = idle + 1 /\ idle + 1 <= Longest BY <1>0, <1>5 DEF Tick, Longest
  <2>3. Longest - idle' \in 0..Longest /\ Longest - idle \in 0..Longest /\ Longest - idle' < Longest - idle
    BY <1>1, <2>2
  <2> HIDE DEF ToDo, Longest
  <2> QED BY <1>1, <1>3, <2>1, <2>3, OneLess DEF Left
<1> QED BY <1>4, <1>5 DEF Next

\* Every piece, every call and every tick of a wait leaves less of a probe:
\* it cannot go on for ever, whatever the limits and however a server that
\* sends finitely much spaces its pieces (TcpProbe.kt:33, 40).
THEOREM Dwindles == Spec => [][Left' < Left /\ Left' \in Nat]_vars
<1>1. Inv /\ Inv' /\ [Next]_vars => [Left' < Left /\ Left' \in Nat]_vars
  BY Dwindling
<1> QED BY <1>1, Invariance, PTL DEF Spec

-----------------------------------------------------------------------------
(* The contract of a probe.                                                *)

LEMMA InitContract == Init => Contract!Init
BY DEF Init, Contract!Init

LEMMA StepContract ==
  Inv /\ [Next]_vars => [Contract!Judge]_<<server, CASE verdict = "none" -> "none"
                                               [] verdict = "usable" -> "usable"
                                               [] OTHER -> "unusable">>
<1> SUFFICES ASSUME Inv, [Next]_vars
             PROVE  [Contract!Judge]_<<server, CASE verdict = "none" -> "none"
                                         [] verdict = "usable" -> "usable"
                                         [] OTHER -> "unusable">>
  OBVIOUS
<1>1. server' = server
  BY DEF Next, Step, Connect, Handshake, Write, ReadLine, TimesOut, Tick, vars
<1>2. verdict' = verdict \/ (verdict = "none" /\ verdict' = "failed")
      \/ (verdict = "none" /\ server.genuine /\ verdict' \in {"usable", "garbled"})
  BY DEF Next, Step, Connect, Handshake, Write, ReadLine, TimesOut, Tick, vars, Inv, TypeOK, Trusted
<1> QED BY <1>1, <1>2 DEF Contract!Judge

\* TcpProbe.test keeps the contract of a probe: one verdict, "usable" only
\* behind the certificate of the host (TcpProbe.kt:16, 38).
THEOREM KeepsContract == Spec => ContractSpec
BY InitContract, Invariance, StepInv, StepContract, PTL
DEF Spec, ContractSpec, Contract!Spec
==============================================================================
