--------------------------- MODULE H3ProbeProofs ---------------------------
(***************************************************************************)
(* Theorems about H3Probe: for every set of servers with scripts of any    *)
(* length, every deadline and every bound of the clock.                    *)
(***************************************************************************)
EXTENDS H3Probe, SequenceTheorems, TLAPS

-----------------------------------------------------------------------------
(* The inductive invariant.                                                *)

\* The certificate was verified before anything was received.
Verified == established => server.genuine

\* The status is that of the last header block polled that had one.
StatusPolled ==
  /\ status # 0 => \E i \in 1..polled : server.script[i] = Headers(status) /\ LastStatusAt(i)
  /\ status = 0 => \A i \in 1..polled : server.script[i].status = 0

\* An event that ends the polling is the last one polled.
NotReset == status = 200 /\ verdict = "reset" => server.script[polled].kind = "reset"

OkQualified == verdict = "ok" => Qualifies(server)

\* Where the deadline may have passed under a read.
LateSteps ==
  /\ at \in {"setup", "send", "timer", "read"} => lateReads = 0
  /\ at \in {"top", "open", "poll", "judge"} => lateReads <= 1
  /\ lateReads <= 2
  /\ lateReads > 0 => clock > Deadline

\* A status is read while polling only, and judged before the loop goes on.
NoStatusYet ==
  /\ at \in {"setup", "top", "send", "timer", "read", "open"} => status = 0
  /\ requests = 0 => status = 0 /\ polled = 0

Inv == /\ TypeOK /\ Verified /\ StatusPolled /\ OkQualified /\ LateSteps /\ NoStatusYet
       /\ RequestOnce /\ AnswerKept /\ AnswerTruthful

\* A script is a sequence of events.
LEMMA ServerFacts ==
  ASSUME NEW s \in Servers
  PROVE  s.genuine \in BOOLEAN /\ s.script \in Seq(Events) /\ Len(s.script) \in Nat
<1>1. s.genuine \in BOOLEAN /\ s.script \in Seq(Events) BY ServersAssumption
<1> QED BY <1>1, LenProperties

LEMMA InitInv == Init => Inv
<1> SUFFICES ASSUME Init PROVE Inv OBVIOUS
<1>1. Len(server.script) \in Nat BY ServerFacts DEF Init
<1>2. TypeOK
  <2>1. clock \in 0..MaxClock /\ polled \in 0..ready /\ ready \in 0..Len(server.script)
    BY <1>1, ClockAssumption DEF Init
  <2>2. requests \in 0..2 /\ status \in Statuses \cup {0} /\ lateReads \in 0..3 /\ ~(requests > 0)
    BY DEF Init
  <2>3. verdict \in Verdicts BY DEF Init, Verdicts
  <2> QED BY <2>1, <2>2, <2>3 DEF Init, TypeOK
<1>3. Verified /\ StatusPolled /\ OkQualified /\ RequestOnce
  BY DEF Init, Verified, StatusPolled, OkQualified, RequestOnce
<1>4. LateSteps /\ NoStatusYet BY DEF Init, LateSteps, NoStatusYet
<1>5. AnswerKept /\ AnswerTruthful BY DEF Init, AnswerKept, AnswerTruthful
<1> QED BY <1>2, <1>3, <1>4, <1>5 DEF Inv

\* What a step of the loop that neither polls nor judges keeps: it may return
\* a failure, while no status is known.
Quiet == /\ UNCHANGED <<server, polled, requests, status, lateReads>> /\ status = 0
         /\ verdict' \notin {"ok", "non200", "no-resp"}

LEMMA QuietKeeps ==
  ASSUME Inv, Quiet
  PROVE  StatusPolled' /\ OkQualified' /\ RequestOnce' /\ AnswerKept' /\ AnswerTruthful'
BY DEF Inv, Quiet, StatusPolled, OkQualified, RequestOnce, AnswerKept, AnswerTruthful

USE DEF Return, Goto, IsLate, IoErrors, QuicErrors, H3Errors, connVars

LEMMA SetupInv == Inv /\ Setup => Inv'
<1> SUFFICES ASSUME Inv, Setup PROVE Inv' OBVIOUS
<1>1. Quiet BY DEF Inv, Setup, Quiet, NoStatusYet, TypeOK
<1>2. TypeOK' BY DEF Inv, Setup, TypeOK, Verdicts
<1>3. Verified' /\ LateSteps' /\ NoStatusYet'
  BY DEF Inv, TypeOK, Setup, Verified, LateSteps, NoStatusYet
<1> QED BY <1>1, <1>2, <1>3, QuietKeeps DEF Inv

LEMMA CheckDeadlineInv == Inv /\ CheckDeadline => Inv'
<1> SUFFICES ASSUME Inv, CheckDeadline PROVE Inv' OBVIOUS
<1>1. Quiet BY DEF Inv, CheckDeadline, Quiet, NoStatusYet, TypeOK
<1>2. TypeOK' BY DEF Inv, CheckDeadline, TypeOK, Verdicts
<1>3. Verified' /\ LateSteps' /\ NoStatusYet'
  BY DEF Inv, TypeOK, CheckDeadline, Verified, LateSteps, NoStatusYet
<1> QED BY <1>1, <1>2, <1>3, QuietKeeps DEF Inv

LEMMA SendInv == Inv /\ Send => Inv'
<1> SUFFICES ASSUME Inv, Send PROVE Inv' OBVIOUS
<1>1. Quiet BY DEF Inv, Send, Quiet, NoStatusYet, TypeOK
<1>2. TypeOK' BY DEF Inv, Send, TypeOK, Verdicts
<1>3. Verified' /\ LateSteps' /\ NoStatusYet'
  BY DEF Inv, TypeOK, Send, Verified, LateSteps, NoStatusYet
<1> QED BY <1>1, <1>2, <1>3, QuietKeeps DEF Inv

LEMMA DriveTimerInv == Inv /\ DriveTimer => Inv'
<1> SUFFICES ASSUME Inv, DriveTimer PROVE Inv' OBVIOUS
<1>1. Quiet BY DEF Inv, DriveTimer, Quiet, NoStatusYet, TypeOK
<1>2. TypeOK' BY DEF Inv, DriveTimer, TypeOK, Verdicts
<1>3. Verified' /\ LateSteps' /\ NoStatusYet'
  BY DEF Inv, TypeOK, DriveTimer, Verified, LateSteps, NoStatusYet
<1> QED BY <1>1, <1>2, <1>3, QuietKeeps DEF Inv

LEMMA ReadDatagramInv == Inv /\ ReadDatagram => Inv'
<1> SUFFICES ASSUME Inv, ReadDatagram PROVE Inv' OBVIOUS
<1>0. TypeOK /\ at = "read" /\ lateReads = 0 /\ status = 0 /\ server \in Servers
  BY DEF Inv, ReadDatagram, LateSteps, NoStatusYet, TypeOK
<1>1. /\ UNCHANGED <<server, ca, clock, polled, requests, status>>
      /\ verdict' \in {verdict, "timeout"} \cup QuicErrors
      /\ at' = IF verdict' = verdict THEN "read" ELSE "returned"
      /\ lateReads' = IF clock > Deadline THEN 1 ELSE 0
      /\ clock > Deadline => verdict' # verdict
  BY <1>0 DEF ReadDatagram, NoteRead, TypeOK
<1>2. /\ ready' \in ready..Len(server.script) /\ life' \in {"open", "draining", "closed"}
      /\ established' \in BOOLEAN /\ (established => established')
      /\ established' => established \/ server.genuine
  <2>1. ready \in Nat /\ Len(server.script) \in Nat /\ ready <= Len(server.script)
    BY <1>0, ServerFacts DEF TypeOK
  <2>2. CASE Completes BY <1>0, <2>1, <2>2 DEF Completes, VerifyPeer, TypeOK
  <2>3. CASE Answers BY <1>0, <2>1, <2>3 DEF Answers, TypeOK
  <2>4. CASE Closes BY <1>0, <2>1, <2>4 DEF Closes, TypeOK
  <2>5. CASE UNCHANGED connVars BY <1>0, <2>1, <2>5 DEF TypeOK
  <2> QED BY <2>2, <2>3, <2>4, <2>5 DEF ReadDatagram
<1>3. TypeOK'
  <2>1. polled \in 0..ready' /\ ready' \in 0..Len(server.script)
    BY <1>0, <1>2, ServerFacts DEF TypeOK
  <2>2. verdict' \in Verdicts /\ (verdict' = "none" <=> at' # "returned")
    BY <1>0, <1>1 DEF TypeOK, Verdicts
  <2> QED BY <1>0, <1>1, <1>2, <2>1, <2>2 DEF TypeOK
<1>4. Verified' BY <1>1, <1>2 DEF Inv, Verified
<1>5. LateSteps' BY <1>0, <1>1, ClockAssumption DEF LateSteps, TypeOK
<1>6. NoStatusYet' BY <1>0, <1>1 DEF Inv, NoStatusYet
<1>7. StatusPolled' /\ OkQualified' /\ RequestOnce' /\ AnswerKept' /\ AnswerTruthful'
  BY <1>0, <1>1 DEF Inv, TypeOK, StatusPolled, OkQualified, RequestOnce, AnswerKept, AnswerTruthful
<1> QED BY <1>3, <1>4, <1>5, <1>6, <1>7 DEF Inv

LEMMA ReadNothingInv == Inv /\ ReadNothing => Inv'
<1> SUFFICES ASSUME Inv, ReadNothing PROVE Inv' OBVIOUS
<1>0. TypeOK /\ at = "read" /\ lateReads = 0 /\ status = 0 /\ verdict = "none"
  BY DEF Inv, ReadNothing, LateSteps, NoStatusYet, TypeOK
<1>1. /\ UNCHANGED <<server, ca, clock, connVars, polled, requests, status>>
      /\ \/ at' = "open" /\ verdict' = "none"
         \/ at' = "returned" /\ verdict' \in {"refused", "other"}
      /\ lateReads' = IF clock > Deadline THEN 1 ELSE 0
  BY <1>0 DEF ReadNothing, NoteRead, TypeOK
<1>2. TypeOK' BY <1>0, <1>1 DEF TypeOK, Verdicts
<1>3. LateSteps' BY <1>0, <1>1, ClockAssumption DEF LateSteps, TypeOK
<1>4. Verified' /\ NoStatusYet' BY <1>0, <1>1 DEF Inv, Verified, NoStatusYet
<1>5. StatusPolled' /\ OkQualified' /\ RequestOnce' /\ AnswerKept' /\ AnswerTruthful'
  BY <1>0, <1>1 DEF Inv, StatusPolled, OkQualified, RequestOnce, AnswerKept, AnswerTruthful
<1> QED BY <1>2, <1>3, <1>4, <1>5 DEF Inv

LEMMA OpenH3Inv == Inv /\ OpenH3 => Inv'
<1> SUFFICES ASSUME Inv, OpenH3 PROVE Inv' OBVIOUS
<1>0. TypeOK /\ at = "open" /\ lateReads <= 1 /\ status = 0 /\ verdict = "none"
  BY DEF Inv, OpenH3, LateSteps, NoStatusYet, TypeOK
<1>1. /\ UNCHANGED <<server, ca, clock, connVars, polled, status, lateReads>>
      /\ \/ at' = "poll" /\ verdict' = "none"
         \/ at' = "returned" /\ verdict' \in {"tls", "other", "timeout"}
      /\ \/ requests' = requests
         \/ requests = 0 /\ requests' = 1 /\ established
  BY <1>0 DEF OpenH3, MayRequest
<1>2. TypeOK' BY <1>0, <1>1 DEF TypeOK, Verdicts
<1>3. LateSteps' BY <1>0, <1>1 DEF Inv, LateSteps
<1>4. Verified' /\ NoStatusYet' BY <1>0, <1>1 DEF Inv, Verified, NoStatusYet
<1>5. StatusPolled' /\ OkQualified' /\ RequestOnce' /\ AnswerKept' /\ AnswerTruthful'
  BY <1>0, <1>1 DEF Inv, StatusPolled, OkQualified, RequestOnce, AnswerKept, AnswerTruthful
<1> QED BY <1>2, <1>3, <1>4, <1>5 DEF Inv

LEMMA PollEventInv == Inv /\ PollEvent => Inv'
<1> SUFFICES ASSUME Inv, PollEvent PROVE Inv' OBVIOUS
<1> DEFINE e == server.script[polled + 1]
<1>0. /\ TypeOK /\ at = "poll" /\ verdict = "none" /\ requests > 0 /\ server \in Servers
      /\ polled \in Nat /\ polled + 1 \in 1..Len(server.script) /\ polled' = polled + 1
      /\ polled + 1 <= ready
  <2>1. ready \in 0..Len(server.script) /\ polled \in 0..ready /\ polled < ready
        /\ server \in Servers
    BY DEF Inv, PollEvent, TypeOK
  <2> QED BY <2>1, ServerFacts DEF Inv, PollEvent, TypeOK
<1>1. e \in Events BY <1>0, ServerFacts, ElementOfSeq
<1>2. /\ e.kind = "headers" => e = Headers(e.status) /\ e.status \in Statuses \cup {0}
      /\ e.kind # "headers" => e.status = 0
  <2>1. CASE e \in {Headers(v) : v \in Statuses \cup {0}}
    <3>1. PICK v \in Statuses \cup {0} : e = Headers(v) BY <2>1
    <3>2. e.kind = "headers" /\ e.status = v BY <3>1 DEF Headers
    <3> QED BY <3>1, <3>2
  <2>2. CASE e \in {Plain(k) : k \in {"data", "fin", "reset", "goaway"}}
    <3>1. PICK k \in {"data", "fin", "reset", "goaway"} : e = Plain(k) BY <2>2
    <3>2. e.kind = k /\ e.status = 0 BY <3>1 DEF Plain
    <3> QED BY <3>2
  <2> QED BY <1>1, <2>1, <2>2 DEF Events
<1>3. /\ UNCHANGED <<server, ca, clock, connVars, requests, lateReads>>
      /\ status' = StatusAfter(e)
      /\ \/ e.kind = "reset" /\ at' = "returned" /\ verdict' = "reset"
         \/ at' \in {"judge", "poll"} /\ verdict' = "none"
  BY <1>0 DEF PollEvent
<1> HIDE DEF e
<1>4. status' \in Statuses \cup {0} BY <1>0, <1>2, <1>3 DEF StatusAfter, TypeOK
<1>5. TypeOK' BY <1>0, <1>3, <1>4 DEF TypeOK, Verdicts
<1>6. StatusPolled'
  <2> SUFFICES /\ status' # 0 => \E i \in 1..(polled + 1) :
                    /\ server.script[i] = Headers(status') /\ server.script[i].status # 0
                    /\ \A j \in (i + 1)..(polled + 1) : server.script[j].status = 0
               /\ status' = 0 => \A i \in 1..(polled + 1) : server.script[i].status = 0
    BY <1>0, <1>3 DEF StatusPolled, LastStatusAt
  <2>0. CASE status' = 0
    <3>1. status = 0 /\ e.status = 0 BY <1>2, <1>3, <2>0 DEF StatusAfter
    <3>2. \A i \in 1..polled : server.script[i].status = 0 BY <3>1 DEF Inv, StatusPolled
    <3>3. \A i \in 1..(polled + 1) : i = polled + 1 \/ i \in 1..polled BY <1>0
    <3> QED BY <2>0, <3>1, <3>2, <3>3 DEF e
  <2>1. CASE status' # 0 /\ e.kind = "headers" /\ e.status # 0
    <3>1. server.script[polled + 1] = Headers(status') BY <1>2, <1>3, <2>1 DEF StatusAfter, e
    <3>2. polled + 1 \in 1..(polled + 1) /\ (polled + 1 + 1)..(polled + 1) = {} BY <1>0
    <3>3. server.script[polled + 1].status # 0 BY <2>1 DEF e
    <3> QED BY <2>1, <3>1, <3>2, <3>3
  <2>2. CASE status' # 0 /\ ~(e.kind = "headers" /\ e.status # 0)
    <3>1. status' = status BY <1>3, <2>2 DEF StatusAfter
    <3>2. PICK i \in 1..polled : server.script[i] = Headers(status) /\ LastStatusAt(i)
      BY <2>2, <3>1 DEF Inv, StatusPolled
    <3>3. i \in 1..(polled + 1) BY <1>0, <3>2
    <3>4. server.script[polled + 1].status = 0 BY <1>2, <2>2 DEF e
    <3>5. \A j \in (i + 1)..(polled + 1) : j = polled + 1 \/ j \in (i + 1)..polled BY <1>0, <3>2
    <3>6. \A j \in (i + 1)..(polled + 1) : server.script[j].status = 0
      BY <3>2, <3>4, <3>5 DEF LastStatusAt
    <3> QED BY <2>2, <3>1, <3>2, <3>3, <3>6 DEF LastStatusAt
  <2> QED BY <2>0, <2>1, <2>2
<1>7. Verified' /\ OkQualified' /\ NoStatusYet' /\ RequestOnce'
  BY <1>0, <1>3 DEF Inv, Verified, OkQualified, NoStatusYet, RequestOnce
<1>8. LateSteps' BY <1>0, <1>3 DEF Inv, LateSteps
<1>9. AnswerKept' /\ AnswerTruthful' BY <1>0, <1>3 DEF AnswerKept, AnswerTruthful, e
<1> QED BY <1>5, <1>6, <1>7, <1>8, <1>9 DEF Inv

LEMMA PollDoneInv == Inv /\ PollDone => Inv'
<1> SUFFICES ASSUME Inv, PollDone PROVE Inv' OBVIOUS
<1>1. /\ TypeOK /\ at = "poll" /\ verdict = "none"
      /\ UNCHANGED <<server, ca, clock, connVars, polled, requests, status, lateReads>>
      /\ \/ at' = "judge" /\ verdict' = "none"
         \/ at' = "returned" /\ verdict' \in {"tls", "other"}
  BY DEF Inv, PollDone, TypeOK
<1>2. TypeOK' BY <1>1 DEF TypeOK, Verdicts
<1>3. LateSteps' BY <1>1 DEF Inv, LateSteps
<1>4. Verified' /\ NoStatusYet' BY <1>1 DEF Inv, Verified, NoStatusYet
<1>5. StatusPolled' /\ OkQualified' /\ RequestOnce' /\ AnswerKept' /\ AnswerTruthful'
  BY <1>1 DEF Inv, StatusPolled, LastStatusAt, OkQualified, RequestOnce, AnswerKept, AnswerTruthful
<1> QED BY <1>2, <1>3, <1>4, <1>5 DEF Inv

LEMMA JudgeInv == Inv /\ Judge => Inv'
<1> SUFFICES ASSUME Inv, Judge PROVE Inv' OBVIOUS
<1>0. /\ TypeOK /\ at = "judge" /\ verdict = "none" /\ lateReads <= 1 /\ lateReads \in 0..3
      /\ UNCHANGED <<server, ca, clock, connVars, polled, requests, status>>
      /\ clock \in Nat /\ Deadline \in Nat /\ status \in Statuses \cup {0}
  BY ClockAssumption DEF Inv, Judge, TypeOK, LateSteps
<1>1. \/ at' = "returned" /\ verdict' = "ok" /\ status = 200 /\ requests > 0
      \/ at' = "returned" /\ verdict' = "non200" /\ status \notin {0, 200}
      \/ at' = "returned" /\ verdict' = "no-resp" /\ status = 0
      \/ at' = "returned" /\ verdict' = "timeout" /\ status = 0
      \/ at' = "top" /\ verdict' = "none" /\ status = 0
  <2>1. requests \in 0..2 /\ (requests = 0 => status = 0) BY DEF Inv, TypeOK, NoStatusYet
  <2> QED BY <1>0, <2>1 DEF Judge, Unanswered, Usable
<1>2. /\ lateReads' = lateReads \/ at' = "returned"
      /\ lateReads' \in 0..3 /\ lateReads' <= 2 /\ (lateReads' > 0 => clock > Deadline)
  <2>1. lateReads' = lateReads \/ (NoteRead /\ at' = "returned") BY DEF Judge
  <2>2. lateReads > 0 => clock > Deadline BY DEF Inv, LateSteps
  <2> QED BY <1>0, <2>1, <2>2 DEF NoteRead
<1>3. TypeOK' BY <1>0, <1>1, <1>2 DEF TypeOK, Verdicts
<1>4. LateSteps' BY <1>0, <1>1, <1>2 DEF LateSteps
<1>5. StatusPolled' /\ Verified' /\ RequestOnce' /\ NoStatusYet'
  BY <1>0, <1>1 DEF Inv, StatusPolled, LastStatusAt, Verified, RequestOnce, NoStatusYet
<1>6. OkQualified'
  <2> SUFFICES ASSUME verdict' = "ok" PROVE Qualifies(server) BY <1>0 DEF OkQualified
  <2>1. status = 200 /\ established /\ server.genuine BY <1>1 DEF Inv, TypeOK, Verified
  <2>2. PICK i \in 1..polled : server.script[i] = Headers(200) BY <2>1 DEF Inv, StatusPolled
  <2>3. i \in DOMAIN server.script
    <3>1. server \in Servers /\ polled \in 0..ready /\ ready \in 0..Len(server.script) BY <1>0 DEF TypeOK
    <3>2. i \in 1..Len(server.script) BY <2>2, <3>1, ServerFacts
    <3> QED BY <3>1, <3>2, ServerFacts, LenProperties
  <2> QED BY <2>1, <2>2, <2>3 DEF Qualifies
<1>7. AnswerKept' BY <1>0, <1>1 DEF AnswerKept
<1>8. AnswerTruthful'
  <2>0. /\ server' = server /\ \A i : LastStatusAt(i)' <=> LastStatusAt(i)
        /\ StreamFinished' <=> StreamFinished
    BY <1>0 DEF LastStatusAt, StreamFinished
  <2>1. CASE verdict' = "non200"
    <3>1. status # 200 /\ status # 0 BY <1>1, <2>1
    <3>2. PICK i \in 1..polled : server.script[i] = Headers(status) /\ LastStatusAt(i)
      BY <3>1 DEF Inv, StatusPolled
    <3>3. server.script[i].status = status BY <3>2 DEF Headers
    <3>4. ASSUME OneAnswer(server), Final(server.script[i])
          PROVE  \A j \in DOMAIN server.script : server.script[j] # Headers(200)
      <4> SUFFICES ASSUME NEW j \in DOMAIN server.script, server.script[j] = Headers(200) PROVE FALSE
        OBVIOUS
      <4>1. server.script[j].status = 200 BY DEF Headers
      <4>2. Final(server.script[j]) BY <4>1 DEF Final, Interim
      <4>3. i \in DOMAIN server.script
        <5>1. server \in Servers /\ polled \in 0..ready /\ ready \in 0..Len(server.script)
          BY <1>0 DEF TypeOK
        <5>2. i \in 1..Len(server.script) BY <3>2, <5>1, ServerFacts
        <5> QED BY <5>1, <5>2, ServerFacts, LenProperties
      <4>4. i = j BY <3>4, <4>2, <4>3 DEF OneAnswer
      <4> QED BY <3>1, <3>3, <4>1, <4>4
    <3> QED BY <1>0, <2>0, <2>1, <3>1, <3>2, <3>3, <3>4 DEF AnswerTruthful
  <2>2. CASE verdict' = "no-resp"
    <3>1. status = 0 BY <1>1, <2>2
    <3>2. StreamFinished BY <1>0, <2>2 DEF Judge, Unanswered
    <3> QED BY <1>0, <2>0, <2>2, <3>1, <3>2 DEF Inv, StatusPolled, AnswerTruthful
  <2> QED BY <1>0, <1>1, <2>1, <2>2 DEF AnswerTruthful
<1> QED BY <1>3, <1>4, <1>5, <1>6, <1>7, <1>8 DEF Inv

LEMMA TickInv == Inv /\ Tick => Inv'
<1> SUFFICES ASSUME Inv, Tick PROVE Inv' OBVIOUS
<1>1. /\ UNCHANGED <<server, ca, at, connVars, polled, requests, status, lateReads, verdict>>
      /\ clock \in 0..MaxClock /\ clock < MaxClock /\ clock' = clock + 1
      /\ MaxClock \in Nat /\ Deadline \in Nat
  BY ClockAssumption DEF Inv, Tick, TypeOK
<1>2. TypeOK' BY <1>1 DEF Inv, TypeOK
<1>3. LateSteps' BY <1>1 DEF Inv, LateSteps
<1> QED BY <1>1, <1>2, <1>3 DEF Inv, Verified, StatusPolled, LastStatusAt, StreamFinished, OkQualified,
        NoStatusYet, RequestOnce, AnswerKept, AnswerTruthful

LEMMA StutterInv == Inv /\ UNCHANGED vars => Inv'
BY DEF vars, Inv, TypeOK, Verified, StatusPolled, LastStatusAt, StreamFinished, OkQualified, LateSteps,
   NoStatusYet, RequestOnce, AnswerKept, AnswerTruthful

-----------------------------------------------------------------------------
(* The theorems.                                                           *)

\* The invariant holds in every reachable state of test_one.
THEOREM Invariance == Spec => []Inv
<1>1. Inv /\ [Next]_vars => Inv'
  BY SetupInv, CheckDeadlineInv, SendInv, DriveTimerInv, ReadDatagramInv, ReadNothingInv,
     OpenH3Inv, PollEventInv, PollDoneInv, JudgeInv, TickInv, StutterInv DEF Next, Step
<1> QED BY <1>1, InitInv, PTL DEF Spec

\* The variables keep their types and the request waits for the handshake.
THEOREM TypeCorrect == Spec => []TypeOK
BY Invariance, PTL DEF Inv

\* test_one sends at most one request, whatever its loop goes through.
THEOREM RequestsOnce == Spec => []RequestOnce
BY Invariance, PTL DEF Inv

\* test_one does not lose a 200 it has read to the deadline or to the end of
\* the connection.
THEOREM KeepsAnswer == Spec => []AnswerKept
BY Invariance, PTL DEF Inv

\* "non200" is said of a server whose answer is not 200, unless an interim
\* status was taken for it, "no-resp" of one whose stream ended without any.
THEOREM ReportsTruthfully == Spec => []AnswerTruthful
BY Invariance, PTL DEF Inv

\* At most two reads of the socket end after the deadline.
THEOREM EndsInTime == Spec => []LateBounded
<1>1. Inv => LateBounded BY DEF Inv, LateSteps, LateBounded
<1> QED BY <1>1, Invariance, PTL

\* test_one implements the contract of a probe: it gives one verdict, which
\* is "usable" only when the certificate is the domain's and 200 was sent.
THEOREM KeepsContract == Spec => ContractSpec
<1> DEFINE shown == CASE verdict = "none" -> "none" [] verdict = "ok" -> "usable" [] OTHER -> "unusable"
<1>1. Init => Contract!Init BY DEF Init, Contract!Init
<1>2. Inv /\ Inv' /\ [Next]_vars => [Contract!Judge]_<<server, shown>>
  <2> SUFFICES ASSUME Inv, Inv', [Next]_vars PROVE [Contract!Judge]_<<server, shown>> OBVIOUS
  <2>1. server' = server
    BY DEF Next, Step, vars, Setup, CheckDeadline, Send, DriveTimer, ReadDatagram, ReadNothing,
       OpenH3, PollEvent, PollDone, Judge, Tick
  <2>2. CASE verdict' = verdict BY <2>1, <2>2
  <2>3. CASE verdict' # verdict
    <3>1. verdict = "none" /\ verdict' # "none"
      BY <2>3 DEF Inv, TypeOK, Next, Step, vars, Setup, CheckDeadline, Send, DriveTimer,
         ReadDatagram, ReadNothing, OpenH3, PollEvent, PollDone, Judge, Tick
    <3>2. verdict' = "ok" => Qualifies(server) BY <2>1 DEF Inv, OkQualified
    <3> QED BY <2>1, <3>1, <3>2 DEF Contract!Judge
  <2> QED BY <2>2, <2>3
<1> QED BY <1>1, <1>2, Invariance, PTL DEF Spec, ContractSpec, Contract!Spec
=============================================================================
