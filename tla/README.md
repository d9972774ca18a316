# gtip: a verification project

gtip is an Android program that looks for addresses at which
`translate.googleapis.com` can be reached.  It expands CIDR segments into a
list of addresses, pings them over TCP, tests the ones that answer over HTTP/3
or over TLS and HTTP/1.1, and lists what it finds.  It carries its own copy of the QUIC
library quiche, with one change, and that library's example servers and clients in
C, the programs that show how a connection is to be driven.  This directory holds TLA+
models of the program, TLC configurations that check them on small instances,
and theorems that TLAPS proves for all values of the constants.

The program has no documents or tests of its own: the source and its comments
(mostly Chinese) are the reference; for the copied library, its comments.  Paths are shortened below: `MainActivity.kt`,
`IpList.kt`, `TcpProbe.kt`, `QuicNative.kt` are in
`app/src/main/java/com/anglesgirl/gtip/`, `lib.rs` is `quiche/src/lib.rs`; `server.c`,
`http3-server.c`, `client.c`, `http3-client.c` are in `quiche-vendor/examples/`, and
`quiche` is `quiche-vendor/src/lib.rs`.

How to run, in this directory:

    tlc -workers 2 -config MC_Restart.cfg MC_ScanPipeline
    tlapm ScanPipelineProofs.tla

## 1. Inventory

| Component | State it keeps | Operations | Talks to |
|---|---|---|---|
| **Scan pipeline** (MainActivity.kt) | `running`, `done`, `ok`, `pending`, `results`, `scanJob`, `protoMode`, `pingPool`, `h3Pool`, the queues of a pass | `toggleScan`, `pingAll`, `h3TestAll`, `tcpTestAll`, `hybridTestAll`, `testOne`, `tcpOne`, `rebuildPending`, `fetchOnlineIps`, `loadChinaIps`, `addManualIps`, `btnClear`, `onDestroy` | pool threads share the flag and counters with the main thread; posts to the looper; calls the probes |
| **Result list, clipboard, single test** (MainActivity.kt) | order of `results`, clipboard | the sort in `testOne`/`tcpOne`, `copyAllOk`, `testSingleIp`, the adapter | rows of the pipeline, both probes |
| **Address lists** (IpList.kt) | none (`fullCount`, `quickCount` computed once) | `expandCidr`, `fetchOnline`, `fetchChinaCidrs`, `loadCloudCidrs`, `parseManual`, `isValidIp` | the pipeline puts what they return in `pending` |
| **HTTP/3 probe** (lib.rs) | one connection, one request, the last status | `test_one`, `drain_once`, the error maps, `tcp_ping` | quiche, a UDP socket, through JNI the pipeline |
| **TCP+TLS probe** (TcpProbe.kt) | one socket | `test` | the platform's TLS, the pipeline |
| **JNI bridge** (QuicNative.kt, lib.rs) | none | `test`, `tcpPing`, `parseResult` | both sides of it |
| **Host test program** (test_host.rs) | as the probe | `main` | quiche |
| **QUIC server programs** (server.c, http3-server.c) | the table of connections, one timer each, the HTTP/3 connection on top | `recv_cb`, `flush_egress`, `timeout_cb`, `create_conn`, `mint_token`, `validate_token`, `gen_cid`, `main` | the clients over UDP, quiche, libev |
| **QUIC client programs** (client.c, http3-client.c) | one connection, its timer, `req_sent`, the HTTP/3 connection | `main`, `recv_cb`, `flush_egress`, `timeout_cb` | the servers over UDP, quiche, libev |
| **QUIC connection** (quiche) | handshake state, connection ids, deadlines; third-party but for one change, `connect_with_dcid` | `connect`, `connect_with_dcid`, `accept`, `recv`, `send`, `on_timeout`, `close`, `timeout` | the programs above, the HTTP/3 probe |
| **TLS library, build files, resources** | third-party or without behaviour | | |

What is hard in it:

- **Concurrency.**  Every scan runs a coroutine body on `Dispatchers.Default`
  and 96 or 32 tasks on two pools; all of them, and the main thread, share one
  flag and one counter.  A stopped scan's body and tasks are not waited for.
  When the user starts again while one of them is inside a probe, it finds the
  flag set again and goes on (MainActivity.kt:274).  The flag is read and acted on in
  two steps, by each task before it polls (274, 302, 351, 396) and by the body before a
  pass (248, 403): what found it set goes on although a stop came in between.
- **Callbacks and ordering.**  Rows, progress and the announcement of the end
  reach the screen as posts to the looper, which come after stops, starts,
  clears and each other in any order.
- **Unsynchronised data.**  Writers of `pending` lock it, the copy a scan makes
  of it does not (MainActivity.kt:269).
- **Partial failure.**  `onDestroy` shuts the pools down under a scan: tasks
  that wait are dropped, further ones rejected.
- **Timeouts.**  A probe has a deadline (HTTP/3) or a limit per read (TCP)
  against servers that send little, much, or in an awkward order.
- **An unreliable network.**  Datagrams of the QUIC programs are lost, repeated, late and
  reordered, and come from another address after a NAT rebinding; an old copy of
  an Initial with a token can arrive after its connection was freed.
- **Timers that stop.**  With a timeout of 0 `ev_timer_again` stops a timer
  (server.c:120-122), and four early returns skip the flush that sets it.
- **Arithmetic.**  Prefixes, caps, roundings and an address syntax with
  32- and 64-bit integers.

What makes each component correct:

- *Scan pipeline*: one row per address and protocol; the counter equals the
  rows; "complete" is said of a complete scan only; after a stop only what was begun
  is finished; the button agrees with the flag; a scan ends and no body waits for tasks
  that nobody will run; after `onDestroy` the threads come to rest.
- *Address lists*: addresses are of the segment, none twice, evenly spread, at most as
  many as asked for, and their text can be parsed (the last three are not kept everywhere).
- *Probes*: one verdict, "usable" only for a server that proved its
  certificate (and, for HTTP/3, answered 200), an answer in hand is not lost, and
  the time it may take is bounded.
- *Result list*: usable rows first, fastest first; the clipboard holds exactly
  the usable ones.
- *QUIC servers*: a connection only for an address that returned the token it was sent;
  one per client; both ends agree on it; no timer without a connection, no
  connection without a timer but for a reason; what is closed is freed.
- *QUIC clients*: the request is sent on the connection that answers it; the process ends.
- *QUIC connection*: whatever order the Retry and the server's first packets come in,
  the ids both ends authenticate are the same.

## 2. Modules

| Module | Models | Runs | Proofs |
|---|---|---|---|
| `ScanPipeline` | the scan of MainActivity.kt | `restart`, `one_scan`, `finished` | `ScanPipelineProofs`, `ScanOutcomeProofs` |
| `ScanContract` | what the screen is promised of scans | (abstract specification of `ScanPipeline`) | |
| `CidrExpand` | `IpList.expandCidr` | `cidr`, `cidr_parse` | `CidrExpandProofs` |
| `ProbeContract` | what the pipeline is promised by a probe | (abstract specification of the next two) | |
| `H3Probe` | `test_one` of lib.rs | `h3` | `H3ProbeProofs` |
| `TcpProbe` | `TcpProbe.test` | `tcp` | `TcpProbeProofs` |
| `QuicConn` | UDP, the datagrams, and what the programs tell apart of a connection | (extended by the four programs) | (first section of the next ones) |
| `EchoServer`, `EchoClient` | server.c, client.c | (composed next) | |
| `EchoExchange` | both over the network | `quic_echo`, `timer_lost` | `EchoExchangeProofs` |
| `H3Server`, `H3Client` | http3-server.c, http3-client.c | (composed next) | |
| `H3Exchange` | both over the network | `h3_exchange` | `H3ExchangeProofs` |
| `AdmissionContract` | what address validation promises | (abstract specification of both exchanges) | |
| `DcidConnect` | the connection ids of one handshake in quiche | `dcid`, `dcid_ignored` | `DcidConnectProofs` |

`MC_*` modules hold the small sets that the `.cfg` files give to the constants.

### ScanPipeline

*State.*  `running`, `ok`, `pending`, `results` are the fields of the same name;
`label` is what `btnStart` offers, `looper` the queue of posts; `gen` is the
scan `scanJob` refers to, `cancelled` the jobs that were cancelled, `job` where
each scan's coroutine is.  `queue`, `alive` and `h3Fail` are the concurrent
queues of a pass, `pc` and `hold` where a task is and which address it holds,
`spawned` and `workQueue` the state of the two `newFixedThreadPool`s.
`tainted` and `cleared` are history: they only occur in properties.

*Actions.*  One per handler (`StartScan` and `StopScan` are the two branches of
`toggleScan`; `ClearResults`, `RebuildPending`, `AddManual`, `StartLoading`,
`FetchDone`, `ChinaLoaded`, `Destroy`), two for the looper (`DeliverRow`,
`DeliverEnd`), nine for the coroutine body (`LaunchBody` to `BlockReturns`,
one per point where it waits, reads what others write, or where somebody sees what it
wrote), and those of the pools (`SubmitTask`, `StartQueued`, and in a task `ReadFlag`,
`TakeEntry`, `PingReturns` or `TestReturns`, `PostRow`).  The look at the flag and what
follows from it are two actions everywhere: `ReadFlag` and `TakeEntry` in the loops,
`JoinPing` and `BeginTests`, `JoinFirst` and `BeginRetry` in the body.  A task is in a
probe for as long as it likes; in between the user and the other tasks do what they like.

*Abstractions.*  An address is a model value; two equal strings in the list are
two values.  The queues are sets: `poll` may return any element, which includes
the order of the code.  What a probe answers is free (the two probe modules say
what it means).  `btnProto` cycles a field that is read once, after the ping
pass, so the mode is any of `ProtoModes` there.  A progress text is left out.
An edit during the copy either throws or leaves a part of the old list: the
iterator of `ArrayList` compares the modification count at each element, but
`hasNext` only the size.  The main thread's own check `pending.isEmpty()` and
its start are one step, since all writers of `pending` are on the main thread.

### ScanContract

The pipeline without its queues, threads, flag and looper.  A scan has a stage; it asks for
tests of one protocol, perhaps for TCP tests of what failed (`AskAgain`), and ends.  A test
that was asked for is decided once (`Decide`), its row is shown once (`Show`), and both
before the end of its scan (`End`).  A scan that nobody stopped and nothing disturbed
does not conclude or end with a test undecided (`Settled`).  The button changes with
a start, a stop and the end of a scan nobody stopped, and with nothing else.
The refinement mapping is in `ScanPipeline` (`Contract`): a stage stands for the job states
between two of the body's decisions; the tests asked for are those in the queues of a scan that
is not over and those in the hand of a task that probes (`Asked`); the decided ones are the
rows in the looper and those a task is about to post (`Decided`).  `gen`, `label`, `h3Fail`,
`results`, `cancelled` and `tainted` are themselves.  Polls, submissions, pool threads,
downloads and the copy of the list are stutters.

### CidrExpand

One step per round of the loops of `expandV4` and `expandV6`; an address is a
sub-segment and an offset.  The text of an address is modelled by the number of
groups on the two sides of its `::`, which is what decides whether it parses.
Integers are unbounded: with the sizes of `Total` (at most 2^63 - 1) every
offset that becomes an address fits in a `Long`, which is `StaysInSegment`;
the addition after the last address of a 63-bit loop could only overflow if that
loop did not stop by its cap, and a cap is below 2^31.

### H3Probe, TcpProbe, ProbeContract

`ProbeContract` is one step: a verdict, "usable" only for a server that
qualifies.  `H3Probe` has one action per numbered section of the loop of
`test_one` (its comments 1 to 6) and the deadline; QUIC delivers the events of
a stream in order and without loss whatever the datagrams do, so the server is a
certificate and a script of events, and the network decides how many of them
each datagram completes, whether anything arrives at all, and where the clock
is.  `TcpProbe` has one action per blocking call; a server is a certificate, the
number of pieces its handshake and its first line come in, and whether that line
survives in a JSON text.  Both implement the contract with a refinement
mapping; "qualifies" is certificate and 200 for HTTP/3, the certificate alone for
TCP, where any first line, or none, is taken for an answer (TcpProbe.kt:43, 53).

`ScanPipeline` composes with the probes through this contract: `PingReturns` and
`TestReturns` are the one verdict of a probe, `usable` being its value.

### QuicConn, EchoServer, EchoClient, H3Server, H3Client

*State.*  `conns` is the hash table, `armed` the ids whose timer the event loop
holds, `opened` the descriptors `gen_cid` leaves open, `spc` whether `recv_cb` is
reading; per client, `run` is where the process is and `armed` its timer.
`toServer` and `toClient` hold every datagram ever sent.  `accepted`, `answered`,
`missed` and `gaveUp` are history and only occur in properties.

*Actions.*  A server step is one datagram through the loop of `recv_cb`, split
by what the loop does with it (`NegotiateVersion`, `StatelessRetry`, `DropsDatagram`,
`CreateFails`, `create_conn`, `ConnRecv`, `ParseError`, `ReadError`); the flush of all
connections at its end (`FlushLoop`: send, set or stop the timer, free what is
closed); or one `timeout_cb` (`ConnTimeout`).  Datagrams arrive and time passes
between any two.  A client step is `main` up to the event loop, one datagram,
the rest of `recv_cb` or one early return of it, or `timeout_cb`.  http3-server.c
differs in making an HTTP/3 connection and in returning from `recv_cb` on a header
that does not parse (283), where server.c goes on.

*A connection* (`QuicConn`) is its phase, whether it has something to send
(`out`) and whether its deadline has passed (`overdue`).  From the library these programs
need: `recv` moves the handshake on or ignores a packet; `send` writes until it
is done; `timeout` is 0 once the deadline has passed; only `on_timeout` closes a
connection that received something (quiche 6122).  Initial keys are anybody's; other
packets open only with the keys of their connection (`key`).  Packets of the same news are
one datagram, and what they contain otherwise is left out.  `Faults` names the calls
that may fail; `Descriptors` is a limit of the process, `MaxConns` a bound.

### DcidConnect

The client of `Connection::new`, `recv_single` and `parse_peer_transport_params`,
made by either function, against any server that follows the protocol.  Retry,
first packet and transport parameters are three datagrams that come in any order.
A connection id is a model value; an integrity tag, the Initial keys and a token are
the id they depend on.

## 3. Runs

Violations of a passing run are errors; a "violation" run shows that the code
does not do what one of its own texts says (section 5).

| Run | Instance | States | Shows |
|---|---|---|---|
| `restart` | 2 scans over one address in every mode or over two in HTTP/3, 2+1 threads, stop | 513 k | OkMatches, RunningHasOwner, SettledIdle, CompletionComplete, NeverStuck, StopHolds, ContractSpec |
| `one_scan` | 1 hybrid scan, list {a}, c from outside, 1+2 threads, 1 edit, stop, clear, destroy, fairness | 239 k | RowOnce, OneSuccess, StopHolds, ScanEnds, ThreadsRest |
| `cidr` | 921 segments | 8.9 k | InSegment, NoRepeat, SampleSound, Dwindles |
| `h3` | 18 servers, two of their nine scripts with an interim 103 first, deadline at tick 2 of 5, fairness | 47 k | AnswerKept, AnswerTruthful, LateBounded, ContractSpec, Returns |
| `tcp` | 24 servers, connect limit 3, idle limit 2, fairness | 3.6 k | HeldBounded, ContractSpec, Returns |
| `quic_echo` | a client of 2 addresses, 2 Retries, 2 connections, every failure | 366 k | TypeOK, NoStaleTimer, UnarmedExcused, ClosedAreFreed, OnePerClient, HandshakeAccepted, EndsAgree, ClientUnarmedExcused, AdmissionSpec |
| `h3_exchange` | a client of 2 addresses, 1 Retry, 2 connections, every failure, fairness | 159 k | UnarmedExcused, AnswersMatch, GarbageFreeExcused, ServerFrees, ClientEnds |
| `dcid` | both functions, 3 policies, 3 server ids, fairness | 174 | HandshakeSound, Connects |

*Why the bounds are enough.*  A hazard of the pipeline needs a stale task or
body of one scan and a fresh one of another: two scans have it.  Two
addresses are needed for one to be polled while another waits; `ShortPairs` keeps
the lists of two to the shortest mode and follows the second scan up to its tests, since
a list of one already goes through both passes of the hybrid in two scans.  With one test thread (`restart`) the tasks of
the second scan wait behind those of the first, which is the interesting case
for the pools; with two (`one_scan`) two tasks of one pass race on its queue.  That
rows come once also when scans mix is in `ContractSpec`, which `restart` checks.  One
edit during the copy is what makes it throw or cut it short.  Every bound is a
constant: `MaxScans`, `MaxEdits`, `Buttons`, `ProtoModes`.  `Symmetry` permutes the
addresses; it is used only where no liveness is checked.  The deadline at tick 2 lets it
fall before, inside and after each section of the loop; two ticks after it are enough
for the two reads that may end late, and the clock stops three after.  The limits
3 and 2 of `tcp` distinguish the two kinds of wait; `MaxClock` is 16, above the
13 ticks of the longest probe, so it cuts nothing off.  The segments of `cidr`
have every host width TLC's 32-bit integers can hold (31 to 64 host bits
are covered by the proofs only) with caps that divide the sizes, do not, and
exceed them, and split segments of fewer and of more sub-segments than the cap.  Of the
servers of `h3` those with a 103 are the ones where the last status is not the answer.
In `quic_echo` a second address makes a token come back from elsewhere, a second
Retry races the first, and a second connection lets a late copy revive an id whose
connection was freed.  Several clients only meet in the table and in the flush of
all connections: they are covered by the proofs alone.  The server of `dcid` draws at most
a Retry id and two connection ids in one handshake.

*Deadlock* is not checked in any run: a probe, an expansion and a scan end, and a
destroyed or crashed process stands still.  That nothing gets stuck on the way
is `ScanEnds` and `Returns`, for an expansion `Dwindles`, and for the body of a scan that waits for its futures `NeverStuck`:
there is a task to submit, to start or at work as long as one is missing.

*Fairness.*  `ScanPipeline`: weak fairness of the looper (the main thread runs its
posts), of each body (the dispatcher has a thread for it), of each task and of
each pool's queue (an executor's threads run).  Nothing is assumed of the user or
of a download.  A task inside a probe is assumed to return: that is `Returns` of
the two probe modules.  Probes need: the thread runs and time passes; the
peer need not do anything.  `h3_exchange`: weak fairness of the flush and of the rest
of a client's `recv_cb` (a callback runs to its end), strong fairness of the timeout
that closes a connection, because news moves its deadline only while the peer sends some,
and no peer here does so for ever.  `dcid`: what is sent again and again arrives, and
a server that asks for a Retry sometimes accepts at last; the probe's own deadline is not part
of it.  In `one_scan` a task that is never started, one the
pool loses, or a loop that misses the empty queue would each break `ScanEnds`.

*Mutants.*  For every property of every passing run `PROJECT.json` names a changed
definition (a dropped guard, a missing reset, an off-by-one) under which TLC finds
the property violated.  The changed forms stand beside the definitions.

## 4. Proofs

All theorems hold for every value of the constants that satisfies the named
assumptions.  11440 obligations.

**ScanPipelineProofs** (from ListsAssumption ... ModesAssumption).  `TypeCorrect`,
`FlagHasOwner` (`[]RunningHasOwner`) and `SettlesIdle` (`[]SettledIdle`), for any
number of scans, addresses, threads and edits.  That the flag has an owner is not
inductive alone.  `FlowInv` adds: scans above `gen` have not begun and none of
them is cancelled (`GenInv`); a scan whose block came back has its one end
message in the looper, and no other scan has one (`EndInv`); while the flag is
set the current scan, not cancelled, is before the last step of its block
(`FlagInv`); and while the button offers to stop, the current scan, not
cancelled, has still to announce its end (`LabelInv`).  `SettledIdle` needs the
last two together with `EndInv`: with the looper empty and every body back,
nobody is left to announce.
`StopIsHeld` (`StopHolds`) joins three invariants.  By `FlagInv` the flag is clear while the
current scan is cancelled, so that `ReadFlag` sends no task to poll and the body decides on no
further pass.  By `PoolInv` a task that a thread takes up or that is submitted was waiting
or not begun, and so has not looked at the flag (`WaitingInv`: the queue of a pool holds each
task that waits at one place; `ThreadsInv`: no more occupied threads than were created).  By `TaskInv`
an active task is of the pass its scan is at, so that a pass that was already decided on
finds no task of another pass about to poll.

`RowsComeOnce` and `SucceedsOnce` (`[]RowOnce`, `[]OneSuccess`) are by `OnceInv`, which
follows an address from the queue through a hand to its row.  What a test pass has in its
queue has no row and is in no hand (`QueuedInv`); there is one row of an address and protocol
or one task that will post it (`SingleInv`); a noted failure is not queued again by the first
pass and has no success by HTTP/3 (`FailInv`); in hybrid mode only failures are tested
by TCP (`RetryInv`).  Before a pass begins nothing of it exists (`EarlyInv`, `FirstInv`), which
makes the filling of its queue safe.  Most steps are `Quiet` and need one lemma.

**ScanOutcomeProofs** (from the same assumptions and theorems).
`CompletionIsComplete` (`[]CompletionComplete`) is the converse: nothing is forgotten.  A scan
is `Clean` while no other body overlaps it, no edit raced its copy and it is not cancelled; then
nobody else clears its flag (`AloneInv`), so that a task leaves its loop only when the queue is
empty (`EmptiedInv`), and what was queued for a test stays in the queue, a hand, a row or
the noted failures (`CoveredInv`).  `TaskInv` empties the hands at the end, and `LooperInv` (the end is posted after
the rows) the looper.

`CounterMatches` (`[]OkMatches`): the rows are counted as the places of a finite set, so that no
sum over the list is needed.  `SoleInv` says that beside a scan which overlapped no other
there is no other body, so that every task that counts is its own, and `CountInv` that `ok` is the number of its usable
rows, shown or posted, and of the tasks about to post one, or more after `btnClear`.  A
step changes at most one row and one task; the lemmas on cardinalities say by how much.

`JoinsNeverStick` (`[]NeverStuck`): a pool lets tasks wait only when it has all its threads (`FullInv`), and a task is dropped only by `onDestroy` (`DroppedInv`).  If a pass is not joined
it has a task that is not done; the one of the least number among those that were not
submitted is next, by well-foundedness of the numbers (`SomeNext`); if there is none, a task waits
or runs, and then either its pool has a free thread or some task, perhaps of an older
scan, is at work.

`KeepsContract` (`Spec => ContractSpec`) is the refinement of `ScanContract`.  `PromiseInv` is
the conjunction of the invariants above.  There is one lemma per step, in the order of the
contract's actions (`StartKeeps`, `StopKeeps`, `FirstKeeps`, `RetryKeeps`, `TestKeeps`, `ShowKeeps`,
`EndKeeps` ...); those that map to a stutter share `StillKeeps`.  `Show` needs
`RowAlone`: the looper holds a row once and no task is about to post it again, which is
`OnceInv`; without it a delivered row would still be a decided one.  `End` needs `LooperInv`
and `TaskInv` (nothing decided is left), `Settled` needs `EmptiedInv`.

**CidrExpandProofs** (from SegmentsAssumption).  `TypeCorrect`, `StaysInSegment`,
`NeverRepeats`, `CapHoldsV6`, `SamplesSoundly`, for all prefixes and caps.
`CidrInv` says what the list is at each round: in the flat loops all addresses
lie below the next offset, and in `expandV4` that offset is one step per address
beyond the first host; in the loop over sub-segments an address is of an earlier sub-segment, or of
this one with a suffix already used, and no two suffixes are equal.
`SamplesSoundly` (`[]SampleSound`) needs more, `Progress`: how the offset, or the
sub-segment and the suffix, follow from the number of addresses listed.  With it `Sampling`
is inductive: the address a round adds is where `Even` or `EvenSplit` puts it, and the count at the end
comes from dividing the size by the cap with a remainder (`StrideFacts`, `StrideCount`): a remainder of
0 gives the cap exactly, any other more than the cap in `expandV4`, which does not look at it,
but not more than double; in `expandV6`, which does, the remainder is what is left out.
`AlwaysDwindles` (`Spec => Dwindles`) is the
termination of the loops: `Left` bounds what they have still to do, and every step leaves
less, since no step rounds to zero (`StepPositive`) and a sub-segment that is done takes its
whole row of `Left` with it (`SubsLeft`).

**H3ProbeProofs** (from StatusesAssumption ... ClockAssumption).  `KeepsContract`
(Spec => ContractSpec), `KeepsAnswer`, `ReportsTruthfully`, `RequestsOnce`,
`EndsInTime`, `TypeCorrect`, for all servers with scripts of any length and all
deadlines.  `Inv` adds that establishment implies the certificate, that the status is
one of an event already polled (`StatusPolled`), that no status is known outside sections 5 and 6,
and how many reads may already have ended late at each section.

**TcpProbeProofs** (from ServersAssumption, LimitsAssumption).  `KeepsContract`,
`HeldFor`, `TypeCorrect`.  `Held` is the accounting behind the time bound: the
time before the current wait is paid for by the pieces received, one idle limit each.
`Dwindles` is the termination of a probe: `Left` counts the calls and pieces still to
come (`ToDo`), and below them the ticks left of the current wait; a step that takes one of the
former outweighs any wait that starts anew (`OneLess`).  That a probe does take its steps is
the fairness of `FairSpec`, and `Returns` stays with TLC.

**EchoExchangeProofs** and **H3ExchangeProofs** (from QuicConnAssumption, with the
same lemmas on datagrams and on the library first in both), for any number of
clients, addresses, descriptors and connections and every set of failures.  A server step is
first shown to be one of four kinds (a connection settles or not, a Retry, a
new connection, a flush that serves some), a client step one of three, and each
invariant is then proved once per kind.  `SafeInv` is the types and `AdmissionInv`: every
Retry has an id of its own and a token for its address (`RetriesInv`), Initials carry
tokens the server minted (`InitialsInv`), the ids of the table are those of accepted
connections, none twice (`TableInv`, `AcceptedInv`), and a client's state is one its datagrams
explain (`ClientsInv`, `KeysInv`, `HellosInv`).  From it follow `NoStaleTimer`,
`OnePerClient`, `HandshakeAccepted`, `EndsAgree` and the refinement of
`AdmissionContract`.  `ExchangeInv` follows a request and its answer over the network
(`AnswersMatch`); `TimersInv` adds that what is closed has no timer
(`UnarmedExcused`, `ClosedAreFreed`, `ClientUnarmedExcused`).
`FreesWhatItMade` (`[]GarbageFreeExcused`) is by `Http3Inv`: a client with keys owns an HTTP/3
connection, but in the `recv_cb` that completes the handshake, where the request is still due.

**DcidConnectProofs** (from IdsAssumption).  `TypeCorrect`, `HandshakesSound`, for any
number of ids.  `DcidInv` says where the ids of each packet come from (`PacketsInv`,
`AcceptedInv`) and that the client is at one of three places: no Retry taken, one taken,
or the server's connection met.

The type invariants are theorems in every module; only `quic_echo` also checks one,
for the descriptors.

*Only model-checked.*  Liveness (`ScanEnds`, `Returns`, `ServerFrees`, `ClientEnds`,
`Connects`), which is outside the prover's reach.  `JoinsNeverStick` is the safety half of
`ScanEnds`.

## 5. What the code does not keep

Found by runs that TLC ends with a counterexample:

- `finished`: a stopped scan that resumed clears the flag of its successor, which then
  announces completion without having pinged its addresses (255, 261).
- `cidr_parse`: with four groups on each side of the `::` an address of a network of
  /64 or wider is eight groups and a `::`, which does not parse (IpList.kt:168); all of the
  Hong Kong, Japan and Singapore ranges are of this kind.
- `timer_lost`: the flush of all connections stops the timer of one whose deadline has just
  passed (server.c:120-122); a draining one then stays in the table for ever, since only
  `on_timeout` closes it.  The property is about draining connections; `UnarmedExcused` says
  which others can be without a timer.  All four programs have the same lines.
- `dcid_ignored`: the id given to `connect_with_dcid` never reaches a packet (quiche 2105);
  what it does is to make the connection ignore every Retry (2082, 2738), so that a server
  that insists on one is never reached (`Connects`).  Its comment also says of the
  upstream `connect` that it "always uses an empty DCID", which it does not.

Seen while modelling, without a run of its own:

- A press between the end of a block and its announcement starts a scan whose button
  then reads "start" (MainActivity.kt:255-257); `SettledIdle` says that it does not last.
- "Stop the current scan first" is tested before the cloud list is expanded, and the
  list replaced after it (433, 448), perhaps while a scan copies it: the copy then throws, which
  ends the process, or is cut short (`FinishCopy`).  The properties hold for the other scans
  (`tainted`).
- After a stop every task that had found the flag set takes one more address and tests it,
  and a body that had found it set begins its next pass, whose tasks find it cleared and leave
  (274, 248, 403).  `StopHolds` says that this is all.
- `onDestroy` drops the tasks that wait for a thread; a body that waits for one of them waits for
  ever, and one that goes on to submit ends the process with an exception nobody catches
  (195, 288).  The threads come to rest in either case (`ThreadsRest`).
- An informational status read in a round before the final one is judged as the
  answer (lib.rs:327): a server that sends 103 and then 200 may be called "non200".
  `AnswerTruthful` holds but for this case, which it names (`Interim`).
- `gen_cid` leaves a descriptor open for every Retry (server.c:164); when they are used up new
  clients are no longer answered (`DropsDatagram`).
- http3-client.c frees an HTTP/3 connection nobody made when the handshake did not
  complete (466, from `malloc` at 421); `GarbageFreeExcused` is the exact condition.
- A packet with a short header for a connection that was freed is answered with a version
  negotiation, its version being reported as 0 (server.c:278).
- http3-server.c never frees the HTTP/3 connection of a connection it frees (476-492), and
  `create_conn` leaks the record when `quiche_accept` fails (server.c:206-209); an id of the wrong
  length is only logged (192-194).
- The test for a closed connection in the clients' `recv_cb` (client.c:146) never succeeds:
  only `on_timeout` closes a client's connection, and the timeout callback breaks the loop.
- IPv4 has no cap beside the step, which is rounded down: 142.250.0.0/15 with the cap 4096
  gives 4229 addresses, against "at most" (IpList.kt:51).  `SampleSound` says which segments
  exceed the cap, all of those and no others (`Overfull`), and that none exceeds its double.
- With the cap 4096 a /48 is sampled in the first 4096 of its 65536 sub-segments only, against
  "evenly" (IpList.kt:60); `EvenSplit` says when.  An unsplit IPv6 segment leaves out at its end what
  the division by the cap leaves over (`Even`).  A network wider than /48 gives nothing (111).
- `fullCount` sums 32-bit sizes that wrap (IpList.kt:55, 73).
- In full mode a /56 asks for about 2^31 addresses (IpList.kt:136, 147), the text says
  393216 in all (MainActivity.kt:44).
- lib.rs:18 lists fewer error names than `test_one` returns.
- `TcpProbe.test` has no limit on the whole, only one per read (`HeldBounded` is
  tight), and puts the status line into JSON unquoted (TcpProbe.kt:56).

## 6. Not modelled

- Progress texts and the counter `done` (planned); the layout and the adapter.
- Downloads and text filters of `IpList`: I/O and strings; the pipeline takes what
  they return as a free set.
- `fullCount`, `quickCount` (planned).
- The JNI bridge: conversions; a failure of it is a failed probe to the pipeline.
- `tcp_ping`: one connect with a timeout, a free verdict in `PingReturns`.
- QUIC, HTTP/3 and TLS themselves: third-party, modelled by what `test_one` and the
  example programs see of them, and by `DcidConnect` for the connection ids.  No recovery,
  flow control, migration, fragmented answers, settings, GOAWAY, priorities or resets;
  no version negotiation in `DcidConnect`; its server is any server, hence external.
- `quiche.h`, beyond the calls these programs make: declarations.
- A client process that is killed: to the server it is one whose datagrams are lost.
- Memory: the size of a list is a number, not a cost.

## 7. Plan

Done: all modules of section 2 with the runs and theorems above.  In this order next:

1. `StatusFeed`: `tvStatus`, `done`, `h3Total`, `tcpTotal` and their posts: a stopped scan's
   progress after "stopped", the hybrid's second pass counting beyond its total, the
   announcement reading the next scan's counter.  It shares the skeleton of
   `ScanPipeline` and is to be an instance of the same job states.
2. `ResultList`: the sort after each row, `copyAllOk`, `btnClear`: the list is sorted
   and the clipboard holds the usable rows, whatever the order of posts.
3. `RangeCounts`: `segmentSize`, `fullCount`, `quickCount` modulo 2^32 against the
   sizes of `CidrExpand`.
4. Proofs: well-founded measures, as `Left` is for `CidrExpand` and for `TcpProbe`, for the
   steps that `Returns` of the HTTP/3 probe (its loop is bounded by the clock alone) and
   `ScanEnds` of the pipeline rest on (the properties themselves stay with TLC).
