---------------------------- MODULE ScanContract ----------------------------
(***************************************************************************)
(* What the screen promises of scans, whatever runs behind it.  A scan     *)
(* pings, asks for a test of every address that answered, perhaps asks for *)
(* a second one of those that failed, and ends.  A test that was asked for *)
(* is decided once, and its row is shown once, before the scan's end.  A   *)
(* scan that nothing disturbs leaves no test undecided.  The button only   *)
(* changes with a start, a stop, and the end of a scan nobody stopped.     *)
(***************************************************************************)
EXTENDS Naturals

CONSTANTS
    Scans,      \* the numbers scans can have
    Rows        \* the rows a test can give

VARIABLES
    current,    \* the scan started last (0: none yet)
    button,     \* what the button offers: "start" or "stop"
    stage,      \* where each scan is
    asked,      \* the tests asked for and not decided
    decided,    \* the rows of decided tests that are not shown yet
    failed,     \* the addresses each scan may ask for again
    list,       \* the rows shown, as a bag
    stopped,    \* the scans the user stopped or left
    disturbed   \* the scans that met an edit of the list or another scan

vars == <<current, button, stage, asked, decided, failed, list, stopped, disturbed>>

Test(r)  == [scan |-> r.scan, entry |-> r.entry, proto |-> r.proto]
Of(g, S) == {x \in S : x.scan = g}
Open(g)  == stage[g] \notin {"none", "over"}
Settled(g) == g = current /\ g \notin stopped \cup disturbed => Of(g, asked) = {}

Init ==
    /\ current = 0 /\ button = "start" /\ stage = [g \in Scans |-> "none"]
    /\ asked = {} /\ decided = {} /\ failed = [g \in Scans |-> {}]
    /\ list = [r \in Rows |-> 0] /\ stopped = {} /\ disturbed = {}

Start ==
    /\ current + 1 \in Scans /\ stage[current + 1] = "none"
    /\ current' = current + 1 /\ button' = "stop" /\ list' = [r \in Rows |-> 0]
    /\ stage' = [stage EXCEPT ![current + 1] = "ping"]
    /\ disturbed \subseteq disturbed'
    /\ disturbed' # disturbed => \E h \in Scans : Open(h)
    /\ UNCHANGED <<asked, decided, failed, stopped>>

Stop ==
    /\ current \in Scans \ stopped /\ Open(current)
    /\ stopped' = stopped \cup {current} /\ button' = "start"
    /\ UNCHANGED <<current, stage, asked, decided, failed, list, disturbed>>

Clear ==
    /\ list' = [r \in Rows |-> 0]
    /\ UNCHANGED <<current, button, stage, asked, decided, failed, stopped, disturbed>>

Leave ==
    /\ stopped' = stopped \cup ({current} \ {0})
    /\ UNCHANGED <<current, button, stage, asked, decided, failed, list, disturbed>>

Disturb ==
    /\ disturbed \subseteq disturbed'
    /\ UNCHANGED <<current, button, stage, asked, decided, failed, list, stopped>>

\* The first round: tests by one protocol.
Ask(g) ==
    /\ stage[g] = "ping" /\ stage' = [stage EXCEPT ![g] = "first"]
    /\ asked \subseteq asked'
    /\ \A x, y \in asked' \ asked : x.scan = g /\ x.proto = y.proto
    /\ UNCHANGED <<current, button, decided, failed, list, stopped, disturbed>>

\* The second round: TCP tests of what failed.
AskAgain(g) ==
    /\ stage[g] = "first" /\ stage' = [stage EXCEPT ![g] = "retry"]
    /\ Settled(g) /\ failed[g] # {}
    /\ asked' = asked \cup {[scan |-> g, entry |-> e, proto |-> "TCP"] : e \in failed[g]}
    /\ UNCHANGED <<current, button, decided, failed, list, stopped, disturbed>>

Conclude(g) ==
    /\ stage[g] \in {"ping", "first", "retry"} /\ stage' = [stage EXCEPT ![g] = "ending"]
    /\ Settled(g)
    /\ UNCHANGED <<current, button, asked, decided, failed, list, stopped, disturbed>>

Decide(r) ==
    /\ Test(r) \in asked /\ asked' = asked \ {Test(r)} /\ decided' = decided \cup {r}
    /\ \/ UNCHANGED failed
       \/ /\ ~r.ok /\ r.proto = "H3"
          /\ failed' = [failed EXCEPT ![r.scan] = @ \cup {r.entry}]
    /\ UNCHANGED <<current, button, stage, list, stopped, disturbed>>

Show(r) ==
    /\ r \in decided /\ decided' = decided \ {r}
    /\ list' = [list EXCEPT ![r] = @ + 1]
    /\ UNCHANGED <<current, button, stage, asked, failed, stopped, disturbed>>

End(g) ==
    /\ stage[g] = "ending" \/ (stage[g] = "ping" /\ g \in stopped)
    /\ Settled(g) /\ Of(g, decided) = {}
    /\ stage' = [stage EXCEPT ![g] = "over"] /\ asked' = asked \ Of(g, asked)
    /\ button' = IF g \in stopped THEN button ELSE "start"
    /\ UNCHANGED <<current, decided, failed, list, stopped, disturbed>>

Next ==
    \/ Disturb \/ Start \/ Stop \/ Clear \/ Leave
    \/ \E g \in Scans : Ask(g) \/ AskAgain(g) \/ Conclude(g) \/ End(g)
    \/ \E r \in decided : Show(r)
    \/ \E r \in decided' : Decide(r)

Spec == Init /\ [][Next]_vars
=============================================================================
