----------------------------- MODULE EventFeed -----------------------------
(***************************************************************************)
(* What the event stream promises its readers, whatever queues and hops    *)
(* lie between: there is one order of the run's events, and every reader   *)
(* (the log file, an attached console, a browser) sees some of them, in    *)
(* that order, none twice and none that was not sent.  A reader may miss   *)
(* events: every channel on the way drops for a slow reader.               *)
(***************************************************************************)
EXTENDS Integers

CONSTANT Readers

VARIABLES
    sent,       \* how many events the run has published
    seen        \* per reader, what it was shown: [at, ev], the place on its stream (a line
                \* and a place on that line) and which event stands there

Earlier(p, q) == p[1] < q[1] \/ (p[1] = q[1] /\ p[2] < q[2])

Init == sent = 0 /\ seen = [r \in Readers |-> {}]

Publish == sent' = sent + 1 /\ UNCHANGED seen

\* Behind what a reader was shown it is shown later events, in order.
Show(r) ==
    LET new == seen'[r] \ seen[r] IN
    /\ seen' = [seen EXCEPT ![r] = @ \cup new]
    /\ \A x \in new : x.ev \in 1 .. sent
    /\ \A x \in new, y \in seen[r] : Earlier(y.at, x.at) /\ y.ev < x.ev
    /\ \A x, y \in new : Earlier(x.at, y.at) <=> x.ev < y.ev
    /\ UNCHANGED sent

Next == Publish \/ \E r \in Readers : Show(r)

Spec == Init /\ [][Next]_<<sent, seen>>
=============================================================================
