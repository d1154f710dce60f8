----------------------------- MODULE RecordKeeping -----------------------------
(***************************************************************************)
(* What the store of a run promises about the task records handed to it,   *)
(* whatever it is made of: a record whose call has returned stays readable *)
(* until the run is removed; one that is still being written may be lost   *)
(* with another that is written at the same time.  The summary has them    *)
(* all if its writer has them in memory, else those that can be read.      *)
(***************************************************************************)
EXTENDS Integers

CONSTANT Records  \* each with its task and its time

VARIABLES
    open,    \* records whose call has not returned
    handed,  \* records handed to the store
    kept,    \* records a reader gets
    final,   \* the run has a summary
    memory   \* who writes the summary has the records in memory

keepVars == <<open, handed, kept, final, memory>>

Init == open = {} /\ handed = {} /\ kept = {} /\ ~final /\ memory \in BOOLEAN

Older(r) == {x \in Records : x.task = r.task /\ x.at < r.at}
Latest == {r \in handed : \A x \in handed : x.task = r.task => x.at <= r.at}

\* The call begins: only records still open may get lost.
Begin(r) ==
    /\ ~final /\ r \notin handed
    /\ open' = open \cup {r} /\ handed' = handed \cup {r}
    /\ kept \ open \subseteq kept' /\ kept' \subseteq kept \cup {r}
    /\ UNCHANGED final
Return(r) ==
    /\ r \in open /\ open' = open \ {r}
    /\ UNCHANGED <<handed, kept, final>>
\* A call that fails has kept nothing.
Fail(r) ==
    /\ ~final /\ r \notin handed /\ handed' = handed \cup {r}
    /\ UNCHANGED <<open, kept, final>>
\* A store that does it in one step; an older record of the task is replaced.
Add(r) ==
    /\ ~final /\ r \notin handed /\ handed' = handed \cup {r}
    /\ kept' = (kept \ Older(r)) \cup {r}
    /\ UNCHANGED <<open, final>>

Finish ==
    /\ open = {} /\ ~final /\ final' = TRUE
    /\ kept \subseteq kept' /\ kept' \subseteq handed
    /\ memory => Latest \subseteq kept'
    /\ UNCHANGED <<open, handed>>
\* A run whose process is gone gets the summary its readable records give.
Close ==
    /\ ~final /\ final' = TRUE
    /\ UNCHANGED <<open, handed, kept>>
Remove == kept' = {} /\ final' = FALSE /\ UNCHANGED <<open, handed>>

Step == Finish \/ Close \/ Remove \/ \E r \in Records : Begin(r) \/ Return(r) \/ Fail(r) \/ Add(r)
Next == Step /\ UNCHANGED memory
Spec == Init /\ [][Next]_keepVars
================================================================================
