------------------------------- MODULE RunEnd -------------------------------
(***************************************************************************)
(* How a hierarchical run begins and ends. It is set up in steps, each of  *)
(* which may fail. Sessions end and their tails publish the                *)
(* result in steps (record on disk, entry in the layer's map, completion   *)
(* on the root layer's broadcast channel); wait_actor and wait_for_any     *)
(* listen to that channel; and when the root lead's session is over,       *)
(* run_hierarchical snapshots what is in flight, cancels it, drains it and *)
(* writes summary.json from summary.jsonl.                                 *)
(*                                                                         *)
(* Workers here run one session each: pause, reprompt and resume of        *)
(* workers are WorkerLifecycle's. Tokens are sent to in one step: their    *)
(* cascades are CancelCascade's. Statuses are reduced to the three that    *)
(* the exit code tells apart.                                              *)
(***************************************************************************)
EXTENDS Integers, FiniteSets, Sequences

CONSTANTS
    Workers,        \* ids of workers
    Subs,           \* ids of sub-leads; a sub-lead's id names its layer too
    Root,           \* id of the root lead, and of the root layer
    LayerOf,        \* worker -> the layer it is spawned into
    Calls,          \* waits the leads may issue
    Fin,            \* the receiver run_hierarchical drains
    Cap,            \* capacity of the completion channel (1024 in the code)
    Menus           \* what may happen in a behaviour: records
                    \*   who       workers and sub-leads that may be spawned
                    \*   fail      whether steps of the set-up and sessions may fail on
                    \*             their own, or sessions succeed although they were
                    \*             told to terminate
                    \*   waits     what a wait may ask for, records [op, ids]
                    \*   disk      outcomes of append_record, a subset of BOOLEAN
                    \*   reprompts bound on the reprompts sent to leads
                    \*   trips     what may trip the run's token, a subset of Trips

Leads == Subs \cup {Root}
Actors == Leads \cup Workers
Layer(a) == IF a \in Workers THEN LayerOf[a] ELSE a
Receivers == Calls \cup {Fin}

\* What trips the run's token besides finalize: the first and the second Ctrl-C, the two
\* phases of the console's cancel_run, a breach of the root's budget.
Trips == {"drain", "term", "cancelDrain", "cancelTerm", "breach"}

ASSUME Ids == Root \notin Workers \cup Subs /\ Workers \cap Subs = {} /\ Fin \notin Calls
ASSUME Layers == LayerOf \in [Workers -> Leads]
ASSUME Bounds == Cap \in Nat \ {0}
ASSUME MenuShape == \A m \in Menus :
    /\ \A q \in m.waits : \/ q.op = "actor" /\ \E a \in Workers \cup Subs : q.ids = {a}
                          \/ q.op = "any" /\ q.ids # {} /\ q.ids \subseteq Workers
    /\ m.who \subseteq Workers \cup Subs /\ m.fail \in BOOLEAN
    /\ m.disk \subseteq BOOLEAN /\ m.reprompts \in Nat /\ m.trips \subseteq Trips

VARIABLES
    menu,       \* the choice of Menus, constant
    subs,       \* keys of state.subleads
    entry,      \* an actor's entry in its layer's workers.states
    at,         \* where an actor's task is
    outcome,    \* how its last session ended
    killed,     \* actors whose token was told to terminate
    stop,       \* the Trips that have happened
    mail, sent, \* reprompts queued per lead; all ever sent
    sid,        \* leads with a captured claude_session_id
    file,       \* summary.jsonl: the records [id, synth] that can be read back
    line,       \* whose records are on its last, unfinished line
    lost,       \* actors whose record was not written or cannot be read back
    results,    \* keys of state.sublead_results
    rx,         \* the channel's receivers; dropped, the ids they lost, is for DrainNeedsNoDeadline
    call,       \* per wait: where it is and what it asks for
    fin,        \* where run_hierarchical's tail is
    known,      \* actors in a map when finalize took its snapshot
    inFlight,   \* the ids the drain still waits for
    gaveUp,     \* the drain ran into its deadline
    interrupted, read, synth, summary, rc

sessVars == <<subs, entry, at, outcome, killed, stop, mail, sent, sid>>
diskVars == <<file, line, lost, results>>
finVars == <<menu, fin, known, inFlight, gaveUp, interrupted, read, synth, summary, rc>>
vars == <<sessVars, diskVars, rx, call, finVars>>

NoRx == [open |-> FALSE, q |-> <<>>, lag |-> FALSE, dropped |-> {}]
NoWait == [op |-> "actor", ids |-> {}]

\* The set-up of run_hierarchical: run directory and manifest snapshot, the notification
\* of the dispatch, MCP and control servers, the lead's token and mcp-config, its worktree.
After == [files |-> "router", router |-> "mcp", mcp |-> "control", control |-> "config",
          config |-> "worktree", worktree |-> "wait"]
SettingUp == fin \in DOMAIN After

\* Where a task may be: asked for, spawned, in its session, in its tail, finished.
Stages == {"idle", "asked", "task", "live", "exited", "ended", "written", "recorded",
           "removed", "done", "settled", "gone"}

SessOK ==
    /\ subs \subseteq Subs
    /\ entry \in [Actors -> {"none", "pending", "running", "done"}]
    /\ at \in [Actors -> Stages]
    /\ outcome \in [Actors -> {"none", "Success", "Failed", "Cancelled"}]
    /\ killed \subseteq Actors /\ stop \subseteq Trips
    /\ mail \in [Leads -> 0 .. menu.reprompts] /\ sent \in 0 .. menu.reprompts
    /\ sid \subseteq Leads

DiskOK ==
    /\ file \subseteq [id : Actors, synth : BOOLEAN]
    /\ line \subseteq Actors /\ lost \subseteq Actors /\ results \subseteq Subs

Rx == [open : BOOLEAN, q : Seq(Actors), lag : BOOLEAN, dropped : SUBSET Actors]

RxOK ==
    /\ rx \in [Receivers -> Rx]
    /\ \A r \in Receivers : Len(rx[r].q) <= Cap /\ (~ rx[r].open => rx[r] = NoRx)

CallOK == call \in [Calls -> [at : {"idle", "look", "results", "exists", "waiting", "record",
                                   "unknown", "error"},
                             want : menu.waits \cup {NoWait}]]

FinOK ==
    /\ fin \in DOMAIN After \cup {"wait", "root", "subs", "kill", "drain", "read", "synthRoot", "synthSubs",
                "write", "done", "failed"}
    /\ known \subseteq Actors /\ inFlight \subseteq known
    /\ gaveUp \in BOOLEAN /\ interrupted \in BOOLEAN
    /\ read \subseteq file /\ synth \subseteq Workers
    /\ summary \subseteq [id : Actors, synth : BOOLEAN] /\ rc \in {-1, 0, 1, 130}

TypeOK == menu \in Menus /\ SessOK /\ DiskOK /\ RxOK /\ CallOK /\ FinOK

Init ==
    /\ menu \in Menus
    /\ subs = {} /\ entry = [a \in Actors |-> "none"] /\ at = [a \in Actors |-> "idle"]
    /\ outcome = [a \in Actors |-> "none"]
    /\ killed = {} /\ stop = {}
    /\ mail = [l \in Leads |-> 0] /\ sent = 0 /\ sid = {}
    /\ file = {} /\ line = {} /\ lost = {} /\ results = {}
    /\ rx = [r \in Receivers |-> NoRx]
    /\ call = [c \in Calls |-> [at |-> "idle", want |-> NoWait]]
    /\ fin = "files" /\ known = {} /\ inFlight = {} /\ gaveUp = FALSE
    /\ interrupted = FALSE /\ read = {} /\ synth = {} /\ summary = {} /\ rc = -1

\* The dispatcher's tasks run until run_hierarchical returns.
Alive == fin \notin {"done", "failed"}

-----------------------------------------------------------------------------
(* The set-up *)

SetUp ==
    /\ SettingUp /\ fin # "worktree"
    /\ fin' = After[fin]
    /\ UNCHANGED <<menu, sessVars, diskVars, rx, call, known, inFlight, gaveUp, interrupted, read,
                   synth, summary, rc>>

\* The last step done, the lead's kill+resume loop starts its first session.
Launch ==
    /\ fin = "worktree" /\ fin' = After[fin]
    /\ entry' = [entry EXCEPT ![Root] = "running"] /\ at' = [at EXCEPT ![Root] = "live"]
    /\ UNCHANGED <<menu, subs, outcome, killed, stop, mail, sent, sid, diskVars, rx, call, known,
                   inFlight, gaveUp, interrupted, read, synth, summary, rc>>

\* Every step's error is returned at once: what earlier steps wrote and announced stays.
SetUpFails ==
    /\ SettingUp /\ menu.fail /\ fin' = "failed"
    /\ UNCHANGED <<menu, sessVars, diskVars, rx, call, known, inFlight, gaveUp, interrupted, read,
                   synth, summary, rc>>

-----------------------------------------------------------------------------
(* Spawning and cancelling *)

\* The gate reads the run's token, whatever the layer; spawn_sublead has none.
\* A token that is told to terminate drains as well.
Draining == stop # {} \/ Root \in killed

\* spawn_worker's first checks ...
SpawnWorker(w) ==
    /\ w \in menu.who
    /\ at[w] = "idle" /\ at[LayerOf[w]] = "live" /\ ~ Draining
    /\ at' = [at EXCEPT ![w] = "asked"]
    /\ UNCHANGED <<subs, entry, outcome, killed, stop, mail, sent, sid, diskVars, rx, call, finVars>>

\* ... and, later, its inserts: the map, the token with its eager cascade, the task.
Register(w) ==
    /\ at[w] = "asked"
    /\ entry' = [entry EXCEPT ![w] = "pending"]
    /\ killed' = IF LayerOf[w] \in killed THEN killed \cup {w} ELSE killed
    /\ at' = [at EXCEPT ![w] = "task"]
    /\ UNCHANGED <<subs, outcome, stop, mail, sent, sid, diskVars, rx, call, finVars>>

SpawnSublead(s) ==
    /\ s \in menu.who
    /\ at[s] = "idle" /\ at[Root] = "live"
    /\ subs' = subs \cup {s}
    /\ killed' = IF Root \in killed THEN killed \cup {s} ELSE killed
    /\ at' = [at EXCEPT ![s] = "task"]
    /\ UNCHANGED <<entry, outcome, stop, mail, sent, sid, diskVars, rx, call, finVars>>

\* The task enters Running and starts the child.
Start(a) ==
    /\ at[a] = "task"
    /\ entry' = [entry EXCEPT ![a] = "running"]
    /\ at' = [at EXCEPT ![a] = "live"]
    /\ UNCHANGED <<subs, outcome, killed, stop, mail, sent, sid, diskVars, rx, call, finVars>>

\* Whom a terminate of the run's token reaches: every layer in the map and its workers.
Reached == {Root} \cup subs
           \cup {w \in Workers : /\ LayerOf[w] \in subs \cup {Root}
                                 /\ at[w] \notin {"idle", "asked"}}

Trip(k) ==
    /\ k \in menu.trips \ stop
    /\ stop' = stop \cup {k}
    /\ killed' = IF k \in {"term", "cancelTerm", "breach"} THEN killed \cup Reached ELSE killed
    /\ UNCHANGED <<subs, entry, at, outcome, mail, sent, sid, diskVars, rx, call, finVars>>

\* The first Ctrl-C drains, the second terminates. The watcher comes after the run's files.
CtrlC == fin # "files" /\ (Trip("drain") \/ ("drain" \in stop /\ Trip("term")))

\* The console's cancel_run drains the run's token, walks the tree and then terminates it.
CancelRun ==
    /\ fin \notin {"files", "router", "mcp", "control"}
    /\ Trip("cancelDrain") \/ ("cancelDrain" \in stop /\ Trip("cancelTerm"))

\* The usage observer of the root lead's session sees a cap exceeded: trip_budget_abort.
BudgetBreach == at[Root] = "live" /\ Trip("breach")

-----------------------------------------------------------------------------
(* Sessions *)

Outcomes(a) ==
    IF a \in killed THEN {"Cancelled"} \cup (IF menu.fail THEN {"Success"} ELSE {})
    ELSE {"Success"} \cup (IF menu.fail THEN {"Failed"} ELSE {})

\* A session ends by itself, by its timeout or because it was told to. A lead's may
\* have printed its session id.
SessionEnds(a) ==
    /\ at[a] = "live"
    /\ \E o \in Outcomes(a) :
          outcome' = [outcome EXCEPT ![a] = o]
    /\ at' = [at EXCEPT ![a] = IF a \in Workers THEN "ended" ELSE "exited"]
    /\ sid' \in IF a \in Leads /\ sent > 0 THEN {sid, sid \cup {a}} ELSE {sid}
    /\ UNCHANGED <<subs, entry, killed, stop, mail, sent, diskVars, rx, call, finVars>>

\* A worktree that cannot be prepared ends the worker before its session.
PrepareFails(w) ==
    /\ w \in Workers /\ menu.fail /\ at[w] = "task"
    /\ outcome' = [outcome EXCEPT ![w] = "Failed"]
    /\ at' = [at EXCEPT ![w] = "ended"]
    /\ UNCHANGED <<subs, entry, killed, stop, mail, sent, sid, diskVars, rx, call, finVars>>

\* send_synthetic_reprompt queues for the loop below; without a loop it drops.
Reprompt(l) ==
    /\ at[l] \in {"live", "exited"} /\ sent < menu.reprompts
    /\ mail' = [mail EXCEPT ![l] = @ + 1] /\ sent' = sent + 1
    /\ UNCHANGED <<subs, entry, at, outcome, killed, stop, sid, diskVars, rx, call, finVars>>

\* The kill+resume loop looks for a reprompt once the session has ended: it resumes if
\* a session id is known and otherwise returns.
LoopTurn(l) ==
    /\ at[l] = "exited"
    /\ mail' = [mail EXCEPT ![l] = IF @ > 0 THEN @ - 1 ELSE 0]
    /\ at' = [at EXCEPT ![l] = IF mail[l] > 0 /\ l \in sid THEN "live" ELSE "ended"]
    /\ UNCHANGED <<subs, entry, outcome, killed, stop, sent, sid, diskVars, rx, call, finVars>>

-----------------------------------------------------------------------------
(* The tails: record, entry, completion *)

\* append_record writes the record and then, in a write of its own, the newline. An
\* error is ignored by workers and sub-leads and ends the run of the root lead.
WriteLine(a) ==
    /\ at[a] = "ended"
    /\ \/ TRUE \in menu.disk /\ line' = line \cup {a} /\ UNCHANGED <<lost, fin>>
          /\ at' = [at EXCEPT ![a] = "written"]
       \/ FALSE \in menu.disk /\ lost' = lost \cup {a} /\ UNCHANGED line
          /\ at' = [at EXCEPT ![a] = "recorded"]
          /\ fin' = IF a = Root THEN "failed" ELSE fin
    /\ UNCHANGED <<menu, subs, entry, outcome, killed, stop, mail, sent, sid, file, results, rx,
                   call, known, inFlight, gaveUp, interrupted, read, synth, summary, rc>>

\* A line that holds one record can be read back, a line that holds two cannot.
EndLine(a) ==
    /\ at[a] = "written"
    /\ IF line = {a} THEN file' = file \cup {[id |-> a, synth |-> FALSE]} /\ UNCHANGED lost
                     ELSE lost' = lost \cup line /\ UNCHANGED file
    /\ line' = {}
    /\ at' = [at EXCEPT ![a] = "recorded"]
    /\ UNCHANGED <<subs, entry, outcome, killed, stop, mail, sent, sid, results, rx, call, finVars>>

\* reconcile_terminated_sublead takes the layer out of the map ...
Remove(s) ==
    /\ s \in Subs /\ at[s] = "recorded"
    /\ subs' = subs \ {s}
    /\ at' = [at EXCEPT ![s] = "removed"]
    /\ UNCHANGED <<entry, outcome, killed, stop, mail, sent, sid, diskVars, rx, call, finVars>>

\* ... and every tail marks the entry Done.
MarkDone(a) ==
    /\ at[a] = IF a \in Subs THEN "removed" ELSE "recorded"
    /\ entry' = [entry EXCEPT ![a] = "done"]
    /\ at' = [at EXCEPT ![a] = "done"]
    /\ UNCHANGED <<subs, outcome, killed, stop, mail, sent, sid, diskVars, rx, call, finVars>>

\* The sub-lead's terminal record, for wait_actor.
Settle(s) ==
    /\ s \in Subs /\ at[s] = "done"
    /\ results' = results \cup {s}
    /\ at' = [at EXCEPT ![s] = "settled"]
    /\ UNCHANGED <<subs, entry, outcome, killed, stop, mail, sent, sid, file, line, lost, rx, call, finVars>>

\* subscribe: from here on the receiver hears.
Opened(r) == [rx EXCEPT ![r] = [@ EXCEPT !.open = TRUE]]

\* A broadcast to the open receivers; a full one drops its oldest and is told Lagged.
Receive(r, a) ==
    LET q == Append(r.q, a) IN
    IF ~ r.open THEN r
    ELSE IF Len(q) <= Cap THEN [r EXCEPT !.q = q]
    ELSE [r EXCEPT !.q = Tail(q), !.lag = TRUE, !.dropped = @ \cup {Head(q)}]

\* Mutant: a sub-tree's worker tells its own layer only.
X_HeardByRoot(a) == a \in Leads \/ LayerOf[a] = Root

\* Whose completion goes to the root layer's channel: everybody's.
HeardByRoot(a) == a \in Actors

Announce(a) ==
    /\ at[a] = IF a \in Subs THEN "settled" ELSE "done"
    /\ rx' = IF HeardByRoot(a) THEN [r \in Receivers |-> Receive(rx[r], a)] ELSE rx
    /\ at' = [at EXCEPT ![a] = "gone"]
    /\ UNCHANGED <<subs, entry, outcome, killed, stop, mail, sent, sid, diskVars, call, finVars>>

-----------------------------------------------------------------------------
(* wait_actor and wait_for_any *)

\* find_worker_across_layers: the root's map, then those of the layers in state.subleads.
\* A sub-lead has an entry in its own layer's map.
Visible(a) == entry[a] # "none" /\ Layer(a) \in subs \cup {Root}
IsDone(a) == Visible(a) /\ entry[a] = "done"

Answer(c, r) ==
    /\ call' = [call EXCEPT ![c] = [@ EXCEPT !.at = r]]
    /\ rx' = [rx EXCEPT ![c] = NoRx]

\* Mutant: the subscription is taken after the first look.
X_Listening(c, step) == step = "waiting"

\* The steps during which a wait holds its receiver: it subscribes before it looks.
Listening(c, step) == step \in {"look", "results", "exists", "waiting"}

\* The wait goes to its next step, subscribing if that step is the first that listens.
Go(c, step) ==
    /\ call' = [call EXCEPT ![c] = [@ EXCEPT !.at = step]]
    /\ rx' = IF Listening(c, step) THEN Opened(c) ELSE rx

Wait(c, q) ==
    /\ call[c].at = "idle" /\ \E l \in Leads : at[l] = "live"
    /\ call' = [call EXCEPT ![c] = [at |-> "look", want |-> q]]
    /\ rx' = IF Listening(c, "look") THEN Opened(c) ELSE rx
    /\ UNCHANGED <<sessVars, diskVars, finVars>>

\* The fast path. wait_for_any learns in the same pass whether any id is known.
Look(c) ==
    LET q == call[c].want IN
    /\ call[c].at = "look"
    /\ \/ (\E a \in q.ids : IsDone(a)) /\ Answer(c, "record")
       \/ /\ ~ \E a \in q.ids : IsDone(a)
          /\ \/ q.op = "actor" /\ Go(c, "results")
             \/ q.op = "any" /\ (\E a \in q.ids : Visible(a)) /\ Go(c, "waiting")
             \/ q.op = "any" /\ ~ (\E a \in q.ids : Visible(a)) /\ Answer(c, "unknown")
    /\ UNCHANGED <<sessVars, diskVars, finVars>>

LookInResults(c) ==
    /\ call[c].at = "results"
    /\ IF call[c].want.ids \cap results # {} THEN Answer(c, "record") ELSE Go(c, "exists")
    /\ UNCHANGED <<sessVars, diskVars, finVars>>

Exists(c) ==
    /\ call[c].at = "exists"
    /\ IF \E a \in call[c].want.ids : a \in subs \/ Visible(a)
       THEN Go(c, "waiting") ELSE Answer(c, "unknown")
    /\ UNCHANGED <<sessVars, diskVars, finVars>>

\* One message: the record is looked for whoever it is about; wait_actor gives up if it
\* is about its own actor and there is none.
WaitTurn(c) ==
    LET q == call[c].want
        found == \E a \in q.ids : IsDone(a) \/ (q.op = "actor" /\ a \in results)
    IN
    /\ call[c].at = "waiting" /\ ~ rx[c].lag /\ rx[c].q # <<>>
    /\ \/ found /\ Answer(c, "record")
       \/ ~ found /\ q.op = "actor" /\ Head(rx[c].q) \in q.ids /\ Answer(c, "error")
       \/ /\ ~ found /\ ~ (q.op = "actor" /\ Head(rx[c].q) \in q.ids)
          /\ rx' = [rx EXCEPT ![c] = [@ EXCEPT !.q = Tail(rx[c].q)]] /\ UNCHANGED call
    /\ UNCHANGED <<sessVars, diskVars, finVars>>

\* Lagged is answered like a closed channel; and the caller's timeout.
WaitLagged(c) ==
    /\ call[c].at = "waiting" /\ rx[c].lag
    /\ Answer(c, "error")
    /\ UNCHANGED <<sessVars, diskVars, finVars>>

WaitTimeout(c) ==
    /\ call[c].at = "waiting"
    /\ Answer(c, "error")
    /\ UNCHANGED <<sessVars, diskVars, finVars>>

-----------------------------------------------------------------------------
(* run_hierarchical after the root lead's session *)

\* is_draining() or is_terminated() of the run's token, the one Terminate below trips too.
WasInterrupted == Draining

\* The interruption is read, then the receiver is subscribed: no await in between.
Capture ==
    /\ fin = "wait" /\ at[Root] = "gone"
    /\ interrupted' = WasInterrupted
    /\ rx' = Opened(Fin)
    /\ fin' = "root"
    /\ UNCHANGED <<menu, sessVars, diskVars, call, known, inFlight, gaveUp, read, synth, summary, rc>>

InMap(ls) == {a \in Actors \ {Root} : entry[a] # "none" /\ Layer(a) \in ls}

NotDone(ls) == {a \in InMap(ls) : entry[a] # "done"}

SnapshotRoot ==
    /\ fin = "root" /\ fin' = "subs"
    /\ known' = InMap({Root}) /\ inFlight' = NotDone({Root})
    /\ UNCHANGED <<menu, sessVars, diskVars, rx, call, gaveUp, interrupted, read, synth, summary, rc>>

SnapshotSubs ==
    /\ fin = "subs" /\ fin' = "kill"
    /\ known' = known \cup InMap(subs) /\ inFlight' = inFlight \cup NotDone(subs)
    /\ UNCHANGED <<menu, sessVars, diskVars, rx, call, gaveUp, interrupted, read, synth, summary, rc>>

Terminate ==
    /\ fin = "kill" /\ fin' = "drain"
    /\ killed' = killed \cup Reached
    /\ UNCHANGED <<menu, subs, entry, at, outcome, stop, mail, sent, sid, diskVars, rx, call, known,
                   inFlight, gaveUp, interrupted, read, synth, summary, rc>>

\* await_workers_drained: a message strikes its id, Lagged strikes what the maps show Done.
DrainTurn ==
    /\ fin = "drain" /\ inFlight # {}
    /\ \/ /\ rx[Fin].lag
          /\ inFlight' = {a \in inFlight : ~ IsDone(a)}
          /\ rx' = [rx EXCEPT ![Fin] = [@ EXCEPT !.lag = FALSE]]
       \/ /\ ~ rx[Fin].lag /\ rx[Fin].q # <<>>
          /\ inFlight' = inFlight \ {Head(rx[Fin].q)}
          /\ rx' = [rx EXCEPT ![Fin] = [@ EXCEPT !.q = Tail(rx[Fin].q)]]
    /\ UNCHANGED <<menu, sessVars, diskVars, call, fin, known, gaveUp, interrupted, read, synth,
                   summary, rc>>

Drained ==
    /\ fin = "drain" /\ inFlight = {} /\ fin' = "read"
    /\ UNCHANGED <<menu, sessVars, diskVars, rx, call, known, inFlight, gaveUp, interrupted, read,
                   synth, summary, rc>>

Deadline ==
    /\ fin = "drain" /\ inFlight # {} /\ fin' = "read" /\ gaveUp' = TRUE
    /\ UNCHANGED <<menu, sessVars, diskVars, rx, call, known, inFlight, interrupted, read, synth,
                   summary, rc>>

ReadFile ==
    /\ fin = "read" /\ fin' = "synthRoot"
    /\ read' = file
    /\ UNCHANGED <<menu, sessVars, diskVars, rx, call, known, inFlight, gaveUp, interrupted, synth,
                   summary, rc>>

Existing == {r.id : r \in read}

\* Workers that are neither Done nor in the file get a Cancelled record: first the root's,
\* then those of the layers still in the map.
SynthRoot ==
    /\ fin = "synthRoot" /\ fin' = "synthSubs"
    /\ synth' = (NotDone({Root}) \cap Workers) \ Existing
    /\ UNCHANGED <<menu, sessVars, diskVars, rx, call, known, inFlight, gaveUp, interrupted, read,
                   summary, rc>>

SynthSubs ==
    /\ fin = "synthSubs" /\ fin' = "write"
    /\ synth' = synth \cup ((NotDone(subs) \cap Workers) \ Existing)
    /\ UNCHANGED <<menu, sessVars, diskVars, rx, call, known, inFlight, gaveUp, interrupted, read,
                   summary, rc>>

Status(r) == IF r.synth THEN "Cancelled" ELSE outcome[r.id]

\* tasks_failed: a cancelled actor counts unless the lead succeeded.
FailedTasks(S) ==
    {r \in S : /\ Status(r) # "Success"
               /\ ~ (r.id # Root /\ outcome[Root] = "Success" /\ Status(r) = "Cancelled")}

\* Mutant: the interruption is read when the exit code is made.
X_ExitCode(all) == IF WasInterrupted THEN 130 ELSE IF FailedTasks(all) # {} THEN 1 ELSE 0

ExitCode(all) == IF interrupted THEN 130 ELSE IF FailedTasks(all) # {} THEN 1 ELSE 0

\* The synthesized records are appended, the summary written, the exit code returned;
\* an append that fails ends the run without a summary.
WriteSummary ==
    /\ fin = "write"
    /\ \/ /\ (TRUE \in menu.disk \/ synth = {})
          /\ LET made == {[id |-> w, synth |-> TRUE] : w \in synth}
                 all == read \cup made
             IN /\ file' = (IF line = {} THEN file \cup made ELSE file) /\ summary' = all
                /\ rc' = ExitCode(all)
          /\ fin' = "done"
       \/ /\ synth # {} /\ FALSE \in menu.disk
          /\ fin' = "failed" /\ UNCHANGED <<file, summary, rc>>
    /\ UNCHANGED <<menu, sessVars, line, lost, results, rx, call, known, inFlight, gaveUp, interrupted,
                   read, synth>>

-----------------------------------------------------------------------------
Spawning == \/ \E w \in Workers : SpawnWorker(w) \/ Register(w)
            \/ \E s \in Subs : SpawnSublead(s)

Tripping == CtrlC \/ CancelRun \/ BudgetBreach

Session(a) == Start(a) \/ SessionEnds(a) \/ (a \in Leads /\ LoopTurn(a))

TailStep(a) == WriteLine(a) \/ EndLine(a) \/ Remove(a) \/ MarkDone(a) \/ Settle(a) \/ Announce(a)

WaitStep(c) == Look(c) \/ LookInResults(c) \/ Exists(c) \/ WaitTurn(c) \/ WaitLagged(c)

Finalize == \/ Capture \/ SnapshotRoot \/ SnapshotSubs \/ Terminate \/ DrainTurn \/ Drained
            \/ ReadFile \/ SynthRoot \/ SynthSubs \/ WriteSummary

Next ==
    /\ Alive
    /\ \/ SetUp \/ Launch \/ SetUpFails
       \/ Spawning \/ Tripping
       \/ \E l \in Leads : Reprompt(l)
       \/ \E a \in Actors : Session(a) \/ TailStep(a) \/ PrepareFails(a)
       \/ \E c \in Calls : (\E q \in menu.waits : Wait(c, q)) \/ WaitStep(c) \/ WaitTimeout(c)
       \/ Finalize \/ Deadline

Spec == Init /\ [][Next]_vars

\* A task that can go on does; the session of a worker or sub-lead ends, at the latest by
\* its timeout. Nothing is assumed of the root lead's session, so that no wait is answered
\* only by the end of the run, nor of spawns, reprompts, trips, or of the deadlines of
\* drain and waits.
FairSpec ==
    /\ Spec
    /\ \A w \in Workers : WF_vars(Alive /\ Register(w))
    /\ \A a \in Actors \ {Root} : WF_vars(Alive /\ (Session(a) \/ TailStep(a)))
    /\ WF_vars(Alive /\ (LoopTurn(Root) \/ TailStep(Root)))
    /\ \A c \in Calls : WF_vars(Alive /\ WaitStep(c))
    /\ WF_vars(Alive /\ (SetUp \/ Launch \/ Finalize))
-----------------------------------------------------------------------------
(* Properties *)

\* A wait that sleeps on an empty channel has missed nothing: no actor it asks for has
\* been announced and can be found. (wait.rs: "Subscribing first guarantees no completion
\* is lost".)
NoMissedCompletion ==
    \A c \in Calls : call[c].at = "waiting" /\ rx[c].q = <<>> /\ ~ rx[c].lag =>
        \A a \in call[c].want.ids : IsDone(a) \/ a \in results => at[a] # "gone"

Waiting(c) == call[c].at \in {"look", "results", "exists", "waiting"}

\* Every wait is answered without its timeout, even if the root lead never ends, since the
\* sessions it can wait for do. The exception is a wait_for_any
\* whose workers have all left the maps with their sub-lead's layer.
WaitsAnswered ==
    \A c \in Calls : Waiting(c) ~>
        \/ ~ Waiting(c) \/ ~ Alive
        \/ call[c].want.op = "any" /\ \A a \in call[c].want.ids : ~ Visible(a)

\* Once sessions end, the drain at finalize ends without its deadline, whoever finishes,
\* registers or is reconciled meanwhile. The exception is an id whose message was dropped
\* from a full channel after its layer had left the maps the refresh reads.
DrainNeedsNoDeadline ==
    fin = "drain" ~>
        fin # "drain" \/ \E a \in inFlight \cap rx[Fin].dropped : ~ Visible(a)

\* summary.json has no two records of one actor, whatever a worker writes between the
\* deadline, the reading of summary.jsonl and the scan of the maps.
OneRecordEach ==
    fin = "done" => \A r1, r2 \in summary : r1.id = r2.id => r1 = r2

\* If the drain did not give up, every actor finalize saw is in summary.json with the
\* record of its own session, not with a synthesized one.
DrainedAreReported ==
    fin = "done" /\ ~ gaveUp =>
        \A a \in known \ lost : /\ [id |-> a, synth |-> FALSE] \in summary
                               /\ [id |-> a, synth |-> TRUE] \notin summary

\* The exit code: 130 only if Ctrl-C, the console's cancel_run or the budget watcher
\* tripped the run's token before the lead's session was over, although finalize
\* terminates the same token on every run; and always 130 if the lead was stopped by it. 0
\* only if the lead succeeded and no session finalize waited for failed, as far as their
\* records can be read back; 1 only if the lead did not succeed or a session failed. The
\* code does not tell the three apart: a run that went over its budget exits like an
\* interrupted one.
ExitCodeIsHonest ==
    fin = "done" =>
        /\ rc = 130 => stop # {}
        /\ rc # 130 => outcome[Root] # "Cancelled"
        /\ rc = 0 /\ Root \notin lost => outcome[Root] = "Success"
        /\ rc = 0 /\ ~ gaveUp => \A a \in known \ lost : outcome[a] # "Failed"
        /\ rc = 1 => outcome[Root] # "Success" \/ \E a \in Actors : outcome[a] = "Failed"

\* What waits and summary.json say is what happened: no completion missed, one record
\* for each actor and its own, an exit code that follows from them.
RunEndIsTrue ==
    TypeOK /\ NoMissedCompletion /\ OneRecordEach /\ DrainedAreReported /\ ExitCodeIsHonest
=============================================================================
