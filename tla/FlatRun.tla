-------------------------------- MODULE FlatRun --------------------------------
(***************************************************************************)
(* A flat dispatch from its first file to its exit code: the loop that     *)
(* starts tasks under a semaphore, the worktree of each, its session, the  *)
(* record it leaves, the Ctrl-C watcher, halt_on_failure and the summary.  *)
(* The notification router and the resource sampler of the run are parts   *)
(* of it.                                                                  *)
(***************************************************************************)
EXTENDS Sessions, Notify, ResourceWatch

CONSTANT Menus  \* scenarios

\* Tasks have ids of their own (validate refuses a duplicate), at least one
\* runs at a time, and no branch is in two worktrees when the run begins, nor
\* is one of this run's worktrees there.
ASSUME MenusAssumption == \A m \in Menus :
    /\ m.order \in Seq(DOMAIN m.script)
    /\ \A t \in DOMAIN m.script : \E i \in 1..Len(m.order) : m.order[i] = t
    /\ \A i, j \in 1..Len(m.order) : m.order[i] = m.order[j] => i = j
    /\ m.parallel \in Nat \ {0} /\ m.notify \in Seq({m.notify[i] : i \in 1..Len(m.notify)})
    /\ m.worktree \in [DOMAIN m.script -> BOOLEAN]
    /\ \A v, w \in m.trees : v.branch = w.branch => v = w
    /\ \A v \in m.trees, t \in DOMAIN m.script : v.name # <<"pitboss", t>>

VARIABLES
    run,        \* where execute is
    next,       \* index of the task the loop is at
    permits,    \* free permits of the semaphore
    pc,         \* task to where its future is
    branches,   \* local branches of the repository
    trees,      \* its worktrees, as .git/worktrees lists them: [name, branch, stale],
                \* stale if its removal failed
    watch,      \* the Ctrl-C watcher
    presses,    \* Ctrl-Cs so far
    halted,     \* halt_drained
    reason,     \* task to the failure reason of its record
    records,    \* records collected, in order
    jsonl,      \* summary.jsonl: a task for its record and "nl" for a line end
    summary,    \* summary.json, or <<>>
    rc,         \* exit code, or -1
    socket,     \* the control socket exists
    told,       \* envelopes of others handed to the router
    late        \* history: tasks started although the token drained

runVars == <<run, next, permits, pc, branches, trees, watch, presses, halted, reason, records,
             jsonl, summary, rc, socket, told, late>>
vars == <<menu, cancel, sessionVars, notifyVars, resourceVars, runVars>>
files == <<records, jsonl, summary, rc>>

Order == menu.order
Range_(s) == {s[i] : i \in 1..Len(s)}

Init ==
    /\ menu \in Menus
    /\ cancel = "none"
    /\ InitSessions
    /\ sinks = <<>> /\ dedup = <<>> /\ jobs = {} /\ sent = {} /\ failed = 0 /\ notes = {} /\ unwritten = {}
    /\ asked = 0
    /\ InitResources
    /\ run = "init" /\ next = 1 /\ permits = menu.parallel
    /\ pc = [t \in DOMAIN menu.script |-> "idle"]
    /\ branches = {b.branch : b \in menu.trees} /\ trees = menu.trees
    /\ watch = "off" /\ presses = 0 /\ halted = FALSE
    /\ reason = [t \in DOMAIN menu.script |-> "none"]
    /\ records = <<>> /\ jsonl = <<>> /\ summary = <<>> /\ rc = -1 /\ socket = FALSE /\ told = 0 /\ late = {}
----------------------------------------------------------------------------
(* Start. *)

Exit(code) == run' = "exited" /\ rc' = code

\* The run's directory, its snapshots and its meta; a dry run stops here and
\* leaves them behind.
init_run_state ==
    /\ run = "init"
    /\ IF menu.fault = "init" THEN Exit(1)
       ELSE IF menu.dry THEN Exit(0)
       ELSE run' = "setup" /\ UNCHANGED rc
    /\ UNCHANGED <<menu, cancel, sessionVars, notifyVars, resourceVars, next, permits, pc, branches,
                   trees, watch, presses, halted, reason, records, jsonl, summary, socket, told, late>>

\* The watcher, the router, then RunDispatched.
InstallWatchers ==
    /\ run = "setup" /\ watch = "off"
    /\ watch' = "idle"
    /\ sinks' = build_router_with(menu.notify, menu.parent)
    /\ run' = "dispatched"
    /\ UNCHANGED <<menu, cancel, sessionVars, dedup, jobs, sent, failed, notes, unwritten, asked,
                   resourceVars, next, permits, pc, branches, trees, presses, halted, reason, files, socket, told, late>>

EmitDispatched ==
    /\ run = "dispatched"
    /\ dispatch(Envelope("run_dispatched", "info", ""))
    /\ run' = "control"
    /\ UNCHANGED <<menu, cancel, sessionVars, resourceVars, next, permits, pc, branches, trees, watch,
                   presses, halted, reason, files, socket, told, late>>

\* The sampler and the control server; a server that does not start ends the
\* run before any task.
StartServers ==
    /\ run = "control"
    /\ StartSampler(menu.cadence, <<>>)
    /\ IF menu.fault = "control" THEN Exit(1) /\ UNCHANGED socket
       ELSE run' = "harness" /\ socket' = TRUE /\ UNCHANGED rc
    /\ UNCHANGED <<menu, cancel, sessionVars, notifyVars, next, permits, pc, branches, trees, watch,
                   presses, halted, reason, records, jsonl, summary, told, late>>

\* The handle of the control server is a local of setup_run_harness: leaving
\* it drops the handle, which ends the server and removes its socket.
LeaveSetup ==
    /\ run = "harness" /\ run' = "check" /\ socket' = FALSE
    /\ UNCHANGED <<menu, cancel, sessionVars, notifyVars, resourceVars, next, permits, pc, branches,
                   trees, watch, presses, halted, reason, files, told, late>>
----------------------------------------------------------------------------
(* The loop. *)

loopRest == <<menu, cancel, sessionVars, notifyVars, resourceVars, branches, trees, watch, presses,
              halted, reason, files, socket, told>>
Task == Order[next]

LoopCheck ==
    /\ run = "check"
    /\ run' = IF next > Len(Order) \/ cancel # "none" THEN "join" ELSE "acquire"
    /\ UNCHANGED <<loopRest, next, permits, pc, late>>

Acquire ==
    /\ run = "acquire" /\ permits > 0
    /\ permits' = permits - 1 /\ run' = "recheck"
    /\ UNCHANGED <<loopRest, next, pc, late>>

\* Mutant: the token is not looked at again after the wait for a permit.
X_LoopRecheck ==
    /\ run = "recheck" /\ run' = "launch"
    /\ UNCHANGED <<loopRest, next, permits, pc, late>>
\* Looked at again after the wait: leaving the loop gives the permit back.
LoopRecheck ==
    /\ run = "recheck"
    /\ IF cancel # "none" THEN run' = "join" /\ permits' = permits + 1
       ELSE run' = "launch" /\ UNCHANGED permits
    /\ UNCHANGED <<loopRest, next, pc, late>>

Launch ==
    /\ run = "launch"
    /\ pc' = [pc EXCEPT ![Task] = IF menu.worktree[Task] THEN "prepare" ELSE "session"]
    /\ late' = IF cancel # "none" THEN late \cup {Task} ELSE late
    /\ next' = next + 1 /\ run' = "check"
    /\ UNCHANGED <<loopRest, permits>>

Join ==
    /\ run = "join" /\ \A t \in Tasks : pc[t] \in {"idle", "done"}
    /\ run' = "finalize"
    /\ UNCHANGED <<loopRest, next, permits, pc, late>>
----------------------------------------------------------------------------
(* A task's future. *)

taskRest == <<menu, notifyVars, resourceVars, run, next, watch, presses, summary, rc, socket, told, late>>
Go(t, at) == pc' = [pc EXCEPT ![t] = at]
TreeName(t) == <<"pitboss", t>>
BranchOf(t) == IF menu.branch[t] = <<>> THEN TreeName(t) ELSE menu.branch[t]
CheckedOut(b) == \E w \in trees : w.branch = b

\* Outside a repository there is no worktree; a branch that is missing is made
\* at HEAD.
PrepareBranch(t) ==
    /\ pc[t] = "prepare"
    /\ IF ~menu.repo THEN Go(t, "refused") /\ UNCHANGED branches
       ELSE /\ branches' = IF menu.branch[t] # <<>> THEN branches \cup {menu.branch[t]} ELSE branches
            /\ Go(t, "scan")
    /\ UNCHANGED <<taskRest, cancel, sessionVars, permits, trees, halted, reason, records, jsonl>>

\* The branch must not be checked out by any worktree.
PrepareScan(t) ==
    /\ pc[t] = "scan"
    /\ Go(t, IF menu.branch[t] # <<>> /\ CheckedOut(menu.branch[t]) THEN "refused" ELSE "add")
    /\ UNCHANGED <<taskRest, cancel, sessionVars, permits, branches, trees, halted, reason, records, jsonl>>

\* libgit2: refuses a branch that is checked out; without one it makes a
\* branch of the worktree's name.
git_worktree_add(t) ==
    IF CheckedOut(BranchOf(t)) THEN Go(t, "refused") /\ UNCHANGED <<branches, trees>>
    ELSE /\ trees' = trees \cup {[name |-> TreeName(t), branch |-> BranchOf(t), stale |-> FALSE]}
         /\ branches' = branches \cup {BranchOf(t)}
         /\ Go(t, "session")

PrepareAdd(t) ==
    /\ pc[t] = "add" /\ git_worktree_add(t)
    /\ UNCHANGED <<taskRest, cancel, sessionVars, permits, halted, reason, records, jsonl>>

\* The session is started, and its steps are those of Sessions.
StartSession(t) ==
    /\ pc[t] = "session" /\ sess[t] = "none"
    /\ sess' = [sess EXCEPT ![t] = "starting"]
    /\ UNCHANGED <<taskRest, cancel, why, child, pipe, accum, log, cut, outcome, permits, pc, branches, trees,
                   halted, reason, records, jsonl>>

TaskStatus(t) == IF sess[t] = "none" THEN "SpawnFailed"
                 ELSE IF outcome[t].final_state = "Completed" THEN "Success" ELSE outcome[t].final_state

Removes(policy, ok) == policy = "always" \/ (policy = "on_success" /\ ok)

Stale(w) == [name |-> w.name, branch |-> w.branch, stale |-> TRUE]

\* A repository that cannot be opened and a prune that fails leave the entry;
\* nobody looks at the result.
cleanup(t) ==
    LET own == {w \in trees : w.name = TreeName(t)} IN
    \/ ~Removes(menu.cleanup, TaskStatus(t) = "Success") /\ UNCHANGED trees
    \/ /\ Removes(menu.cleanup, TaskStatus(t) = "Success")
       /\ \/ trees' = trees \ own
          \/ menu.fault = "prune" /\ trees' = (trees \ own) \cup {Stale(w) : w \in own}

\* The worktree goes first, then the log is searched for a reason.
SessionEnds(t) ==
    /\ pc[t] = "session" /\ sess[t] = "ended"
    /\ cleanup(t) /\ Go(t, "append")
    /\ \E err \in stderr_log(t) : reason' = [reason EXCEPT ![t] = detect_failure_reason(t, err)]
    /\ UNCHANGED <<taskRest, cancel, sessionVars, permits, branches, halted, records, jsonl>>

\* The record of a task: where its worktree was, not whether it still is.
TaskRecord(t) ==
    [task |-> t, status |-> TaskStatus(t),
     session |-> outcome[t].session_id, tokens |-> outcome[t].token_usage, reason |-> reason[t],
     tree |-> menu.worktree[t] /\ sess[t] # "none"]

\* append_record: the line, then its end, as two writes.
AppendLine(t) ==
    /\ pc[t] \in {"append", "refused"}
    /\ jsonl' = Append(jsonl, t) /\ Go(t, "newline")
    /\ UNCHANGED <<taskRest, cancel, sessionVars, permits, branches, trees, halted, reason, records>>

AppendNewline(t) ==
    /\ pc[t] = "newline"
    /\ jsonl' = Append(jsonl, "nl") /\ Go(t, "push")
    /\ UNCHANGED <<taskRest, cancel, sessionVars, permits, branches, trees, halted, reason, records>>

PushRecord(t) ==
    /\ pc[t] = "push"
    /\ records' = Append(records, TaskRecord(t))
    /\ Go(t, IF menu.halt /\ TaskStatus(t) # "Success" THEN "halt" ELSE "release")
    /\ UNCHANGED <<taskRest, cancel, sessionVars, permits, branches, trees, halted, reason, jsonl>>

\* Mutant: halt_drained is not set, so the drain looks like an interrupt.
X_Halt(t) ==
    /\ pc[t] = "halt"
    /\ cancel' = (IF cancel = "none" THEN "drain" ELSE cancel) /\ Go(t, "release")
    /\ UNCHANGED <<taskRest, sessionVars, permits, branches, trees, halted, reason, records, jsonl>>
Halt(t) ==
    /\ pc[t] = "halt"
    /\ halted' = TRUE /\ cancel' = (IF cancel = "none" THEN "drain" ELSE cancel) /\ Go(t, "release")
    /\ UNCHANGED <<taskRest, sessionVars, permits, branches, trees, reason, records, jsonl>>

\* The future ends, and with it its permit.
Release(t) ==
    /\ pc[t] = "release"
    /\ permits' = permits + 1 /\ Go(t, "done")
    /\ UNCHANGED <<taskRest, cancel, sessionVars, branches, trees, halted, reason, records, jsonl>>

TaskStep(t) ==
    \/ PrepareBranch(t) \/ PrepareScan(t) \/ PrepareAdd(t) \/ StartSession(t) \/ SessionEnds(t)
    \/ AppendLine(t) \/ AppendNewline(t) \/ PushRecord(t) \/ Halt(t) \/ Release(t)
----------------------------------------------------------------------------
(* Ctrl-C. *)

signalRest == <<menu, sessionVars, notifyVars, resourceVars, next, permits, pc, branches, trees,
                halted, reason, files, socket, told, late>>

\* The first drains; another within the window, or while the escalation
\* counts down, terminates.  Before the watcher listens it kills the process;
\* after its last word it does nothing.
CtrlC ==
    /\ presses < menu.presses /\ run \notin {"exited", "killed"}
    /\ presses' = presses + 1
    /\ CASE watch = "off" -> run' = "killed" /\ UNCHANGED <<cancel, watch>>
         [] watch = "idle" -> /\ cancel' = IF cancel = "none" THEN "drain" ELSE cancel
                              /\ watch' = "window" /\ UNCHANGED run
         [] watch \in {"window", "escalating"} -> cancel' = "terminate" /\ watch' = "gone" /\ UNCHANGED run
         [] watch = "gone" -> UNCHANGED <<cancel, watch, run>>
    /\ UNCHANGED signalRest

WindowExpires ==
    /\ watch = "window" /\ run \notin {"exited", "killed"}
    /\ watch' = IF menu.escalate THEN "escalating" ELSE "idle"
    /\ UNCHANGED <<signalRest, cancel, presses, run>>

Escalate ==
    /\ watch = "escalating" /\ run \notin {"exited", "killed"}
    /\ cancel' = "terminate" /\ watch' = "gone"
    /\ UNCHANGED <<signalRest, presses, run>>
----------------------------------------------------------------------------
(* The end. *)

NotSuccess(s) == Cardinality({i \in 1..Len(s) : s[i].status # "Success"})

Interrupted == cancel # "none" /\ ~halted

Summary == [tasks |-> records, failed |-> NotSuccess(records), was_interrupted |-> Interrupted,
            notify_failures |-> failed, high_water |-> IF hw.samples > 0 THEN <<hw>> ELSE <<>>]

finalize_run ==
    /\ run = "finalize"
    /\ IF menu.fault = "finalize" THEN Exit(1) /\ UNCHANGED summary
       ELSE summary' = <<Summary>> /\ run' = "finished" /\ UNCHANGED rc
    /\ UNCHANGED <<menu, cancel, sessionVars, notifyVars, resourceVars, next, permits, pc, branches,
                   trees, watch, presses, halted, reason, records, jsonl, socket, told, late>>

EmitFinished ==
    /\ run = "finished"
    /\ dispatch(Envelope("run_finished", "info", ""))
    /\ run' = "exit"
    /\ UNCHANGED <<menu, cancel, sessionVars, resourceVars, next, permits, pc, branches, trees, watch,
                   presses, halted, reason, files, socket, told, late>>

\* process::exit right after: emits still under way die with the process.
ExitRun ==
    /\ run = "exit"
    /\ Exit(IF cancel = "terminate" THEN 130 ELSE IF summary[1].failed > 0 THEN 1 ELSE 0)
    /\ UNCHANGED <<menu, cancel, sessionVars, notifyVars, resourceVars, next, permits, pc, branches,
                   trees, watch, presses, halted, reason, records, jsonl, summary, socket, told, late>>
----------------------------------------------------------------------------
Alive == run \notin {"exited", "killed"}
componentRest == <<menu, cancel, runVars>>

Sessions_ == Alive /\ \E t \in Tasks : SessionStep(t) /\ UNCHANGED <<notifyVars, resourceVars, componentRest>>
TasksRun == Alive /\ \E t \in Tasks : TaskStep(t)
Notifications == Alive /\ NotifyStep /\ UNCHANGED <<sessionVars, resourceVars, componentRest>>

\* Envelopes of the approval bridge and the budget watcher, which hand theirs
\* to the router of a run in the same way.
OthersEmit ==
    /\ Alive /\ sinks # <<>> /\ told < Len(menu.emits)
    /\ dispatch(menu.emits[told + 1]) /\ told' = told + 1
    /\ UNCHANGED <<menu, cancel, sessionVars, resourceVars, run, next, permits, pc, branches, trees, watch,
                   presses, halted, reason, files, socket, late>>

Sample ==
    /\ Alive /\ Len(hist) < menu.ticks
    /\ \E p \in menu.procs, m \in menu.mem : run_sampler(p, m)
    /\ UNCHANGED <<sessionVars, notifyVars, componentRest>>
SamplerEnds == Alive /\ synthesize_shutdown_clear(cancel = "terminate")
               /\ UNCHANGED <<sessionVars, notifyVars, componentRest>>

Start == init_run_state \/ InstallWatchers \/ EmitDispatched \/ StartServers \/ LeaveSetup
Loop == LoopCheck \/ Acquire \/ LoopRecheck \/ Launch \/ Join
Signals == CtrlC \/ WindowExpires \/ Escalate
End == finalize_run \/ EmitFinished \/ ExitRun

Next == Start \/ Loop \/ TasksRun \/ Sessions_ \/ Signals \/ End \/ Notifications \/ OthersEmit
        \/ Sample \/ SamplerEnds

\* The runtime polls what is ready, timers fire, and a child not marked slow
\* ends by itself; nothing forces anyone to press Ctrl-C.
Fairness ==
    /\ WF_vars(Start \/ Loop \/ End) /\ WF_vars(TasksRun) /\ WF_vars(Sessions_)
Spec == Init /\ [][Next]_vars /\ Fairness
----------------------------------------------------------------------------
\* The summary of a flat run says what happened: one record for each task
\* that was started, its failures counted; interrupted only if the operator
\* asked; and an exit code of 0 without interruption means that every task
\* of the manifest ran and succeeded.  A finished task's worktree is there
\* exactly when the policy keeps it, apart from an entry whose removal failed,
\* and no branch is in two worktrees.
Started == {t \in Tasks : pc[t] # "idle"}
SummaryIsTrue ==
    /\ summary # <<>> =>
         LET s == summary[1] IN
         /\ {s.tasks[i].task : i \in 1..Len(s.tasks)} = Started /\ Len(s.tasks) = Cardinality(Started)
         /\ s.was_interrupted => presses > 0
         /\ rc = 0 /\ ~s.was_interrupted =>
              Started = Range_(Order) /\ \A i \in 1..Len(s.tasks) : s.tasks[i].status = "Success"
    /\ \A v, w \in trees : v.branch = w.branch => v = w
    /\ \A t \in Tasks : pc[t] = "done" /\ sess[t] = "ended" /\ menu.worktree[t] =>
         ((\E w \in trees : w.name = TreeName(t) /\ ~w.stale) <=> ~Removes(menu.cleanup, TaskStatus(t) = "Success"))

\* What a flat run leaves and tells is true: its summary, its worktrees, its
\* notifications and its memory banner.
FlatRunIsTrue == SummaryIsTrue /\ EmitsAreAccounted /\ BannerIsHonest

\* What it measured of its children is true: how each session came out, and
\* the most memory they had.
MeasuresAreTrue == OutcomeIsTrue /\ HighWaterIsTrue

\* A drain stops the loop: at most the one task it was already past its last
\* look starts; and with a single permit halt_on_failure lets none start, for
\* a failing task drains before it gives its permit back.
HaltHolds ==
    /\ Cardinality(late) <= 1
    /\ menu.parallel = 1 /\ presses = 0 => late = {}

\* A flat run ends, whatever its children do: a child that ignores SIGTERM is
\* killed, a stream that stays open is left.
RunEnds == <>(~Alive)
=============================================================================
