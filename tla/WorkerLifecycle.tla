-------------------------- MODULE WorkerLifecycle --------------------------
(***************************************************************************)
(* One worker (one task_id) through pause, continue, freeze, reprompt and  *)
(* cancel.  Each spawn or resume is an incarnation with its own child      *)
(* process, cancel token and auth token; the maps of the worker registry   *)
(* are keyed by task_id, so all incarnations share one entry.              *)
(*                                                                         *)
(*   pitboss-cli/src/mcp/tools/spawn.rs      run_worker, spawn_resume_worker*)
(*   pitboss-cli/src/mcp/tools/lifecycle.rs  the MCP handlers              *)
(*   pitboss-cli/src/control/server.rs       the same operations and       *)
(*                                           cancel_run on the socket      *)
(*   pitboss-core/src/session/handle.rs      run_to_completion             *)
(***************************************************************************)
EXTENDS Naturals, FiniteSets

CONSTANTS
    MaxInc,     \* bound: incarnations of the worker
    MaxOps,     \* bound: operator requests served
    Requesters, \* the tasks that serve requests (MCP lead, control socket)
    Menus,      \* the requesters and the requests that one run may see
    Subtree     \* the worker belongs to a sub-lead's layer, not to the root's

Inc == 1..MaxInc
AllOps == {"pause", "freeze", "continue", "reprompt", "cancel", "cancel_run"}

ASSUME LifecycleAssumption ==
    /\ MaxInc \in Nat /\ MaxInc >= 1 /\ MaxOps \in Nat
    /\ IsFiniteSet(Requesters)
    /\ Menus \subseteq [who : SUBSET Requesters, ops : SUBSET AllOps]
    /\ Subtree \in BOOLEAN

VARIABLES
    st,         \* workers.states[task_id]
    tokenOf,    \* whose CancelToken is in workers.cancels[task_id]
    killed,     \* incarnations whose token is terminated
    pidOf,      \* whose pid slot is in workers.pids[task_id], 0 if none
    slot,       \* incarnations whose pid slot holds a pid
    proc,       \* the child process of each incarnation
    tail,       \* where each incarnation's task is
    index,      \* worker_layer_index has the entry
    auth,       \* incarnations whose auth token is valid
    records,    \* incarnations whose append_record to summary.jsonl has returned
    doneBy,     \* whose record the entry Done(rec) holds, 0 before the first
    held,       \* history: nobody has resumed the worker since the last pause
    announced,  \* incarnations announced on <<the layer's, the root's>> done bus
    incs,       \* incarnations created so far
    req,        \* what each requester is in the middle of
    ops,        \* requests served so far
    menu        \* what may arrive in this run; never changes

lifecycleVars == <<st, tokenOf, killed, pidOf, slot, proc, tail, index, auth, records,
          doneBy, held, announced, incs, req, ops, menu>>
registry == <<st, tokenOf, pidOf, index, doneBy, held>>
entry == <<doneBy, held>>
sessions == <<slot, proc, tail, auth, records, announced, incs>>

States == {"pending", "spawning", "running", "paused", "frozen", "done"}
ProcStates == {"none", "live", "stopped", "gone"}
Tails == {"none", "start", "session", "pids", "record", "state", "index", "token",
          "announce", "done"}
Reqs == {"idle", "wake", "kill", "replace", "resume", "register", "launch", "thaw", "thawed"}

LifecycleTypeOK ==
    /\ st \in States
    /\ tokenOf \in Inc /\ pidOf \in Inc \cup {0}
    /\ killed \subseteq Inc /\ slot \subseteq Inc /\ auth \subseteq Inc
    /\ records \subseteq Inc /\ doneBy \in Inc \cup {0} /\ held \in BOOLEAN
    /\ proc \in [Inc -> ProcStates] /\ tail \in [Inc -> Tails]
    /\ index \in BOOLEAN
    /\ announced \in [{"layer", "root"} -> SUBSET Inc]
    /\ incs \in Inc
    /\ req \in [Requesters -> [at : Reqs, inc : Inc \cup {0}]]
    /\ ops \in 0..MaxOps
    /\ menu \in Menus

NoRequest == [at |-> "idle", inc |-> 0]

\* handle_spawn_worker has returned: Pending, indexed, token registered.
LifecycleInit ==
    /\ st = "pending" /\ tokenOf = 1 /\ pidOf = 0 /\ index = TRUE
    /\ killed = {} /\ slot = {} /\ auth = {} /\ records = {} /\ doneBy = 0 /\ held = FALSE
    /\ proc = [i \in Inc |-> "none"]
    /\ tail = [i \in Inc |-> IF i = 1 THEN "start" ELSE "none"]
    /\ announced = [b \in {"layer", "root"} |-> {}]
    /\ incs = 1
    /\ req = [r \in Requesters |-> NoRequest]
    /\ ops = 0
    /\ menu \in Menus

-----------------------------------------------------------------------------
(* The session of an incarnation *)

\* The first incarnation: worktree, Running without a session id, auth token,
\* pid slot.  One step, since nobody reads any of them before the session id is
\* known.  A worktree that cannot be made ends the worker: its record, Done and
\* what follows; there is no slot to clear and no token to revoke.
RunWorker ==
    /\ tail[1] = "start"
    /\ st' = "spawning" /\ pidOf' = 1 /\ auth' = auth \cup {1}
    /\ tail' = [tail EXCEPT ![1] = "session"]
    /\ UNCHANGED <<tokenOf, killed, slot, proc, index, records, entry, announced, incs, req, ops>>

WorktreeFailed ==
    /\ tail[1] = "start"
    /\ tail' = [tail EXCEPT ![1] = "record"]
    /\ UNCHANGED <<registry, killed, slot, proc, auth, records, announced, incs, req, ops>>

\* run_to_completion spawns the child and publishes its pid ...
Launch(i) ==
    /\ tail[i] = "session" /\ proc[i] = "none"
    /\ proc' = [proc EXCEPT ![i] = "live"]
    /\ slot' = slot \cup {i}
    /\ UNCHANGED <<registry, killed, tail, auth, records, announced, incs, req, ops>>

SpawnFailed(i) ==
    /\ tail[i] = "session" /\ proc[i] = "none"
    /\ proc' = [proc EXCEPT ![i] = "gone"]
    /\ tail' = [tail EXCEPT ![i] = "pids"]
    /\ UNCHANGED <<registry, killed, slot, auth, records, announced, incs, req, ops>>

\* ... the first session id on its output promotes the state, if it is Running.
Promote ==
    /\ proc[1] \in {"live", "stopped"} /\ tail[1] = "session"
    /\ st = "spawning"
    /\ st' = "running"
    /\ UNCHANGED <<tokenOf, pidOf, index, entry, killed, sessions, req, ops>>

\* The child leaves: by itself, on the timeout, or killed through its token.
\* A stopped child leaves only when it is killed (SIGKILL after the grace).
Exit(i) ==
    /\ proc[i] = "live" \/ (proc[i] = "stopped" /\ i \in killed)
    /\ proc' = [proc EXCEPT ![i] = "gone"]
    /\ UNCHANGED <<registry, killed, slot, tail, auth, records, announced, incs, req, ops>>

\* Mutant: the slot is cleared only when the child left by itself.
X_ReapUnlessKilled(i) ==
    /\ tail[i] = "session" /\ proc[i] = "gone" /\ i \in slot /\ i \notin killed
    /\ slot' = slot \ {i}
    /\ tail' = [tail EXCEPT ![i] = "pids"]
    /\ UNCHANGED <<registry, killed, proc, auth, records, announced, incs, req, ops>>

\* run_to_completion clears the slot and returns.
Reap(i) ==
    /\ tail[i] = "session" /\ proc[i] = "gone" /\ i \in slot
    /\ slot' = slot \ {i}
    /\ tail' = [tail EXCEPT ![i] = "pids"]
    /\ UNCHANGED <<registry, killed, proc, auth, records, announced, incs, req, ops>>

-----------------------------------------------------------------------------
(* The tail of run_worker and of the resumed task, keyed by task_id *)

TailPids(i) ==
    /\ tail[i] = "pids"
    /\ pidOf' = 0
    /\ tail' = [tail EXCEPT ![i] = "record"]
    /\ UNCHANGED <<st, tokenOf, index, entry, killed, slot, proc, auth, records, announced,
                   incs, req, ops>>

TailRecord(i) ==
    /\ tail[i] = "record"
    /\ records' = records \cup {i}
    /\ tail' = [tail EXCEPT ![i] = "state"]
    /\ UNCHANGED <<registry, killed, slot, proc, auth, announced, incs, req, ops>>

\* Mutant: a resumed task does not write the Done state.
X_OnlyFirstIsDone(i) ==
    /\ tail[i] = "state"
    /\ st' = (IF i = 1 THEN "done" ELSE st) /\ doneBy' = i
    /\ tail' = [tail EXCEPT ![i] = "index"]
    /\ UNCHANGED <<tokenOf, pidOf, index, held, killed, slot, proc, auth, records, announced,
                   incs, req, ops>>

TailDone(i) ==
    /\ tail[i] = "state"
    /\ st' = "done" /\ doneBy' = i
    /\ tail' = [tail EXCEPT ![i] = "index"]
    /\ UNCHANGED <<tokenOf, pidOf, index, held, killed, slot, proc, auth, records, announced,
                   incs, req, ops>>

TailIndex(i) ==
    /\ tail[i] = "index"
    /\ index' = FALSE
    /\ tail' = [tail EXCEPT ![i] = "token"]
    /\ UNCHANGED <<st, tokenOf, pidOf, entry, killed, slot, proc, auth, records, announced,
                   incs, req, ops>>

TailToken(i) ==
    /\ tail[i] = "token"
    /\ auth' = auth \ {i}
    /\ tail' = [tail EXCEPT ![i] = "announce"]
    /\ UNCHANGED <<registry, killed, slot, proc, records, announced, incs, req, ops>>

\* run_worker announces on its layer's and the root's bus, a resumed task on
\* its layer's only.
TailAnnounce(i) ==
    /\ tail[i] = "announce"
    /\ announced' = [b \in {"layer", "root"} |->
                       IF b = "layer" \/ i = 1 \/ ~ Subtree
                       THEN announced[b] \cup {i} ELSE announced[b]]
    /\ tail' = [tail EXCEPT ![i] = "done"]
    /\ UNCHANGED <<registry, killed, slot, proc, auth, records, incs, req, ops>>

-----------------------------------------------------------------------------
(* Requests *)

\* Requester r starts serving operation o.
Serve(r, o) == /\ r \in menu.who /\ o \in menu.ops /\ req[r] = NoRequest
               /\ ops < MaxOps /\ ops' = ops + 1

PidLive(i) == i # 0 /\ i \in slot

\* Mutant: the worker is paused without terminating its session.
X_PauseOnly(r) ==
    /\ Serve(r, "pause") /\ st = "running"
    /\ st' = "paused" /\ held' = TRUE
    /\ UNCHANGED <<tokenOf, pidOf, index, doneBy, killed, sessions, req>>

\* handle_pause_worker(Cancel), under the write lock on the states.
PauseCancel(r) ==
    /\ Serve(r, "pause") /\ st = "running"
    /\ killed' = killed \cup {tokenOf}
    /\ st' = "paused" /\ held' = TRUE
    /\ UNCHANGED <<tokenOf, pidOf, index, doneBy, sessions, req>>

\* handle_pause_worker(Freeze): SIGSTOP, then Frozen, under the same lock.
PauseFreeze(r) ==
    /\ Serve(r, "freeze") /\ st = "running"
    /\ PidLive(pidOf) /\ proc[pidOf] = "live"
    /\ proc' = [proc EXCEPT ![pidOf] = "stopped"]
    /\ st' = "frozen"
    /\ UNCHANGED <<tokenOf, pidOf, index, entry, killed, slot, tail, auth, records, announced,
                   incs, req>>

\* handle_continue_worker reads the state and lets the lock go.
ContinuePaused(r) ==
    /\ Serve(r, "continue") /\ st = "paused"
    /\ req' = [req EXCEPT ![r] = [at |-> "resume", inc |-> 0]]
    /\ UNCHANGED <<registry, killed, sessions>>

ContinueFrozen(r) ==
    /\ Serve(r, "continue") /\ st = "frozen" /\ PidLive(pidOf)
    /\ req' = [req EXCEPT ![r] = [at |-> "thaw", inc |-> pidOf]]
    /\ UNCHANGED <<registry, killed, sessions>>

\* SIGCONT to the pid it read; an error if that group is gone.
Thaw(r) ==
    /\ req[r].at = "thaw"
    /\ LET i == req[r].inc IN
       IF proc[i] = "gone"
       THEN req' = [req EXCEPT ![r] = NoRequest] /\ UNCHANGED proc
       ELSE /\ proc' = [proc EXCEPT ![i] = "live"]
            /\ req' = [req EXCEPT ![r] = [at |-> "thawed", inc |-> i]]
    /\ UNCHANGED <<registry, killed, slot, tail, auth, records, announced, incs, ops>>

\* The state goes back to Running whatever it is by now.
Thawed(r) ==
    /\ req[r].at = "thawed"
    /\ st' = "running"
    /\ req' = [req EXCEPT ![r] = NoRequest]
    /\ UNCHANGED <<tokenOf, pidOf, index, entry, killed, sessions, ops>>

\* handle_reprompt_worker reads the state; a Paused worker is resumed right away,
\* a Running one is killed first, after which it sleeps 100 ms.
Reprompt(r) ==
    /\ Serve(r, "reprompt") /\ st \in {"running", "paused"}
    /\ req' = [req EXCEPT ![r] = [at |-> IF st = "running" THEN "replace" ELSE "resume",
                                  inc |-> 0]]
    /\ UNCHANGED <<registry, killed, sessions>>

Replace(r) ==
    /\ req[r].at = "replace"
    /\ killed' = killed \cup {tokenOf}
    /\ req' = [req EXCEPT ![r] = [at |-> "resume", inc |-> 0]]
    /\ UNCHANGED <<registry, sessions, ops>>

\* spawn_resume_worker: a fresh token replaces the entry in workers.cancels ...
ResumeToken(r) ==
    /\ req[r].at = "resume" /\ incs < MaxInc
    /\ incs' = incs + 1
    /\ tokenOf' = incs + 1
    /\ req' = [req EXCEPT ![r] = [at |-> "register", inc |-> incs + 1]]
    /\ UNCHANGED <<st, pidOf, index, entry, killed, slot, proc, tail, auth, records, announced, ops>>

\* ... the state becomes Running ...
ResumeRunning(r) ==
    /\ req[r].at = "register"
    /\ st' = "running" /\ held' = FALSE
    /\ req' = [req EXCEPT ![r] = [at |-> "launch", inc |-> req[r].inc]]
    /\ UNCHANGED <<tokenOf, pidOf, index, doneBy, killed, sessions, ops>>

\* ... an auth token, a pid slot, and the task that runs the session.
ResumeLaunch(r) ==
    /\ req[r].at = "launch"
    /\ auth' = auth \cup {req[r].inc}
    /\ pidOf' = req[r].inc
    /\ tail' = [tail EXCEPT ![req[r].inc] = "session"]
    /\ req' = [req EXCEPT ![r] = NoRequest]
    /\ UNCHANGED <<st, tokenOf, index, entry, killed, slot, proc, records, announced, incs, ops>>

\* ControlOp::CancelWorker looks for a Frozen worker's pid; the MCP tool does not.
Cancel(r) ==
    /\ Serve(r, "cancel")
    /\ \/ /\ st = "frozen" /\ PidLive(pidOf)
          /\ req' = [req EXCEPT ![r] = [at |-> "wake", inc |-> pidOf]]
       \/ req' = [req EXCEPT ![r] = [at |-> "kill", inc |-> 0]]
    /\ UNCHANGED <<registry, killed, sessions>>

\* SIGCONT, whose error is ignored, ...
Wake(r) ==
    /\ req[r].at = "wake"
    /\ proc' = [proc EXCEPT ![req[r].inc] = IF @ = "stopped" THEN "live" ELSE @]
    /\ req' = [req EXCEPT ![r] = [at |-> "kill", inc |-> 0]]
    /\ UNCHANGED <<registry, killed, slot, tail, auth, records, announced, incs, ops>>

\* ... then the token that is in workers.cancels by now is terminated.
TerminateToken(r) ==
    /\ req[r].at = "kill"
    /\ killed' = killed \cup {tokenOf}
    /\ req' = [req EXCEPT ![r] = NoRequest]
    /\ UNCHANGED <<registry, sessions, ops>>

\* ControlOp::CancelRun on this worker: states and pids are locked together, but
\* the pid is looked up in the ROOT layer's pids, which has none for a worker of a
\* sub-lead; the tokens come after.
CancelRunPid == IF Subtree THEN 0 ELSE pidOf

CancelRun(r) ==
    /\ Serve(r, "cancel_run")
    /\ proc' = IF st = "frozen" /\ PidLive(CancelRunPid) /\ proc[CancelRunPid] = "stopped"
               THEN [proc EXCEPT ![CancelRunPid] = "live"] ELSE proc
    /\ req' = [req EXCEPT ![r] = [at |-> "kill", inc |-> 0]]
    /\ UNCHANGED <<registry, killed, slot, tail, auth, records, announced, incs>>

-----------------------------------------------------------------------------
SessionStep(i) == Launch(i) \/ SpawnFailed(i) \/ Exit(i) \/ Reap(i)
TailStep(i) == \/ TailPids(i) \/ TailRecord(i) \/ TailDone(i) \/ TailIndex(i)
               \/ TailToken(i) \/ TailAnnounce(i)
RequestStep(r) == \/ PauseCancel(r) \/ PauseFreeze(r) \/ ContinuePaused(r)
                  \/ ContinueFrozen(r) \/ Reprompt(r) \/ Cancel(r) \/ CancelRun(r)
ResumeStep(r) == ResumeToken(r) \/ ResumeRunning(r) \/ ResumeLaunch(r)
                   \/ Thaw(r) \/ Thawed(r) \/ Wake(r) \/ TerminateToken(r) \/ Replace(r)

LifecycleNext ==
    /\ \/ RunWorker \/ WorktreeFailed \/ Promote
       \/ \E i \in Inc : SessionStep(i) \/ TailStep(i)
       \/ \E r \in Requesters : RequestStep(r) \/ ResumeStep(r)
    /\ UNCHANGED menu

LifecycleSpec == LifecycleInit /\ [][LifecycleNext]_lifecycleVars

\* What happens by itself: tasks run on, a request that was taken is carried
\* through, and a child whose token is terminated is killed.  A child that
\* nobody cancels may run for ever.
RuntimeStep ==
    /\ \/ RunWorker \/ WorktreeFailed
       \/ \E i \in Inc : \/ Launch(i) \/ SpawnFailed(i) \/ Reap(i) \/ TailStep(i)
                         \/ i \in killed /\ Exit(i)
       \/ \E r \in Requesters : ResumeStep(r)
    /\ UNCHANGED menu

\* The runtime does not idle while one of these is possible; each task is a
\* finite list of steps, so nothing more is needed of the scheduler.
LifecycleFairness == WF_lifecycleVars(RuntimeStep)

LifecycleFairSpec == LifecycleSpec /\ LifecycleFairness

-----------------------------------------------------------------------------
(* Properties *)

LiveSessions == {i \in Inc : proc[i] \in {"live", "stopped"}}

\* A child process whose token is neither terminated nor in workers.cancels can
\* never be cancelled again.  While a single requester pauses, continues and
\* reprompts, no resume orphans the session it replaces.
EveryLiveSessionIsCancellable ==
    Cardinality(menu.who) = 1 =>
        \A i \in LiveSessions : i \in killed \/ i = tokenOf

\* summary.jsonl is the source of truth at finalize: the entry is Done, and a
\* completion announced, only after the incarnation that says so handed its record
\* to the store and its child was gone.
DoneHasRecord ==
    /\ st = "done" => doneBy \in records \ LiveSessions
    /\ \A b \in {"layer", "root"} : announced[b] \subseteq records

\* The late tail of a replaced session may write Done over the Running of its
\* successor.  While a single requester is at work, that is the only way: a session
\* that nobody told to end and whose entry is Done has a predecessor that was told
\* to and came late; no session that ended by itself hides another one.
DoneHidesOnlyReplaced ==
    Cardinality(menu.who) = 1 /\ st = "done" =>
        \A i \in LiveSessions : i \in killed \/ doneBy \in killed

\* An incarnation that announced its completion left nothing behind: no child,
\* no published pid, no valid auth token.
AnnouncedIsCleanedUp ==
    \A i \in announced["layer"] :
        i \notin auth /\ i \notin slot /\ i \notin LiveSessions

\* The run never keeps a session it was told to kill: a terminated token ends
\* with the record of its incarnation, if that was ever started.
KilledSessionsEnd ==
    \A i \in Inc : (i \in killed /\ tail[i] # "none") ~> tail[i] = "done"

\* When every session has ended and no request is being served, a worker that was
\* not left paused is Done, whatever pauses, resumes and cancels of two requesters
\* overlapped: finalize and the waiters look at nothing else.  A freeze is left
\* out: the Running that continue_worker writes behind its SIGCONT may come last.
Settled == /\ \A i \in 1..incs : tail[i] = "done"
           /\ \A r \in Requesters : req[r] = NoRequest
SettledIsDone == Settled /\ "freeze" \notin menu.ops /\ ~ held => st = "done"

\* Done is true: on disk first, hiding no session but a replaced one's successor,
\* announced only when cleaned up, and what a worker nobody paused settles in.
DoneIsTrue == /\ LifecycleTypeOK /\ DoneHasRecord /\ DoneHidesOnlyReplaced
              /\ AnnouncedIsCleanedUp /\ SettledIsDone
=============================================================================
