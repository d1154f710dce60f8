--------------------------- MODULE CancelCascade ---------------------------
(***************************************************************************)
(* The two-phase cancel tokens of a dispatch run and the tasks that carry  *)
(* a cancel down the tree  root -> sub-leads -> workers.                   *)
(*                                                                         *)
(*   pitboss-core/src/session/cancel.rs       CancelToken                  *)
(*   pitboss-cli/src/dispatch/signals.rs      the fire-once watchers       *)
(*   pitboss-cli/src/dispatch/state.rs        register_sublead             *)
(*   pitboss-cli/src/dispatch/layer.rs        register_worker_cancel       *)
(*   pitboss-cli/src/mcp/tools/spawn.rs       spawn_resume_worker          *)
(*   pitboss-cli/src/dispatch/hierarchical.rs the cascade at finalize      *)
(*   pitboss-cli/src/control/server.rs        cancel_run                   *)
(*                                                                         *)
(* A token is three tokio watch channels, written by separate sends, so a  *)
(* terminate is up to three steps and other tasks run between them.  Every *)
(* task that can send is a process; out[p] holds the sends it has decided  *)
(* on and not made yet, kids[p] the children it still has to visit under   *)
(* the read lock of the map it walks.                                      *)
(***************************************************************************)
EXTENDS Naturals, FiniteSets

CONSTANTS
    Root,       \* the root layer (and its token)
    Subleads,   \* the sub-leads a run may register
    Workers,    \* the worker tokens a run may create
    LayerOf,    \* the layer that owns each worker
    Resumed,    \* the workers whose token spawn_resume_worker creates
    KillOps,    \* what may cancel the run or a part of it, each at most once
    Scenarios,  \* the sets of requests that one run may see
    NoReason,   \* terminate_reason() = None
    Killed      \* some TerminateReason

Layers == {Root} \cup Subleads
Tokens == Layers \cup Workers

ASSUME TreeAssumption ==
    /\ Root \notin Subleads /\ Root \notin Workers
    /\ Subleads \cap Workers = {}
    /\ LayerOf \in [Workers -> Layers]
    /\ Resumed \subseteq Workers
    /\ KillOps \subseteq {"ctrlc", "cancel_actor", "cancel_run", "finalize"}
    /\ NoReason # Killed

\* The tasks: one watcher per layer, the handler that registers each child,
\* the handler of each cancel request, one of which is the run's finalizer.
Watch(l)  == <<"watch", l>>
Reg(c)    == <<"reg", c>>
Kill(k)   == <<"kill", k>>
Requests == ({"reg"} \X (Subleads \cup Workers)) \cup ({"kill"} \X KillOps)
Procs == ({"watch"} \X Layers) \cup Requests

ASSUME ScenarioAssumption == Scenarios \subseteq SUBSET Requests

VARIABLES
    drain,      \* drain[t]:  the drain channel of token t holds true
    term,       \* term[t]:   the terminate channel holds true
    reason,     \* reason[t]: the reason channel
    subleads,   \* the keys of DispatchState::subleads
    cancels,    \* the workers whose token is in their layer's workers.cancels
    pc,         \* where each task is
    kids,       \* the children each task still has to visit in this walk
    subs,       \* the sub-leads the finalizer and cancel_run still have to walk
    out         \* the sends each task is in the middle of

tokenVars == <<drain, term, reason>>
vars == <<drain, term, reason, subleads, cancels, pc, kids, subs, out>>

\* A (partly made) sequence of sends  reason -> drain -> terminate  on tok.
Sends == [tok : Tokens, next : {"none", "reason", "drain", "terminate"},
          last : {"drain", "terminate"}, why : {NoReason, Killed}]
Idle == [tok |-> Root, next |-> "none", last |-> "drain", why |-> NoReason]

PCs == {"off", "wait1", "walk1", "wait2", "walk2",                 \* watchers
        "new", "checked", "admitted", "inserted", "watched",       \* handlers
        "run", "subs", "layers", "roots", "last", "done"}

TypeOK ==
    /\ drain \in [Tokens -> BOOLEAN]
    /\ term \in [Tokens -> BOOLEAN]
    /\ reason \in [Tokens -> {NoReason, Killed}]
    /\ subleads \subseteq Subleads
    /\ cancels \subseteq Workers
    /\ pc \in [Procs -> PCs]
    /\ kids \in [Procs -> SUBSET (Subleads \cup Workers)]
    /\ subs \in [Procs -> SUBSET Subleads]
    /\ out \in [Procs -> Sends]

-----------------------------------------------------------------------------
(* CancelToken *)

NewTokens == /\ drain = [t \in Tokens |-> FALSE]
             /\ term = [t \in Tokens |-> FALSE]
             /\ reason = [t \in Tokens |-> NoReason]

DrainSends(t) == [tok |-> t, next |-> "drain", last |-> "drain", why |-> NoReason]
TerminateSends(t) ==
    [tok |-> t, next |-> "drain", last |-> "terminate", why |-> NoReason]
TerminateWithReasonSends(t, r) ==
    [tok |-> t, next |-> "reason", last |-> "terminate", why |-> r]

\* What cascade_to(child) sends, from one look at the parent.
CascadeSends(parent, child) ==
    IF term[parent]
    THEN IF reason[parent] # NoReason
         THEN TerminateWithReasonSends(child, reason[parent])
         ELSE TerminateSends(child)
    ELSE IF drain[parent] THEN DrainSends(child) ELSE Idle

Sending(p) == out[p].next # "none"
Rested(p) == kids[p] = {} /\ ~ Sending(p)

\* The sends of a terminate, in the order the code makes them.
SendReason(p) ==
    /\ out[p].next = "reason"
    /\ reason' = [reason EXCEPT ![out[p].tok] = out[p].why]
    /\ out' = [out EXCEPT ![p].next = "drain"]
    /\ UNCHANGED <<drain, term>>

SendDrain(p) ==
    /\ out[p].next = "drain"
    /\ drain' = [drain EXCEPT ![out[p].tok] = TRUE]
    /\ out' = [out EXCEPT ![p] = IF @.last = "drain" THEN Idle
                                 ELSE [@ EXCEPT !.next = "terminate"]]
    /\ UNCHANGED <<term, reason>>

SendTerminate(p) ==
    /\ out[p].next = "terminate"
    /\ term' = [term EXCEPT ![out[p].tok] = TRUE]
    /\ out' = [out EXCEPT ![p] = Idle]
    /\ UNCHANGED <<drain, reason>>

Send(p) ==
    /\ SendReason(p) \/ SendDrain(p) \/ SendTerminate(p)
    /\ UNCHANGED <<subleads, cancels, pc, kids, subs>>

-----------------------------------------------------------------------------
(* The maps and their locks *)

WorkersOf(l) == {w \in cancels : LayerOf[w] = l}

\* What a layer's watcher walks: root's the sub-leads, a sub-lead's its workers.
Children(l) == IF l = Root THEN subleads ELSE WorkersOf(l)

SameMap(a, b) == \/ a \in Subleads /\ b \in Subleads
                 \/ a \in Workers /\ b \in Workers /\ LayerOf[a] = LayerOf[b]

\* No task holds a read lock on the map that c is inserted into.
Unlocked(c) ==
    \A p \in Procs : p[1] # "reg" =>
        /\ \A k \in kids[p] : ~ SameMap(k, c)
        /\ Sending(p) => ~ SameMap(out[p].tok, c)
        /\ c \in Subleads => subs[p] = {}

\* One step of cascade_to_workers / cascade_to_subleads from layer l.
VisitChild(p, l) ==
    \E c \in kids[p] :
        /\ ~ Sending(p)
        /\ kids' = [kids EXCEPT ![p] = @ \ {c}]
        /\ out' = [out EXCEPT ![p] = CascadeSends(l, c)]
        /\ UNCHANGED <<drain, term, reason, subleads, cancels, pc, subs>>

-----------------------------------------------------------------------------
(* The fire-once watchers: install_cascade_cancel_watcher for the root,    *)
(* install_sublead_cancel_watcher for a sub-lead.                          *)

WatchFirst(l) ==
    /\ pc[Watch(l)] = "wait1"
    /\ drain[l] \/ term[l]
    /\ pc' = [pc EXCEPT ![Watch(l)] = "walk1"]
    /\ kids' = [kids EXCEPT ![Watch(l)] = Children(l)]
    /\ UNCHANGED <<drain, term, reason, subleads, cancels, subs, out>>

WatchVisit(l) == pc[Watch(l)] \in {"walk1", "walk2"} /\ VisitChild(Watch(l), l)

\* `if !cancel.is_terminated()` after the first walk.
WatchCheck(l) ==
    /\ pc[Watch(l)] = "walk1" /\ Rested(Watch(l))
    /\ pc' = [pc EXCEPT ![Watch(l)] = IF term[l] THEN "done" ELSE "wait2"]
    /\ UNCHANGED <<drain, term, reason, subleads, cancels, kids, subs, out>>

WatchSecond(l) ==
    /\ pc[Watch(l)] = "wait2" /\ term[l]
    /\ pc' = [pc EXCEPT ![Watch(l)] = "walk2"]
    /\ kids' = [kids EXCEPT ![Watch(l)] = Children(l)]
    /\ UNCHANGED <<drain, term, reason, subleads, cancels, subs, out>>

WatchEnd(l) ==
    /\ pc[Watch(l)] = "walk2" /\ Rested(Watch(l))
    /\ pc' = [pc EXCEPT ![Watch(l)] = "done"]
    /\ UNCHANGED <<drain, term, reason, subleads, cancels, kids, subs, out>>

-----------------------------------------------------------------------------
(* Registration *)

\* register_sublead: insert, install the watcher, cascade.
RegisterSublead(s) ==
    /\ pc[Reg(s)] = "new" /\ Unlocked(s)
    /\ subleads' = subleads \cup {s}
    /\ pc' = [pc EXCEPT ![Reg(s)] = "inserted"]
    /\ UNCHANGED <<drain, term, reason, cancels, kids, subs, out>>

InstallSubleadWatcher(s) ==
    /\ pc[Reg(s)] = "inserted"
    /\ pc' = [pc EXCEPT ![Reg(s)] = "watched", ![Watch(s)] = "wait1"]
    /\ UNCHANGED <<drain, term, reason, subleads, cancels, kids, subs, out>>

CascadeToSublead(s) ==
    /\ pc[Reg(s)] = "watched"
    /\ pc' = [pc EXCEPT ![Reg(s)] = "done"]
    /\ out' = [out EXCEPT ![Reg(s)] = CascadeSends(Root, s)]
    /\ UNCHANGED <<drain, term, reason, subleads, cancels, kids, subs>>

\* The sub-lead's session runs once register_sublead returned; when it ends,
\* reconcile_terminated_sublead takes the layer out of the map.  Its workers
\* are left as they are.
ReconcileSublead(s) ==
    /\ pc[Reg(s)] = "done" /\ ~ Sending(Reg(s))
    /\ s \in subleads /\ Unlocked(s)
    /\ subleads' = subleads \ {s}
    /\ UNCHANGED <<drain, term, reason, cancels, pc, kids, subs, out>>

\* The layer takes spawns: root always, a sub-lead while it is registered.
LayerLive(l) == l = Root \/ (l \in subleads /\ Rested(Reg(l)) /\ pc[Reg(l)] = "done")

\* handle_spawn_worker resolves the layer and checks the root gate.
AdmitWorker(w) ==
    /\ pc[Reg(w)] = "new" /\ w \notin Resumed
    /\ LayerLive(LayerOf[w])
    /\ ~ drain[Root] /\ ~ term[Root]
    /\ pc' = [pc EXCEPT ![Reg(w)] = "admitted"]
    /\ UNCHANGED <<drain, term, reason, subleads, cancels, kids, subs, out>>

\* register_worker_cancel: insert under the write lock ...
RegisterWorkerCancel(w) ==
    /\ pc[Reg(w)] = "admitted" /\ w \notin Resumed /\ Unlocked(w)
    /\ cancels' = cancels \cup {w}
    /\ pc' = [pc EXCEPT ![Reg(w)] = "inserted"]
    /\ UNCHANGED <<drain, term, reason, subleads, kids, subs, out>>

\* Mutant: registration without the eager cascade (issue #99).
CascadeToWorker_Skipped(w) ==
    /\ pc[Reg(w)] = "inserted"
    /\ pc' = [pc EXCEPT ![Reg(w)] = "done"]
    /\ UNCHANGED <<drain, term, reason, subleads, cancels, kids, subs, out>>

\* ... then cascade the layer's state to the new token.
CascadeToWorker(w) ==
    /\ pc[Reg(w)] = "inserted"
    /\ pc' = [pc EXCEPT ![Reg(w)] = "done"]
    /\ out' = [out EXCEPT ![Reg(w)] = CascadeSends(LayerOf[w], w)]
    /\ UNCHANGED <<drain, term, reason, subleads, cancels, kids, subs>>

\* spawn_resume_worker: look at the layer first, without its reason ...
ResumeSends(l, w) == IF term[l] THEN TerminateSends(w)
                     ELSE IF drain[l] THEN DrainSends(w) ELSE Idle

ResumeCheck(w) ==
    /\ pc[Reg(w)] = "new" /\ w \in Resumed
    /\ LayerLive(LayerOf[w])
    /\ pc' = [pc EXCEPT ![Reg(w)] = "checked"]
    /\ out' = [out EXCEPT ![Reg(w)] = ResumeSends(LayerOf[w], w)]
    /\ UNCHANGED <<drain, term, reason, subleads, cancels, kids, subs>>

\* ... and insert afterwards, with no cascade behind the insert.
ResumeInsert(w) ==
    /\ pc[Reg(w)] = "checked" /\ w \in Resumed
    /\ ~ Sending(Reg(w)) /\ Unlocked(w)
    /\ cancels' = cancels \cup {w}
    /\ pc' = [pc EXCEPT ![Reg(w)] = "done"]
    /\ UNCHANGED <<drain, term, reason, subleads, kids, subs, out>>

-----------------------------------------------------------------------------
(* Cancel requests *)

\* install_ctrl_c_watcher: first SIGINT drains, a second one terminates.  A
\* budget abort is the second step alone (trip_budget_abort).
CtrlCDrain ==
    /\ "ctrlc" \in KillOps
    /\ pc[Kill("ctrlc")] = "new"
    /\ pc' = [pc EXCEPT ![Kill("ctrlc")] = "checked"]
    /\ out' = [out EXCEPT ![Kill("ctrlc")] = DrainSends(Root)]
    /\ UNCHANGED <<drain, term, reason, subleads, cancels, kids, subs>>

CtrlCTerminate ==
    /\ "ctrlc" \in KillOps
    /\ pc[Kill("ctrlc")] \in {"new", "checked"} /\ ~ Sending(Kill("ctrlc"))
    /\ pc' = [pc EXCEPT ![Kill("ctrlc")] = "done"]
    /\ out' = [out EXCEPT ![Kill("ctrlc")] = TerminateWithReasonSends(Root, Killed)]
    /\ UNCHANGED <<drain, term, reason, subleads, cancels, kids, subs>>

\* cancel_and_find_parent: terminate one sub-lead or one worker by name.
Reachable(t) == \/ t \in subleads
                \/ t \in cancels /\ (LayerOf[t] = Root \/ LayerOf[t] \in subleads)

CancelActor(t) ==
    /\ "cancel_actor" \in KillOps
    /\ pc[Kill("cancel_actor")] = "new"
    /\ Reachable(t)
    /\ pc' = [pc EXCEPT ![Kill("cancel_actor")] = "done"]
    /\ out' = [out EXCEPT ![Kill("cancel_actor")] = TerminateWithReasonSends(t, Killed)]
    /\ UNCHANGED <<drain, term, reason, subleads, cancels, kids, subs>>

\* cancel_run: drain the root, then terminate root workers, every sub-lead's
\* workers and the sub-lead, and the root last.
CR == Kill("cancel_run")

\* Mutant: cancel_run walks the maps without draining the root first.
CancelRunDrain_Skipped ==
    /\ "cancel_run" \in KillOps
    /\ pc[CR] = "new"
    /\ pc' = [pc EXCEPT ![CR] = "run"]
    /\ UNCHANGED <<drain, term, reason, subleads, cancels, kids, subs, out>>

CancelRunDrain ==
    /\ "cancel_run" \in KillOps
    /\ pc[CR] = "new"
    /\ pc' = [pc EXCEPT ![CR] = "run"]
    /\ out' = [out EXCEPT ![CR] = DrainSends(Root)]
    /\ UNCHANGED <<drain, term, reason, subleads, cancels, kids, subs>>

CancelRunRootWorkers ==
    /\ "cancel_run" \in KillOps
    /\ pc[CR] = "run" /\ ~ Sending(CR)
    /\ pc' = [pc EXCEPT ![CR] = "roots"]
    /\ kids' = [kids EXCEPT ![CR] = WorkersOf(Root)]
    /\ UNCHANGED <<drain, term, reason, subleads, cancels, subs, out>>

CancelRunVisit ==
    /\ "cancel_run" \in KillOps
    /\ ~ Sending(CR)
    /\ \E c \in kids[CR] :
        /\ c \in Subleads => kids[CR] = {c}
        /\ kids' = [kids EXCEPT ![CR] = @ \ {c}]
        /\ out' = [out EXCEPT ![CR] = TerminateWithReasonSends(c, Killed)]
    /\ UNCHANGED <<drain, term, reason, subleads, cancels, pc, subs>>

CancelRunSubleads ==
    /\ "cancel_run" \in KillOps
    /\ pc[CR] = "roots" /\ Rested(CR)
    /\ pc' = [pc EXCEPT ![CR] = "subs"]
    /\ subs' = [subs EXCEPT ![CR] = subleads]
    /\ UNCHANGED <<drain, term, reason, subleads, cancels, kids, out>>

\* The next sub-lead's workers, and then the sub-lead itself.
CancelRunLayer ==
    /\ "cancel_run" \in KillOps
    /\ pc[CR] = "subs" /\ Rested(CR)
    /\ \E s \in subs[CR] : kids' = [kids EXCEPT ![CR] = WorkersOf(s) \cup {s}]
                           /\ subs' = [subs EXCEPT ![CR] = @ \ {s}]
    /\ UNCHANGED <<drain, term, reason, subleads, cancels, pc, out>>

CancelRunRoot ==
    /\ "cancel_run" \in KillOps
    /\ pc[CR] = "subs" /\ Rested(CR) /\ subs[CR] = {}
    /\ pc' = [pc EXCEPT ![CR] = "done"]
    /\ out' = [out EXCEPT ![CR] = TerminateWithReasonSends(Root, Killed)]
    /\ UNCHANGED <<drain, term, reason, subleads, cancels, kids, subs>>

-----------------------------------------------------------------------------
(* Finalize: root.terminate(), then the cascades in the finalizer's own    *)
(* task rather than through the watchers.                                  *)

Fin == Kill("finalize")

FinalizeTerminate ==
    /\ "finalize" \in KillOps
    /\ pc[Fin] = "new"
    /\ pc' = [pc EXCEPT ![Fin] = "last"]
    /\ out' = [out EXCEPT ![Fin] = TerminateSends(Root)]
    /\ UNCHANGED <<drain, term, reason, subleads, cancels, kids, subs>>

FinalizeSubleads ==
    /\ "finalize" \in KillOps
    /\ pc[Fin] = "last" /\ ~ Sending(Fin)
    /\ pc' = [pc EXCEPT ![Fin] = "subs"]
    /\ kids' = [kids EXCEPT ![Fin] = subleads]
    /\ UNCHANGED <<drain, term, reason, subleads, cancels, subs, out>>

FinalizeLayers ==
    /\ "finalize" \in KillOps
    /\ pc[Fin] = "subs" /\ Rested(Fin)
    /\ pc' = [pc EXCEPT ![Fin] = "layers"]
    /\ subs' = [subs EXCEPT ![Fin] = subleads]
    /\ UNCHANGED <<drain, term, reason, subleads, cancels, kids, out>>

FinalizeLayer ==
    /\ "finalize" \in KillOps
    /\ pc[Fin] = "layers" /\ Rested(Fin)
    /\ \E s \in subs[Fin] : kids' = [kids EXCEPT ![Fin] = WorkersOf(s)]
                            /\ subs' = [subs EXCEPT ![Fin] = @ \ {s}]
    /\ UNCHANGED <<drain, term, reason, subleads, cancels, pc, out>>

FinalizeRootWorkers ==
    /\ "finalize" \in KillOps
    /\ pc[Fin] = "layers" /\ Rested(Fin) /\ subs[Fin] = {}
    /\ pc' = [pc EXCEPT ![Fin] = "roots"]
    /\ kids' = [kids EXCEPT ![Fin] = WorkersOf(Root)]
    /\ UNCHANGED <<drain, term, reason, subleads, cancels, subs, out>>

\* Every child is visited from its own layer's token.
ParentOf(c) == IF c \in Subleads THEN Root ELSE LayerOf[c]

FinalizeVisit ==
    /\ "finalize" \in KillOps
    /\ pc[Fin] \in {"subs", "layers", "roots"} /\ ~ Sending(Fin)
    /\ \E c \in kids[Fin] :
        /\ kids' = [kids EXCEPT ![Fin] = @ \ {c}]
        /\ out' = [out EXCEPT ![Fin] = CascadeSends(ParentOf(c), c)]
    /\ UNCHANGED <<drain, term, reason, subleads, cancels, pc, subs>>

FinalizeEnd ==
    /\ "finalize" \in KillOps
    /\ pc[Fin] = "roots" /\ Rested(Fin)
    /\ pc' = [pc EXCEPT ![Fin] = "done"]
    /\ UNCHANGED <<drain, term, reason, subleads, cancels, kids, subs, out>>

-----------------------------------------------------------------------------
Init ==
    /\ NewTokens
    /\ subleads = {}
    /\ cancels = {}
    /\ \E coming \in Scenarios :
          pc = [p \in Procs |-> CASE p = Watch(Root) -> "wait1"
                                 [] p # Watch(Root) /\ p \in coming -> "new"
                                 [] p # Watch(Root) /\ p \notin coming -> "off"]
    /\ kids = [p \in Procs |-> {}]
    /\ subs = [p \in Procs |-> {}]
    /\ out = [p \in Procs |-> Idle]

WatcherStep(l) == \/ WatchFirst(l) \/ WatchVisit(l) \/ WatchCheck(l)
                  \/ WatchSecond(l) \/ WatchEnd(l)
SubleadStep(s) == \/ RegisterSublead(s) \/ InstallSubleadWatcher(s)
                  \/ CascadeToSublead(s) \/ ReconcileSublead(s)
WorkerStep(w) == \/ AdmitWorker(w) \/ RegisterWorkerCancel(w) \/ CascadeToWorker(w)
                 \/ ResumeCheck(w) \/ ResumeInsert(w)
CancelStep == \/ CtrlCDrain \/ CtrlCTerminate
              \/ \E t \in Subleads \cup Workers : CancelActor(t)
              \/ CancelRunDrain \/ CancelRunRootWorkers \/ CancelRunVisit
              \/ CancelRunSubleads \/ CancelRunLayer \/ CancelRunRoot
FinalizeStep == \/ FinalizeTerminate \/ FinalizeSubleads \/ FinalizeLayers
                \/ FinalizeLayer \/ FinalizeRootWorkers \/ FinalizeVisit
                \/ FinalizeEnd

Next == \/ \E p \in Procs : Send(p)
        \/ \E l \in Layers : WatcherStep(l)
        \/ \E s \in Subleads : SubleadStep(s)
        \/ \E w \in Workers : WorkerStep(w)
        \/ CancelStep
        \/ FinalizeStep

Spec == Init /\ [][Next]_vars

\* What the runtime polls: tasks that were spawned and requests that have
\* started.  Requests need not arrive and sub-leads need not end.
TaskStep ==
    \/ \E p \in Procs : Send(p)
    \/ \E l \in Layers : WatcherStep(l)
    \/ \E s \in Subleads : InstallSubleadWatcher(s) \/ CascadeToSublead(s)
    \/ \E w \in Workers : RegisterWorkerCancel(w) \/ CascadeToWorker(w) \/ ResumeInsert(w)

\* The runtime does not idle while a task is ready.  Every task here is a
\* finite list of steps, so nothing more is needed of the scheduler.
Fairness == WF_vars(TaskStep)

FairSpec == Spec /\ Fairness

-----------------------------------------------------------------------------
(* Properties *)

\* A terminated token is also draining, so a task that awaits only the drain
\* channel never sleeps through a terminate (CancelToken::terminate).
TerminateImpliesDrain == \A t \in Tokens : term[t] => drain[t]

\* terminate_with_reason writes the reason before it flips terminate and every
\* cascade carries it on: as long as nothing used the reasonless terminate()
\* (finalize; the resumed tokens), no observer of a terminate reads None.
ReasonPrecedesTerminate ==
    ("finalize" \in KillOps => pc[Fin] \in {"off", "new"}) =>
        \A t \in Tokens \ Resumed : term[t] => reason[t] # NoReason

\* A child registered through register_sublead / register_worker_cancel.
Enrolled(c) == \/ c \in subleads
               \/ c \in cancels /\ c \notin Resumed /\ LayerOf[c] # Root

\* The watcher (children registered before the signal) and the eager cascade
\* (children registered after it) together leave no gap for drain: when the
\* layer drains and both have finished, every registered child drains too.
NoMissedDrain ==
    \A c \in Subleads \cup Workers :
        /\ Enrolled(c) /\ drain[ParentOf(c)]
        /\ pc[Reg(c)] = "done" /\ ~ Sending(Reg(c))
        /\ pc[Watch(ParentOf(c))] \in {"wait2", "walk2", "done"}
        => drain[c]

\* A plan that has reached its terminate send has made its drain send.
PlansDrainFirst == \A p \in Procs : out[p].next = "terminate" => drain[out[p].tok]

\* A watcher leaves its first wait only for a signal on its layer.
WatchersWokenByDrain ==
    \A l \in Layers : pc[Watch(l)] \notin {"off", "wait1"} => drain[l]

\* Who still owes a drain to child c of a draining layer: its own handler, or
\* the layer's watcher, not woken yet or still in its first walk.
Owed(c) ==
    LET l == ParentOf(c) IN
    \/ pc[Reg(c)] \in {"inserted", "watched"}
    \/ Sending(Reg(c)) /\ out[Reg(c)].tok = c
    \/ pc[Watch(l)] \in {"off", "wait1"}
    \/ /\ pc[Watch(l)] = "walk1"
       /\ \/ c \in kids[Watch(l)]
          \/ Sending(Watch(l)) /\ out[Watch(l)].tok = c

DrainOwed == \A c \in Subleads \cup Workers :
                Enrolled(c) /\ drain[ParentOf(c)] => drain[c] \/ Owed(c)

\* The inductive strengthening of NoMissedDrain: a drain that a registered
\* child has not received is always owed by somebody (register_worker_cancel,
\* install_sublead_cancel_watcher).
DrainInv == /\ TypeOK /\ TerminateImpliesDrain /\ PlansDrainFirst
            /\ WatchersWokenByDrain /\ DrainOwed

\* When finalize has run its cascades, every worker of the root layer and of a
\* sub-lead that is still registered has been terminated, the ones that were
\* registered while it walked included.
FinalizeTripsLiveLayers ==
    ("finalize" \in KillOps /\ pc[Fin] = "done") =>
        \A w \in cancels \ Resumed :
            /\ LayerOf[w] = Root \/ LayerOf[w] \in subleads
            /\ pc[Reg(w)] = "done" /\ ~ Sending(Reg(w))
            => term[w]

\* No cascade is under way and no watcher has a signal it did not act on.
Quiet ==
    /\ \A p \in Procs : Rested(p)
    /\ \A l \in Layers : (drain[l] => pc[Watch(l)] # "wait1")
                         /\ (term[l] => pc[Watch(l)] # "wait2")
    /\ \A c \in Subleads \cup Workers : pc[Reg(c)] \in {"off", "new", "admitted", "done"}

\* cancel_run drains the root before it walks the maps so that nothing that is
\* registered behind its walk slips through: once it is acknowledged and the
\* cascades have settled, no sub-lead and no worker of a live layer is left
\* without at least a drain.
CancelRunMissesNobody ==
    ("cancel_run" \in KillOps /\ pc[CR] = "done" /\ Quiet) =>
        \A c \in subleads \cup (cancels \ Resumed) :
            ParentOf(c) = Root \/ ParentOf(c) \in subleads => drain[c]

\* A drained sub-tree drains every worker registered in it, eventually.
DrainReachesWorkers ==
    \A w \in Workers \ Resumed : LayerOf[w] # Root =>
        ((w \in cancels /\ drain[LayerOf[w]]) ~> drain[w])

\* A cancel reaches everyone it is for: finalize and cancel_run miss nobody who
\* registers behind their walks, who is terminated is drained, and can read why.
CancelReachesEveryone ==
    /\ TypeOK
    /\ TerminateImpliesDrain /\ ReasonPrecedesTerminate
    /\ FinalizeTripsLiveLayers /\ CancelRunMissesNobody
=============================================================================
