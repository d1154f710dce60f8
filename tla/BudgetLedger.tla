---------------------------- MODULE BudgetLedger ----------------------------
(***************************************************************************)
(* The money of a run: reservations, spend counters and the kill switch of *)
(* the root layer and of the sub-leads' layers.                            *)
(*                                                                         *)
(*   pitboss-cli/src/mcp/tools/spawn.rs        handle_spawn_worker's guards,*)
(*                                             run_worker's tail, and the  *)
(*                                             tail of a resumed session   *)
(*   pitboss-cli/src/dispatch/sublead.rs       spawn_sublead, the end of a *)
(*                                             sub-lead, reconcile         *)
(*   pitboss-cli/src/dispatch/budget_watch.rs  the usage observer          *)
(*                                                                         *)
(* Dollars are naturals.  A refused spawn changes nothing, so a guard that *)
(* can only refuse (model allow-lists, max_total_workers, API health) is   *)
(* left out; the ones that read the ledger are here.                       *)
(***************************************************************************)
EXTENDS Integers, FiniteSets, Functions

CONSTANTS
    Root,           \* the root layer
    Subs,           \* sub-leads that may be spawned
    Shared,         \* the ones in shared-pool mode: they inherit the root's caps
    Workers,        \* workers that may be spawned
    LayerOf,        \* the layer each worker belongs to
    Budget,         \* [lead].budget_usd, where the manifest gives one
    Envelope,       \* the sub-leads' budget_usd
    LeadCap,        \* lead_budget_usd of each layer; unset is out of reach
    MaxWorkers,     \* max_workers of each layer
    MaxSubleads,    \* max_subleads
    InitialEstimate, \* initial_estimate_for the model
    Costs,          \* what a worker may cost
    Menus           \* what one run may see: is budget_usd set, which spawns
                    \* arrive, and (bounds) what a lead may spend on itself
                    \* and a worker on sessions resumed

Layers == {Root} \cup Subs

ASSUME BudgetAssumption ==
    /\ Root \notin Subs /\ Shared \subseteq Subs
    /\ IsFiniteSet(Workers) /\ IsFiniteSet(Subs)
    /\ \A w \in Workers : LayerOf[w] \in Layers
    /\ Budget \in Nat /\ Envelope \in Nat /\ InitialEstimate \in Nat
    /\ \A l \in Layers : LeadCap[l] \in Nat
    /\ Menus \subseteq [capped : BOOLEAN, workers : SUBSET Workers,
                         subs : SUBSET Subs, lead : Nat, again : Nat]
    /\ MaxWorkers \in Nat /\ MaxSubleads \in Nat
    /\ Costs \subseteq Nat

VARIABLES
    spent,      \* layer.budget.spent_usd
    reserved,   \* layer.budget.reserved_usd
    leadSpent,  \* layer.budget.lead_spent_usd
    base,       \* LeadSpendBaseline.baseline_usd
    iter,       \* cost of the running iteration of each lead
    abort,      \* layers whose abort_reason is stamped and token terminated
    live,       \* state.subleads
    ended,      \* state.terminated_sublead_layers
    wpc,        \* where each worker is
    hold,       \* workers.reservations
    cost,       \* what each worker's first session really cost, once it has exited
    asked,      \* continues and reprompts that found the worker not Done
    going,      \* sessions resumed by them
    extra,      \* what those that ended really cost
    isDone,     \* workers whose entry in workers.states is Done
    rec,        \* cost_usd of the record in that entry
    spc,        \* where each sub-lead is
    snap,       \* the spent_usd a sub-lead's spawn or reconcile has read
    obs,        \* what each layer's usage observer has summed so far
    menu        \* the member of Menus this run is; never changes

vars == <<spent, reserved, leadSpent, base, iter, abort, live, ended, wpc, hold,
          cost, asked, going, extra, isDone, rec, spc, snap, obs, menu>>
leads == <<leadSpent, base, iter, abort, obs>>
trees == <<live, ended, spc, snap>>
resumed == <<asked, going, extra, isDone, rec>>
pool == <<wpc, hold, cost, resumed>>

WorkerAt == {"idle", "admitted", "reserved", "active", "exited", "released",
             "charged", "done"}
SubAt == {"idle", "checked", "read", "reserved", "running", "charged", "removed",
          "listed", "returned", "done", "failed"}
ObsAt == {"idle", "root", "live", "ended"}
NoObs == [at |-> "idle", workers |-> 0, lead |-> 0, self |-> 0, all |-> 0]

CountersOK ==
    /\ spent \in [Layers -> Nat] /\ reserved \in [Layers -> Nat]
    /\ leadSpent \in [Layers -> Nat]
    /\ base \in [Layers -> Nat] /\ iter \in [Layers -> Nat]
    /\ hold \in [Workers -> Nat] /\ cost \in [Workers -> Nat]
    /\ snap \in [Subs -> Nat]

ResumedOK ==
    /\ asked \in [Workers -> Nat] /\ going \in [Workers -> Nat]
    /\ extra \in [Workers -> Nat] /\ rec \in [Workers -> Nat] /\ isDone \subseteq Workers

TypeOK ==
    /\ CountersOK /\ ResumedOK
    /\ abort \subseteq Layers /\ live \subseteq Subs /\ ended \subseteq Subs
    /\ wpc \in [Workers -> WorkerAt] /\ spc \in [Subs -> SubAt]
    /\ obs \in [Layers -> [at : ObsAt, workers : Nat, lead : Nat, self : Nat, all : Nat]]
    /\ menu \in Menus

Init ==
    /\ spent = [l \in Layers |-> 0] /\ reserved = [l \in Layers |-> 0]
    /\ leadSpent = [l \in Layers |-> 0]
    /\ base = [l \in Layers |-> 0] /\ iter = [l \in Layers |-> 0]
    /\ abort = {} /\ live = {} /\ ended = {}
    /\ wpc = [w \in Workers |-> "idle"]
    /\ hold = [w \in Workers |-> 0] /\ cost = [w \in Workers |-> 0]
    /\ asked = [w \in Workers |-> 0] /\ going = [w \in Workers |-> 0]
    /\ extra = [w \in Workers |-> 0] /\ rec = [w \in Workers |-> 0] /\ isDone = {}
    /\ spc = [s \in Subs |-> "idle"] /\ snap = [s \in Subs |-> 0]
    /\ obs = [l \in Layers |-> NoObs]
    /\ menu \in Menus

Sum(f, S) == SumFunctionOnSet(f, S)

\* (a - b).max(0.0)
Minus(a, b) == IF a >= b THEN a - b ELSE 0

\* derive_sublead_manifest: a shared-pool layer keeps the root's budget_usd, as a
\* cap on counters of its own.  Without budget_usd there is no reservation.
Owned == Subs \ Shared
Capped(l) == l \in Owned \/ menu.capped
LayerCap(l) == IF l \in Owned THEN Envelope ELSE Budget

-----------------------------------------------------------------------------
(* A worker *)

InLayer(l) == {w \in Workers : LayerOf[w] = l}
Active(l) == {w \in InLayer(l) \ isDone :
                wpc[w] \in {"active", "exited", "released", "charged", "done"}}

\* handle_spawn_worker: the layer exists, the run is not draining, and the
\* worker cap is not reached.
Admit(w) ==
    /\ w \in menu.workers /\ wpc[w] = "idle" /\ Root \notin abort
    /\ LayerOf[w] \in {Root} \cup live
    /\ Cardinality(Active(LayerOf[w])) < MaxWorkers
    /\ wpc' = [wpc EXCEPT ![w] = "admitted"]
    /\ UNCHANGED <<spent, reserved, leads, trees, hold, cost, resumed>>

\* estimate_new_worker_cost_for_layer: costs[len / 2] of the sorted costs of the
\* layer's Done workers, the model's initial estimate when there is none.
Estimates(l) ==
    LET D == InLayer(l) \cap isDone
        half == Cardinality(D) \div 2
    IN IF D = {} THEN {InitialEstimate}
       ELSE {c \in {rec[w] : w \in D} :
               /\ Cardinality({w \in D : rec[w] < c}) <= half
               /\ Cardinality({w \in D : rec[w] <= c}) > half}

\* The check and the reservation, under the lock on reserved_usd.
Fits(l, e) == spent[l] + reserved[l] + leadSpent[l] + e <= LayerCap(l)

ReserveEstimate(w, e) ==
    /\ wpc[w] = "admitted" /\ Capped(LayerOf[w]) /\ e \in Estimates(LayerOf[w])
    /\ Fits(LayerOf[w], e)
    /\ reserved' = [reserved EXCEPT ![LayerOf[w]] = @ + e]
    /\ hold' = [hold EXCEPT ![w] = e]
    /\ wpc' = [wpc EXCEPT ![w] = "reserved"]
    /\ UNCHANGED <<spent, leads, trees, cost, resumed>>

\* budget exceeded: the spawn is refused.
RefuseWorker(w, e) ==
    /\ wpc[w] = "admitted" /\ Capped(LayerOf[w]) /\ e \in Estimates(LayerOf[w])
    /\ ~ Fits(LayerOf[w], e)
    /\ wpc' = [wpc EXCEPT ![w] = "idle"]
    /\ UNCHANGED <<spent, reserved, leads, trees, hold, cost, resumed>>

ReserveNothing(w) ==
    /\ wpc[w] = "admitted" /\ ~ Capped(LayerOf[w])
    /\ wpc' = [wpc EXCEPT ![w] = "reserved"]
    /\ UNCHANGED <<spent, reserved, leads, trees, hold, cost, resumed>>

\* Pending goes into the states; the task starts.
InsertPending(w) ==
    /\ wpc[w] = "reserved"
    /\ wpc' = [wpc EXCEPT ![w] = "active"]
    /\ UNCHANGED <<spent, reserved, leads, trees, hold, cost, resumed>>

WorkerExit(w, c) ==
    /\ wpc[w] = "active"
    /\ cost' = [cost EXCEPT ![w] = c]
    /\ wpc' = [wpc EXCEPT ![w] = "exited"]
    /\ UNCHANGED <<spent, reserved, leads, trees, hold, resumed>>

\* release_reservation_for_layer ...
Release(w) ==
    /\ wpc[w] = "exited"
    /\ reserved' = [reserved EXCEPT ![LayerOf[w]] = Minus(@, hold[w])]
    /\ hold' = [hold EXCEPT ![w] = 0]
    /\ wpc' = [wpc EXCEPT ![w] = "released"]
    /\ UNCHANGED <<spent, leads, trees, cost, resumed>>

\* ... then the cost goes to the layer the worker was spawned in, ...
Charge(w) ==
    /\ wpc[w] = "released"
    /\ spent' = [spent EXCEPT ![LayerOf[w]] = @ + cost[w]]
    /\ wpc' = [wpc EXCEPT ![w] = "charged"]
    /\ UNCHANGED <<reserved, leads, trees, hold, cost, resumed>>

\* ... then Done.
MarkDone(w) ==
    /\ wpc[w] = "charged"
    /\ wpc' = [wpc EXCEPT ![w] = "done"]
    /\ isDone' = isDone \cup {w} /\ rec' = [rec EXCEPT ![w] = cost[w]]
    /\ UNCHANGED <<spent, reserved, leads, trees, hold, cost, asked, going, extra>>

\* continue_worker or reprompt_worker finds the worker and lets the lock go ...
AskResume(w) ==
    /\ w \in Active(LayerOf[w]) /\ extra[w] + asked[w] + going[w] < menu.again
    /\ asked' = [asked EXCEPT ![w] = @ + 1]
    /\ UNCHANGED <<spent, reserved, leads, trees, wpc, hold, cost, going, extra, isDone, rec>>

\* ... and spawn_resume_worker starts another session: no cap is looked at,
\* nothing is reserved, and the entry is Running again ...
SpawnResume(w) ==
    /\ asked[w] > 0
    /\ asked' = [asked EXCEPT ![w] = @ - 1] /\ going' = [going EXCEPT ![w] = @ + 1]
    /\ isDone' = isDone \ {w}
    /\ UNCHANGED <<spent, reserved, leads, trees, wpc, hold, cost, extra, rec>>

\* ... whose tail writes a record and Done, and charges nobody.
ResumedEnds(w, c) ==
    /\ going[w] > 0
    /\ going' = [going EXCEPT ![w] = @ - 1] /\ extra' = [extra EXCEPT ![w] = @ + c]
    /\ isDone' = isDone \cup {w} /\ rec' = [rec EXCEPT ![w] = c]
    /\ UNCHANGED <<spent, reserved, leads, trees, wpc, hold, cost, asked>>

-----------------------------------------------------------------------------
(* A sub-lead *)

Move(s, at) == spc' = [spc EXCEPT ![s] = at]

\* resolve_envelope compares max_subleads with the sub-leads that are live, but
\* for a shared pool, which it lets through before.
ResolveEnvelope(s) ==
    /\ s \in menu.subs /\ spc[s] = "idle"
    /\ s \in Shared \/ Cardinality(live) + 1 <= MaxSubleads
    /\ Move(s, "checked")
    /\ UNCHANGED <<spent, reserved, leads, pool, live, ended, snap>>

\* spawn_sublead reads spent_usd before it takes the lock on reserved_usd.
ReadSpent(s) ==
    /\ spc[s] = "checked"
    /\ snap' = [snap EXCEPT ![s] = spent[Root]]
    /\ Move(s, "read")
    /\ UNCHANGED <<spent, reserved, leads, pool, live, ended>>

\* original_reservation_usd
Reservation(s) == IF s \in Shared THEN 0 ELSE Envelope

\* Mutant: the check leaves out what is already reserved.
X_IgnoreReserved(s) ==
    /\ spc[s] = "read"
    /\ s \in Shared \/ ~ menu.capped \/ snap[s] + Envelope <= Budget
    /\ reserved' = [reserved EXCEPT ![Root] = @ + Reservation(s)]
    /\ Move(s, "reserved")
    /\ UNCHANGED <<spent, leads, pool, live, ended, snap>>

ReserveEnvelope(s) ==
    /\ spc[s] = "read"
    /\ s \in Shared \/ ~ menu.capped \/ snap[s] + reserved[Root] + Envelope <= Budget
    /\ reserved' = [reserved EXCEPT ![Root] = @ + Reservation(s)]
    /\ Move(s, "reserved")
    /\ UNCHANGED <<spent, leads, pool, live, ended, snap>>

RefuseSublead(s) ==
    /\ spc[s] = "read" /\ s \notin Shared /\ menu.capped
    /\ snap[s] + reserved[Root] + Envelope > Budget
    /\ Move(s, "idle")
    /\ UNCHANGED <<spent, reserved, leads, pool, live, ended, snap>>

\* Mutant: a failed spawn keeps its reservation.
X_NoRefund(s) ==
    /\ spc[s] = "reserved"
    /\ live' \in {live, live \cup {s}}
    /\ Move(s, "failed")
    /\ UNCHANGED <<spent, reserved, leads, pool, ended, snap>>

\* An error while the layer is built gives the reservation back; register_sublead
\* comes first for an error of spawn_sublead_session, and the entry stays.
SpawnSubleadFails(s) ==
    /\ spc[s] = "reserved"
    /\ reserved' = [reserved EXCEPT ![Root] = Minus(@, Reservation(s))]
    /\ live' \in {live, live \cup {s}}
    /\ Move(s, "failed")
    /\ UNCHANGED <<spent, leads, pool, ended, snap>>

RegisterSublead(s) ==
    /\ spc[s] = "reserved"
    /\ live' = live \cup {s}
    /\ Move(s, "running")
    /\ UNCHANGED <<spent, reserved, leads, pool, ended, snap>>

\* The session is over: its own cost is added to the sub-tree's spent_usd.
SessionEnds(s) ==
    /\ spc[s] = "running" /\ obs[s] = NoObs
    /\ spent' = [spent EXCEPT ![s] = @ + base[s] + iter[s]]
    /\ base' = [base EXCEPT ![s] = @ + iter[s]]
    /\ iter' = [iter EXCEPT ![s] = 0]
    /\ Move(s, "charged")
    /\ UNCHANGED <<reserved, leadSpent, abort, obs, pool, live, ended, snap>>

\* reconcile_terminated_sublead: out of the map ...
Remove(s) ==
    /\ spc[s] = "charged"
    /\ live' = live \ {s}
    /\ Move(s, "removed")
    /\ UNCHANGED <<spent, reserved, leads, pool, ended, snap>>

\* ... into the list of terminated layers; actual_spend is read ...
ListEnded(s) ==
    /\ spc[s] = "removed"
    /\ ended' = ended \cup {s}
    /\ snap' = [snap EXCEPT ![s] = spent[s]]
    /\ Move(s, "listed")
    /\ UNCHANGED <<spent, reserved, leads, pool, live>>

\* ... the reservation is returned ...
ReturnEnvelope(s) ==
    /\ spc[s] = "listed"
    /\ reserved' = [reserved EXCEPT ![Root] = Minus(@, Reservation(s))]
    /\ Move(s, "returned")
    /\ UNCHANGED <<spent, leads, pool, live, ended, snap>>

\* ... and what was spent is rolled up.
RollUp(s) ==
    /\ spc[s] = "returned"
    /\ spent' = [spent EXCEPT ![Root] = @ + snap[s]]
    /\ Move(s, "done")
    /\ UNCHANGED <<reserved, leads, pool, live, ended, snap>>

-----------------------------------------------------------------------------
(* The usage observer of a lead *)

LeadRuns(l) == l = Root \/ (l \in Subs /\ spc[l] = "running")

\* One assistant turn: the spend is stored; an aborted layer is not checked again.
LeadTurn(l, c) ==
    /\ LeadRuns(l) /\ obs[l] = NoObs
    /\ base[l] + iter[l] + c <= menu.lead
    /\ iter' = [iter EXCEPT ![l] = @ + c]
    /\ leadSpent' = [leadSpent EXCEPT ![l] = base[l] + iter[l] + c]
    /\ obs' = IF l \in abort THEN obs ELSE [obs EXCEPT ![l] = [@ EXCEPT !.at = "root"]]
    /\ UNCHANGED <<spent, reserved, base, abort, trees, pool>>

\* Mutant: the finished iteration is not folded into the baseline.
X_ForgetIteration(l) ==
    /\ LeadRuns(l) /\ obs[l] = NoObs /\ iter[l] > 0
    /\ iter' = [iter EXCEPT ![l] = 0]
    /\ UNCHANGED <<spent, reserved, leadSpent, base, abort, obs, trees, pool>>

\* commit_iteration between two iterations of the kill+resume loop.
CommitIteration(l) ==
    /\ LeadRuns(l) /\ obs[l] = NoObs /\ iter[l] > 0
    /\ base' = [base EXCEPT ![l] = @ + iter[l]]
    /\ iter' = [iter EXCEPT ![l] = 0]
    /\ UNCHANGED <<spent, reserved, leadSpent, abort, obs, trees, pool>>

\* compute_total_spend_blocking: the root layer, the live sub-trees, the
\* terminated ones; a contended map is skipped.
ObserveRoot(l) ==
    /\ obs[l].at = "root"
    /\ obs' = [obs EXCEPT ![l] = [@ EXCEPT !.at = "live", !.workers = spent[Root],
                                           !.lead = leadSpent[Root]]]
    /\ UNCHANGED <<spent, reserved, leadSpent, base, iter, abort, trees, pool>>

ObserveLive(l) ==
    /\ obs[l].at = "live"
    /\ \E S \in {live} \cup (IF \E s \in Subs : spc[s] \in {"reserved", "charged"}
                             THEN {{}} ELSE {}) :
         obs' = [obs EXCEPT ![l] = [@ EXCEPT !.at = "ended",
                                             !.workers = obs[l].workers + Sum(spent, S),
                                             !.self = Sum(leadSpent, S),
                                             !.all = Sum(leadSpent, S)]]
    /\ UNCHANGED <<spent, reserved, leadSpent, base, iter, abort, trees, pool>>

\* Mutant: only workers are held against budget_usd.
X_BreachWorkersOnly(l, all) ==
    \/ obs[l].lead + all > LeadCap[l]
    \/ menu.capped /\ obs[l].workers > Budget

\* The terminated layers count towards lead_budget_usd only; then the caps.
Breach(l, all) ==
    \/ obs[l].lead + all > LeadCap[l]
    \/ menu.capped /\ obs[l].workers + obs[l].lead + obs[l].self > Budget

ObserveEnded(l) ==
    /\ obs[l].at = "ended"
    /\ \E S \in {ended} \cup (IF \E s \in Subs : spc[s] = "removed" THEN {{}} ELSE {}) :
         abort' = IF Breach(l, obs[l].all + Sum(leadSpent, S)) THEN abort \cup {l} ELSE abort
    /\ obs' = [obs EXCEPT ![l] = NoObs]
    /\ UNCHANGED <<spent, reserved, leadSpent, base, iter, trees, pool>>

-----------------------------------------------------------------------------
WorkerStep(w) == \/ Admit(w) \/ ReserveNothing(w) \/ InsertPending(w)
                 \/ \E e \in Estimates(LayerOf[w]) : ReserveEstimate(w, e) \/ RefuseWorker(w, e)
                 \/ \E c \in Costs : WorkerExit(w, c)
                 \/ Release(w) \/ Charge(w) \/ MarkDone(w)
                 \/ AskResume(w) \/ SpawnResume(w) \/ \E c \in Costs : ResumedEnds(w, c)
SpawnStep(s) == \/ ResolveEnvelope(s) \/ ReadSpent(s) \/ ReserveEnvelope(s)
                \/ RefuseSublead(s) \/ SpawnSubleadFails(s) \/ RegisterSublead(s)
EndStep(s) == \/ SessionEnds(s) \/ Remove(s) \/ ListEnded(s) \/ ReturnEnvelope(s)
              \/ RollUp(s)
ObserverStep(l) == ObserveRoot(l) \/ ObserveLive(l) \/ ObserveEnded(l)
LeadStep(l) == (\E c \in 1..menu.lead : LeadTurn(l, c)) \/ CommitIteration(l)

Next == /\ \/ \E w \in Workers : WorkerStep(w)
           \/ \E s \in Subs : SpawnStep(s) \/ EndStep(s)
           \/ \E l \in Layers : LeadStep(l) \/ ObserverStep(l)
        /\ UNCHANGED menu

Spec == Init /\ [][Next]_vars

\* An observer call that has begun runs to its end inside the session's loop.
FairSpec == Spec /\ WF_vars((\E l \in Layers : ObserverStep(l)) /\ UNCHANGED menu)

-----------------------------------------------------------------------------
(* Properties *)

\* What the run has really spent: exited workers, their resumed sessions, and
\* the leads' own sessions; and what of it no counter ever gets.
Actual == Sum(cost, Workers) + Sum(extra, Workers) + Sum(base, Layers) + Sum(iter, Layers)
Uncharged == Sum(extra, Workers)

\* SpendBreakdown::total_usd over one consistent snapshot.
Total == spent[Root] + leadSpent[Root] + Sum(spent, live) + Sum(leadSpent, live)

\* No reservation leaks and none is returned twice, whatever spawns fail and
\* whichever sub-leads end: reserved_usd is what the spawns in flight hold.
ReservedIsHeld ==
    \A l \in Layers :
        reserved[l] = Sum(hold, InLayer(l))
                      + IF l # Root THEN 0
                        ELSE Sum([s \in Subs |-> Reservation(s)],
                                 {s \in Subs : spc[s] \in {"reserved", "running", "charged",
                                                            "removed", "listed"}})

\* spawn_worker and spawn_sublead never reserve more than the layer has, however
\* many of them check at once.
ReservationsFitBudget == \A l \in Layers : Capped(l) => reserved[l] <= LayerCap(l)

\* A reprompt (kill+resume) never takes back what a lead has spent: the kill
\* switch reads a counter that only grows.
LeadSpendNeverDrops == [][\A l \in Layers : leadSpent'[l] >= leadSpent[l]]_vars

\* The watcher's total against what the run has spent, at every moment and so in
\* the middle of every end too.  Missing are the resumed sessions, for good, the
\* cost of a worker that is not charged yet, a sub-tree between the map and the
\* roll-up, and what workers charge to a sub-tree after it; there twice is the own
\* cost of a sub-lead that was charged and is still in the map; nothing else is.
Rolled == {s \in Subs : spc[s] = "done"}
Moving == {s \in Subs : spc[s] \in {"removed", "listed", "returned"}}
Missing == Uncharged + Sum(cost, {w \in Workers : wpc[w] \in {"exited", "released"}})
           + Sum(spent, Moving) + (Sum(spent, Rolled) - Sum(snap, Rolled))
Twice == Sum(base, {s \in Subs : spc[s] = "charged"})
TotalIsExact == Total + Missing = Actual + Twice

\* A root lead that burns past budget_usd is aborted, even when its observer
\* meets a contended map.
RootOverrunAborts ==
    (menu.capped /\ leadSpent[Root] > Budget) ~> Root \in abort

\* The ledger adds up: what is reserved is held by somebody, and what was spent
\* is counted but for what Missing and Twice name (release_reservation_for_layer,
\* reconcile_terminated_sublead).
LedgerIsExact == TypeOK /\ ReservedIsHeld /\ TotalIsExact
=============================================================================
