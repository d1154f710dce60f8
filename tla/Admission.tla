------------------------------ MODULE Admission ------------------------------
(***************************************************************************)
(* What a run lets its actors do: loading the manifest, the gates of       *)
(* spawn_worker and spawn_sublead, the session each actor is launched with *)
(* (tools, configuration, model, timeout, environment), and the answers of *)
(* permission_prompt.                                                      *)
(*                                                                         *)
(* A tool call checks its gates and only later inserts what it admitted,   *)
(* so calls overlap.  Budgets are BudgetLedger's: here a check of the      *)
(* budget may simply refuse.  A worker has at most two incarnations, and   *)
(* pr holds what became of each process.                                   *)
(***************************************************************************)
EXTENDS Preflight

CONSTANTS
    WorkerIds, Subs,    \* ids that spawns may draw
    MaxNow,             \* bound on the clock
    AUTH_FAILURE_BACKOFF_SECS, RATE_LIMIT_DEFAULT_BACKOFF_SECS,
    AdmissionScenarios  \* scenarios: what a behaviour may contain

ASSUME BackoffAssumption == {MaxNow, AUTH_FAILURE_BACKOFF_SECS, RATE_LIMIT_DEFAULT_BACKOFF_SECS} \subseteq Nat

\* The ids are different things, and the limits a manifest or a call names are numbers.
ASSUME IdsAssumption ==
    /\ IsFiniteSet(WorkerIds) /\ IsFiniteSet(Subs) /\ WorkerIds \cap Subs = {}
    /\ {"root", "lead", "subleads"} \cap (WorkerIds \cup Subs) = {}
ASSUME AdmissionScenariosAssumption == \A sc \in AdmissionScenarios :
    /\ sc.workers \subseteq WorkerIds /\ sc.subs \subseteq Subs
    /\ \A m \in sc.files :
          /\ \A l \in m.lead : l.max_workers \cup l.max_subleads \subseteq Nat
          /\ \A d \in m.sublead_defaults : d.max_workers \subseteq Nat
    /\ \A args \in sc.subspawns : args.max_workers \subseteq Nat

VARIABLES
    scenario,   \* the scenario, chosen once
    phase,      \* "file", "run" or "refused"
    r,          \* the resolved manifest once the run has begun
    wk, sub,    \* workers and sub-leads by id
    layerIndex, \* worker_layer_index: {} or {layer}
    plan,       \* layers whose plan was approved
    rules,      \* the approval matcher
    health,     \* ApiHealth
    draining, now,
    ask,        \* permission prompts under way: actor to {} or {tool}
    said,       \* prompts answered
    peak        \* per layer, and for spawn_sublead, the most calls ever between check and insert

admissionVars == <<scenario, phase, r, wk, sub, layerIndex, plan, rules, health, draining, now, ask, said, peak>>

SpawnLayers == {"root"} \cup Subs
NoSession == [tools |-> {}, config |-> {}, model |-> "", timeout |-> 0, routing |-> "path_a", env |-> <<>>]
NoWorker == [st |-> "none", layer |-> "root", type |-> {}, want |-> NoSession, session |-> NoSession,
             pr |-> <<"none", "none">>, reason |-> "", at |-> 0]
NoSub == [st |-> "none", type |-> {}, max_workers |-> {}, budget |-> {}, timeout |-> 0, want |-> NoSession,
          session |-> NoSession]

AdmissionInit ==
    /\ scenario \in AdmissionScenarios /\ phase = "file" /\ r = {}
    /\ wk = [w \in WorkerIds |-> NoWorker] /\ sub = [s \in Subs |-> NoSub]
    /\ layerIndex = [w \in WorkerIds |-> {}] /\ plan = {} /\ rules = <<>>
    /\ health = [auth |-> {}, rate |-> {}] /\ draining = FALSE /\ now = 0
    /\ ask = [a \in WorkerIds \cup Subs \cup {"lead"} |-> {}] /\ said = {}
    /\ peak = [l \in SpawnLayers \cup {"subleads"} |-> 0]

\* The manifest is loaded before anything else of the run exists.
Load ==
    /\ phase = "file"
    /\ \E m \in scenario.files :
        IF Loads(m, FALSE)
          THEN phase' = "run" /\ r' = Resolve(m) /\ rules' = m.rules
          ELSE phase' = "refused" /\ UNCHANGED <<r, rules>>
    /\ UNCHANGED <<scenario, wk, sub, layerIndex, plan, health, draining, now, ask, said, peak>>

Running == phase = "run" /\ r.lead # {}
RootLead == The(r.lead)

-----------------------------------------------------------------------------
(* The session an actor is launched with *)

Pitboss(n) == <<"mcp", "pitboss", n>>
CommunicationTools == {Pitboss("message_send"), Pitboss("artifact_put")}
Communication == IF r.communication.mode = "disabled" THEN {} ELSE CommunicationTools

\* The tools of pitboss by role: spawn_sublead is the root lead's, spawn_worker a lead's.
PitbossWorkerTools == {Pitboss("kv_get"), Pitboss("lease_acquire")} \cup Communication
PitbossSubleadTools == PitbossWorkerTools \cup {Pitboss("spawn_worker"), Pitboss("request_approval")}
PitbossLeadTools ==
    PitbossSubleadTools \cup (IF RootLead.allow_subleads THEN {Pitboss("spawn_sublead")} ELSE {})

\* push_permission_routing_allowed
RoutingTools(routing) == IF routing = "path_b" THEN {Pitboss("permission_prompt")} ELSE {}

\* build_mcp_servers_json, beside the entry for pitboss itself.
ServersFor(type) == {s \in Elems(r.mcp_servers) : ScopeAdmits(s, type)}

\* The mcp-config file each role is launched with.  A worker's and a sub-lead's list tools of
\* pitboss as well, which repeats what the argument list says.
WriteMcpConfig == [servers |-> ServersFor({}), tools |-> {}]
WriteWorkerMcpConfig(type) ==
    [servers |-> ServersFor(type), tools |-> {Pitboss("kv_get"), Pitboss("lease_acquire")}]
BuildSubleadMcpConfig(type) == [servers |-> ServersFor(type), tools |-> PitbossSubleadTools]

\* apply_pitboss_env_defaults: this run's id always, and an entrypoint that skips prompts
\* in path A only.
PitbossEnv(env, routing) ==
    LET e == ("run_id" :> "this") @@ env IN
    IF routing = "path_a" THEN e @@ ("entrypoint" :> "sdk-ts")
    ELSE [v \in DOMAIN e \ {v \in {"entrypoint"} \cap DOMAIN e : e[v] = "sdk-ts"} |-> e[v]]

\* The profile's environment under the lead's, and what the call names over both.
ActorEnv(profile, own) ==
    PitbossEnv(own @@ RootLead.env @@ (IF profile = {} THEN <<>> ELSE The(profile).env),
               RootLead.permission_routing)

LeadSession ==
    [tools |-> FilteredTools(r.mcp_servers, RootLead.tools, RootLead.permission_routing)
                 \cup PitbossLeadTools \cup RoutingTools(RootLead.permission_routing),
     config |-> {WriteMcpConfig}, model |-> RootLead.model, timeout |-> RootLead.timeout_secs,
     routing |-> RootLead.permission_routing,
     env |-> PitbossEnv(RootLead.env, RootLead.permission_routing)]

\* worker_spawn_args, without pitboss's own tools when there is no configuration to reach them.
WorkerTools(tools, routing, config) ==
    FilteredTools(r.mcp_servers, tools, routing)
      \cup (IF config THEN PitbossWorkerTools \cup RoutingTools(routing) ELSE {})

\* worker_agent_profile and sublead_agent_profile, of a type or of none.
AgentProfileOf(type) == UNION {{r.agent_profiles[id] : id \in t.agent_profile} : t \in type}

\* A worker whose mcp-config could not be written runs in path A.
WorkerSession(want, type, config) ==
    LET routing == IF config THEN RootLead.permission_routing ELSE "path_a"
        profile == AgentProfileOf({t \in Elems(r.worker_types) : t.id \in type})
    IN  [tools |-> WorkerTools(want.tools, routing, config),
         config |-> IF config THEN {WriteWorkerMcpConfig(type)} ELSE {}, model |-> want.model,
         timeout |-> want.timeout, routing |-> routing, env |-> ActorEnv(profile, <<>>)]

\* sublead_spawn_args
SubleadTools(tools) ==
    FilteredTools(r.mcp_servers, tools, RootLead.permission_routing)
      \cup PitbossSubleadTools \cup RoutingTools(RootLead.permission_routing)

SubleadSession(want, type) ==
    LET profile == AgentProfileOf({t \in Elems(r.sublead_types) : t.id \in type})
    IN  [tools |-> SubleadTools(want.tools),
         config |-> {BuildSubleadMcpConfig(type)}, model |-> want.model, timeout |-> want.timeout,
         routing |-> RootLead.permission_routing, env |-> ActorEnv(profile, want.env)]

-----------------------------------------------------------------------------
(* Health of the API, drain, plans and rules *)

\* check_can_spawn
CanSpawn ==
    /\ \A t \in health.auth : now >= t + AUTH_FAILURE_BACKOFF_SECS
    /\ \A h \in health.rate :
          now >= The(Or(h.resets_at, {h.hit_at + RATE_LIMIT_DEFAULT_BACKOFF_SECS}))

\* record: the last of each kind, whatever it replaces.
Recorded(reason) ==
    CASE reason = "auth" -> [health EXCEPT !.auth = {now}]
      [] reason = "rate" -> [health EXCEPT !.rate = {[hit_at |-> now, resets_at |-> {}]}]
      [] reason = "rate_until" -> [health EXCEPT !.rate = {[hit_at |-> now, resets_at |-> {MaxNow}]}]
      [] OTHER -> health

Tick ==
    /\ Running /\ now < MaxNow /\ health # [auth |-> {}, rate |-> {}] /\ now' = now + 1
    /\ UNCHANGED <<scenario, phase, r, wk, sub, layerIndex, plan, rules, health, draining, ask, said, peak>>

Drain ==
    /\ Running /\ scenario.drain /\ ~ draining /\ draining' = TRUE
    /\ UNCHANGED <<scenario, phase, r, wk, sub, layerIndex, plan, rules, health, now, ask, said, peak>>

\* propose_plan answered with yes: the flag is the layer's own.
ApprovePlan(l) ==
    /\ Running /\ r.run.require_plan_approval /\ l \notin plan
    /\ l # "root" => sub[l].st = "live"
    /\ plan' = plan \cup {l}
    /\ UNCHANGED <<scenario, phase, r, wk, sub, layerIndex, rules, health, draining, now, ask, said, peak>>

\* ControlOp::UpdatePolicy
UpdatePolicy ==
    /\ Running /\ \E rs \in scenario.policies : rs # rules /\ rules' = rs
    /\ UNCHANGED <<scenario, phase, r, wk, sub, layerIndex, plan, health, draining, now, ask, said, peak>>

-----------------------------------------------------------------------------
(* spawn_worker *)

\* resolve_worker_profile: the type a call names, which must be declared; or none, when the
\* run does not insist.
ProfileFound(types, requested) ==
    IF requested = {} THEN ~ r.run.require_actor_type ELSE Has(types, The(requested))
TypeNamed(types, requested) == {ById(types, id) : id \in requested}

\* check_tool_subset and check_model_allowed
WithinType(t, tools, model) ==
    /\ \A ts \in tools : ts \subseteq t.tools
    /\ t.allowed_models = {} \/ model \in t.allowed_models

ClampDown(n, cap) == IF cap = {} THEN n ELSE Min({n, The(cap)})

\* A sub-lead's manifest has no lead, so its workers' models end in the last fallback.
WorkerModel(l, type, requested) ==
    The(Or(requested,
           Or(UNION {p.model : p \in AgentProfileOf(type)},
              IF l = "root" THEN {RootLead.model} ELSE {"haiku"})))

\* Mutant: the cap applies to what the call names only, and not to the lead's timeout.
X_WantedSession(l, args, type) ==
    [NoSession EXCEPT
        !.tools = The(Or(args.tools, IF type # {} THEN {The(type).tools} ELSE {RootLead.tools})),
        !.model = WorkerModel(l, type, args.model),
        !.timeout = IF args.timeout = {} THEN RootLead.timeout_secs
                    ELSE ClampDown(The(args.timeout), UNION {t.max_timeout_secs : t \in type})]

\* What the call asks for, defaulted from the type or from the lead, and clamped.
WantedSession(l, args, type) ==
    [NoSession EXCEPT
        !.tools = The(Or(args.tools, IF type # {} THEN {The(type).tools} ELSE {RootLead.tools})),
        !.model = WorkerModel(l, type, args.model),
        !.timeout = ClampDown(The(Or(args.timeout, {RootLead.timeout_secs})),
                              UNION {t.max_timeout_secs : t \in type})]

\* active_worker_count
Active(l) == Cardinality({w \in WorkerIds : wk[w].layer = l /\ wk[w].st \in {"pending", "running"}})
\* The caps of a layer are its envelope's, or the root's in a shared pool.
MaxWorkers(l) == IF l = "root" THEN r.max_workers ELSE sub[l].max_workers
Calls(l) == Cardinality({w \in WorkerIds : wk[w].layer = l /\ wk[w].st = "checked"})

\* Mutant: one worker more than the cap is let in.
X_BelowCap(l) == \A cap \in MaxWorkers(l) : Active(l) <= cap

BelowCap(l) == \A cap \in MaxWorkers(l) : Active(l) < cap

\* handle_spawn_worker up to the check of the budget.
SpawnWorkerCheck(w, l, args) ==
    LET type == TypeNamed(r.worker_types, args.type)
        want == WantedSession(l, args, type)
    IN
    /\ Running /\ wk[w].st = "none"
    /\ l # "root" => sub[l].st = "live"
    /\ ~ draining /\ CanSpawn
    /\ r.run.require_plan_approval => l \in plan
    /\ BelowCap(l)
    /\ ProfileFound(r.worker_types, args.type)
    /\ \A t \in type : WithinType(t, args.tools, want.model)
    /\ wk' = [wk EXCEPT ![w] = [NoWorker EXCEPT !.st = "checked", !.layer = l,
                                                !.type = args.type, !.want = want]]
    /\ peak' = [peak EXCEPT ![l] = Max({@, Calls(l) + 1})]
    /\ UNCHANGED <<scenario, phase, r, sub, layerIndex, plan, rules, health, draining, now, ask, said>>

\* The budget refuses, and the call returns its error.
SpawnWorkerRefused(w) ==
    /\ Running /\ wk[w].st = "checked" /\ r.budget_usd # {}
    /\ wk' = [wk EXCEPT ![w] = NoWorker]
    /\ UNCHANGED <<scenario, phase, r, sub, layerIndex, plan, rules, health, draining, now, ask, said, peak>>

\* The worker enters its layer's maps and the index, and its task is spawned.
SpawnWorkerInsert(w) ==
    /\ Running /\ wk[w].st = "checked"
    /\ wk' = [wk EXCEPT ![w] = [@ EXCEPT !.st = "pending"]]
    /\ layerIndex' = [layerIndex EXCEPT ![w] = {wk[w].layer}]
    /\ UNCHANGED <<scenario, phase, r, sub, plan, rules, health, draining, now, ask, said, peak>>

\* What became of the process of one incarnation.
Process(w, i, p) == [wk[w].pr EXCEPT ![i] = p]

LaunchWorker(w, config) ==
    /\ Running /\ wk[w].st = "pending" /\ (~ config => scenario.faults)
    /\ wk' = [wk EXCEPT ![w] = [@ EXCEPT !.st = "running", !.pr = Process(w, 1, "live"),
                                         !.session = WorkerSession(wk[w].want, wk[w].type, config)]]
    /\ UNCHANGED <<scenario, phase, r, sub, layerIndex, plan, rules, health, draining, now, ask, said, peak>>

Incarnation(w) == IF wk[w].pr[2] = "none" THEN 1 ELSE 2
Live(w) == wk[w].pr[Incarnation(w)] = "live"

\* reprompt_worker cancels the child and does not wait for its tail.
RepromptWorker(w) ==
    /\ Running /\ scenario.reprompt /\ wk[w].st = "running" /\ wk[w].pr = <<"live", "none">>
    /\ wk' = [wk EXCEPT ![w] = [@ EXCEPT !.pr = <<"exited", "next">>]]
    /\ ask' = [ask EXCEPT ![w] = {}]
    /\ UNCHANGED <<scenario, phase, r, sub, layerIndex, plan, rules, health, draining, now, said, peak>>

\* layer_for_worker: by the index, or by the registries when the old tail has left it.
LayerFound(w) == wk[w].layer # "root" => sub[wk[w].layer].st = "live"

\* spawn_resume_worker launches with the lead's tools and timeout, and leaves the index alone.
ResumeWorker(w, config) ==
    /\ Running /\ wk[w].pr[2] = "next" /\ LayerFound(w) /\ (~ config => scenario.faults)
    /\ LET want == [wk[w].want EXCEPT !.tools = RootLead.tools, !.timeout = RootLead.timeout_secs]
       IN  wk' = [wk EXCEPT ![w] = [@ EXCEPT !.st = "running", !.pr = Process(w, 2, "live"),
                                             !.session = WorkerSession(want, wk[w].type, config)]]
    /\ UNCHANGED <<scenario, phase, r, sub, layerIndex, plan, rules, health, draining, now, ask, said, peak>>

ResumeFails(w) ==
    /\ Running /\ wk[w].pr[2] = "next" /\ ~ LayerFound(w)
    /\ wk' = [wk EXCEPT ![w] = [@ EXCEPT !.pr = Process(w, 2, "over")]]
    /\ UNCHANGED <<scenario, phase, r, sub, layerIndex, plan, rules, health, draining, now, ask, said, peak>>

WorkerExits(w, reason) ==
    /\ Running /\ Live(w) /\ reason \in scenario.reasons
    /\ wk' = [wk EXCEPT ![w] = [@ EXCEPT !.pr = Process(w, Incarnation(w), "exited"),
                                         !.reason = reason, !.at = now]]
    /\ ask' = [ask EXCEPT ![w] = {}]
    /\ UNCHANGED <<scenario, phase, r, sub, layerIndex, plan, rules, health, draining, now, said, peak>>

\* Mutant: the worker is done before its failure is on record.
X_RecordFailure(w, i) ==
    /\ Running /\ wk[w].pr[i] = "exited"
    /\ wk' = [wk EXCEPT ![w] = [@ EXCEPT !.pr = Process(w, i, "recorded"), !.st = "done"]]
    /\ UNCHANGED <<scenario, phase, r, sub, layerIndex, plan, rules, health, draining, now, ask, said, peak>>

\* The tail classifies the failure and records it before anyone can see the worker done.
RecordFailure(w, i) ==
    /\ Running /\ wk[w].pr[i] = "exited"
    /\ wk' = [wk EXCEPT ![w] = [@ EXCEPT !.pr = Process(w, i, "recorded")]]
    /\ health' = Recorded(IF i = Incarnation(w) THEN wk[w].reason ELSE "")
    /\ UNCHANGED <<scenario, phase, r, sub, layerIndex, plan, rules, draining, now, ask, said, peak>>

\* The tail's last writes: Done, and out of the index, whichever incarnation it is of.
FinishWorker(w, i) ==
    /\ Running /\ wk[w].pr[i] = "recorded"
    /\ wk' = [wk EXCEPT ![w] = [@ EXCEPT !.pr = Process(w, i, "over"), !.st = "done"]]
    /\ layerIndex' = [layerIndex EXCEPT ![w] = {}]
    /\ UNCHANGED <<scenario, phase, r, sub, plan, rules, health, draining, now, ask, said, peak>>

-----------------------------------------------------------------------------
(* spawn_sublead *)

\* The budget a type caps is the cap itself when the call names none; a timeout is clamped
\* only when the call names one.
TypedBudget(type, requested) ==
    LET cap == UNION {t.max_budget_usd : t \in type} IN
    IF requested = {} THEN cap ELSE {ClampDown(n, cap) : n \in requested}
TypedTimeout(type, requested) == {ClampDown(n, UNION {t.max_timeout_secs : t \in type}) : n \in requested}

SubDefault(f) == UNION {d[f] : d \in RootLead.sublead_defaults}
ReadDown(args) == args.read_down \/ \E d \in RootLead.sublead_defaults : d.read_down

DEFAULT_LEAD_TIMEOUT == 36

\* resolve_envelope: {} when it refuses.
Envelope(args, type) ==
    LET budget == Or(TypedBudget(type, args.budget), SubDefault("budget_usd"))
        max == Or(args.max_workers, SubDefault("max_workers"))
        timeout == Or(TypedTimeout(type, args.timeout), SubDefault("lead_timeout_secs"))
    IN  IF ReadDown(args) /\ budget = {} /\ max = {}
          THEN {[shared |-> TRUE, budget |-> r.budget_usd, max_workers |-> r.max_workers,
                 timeout |-> The(Or(r.lead_timeout_secs, {DEFAULT_LEAD_TIMEOUT}))]}
          ELSE {[shared |-> FALSE, budget |-> {b}, max_workers |-> {n},
                 timeout |-> The(Or(timeout, {DEFAULT_LEAD_TIMEOUT}))] : b \in budget, n \in max}

\* Those in the map, the ones whose session never started among them.
Registered == {s \in Subs : sub[s].st \in {"live", "orphan"}}
SubCalls == Cardinality({s \in Subs : sub[s].st = "checked"})

\* Workers of the root and of registered sub-leads, those that are done too.
KnownWorkers == {w \in WorkerIds : wk[w].st \notin {"none", "checked"}
                                 /\ (wk[w].layer = "root" \/ wk[w].layer \in Registered)}

\* The caps bind an envelope of its own only; the root's pool passes them by.
EnvelopeFits(e) ==
    /\ \A cap \in RootLead.max_sublead_budget_usd : The(e.budget) <= cap
    /\ \A cap \in RootLead.max_subleads : Cardinality(Registered) + 1 <= cap
    /\ \A cap \in RootLead.max_total_workers : Cardinality(KnownWorkers) + The(e.max_workers) <= cap

\* validate_spawn_sublead_capability
MaySpawnSubleads == RootLead.allow_subleads

\* The tool's checks of depth, type and health, and the envelope.
SpawnSubleadCheck(s, args) ==
    LET type == TypeNamed(r.sublead_types, args.type) IN
    /\ Running /\ sub[s].st = "none" /\ MaySpawnSubleads
    /\ ProfileFound(r.sublead_types, args.type)
    /\ \A t \in type : WithinType(t, {args.tools}, args.model)
    /\ CanSpawn
    /\ \E e \in Envelope(args, type) :
        /\ e.shared \/ EnvelopeFits(e)
        /\ sub' = [sub EXCEPT ![s] =
            [NoSub EXCEPT !.st = "checked", !.type = args.type, !.max_workers = e.max_workers,
                          !.budget = IF e.shared THEN {} ELSE e.budget, !.timeout = e.timeout,
                          !.want = [NoSession EXCEPT
                              !.tools = IF args.tools = {} THEN UNION {t.tools : t \in type} ELSE args.tools,
                              !.model = args.model, !.timeout = e.timeout, !.env = args.env]]]
    /\ peak' = [peak EXCEPT !["subleads"] = Max({@, SubCalls + 1})]
    /\ UNCHANGED <<scenario, phase, r, wk, layerIndex, plan, rules, health, draining, now, ask, said>>

\* Registered, typed and launched.
SpawnSubleadInsert(s) ==
    /\ Running /\ sub[s].st = "checked"
    /\ sub' = [sub EXCEPT ![s] = [@ EXCEPT !.st = "live", !.session = SubleadSession(sub[s].want, sub[s].type)]]
    /\ UNCHANGED <<scenario, phase, r, wk, layerIndex, plan, rules, health, draining, now, ask, said, peak>>

\* Its configuration cannot be written: the call fails, and the layer stays registered.
SpawnSubleadFails(s) ==
    /\ Running /\ sub[s].st = "checked" /\ scenario.faults
    /\ sub' = [sub EXCEPT ![s] = [@ EXCEPT !.st = "orphan"]]
    /\ UNCHANGED <<scenario, phase, r, wk, layerIndex, plan, rules, health, draining, now, ask, said, peak>>

\* The sub-lead's end takes its layer out of the map, its workers' children still running.
SubleadEnds(s) ==
    /\ Running /\ sub[s].st = "live"
    /\ sub' = [sub EXCEPT ![s] = [@ EXCEPT !.st = "gone"]]
    /\ ask' = [ask EXCEPT ![s] = {}]
    /\ UNCHANGED <<scenario, phase, r, wk, layerIndex, plan, rules, health, draining, now, said, peak>>

-----------------------------------------------------------------------------
(* permission_prompt *)

Actors == WorkerIds \cup Subs \cup {"lead"}
SessionOf(a) == CASE a \in WorkerIds -> wk[a].session
                  [] a \in Subs -> sub[a].session
                  [] OTHER -> LeadSession
Alive(a) == CASE a \in WorkerIds -> Live(a)
              [] a \in Subs -> sub[a].st = "live"
              [] OTHER -> Running

\* Only a session in path B asks, and only then is there a tool to ask with.
PathB(a) == SessionOf(a).routing = "path_b"

\* The type an actor was admitted under.
TypeOf(a) == CASE a \in WorkerIds -> wk[a].type [] a \in Subs -> sub[a].type [] OTHER -> {}

\* The first rule that matches decides; "block" and none leave it open.
Verdict(t) ==
    LET hits == {i \in DOMAIN rules : t \in rules[i].tools}
    IN  IF hits = {} THEN "none" ELSE rules[Min(hits)].action

Answer(a, t, by, ok) ==
    said' = said \cup {[who |-> a, tool |-> t, by |-> by, ok |-> ok, again |-> a \in WorkerIds /\ Incarnation(a) = 2,
                        orphan |-> a \in WorkerIds /\ wk[a].layer \in Subs /\ sub[wk[a].layer].st # "live"]}

\* A tool outside --allowedTools is asked for: the lists of the servers come first, then
\* the rules.
Prompt(a, t) ==
    /\ Running /\ Alive(a) /\ PathB(a) /\ ask[a] = {}
    /\ t \in scenario.prompts \ SessionOf(a).tools
    /\ \/ ~ Admitted(r.mcp_servers, t) /\ Answer(a, t, "server", FALSE) /\ UNCHANGED ask
       \/ /\ Admitted(r.mcp_servers, t)
          /\ \/ Verdict(t) = "auto_approve" /\ Answer(a, t, "rule", TRUE) /\ UNCHANGED ask
             \/ Verdict(t) = "auto_reject" /\ Answer(a, t, "rule", FALSE) /\ UNCHANGED ask
             \/ Verdict(t) \in {"block", "none"} /\ ask' = [ask EXCEPT ![a] = {t}] /\ UNCHANGED said
    /\ UNCHANGED <<scenario, phase, r, wk, sub, layerIndex, plan, rules, health, draining, now, peak>>

\* caller_profile finds a worker's type in the maps of the layer the index names; without an
\* entry it looks in the root's.
TypeFound(a) ==
    CASE a \in Subs -> sub[a].type
      [] a \in WorkerIds /\ layerIndex[a] \cap Subs = {} -> IF wk[a].layer = "root" THEN wk[a].type ELSE {}
      [] a \in WorkerIds /\ layerIndex[a] \cap Subs # {} ->
             IF sub[The(layerIndex[a])].st \in {"live", "orphan"} THEN wk[a].type ELSE {}
      [] OTHER -> {}

\* Its tools: {} when the prompt goes to the operator, an empty set of them for an untyped
\* actor under "block".
Profile(a) ==
    IF a = "lead" THEN {}
    ELSE IF TypeFound(a) # {}
      THEN {ById(IF a \in Subs THEN r.sublead_types ELSE r.worker_types, The(TypeFound(a))).tools}
      ELSE IF r.run.untyped_actor_policy = "block" THEN {{}} ELSE {}

PromptProfile(a) ==
    /\ Running /\ ask[a] # {} /\ Profile(a) # {}
    /\ Answer(a, The(ask[a]), "profile", The(ask[a]) \in The(Profile(a)))
    /\ ask' = [ask EXCEPT ![a] = {}]
    /\ UNCHANGED <<scenario, phase, r, wk, sub, layerIndex, plan, rules, health, draining, now, peak>>

\* The bridge: Approvals models how an answer comes about.
PromptOperator(a, ok) ==
    /\ Running /\ ask[a] # {} /\ Profile(a) = {}
    /\ Answer(a, The(ask[a]), "operator", ok)
    /\ ask' = [ask EXCEPT ![a] = {}]
    /\ UNCHANGED <<scenario, phase, r, wk, sub, layerIndex, plan, rules, health, draining, now, peak>>

-----------------------------------------------------------------------------

SpawnStep ==
    \/ \E w \in scenario.workers, l \in SpawnLayers : \E args \in scenario.spawns : SpawnWorkerCheck(w, l, args)
    \/ \E w \in WorkerIds : SpawnWorkerRefused(w) \/ SpawnWorkerInsert(w)
    \/ \E w \in WorkerIds, config \in BOOLEAN : LaunchWorker(w, config) \/ ResumeWorker(w, config)
    \/ \E s \in scenario.subs : \E args \in scenario.subspawns : SpawnSubleadCheck(s, args)
    \/ \E s \in Subs : SpawnSubleadInsert(s) \/ SpawnSubleadFails(s)

EndStep ==
    \/ \E w \in WorkerIds : RepromptWorker(w) \/ ResumeFails(w) \/ \E reason \in scenario.reasons : WorkerExits(w, reason)
    \/ \E w \in WorkerIds, i \in 1 .. 2 : RecordFailure(w, i) \/ FinishWorker(w, i)
    \/ \E s \in Subs : SubleadEnds(s)

PromptStep ==
    \E a \in Actors :
        \/ \E t \in scenario.prompts : Prompt(a, t)
        \/ PromptProfile(a)
        \/ \E ok \in BOOLEAN : PromptOperator(a, ok)

AdmissionNext ==
    \/ Load \/ Tick \/ Drain \/ UpdatePolicy
    \/ \E l \in SpawnLayers : ApprovePlan(l)
    \/ SpawnStep \/ EndStep \/ PromptStep

AdmissionSpec == AdmissionInit /\ [][AdmissionNext]_admissionVars

-----------------------------------------------------------------------------
(* Properties *)

WType(id) == ById(r.worker_types, id)
SType(id) == ById(r.sublead_types, id)
Own(s) == s.tools \ (PitbossLeadTools \cup RoutingTools("path_b"))

\* What a manifest that passed validate promises its sessions: no list of a declared type or
\* of the lead loses a tool to a server's list, every scope names a type some actor can
\* have, every profile referred to exists, and two tasks share neither id nor branch of one
\* directory.
AcceptedIsSound ==
    /\ \A t \in Elems(r.worker_types) \cup Elems(r.sublead_types) :
          /\ FilteredTools(r.mcp_servers, t.tools, "path_b") = t.tools
          /\ t.agent_profile \subseteq DOMAIN r.agent_profiles
          /\ t.id # ""
    /\ \A l \in r.lead : FilteredTools(r.mcp_servers, l.tools, "path_b") = l.tools
    /\ \A s \in Elems(r.mcp_servers) : s.scope # {} =>
          \E t \in Elems(r.worker_types) \cup Elems(r.sublead_types) : ScopeAdmits(s, {t.id})
    /\ \A i, j \in DOMAIN r.tasks : i # j =>
          /\ r.tasks[i].id # r.tasks[j].id
          /\ r.tasks[i].use_worktree /\ r.tasks[j].use_worktree /\ r.tasks[i].branch # {}
               => <<r.tasks[i].directory, r.tasks[i].branch>> # <<r.tasks[j].directory, r.tasks[j].branch>>

\* A worker's first session stays within its type in tools, model and time, and any session
\* of its in the servers it is given and the tools they admit; a resumed one has the lead's
\* tools and timeout.
WorkerSessionsHonour == \A w \in WorkerIds : wk[w].pr[1] # "none" =>
    LET s == wk[w].session IN
    /\ r.run.require_actor_type => wk[w].type # {}
    /\ r.run.require_plan_approval => wk[w].layer \in plan
    /\ s.routing = "path_b" => \A t \in s.tools : Admitted(r.mcp_servers, t)
    /\ \A c \in s.config : \A v \in c.servers : v.scope \subseteq wk[w].type
    /\ Pitboss("spawn_worker") \notin s.tools
    /\ s.env["run_id"] = "this"
    /\ \A id \in wk[w].type :
          /\ WType(id).allowed_models # {} => s.model \in WType(id).allowed_models
          /\ Incarnation(w) = 1 =>
                /\ Own(s) \subseteq WType(id).tools
                /\ \A cap \in WType(id).max_timeout_secs : s.timeout <= cap

\* A sub-lead stays within its type and within the lead's cap, never has spawn_sublead, and
\* one whose type has a budget is never given the root's pool.
SubleadSessionsHonour == \A s \in Subs : sub[s].st \in {"live", "gone"} =>
    /\ r.run.require_actor_type => sub[s].type # {}
    /\ Pitboss("spawn_sublead") \notin sub[s].session.tools
    /\ \A cap \in RootLead.max_sublead_budget_usd, b \in sub[s].budget : b <= cap
    /\ "entrypoint" \in DOMAIN sub[s].session.env =>
          sub[s].session.routing = "path_a" \/ sub[s].session.env["entrypoint"] # "sdk-ts"
    /\ \A id \in sub[s].type :
          /\ Own(sub[s].session) \subseteq SType(id).tools
          /\ SType(id).allowed_models # {} => sub[s].session.model \in SType(id).allowed_models
          /\ \A cap \in SType(id).max_budget_usd : sub[s].budget # {} /\ The(sub[s].budget) <= cap

\* Validation at load, the gates of the spawn tools and the building of argument lists
\* together keep every session inside what the manifest says.
SessionsHonourManifest == phase = "run" =>
    AcceptedIsSound /\ (r.lead # {} => WorkerSessionsHonour /\ SubleadSessionsHonour)

\* permission_prompt: no rule, type or operator gets past the list of a server; the answer
\* of a profile is what the actor's type lists; and a typed actor is answered by its type
\* unless a rule was, or the worker belongs to a sub-lead and was resumed or has outlived
\* it (its type is then not found), in which case "block" denies.
PromptsHonourTypes == Running => \A d \in said :
    /\ d.ok => Admitted(r.mcp_servers, d.tool)
    /\ d.by = "operator" => r.run.untyped_actor_policy # "block" \/ d.who = "lead"
    /\ d.by = "operator" /\ TypeOf(d.who) # {} => d.again \/ d.orphan
    /\ d.by = "profile" /\ d.ok =>
          d.tool \in (IF d.who \in Subs THEN SType(The(TypeOf(d.who))) ELSE WType(The(TypeOf(d.who)))).tools

\* max_workers and max_subleads are exceeded by no more than the calls that overlapped, less
\* one, and by the workers that were reprompted: a layer whose calls came one at a time
\* keeps its cap.
CapsHoldUnlessRaced == Running =>
    /\ \A l \in SpawnLayers : \A cap \in MaxWorkers(l) :
          Active(l) <= cap + Max({peak[l] - 1, 0})
                     + Cardinality({w \in WorkerIds : wk[w].layer = l /\ wk[w].pr[2] # "none"})
    /\ \A cap \in RootLead.max_subleads :
          (\A s \in Registered : sub[s].budget # {})
             => Cardinality(Registered) <= cap + Max({peak["subleads"] - 1, 0})

\* Whoever sees a worker done with a failed credential, or with a limit nobody hit since,
\* finds the gate for spawns already shut.
ToldIsGated == Running /\ CanSpawn =>
    \A w \in WorkerIds : wk[w].st = "done" /\ wk[w].pr[2] = "none" =>
        /\ wk[w].reason = "auth" => now >= wk[w].at + AUTH_FAILURE_BACKOFF_SECS
        /\ wk[w].reason = "rate_until" => now >= MaxNow
              \/ \E v \in WorkerIds \ {w} : wk[v].reason \in {"rate", "rate_until"}

\* The capability matrix is what actors are given: the configuration of every session, the
\* resumed ones too, holds the servers of the row a console picks by the actor's type, and
\* lists no tool of pitboss that its argument list withholds.
MatrixIsTrue == Running => \A a \in Actors : Alive(a) => \A c \in SessionOf(a).config :
    /\ \E i \in DOMAIN Rows(r) : Rows(r)[i].actor_type = TypeOf(a)
    /\ \A i \in DOMAIN Rows(r) : Rows(r)[i].actor_type = TypeOf(a) => Elems(Rows(r)[i].servers) = c.servers
    /\ c.tools \subseteq SessionOf(a).tools

\* tree --check is conservative: what the root lead and the sub-leads that are registered
\* may spend at one time is within every threshold it passed, but for calls that overlapped.
Carved == {s \in Registered : sub[s].budget # {}}
EnvelopeCovers == Running => \A usd \in 1 .. 20 : Check(r, usd) = "ok" =>
    The(r.budget_usd) + MapThenSumSet(LAMBDA s : The(sub[s].budget), Carved)
      <= usd + Max({peak["subleads"] - 1, 0}) * Max(RootLead.max_sublead_budget_usd \cup {0})

\* Sessions and their permission prompts stay inside the manifest, and inside what the
\* operator was told of it.
ManifestIsHonoured == SessionsHonourManifest /\ PromptsHonourTypes /\ MatrixIsTrue /\ EnvelopeCovers
=============================================================================
