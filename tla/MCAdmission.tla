---------------------------- MODULE MCAdmission ----------------------------
(* Manifests that exercise one check of validate each, and runs under a few that pass. *)
EXTENDS Admission

CONSTANTS w1, w2, s1, s2

Read == <<"Read">>
Bash == <<"Bash">>
Ask == <<"mcp", "db", "query">>
Drop == <<"mcp", "db", "drop">>
Deep == <<"mcp", "db", "admin", "drop">>

Db == [McpServerSpec(<<"db">>) EXCEPT !.tools = {<<<<"query">>>>}]
Admin == [McpServerSpec(<<"db", "admin">>) EXCEPT !.scope = {"writer"}]

Reader == [WorkerType("reader") EXCEPT !.tools = {Read, Ask}, !.max_timeout_secs = {5},
                                       !.allowed_models = {"haiku", "sonnet"}]
Writer == [WorkerType("writer") EXCEPT !.tools = {Bash, Deep}, !.agent_profile = {<<"house">>}]
Chief == [SubleadType("chief") EXCEPT !.tools = {Read}, !.max_budget_usd = {3}, !.max_timeout_secs = {5},
                                      !.allowed_models = {"opus"}]
House == [AgentProfile(<<"house">>) EXCEPT !.model = {"opus"}, !.env = ("entrypoint" :> "sdk-ts")]

RootOnly == [Lead("lead", "repo") EXCEPT !.tools = {{Read, Bash, Ask}}, !.max_workers = {1}, !.timeout_secs = {9}]
WithSubs == [RootOnly EXCEPT !.allow_subleads = TRUE, !.max_subleads = {1}, !.max_sublead_budget_usd = {4},
                             !.budget_usd = {9}, !.max_total_workers = {3}]

Base == [File EXCEPT !.lead = {RootOnly}, !.mcp_servers = <<Db, Admin>>, !.worker_types = <<Reader, Writer>>,
                     !.agent_profiles = <<House>>]
Tree == [Base EXCEPT !.lead = {WithSubs}, !.sublead_types = <<Chief>>,
                     !.sublead_defaults = {[SubleadDefaults EXCEPT !.budget_usd = {2}, !.max_workers = {1}]}]
Strict == [Tree EXCEPT !.run.require_actor_type = TRUE, !.run.untyped_actor_policy = "block"]

T(id) == [Task(id, "repo") EXCEPT !.prompt = {"go"}, !.branch = {"b"}]
Hello == [id |-> "hello", text |-> <<[lit |-> "Hi ", var |-> {}, closed |-> TRUE], [lit |-> "", var |-> {"who"}, closed |-> TRUE]>>]
Flat == [File EXCEPT !.tasks = <<T("a"), [T("b") EXCEPT !.branch = {}]>>, !.templates = <<Hello>>]

\* One reason for refusal each.
Refused == {
    File, [Base EXCEPT !.tasks = Flat.tasks], [Flat EXCEPT !.legacy = {"[[lead]]"}],
    [Flat EXCEPT !.tasks = <<T("a"), T("a")>>], [Flat EXCEPT !.tasks = <<T("a"), T("b")>>],
    [Flat EXCEPT !.tasks[1].id = "no good"], [Flat EXCEPT !.tasks[1].directory = "nowhere"],
    [Flat EXCEPT !.tasks[1].timeout_secs = {0}], [Flat EXCEPT !.run.max_parallel_tasks = {0}],
    [Flat EXCEPT !.tasks[1].template = {"hello"}], [Flat EXCEPT !.tasks[1].prompt = {}, !.tasks[1].template = {"hello"}],
    [Flat EXCEPT !.run.resource_sample_secs = 3601], [Flat EXCEPT !.run.claude_setting_sources = {<<"home">>}],
    [Flat EXCEPT !.communication.max_message_bytes = 0],
    [Flat EXCEPT !.container = {[ContainerConfig EXCEPT !.mounts = <<[host |-> "forbidden", container |-> "absolute"]>>]}],
    [Flat EXCEPT !.lifecycle = {[survive_parent |-> TRUE, notify |-> {}]}],
    [Flat EXCEPT !.notification = <<[needs |-> {"NO_SUCH"}, valid |-> TRUE]>>],
    [Base EXCEPT !.lead = {[RootOnly EXCEPT !.max_workers = {17}]}],
    [Base EXCEPT !.lead = {[RootOnly EXCEPT !.prompt = ""]}],
    [Base EXCEPT !.lead = {[RootOnly EXCEPT !.agent_profile = {<<"none">>}]}],
    [Base EXCEPT !.lead = {[RootOnly EXCEPT !.tools = {{Drop}}]}],
    [Base EXCEPT !.lead = {[RootOnly EXCEPT !.allow_subleads = TRUE]}],
    [Base EXCEPT !.worker_types = <<Reader, Reader>>], [Base EXCEPT !.worker_types = <<Reader>>],
    [Base EXCEPT !.agent_profiles = <<>>], [Base EXCEPT !.agent_profiles = <<House, House>>],
    [Base EXCEPT !.agent_profiles = <<House, AgentProfile(<<"pitboss", "mine">>)>>],
    [Base EXCEPT !.mcp_servers[1].tools = {<<>>}], [Base EXCEPT !.rules = <<[tools |-> {}, action |-> "maybe", category |-> {}]>>],
    [Tree EXCEPT !.sublead_types = <<[Chief EXCEPT !.tools = {Drop}]>>],
    [Tree EXCEPT !.sublead_types = <<SubleadType("")>>],
    [Tree EXCEPT !.sublead_types = <<[Chief EXCEPT !.agent_profile = {<<"none">>}]>>],
    [Base EXCEPT !.mcp_servers = <<Db>>],
    [File EXCEPT !.lead = {RootOnly}, !.run.untyped_actor_policy = "block"] }

Accepted == {Flat, Base, Tree, Strict,
    [Flat EXCEPT !.tasks[1].prompt = {}, !.tasks[1].template = {"hello"}, !.tasks[1].vars = ("who" :> "you")]}

\* validate and resolve refuse each of the first, and none of the second.
ASSUME RefusedAreRefused == \A m \in Refused : ~ Loads(m, FALSE)
ASSUME AcceptedLoad == \A m \in Accepted : Loads(m, FALSE)

Args == [type |-> {}, tools |-> {}, model |-> {}, timeout |-> {}]
SubArgs == [type |-> {}, tools |-> {}, model |-> "opus", budget |-> {}, max_workers |-> {}, timeout |-> {},
            read_down |-> FALSE, env |-> <<>>]
Rule(t, act) == [tools |-> t, action |-> act, category |-> {}]

Menu == [files |-> {Base}, workers |-> {w1}, subs |-> {}, spawns |-> {[Args EXCEPT !.type = {"reader"}]},
         subspawns |-> {}, prompts |-> {}, policies |-> {}, reasons |-> {"ok"}, reprompt |-> FALSE,
         drain |-> FALSE, faults |-> FALSE]

MenuLoad == [Menu EXCEPT !.files = Refused \cup Accepted, !.workers = {}]

\* Every combination of arguments of one call.
MenuSpawn == [Menu EXCEPT !.files = {Base, Tree, Strict}, !.faults = TRUE,
    !.spawns = [type : {{}, {"reader"}, {"writer"}, {"other"}}, tools : {{}, {{Read}}, {{Read, Drop}}},
                model : {{}, {"haiku"}, {"opus"}}, timeout : {{}, {3}, {8}}]]
MenuSub == [Menu EXCEPT !.files = {Tree, Strict,
                [Tree EXCEPT !.sublead_defaults = {[SubleadDefaults EXCEPT !.read_down = TRUE]}]},
    !.workers = {}, !.subs = {s1}, !.faults = TRUE,
    !.subspawns = [type : {{}, {"chief"}}, tools : {{}, {Read}, {Bash}}, model : {"opus", "haiku"},
                   budget : {{}, {1}, {5}}, max_workers : {{}, {2}}, timeout : {{}, {8}}, read_down : BOOLEAN,
                   env : {<<>>, ("entrypoint" :> "sdk-ts")}]]

\* Calls that overlap, at the cap.
MenuRace == [Menu EXCEPT !.workers = {w1, w2}, !.reprompt = TRUE]
MenuSubRace == [Menu EXCEPT !.files = {Tree}, !.workers = {}, !.subs = {s1, s2}, !.faults = TRUE,
    !.subspawns = {SubArgs, [SubArgs EXCEPT !.budget = {4}]}]

MenuHealth == [Menu EXCEPT !.files = {[Base EXCEPT !.lead = {[RootOnly EXCEPT !.max_workers = {2}]}]},
    !.workers = {w1, w2}, !.reasons = {"auth", "rate", "rate_until"}, !.drain = TRUE]
MenuPlan == [Menu EXCEPT !.files = {[Tree EXCEPT !.run.require_plan_approval = TRUE]}, !.subs = {s1},
    !.subspawns = {SubArgs}]

\* A worker of a sub-lead, its end and its sub-lead's, while prompts are asked.
MenuPrompt == [Menu EXCEPT !.files = {Tree, Strict}, !.subs = {s1}, !.subspawns = {[SubArgs EXCEPT !.type = {"chief"}]},
    !.spawns = {[Args EXCEPT !.type = {"reader"}, !.tools = {{Ask}}]}, !.prompts = {Read, Drop}, !.reprompt = TRUE]
MenuRules == [Menu EXCEPT !.spawns = {[Args EXCEPT !.type = {"reader"}, !.tools = {{Ask}}], [Args EXCEPT !.tools = {{}}]},
    !.prompts = {Read, Drop}, !.policies = {<<>>, <<Rule({Drop, Read}, "auto_approve")>>,
        <<Rule({Read}, "block"), Rule({Read}, "auto_approve")>>, <<Rule({Read}, "auto_reject")>>}]

MCScenarios == {MenuLoad, MenuSpawn, MenuSub, MenuRace, MenuSubRace, MenuHealth, MenuPlan, MenuPrompt, MenuRules}
=============================================================================
