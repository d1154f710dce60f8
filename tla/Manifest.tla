------------------------------ MODULE Manifest ------------------------------
(***************************************************************************)
(* What a manifest means: the file as parsed (every field the operator     *)
(* left out at its default), resolve, which merges defaults and profiles   *)
(* into it, and validate, which refuses it.                                *)
(*                                                                         *)
(* An Option is a set of at most one element.  A tool's name is the        *)
(* sequence of its parts between double underscores, so that               *)
(* mcp__a__b__t is <<"mcp", "a", "b", "t">>, and a server's id likewise.   *)
(***************************************************************************)
EXTENDS Integers, FiniteSets, FiniteSetsExt, Sequences, SequencesExt, TLC

CONSTANTS
    Dirs,       \* directories that exist
    Repos,      \* those in a git work-tree
    Env         \* environment variables that are set

Or(a, b) == IF a # {} THEN a ELSE b
The(o) == CHOOSE x \in o : TRUE
Elems(s) == {s[i] : i \in DOMAIN s}
Unique(s, f(_)) == \A i, j \in DOMAIN s : f(s[i]) = f(s[j]) => i = j
ById(s, id) == s[Min({i \in DOMAIN s : s[i].id = id})]
Has(s, id) == \E i \in DOMAIN s : s[i].id = id

-----------------------------------------------------------------------------
(* The file as parsed *)

RunConfig == [max_parallel_tasks |-> {}, halt_on_failure |-> FALSE, resource_sample_secs |-> 5,
              claude_setting_sources |-> {}, default_approval_policy |-> {},
              denial_termination_policy |-> {}, require_plan_approval |-> FALSE,
              require_actor_type |-> FALSE, untyped_actor_policy |-> "bridge"]

Defaults == [model |-> {}, tools |-> {}, timeout_secs |-> {}, use_worktree |-> {}, env |-> <<>>]

AgentProfile(id) == [id |-> id, prelude |-> {}, model |-> {}, env |-> <<>>, tools |-> {}]

WorkerType(id) == [id |-> id, tools |-> {}, allowed_models |-> {}, max_timeout_secs |-> {},
                   agent_profile |-> {}]

SubleadType(id) == [id |-> id, tools |-> {}, allowed_models |-> {}, max_timeout_secs |-> {},
                    max_budget_usd |-> {}, agent_profile |-> {}]

Task(id, dir) == [id |-> id, directory |-> dir, prompt |-> {}, template |-> {}, vars |-> <<>>,
                  branch |-> {}, model |-> {}, tools |-> {}, timeout_secs |-> {},
                  use_worktree |-> {}, env |-> <<>>, agent_profile |-> {}]

Lead(id, dir) == [id |-> id, directory |-> dir, prompt |-> "go", branch |-> {}, model |-> {},
                  tools |-> {}, timeout_secs |-> {}, use_worktree |-> {}, env |-> <<>>,
                  max_workers |-> {}, budget_usd |-> {}, lead_budget_usd |-> {},
                  lead_timeout_secs |-> {}, permission_routing |-> "path_b",
                  allow_subleads |-> FALSE, max_subleads |-> {},
                  max_sublead_budget_usd |-> {}, max_total_workers |-> {}, agent_profile |-> {}]

SubleadDefaults == [budget_usd |-> {}, max_workers |-> {}, lead_timeout_secs |-> {},
                    read_down |-> FALSE]

McpServerSpec(id) == [id |-> id, scope |-> {}, tools |-> {}]

\* A path is absolute, begins with a tilde, is relative, or is on the mount denylist.
ContainerConfig == [extra_apt |-> <<>>, extra_args |-> <<>>, copy |-> <<>>, mounts |-> <<>>]

CommunicationConfig == [mode |-> "disabled", max_message_bytes |-> 8, max_artifact_bytes |-> 8,
                        max_artifacts_per_actor |-> 8]

\* A notification names the variable its URL needs; a rule's action and category are words.
File == [run |-> RunConfig, defaults |-> Defaults, templates |-> <<>>, agent_profiles |-> <<>>,
         tasks |-> <<>>, lead |-> {}, sublead_defaults |-> {}, notification |-> <<>>,
         rules |-> <<>>, container |-> {}, mcp_servers |-> <<>>, worker_types |-> <<>>,
         sublead_types |-> <<>>, communication |-> CommunicationConfig,
         lifecycle |-> {}, legacy |-> {}]

-----------------------------------------------------------------------------
(* resolve *)

DEFAULT_TIMEOUT_SECS == 36
DefaultTools == {<<"Read">>, <<"Write">>, <<"Edit">>, <<"Bash">>, <<"Glob">>, <<"Grep">>}

\* The built-in profiles, each in the reserved namespace.
Builtins == <<[AgentProfile(<<"pitboss", "worker">>) EXCEPT !.model = {"haiku"}]>>

\* A profile of the manifest shadows a built-in one; duplicates in the manifest are refused.
Catalogue(m) ==
    LET all == Builtins \o m.agent_profiles
    IN  [id \in {all[i].id : i \in DOMAIN all} |-> all[Max({i \in DOMAIN all : all[i].id = id})]]

\* The profile an actor refers to, {} for none.
ProfileOf(m, ref) == {Catalogue(m)[id] : id \in ref \cap DOMAIN Catalogue(m)}
FromProfile(p, f) == IF p = {} THEN {} ELSE The(p)[f]

\* compose_prompt puts a profile's prelude, if it has one, before the operator's prompt.
ComposePrompt(p, prompt) == <<FromProfile(p, "prelude"), prompt>>

\* substitute: a template is a sequence of literals and variables; every variable must be
\* declared, and every brace closed.
Renders(t, vars) == \A i \in DOMAIN t : t[i].var = {} \/ (t[i].closed /\ t[i].var \subseteq DOMAIN vars)
Substitute(t, vars) == [i \in DOMAIN t |-> IF t[i].var = {} THEN t[i].lit ELSE vars[The(t[i].var)]]

\* A later template of the same id wins.
TemplateOf(m, id) == m.templates[Max({i \in DOMAIN m.templates : m.templates[i].id = id})]

\* Either a prompt or a template that renders, and not both.
TaskResolves(m, t) ==
    /\ t.prompt = {} <=> t.template # {}
    /\ \A id \in t.template : Has(m.templates, id) /\ Renders(TemplateOf(m, id).text, t.vars)
    /\ t.agent_profile \subseteq DOMAIN Catalogue(m)

\* Environments: the actor's own over its profile's over the defaults'.
MergedEnv(m, p, own) == own @@ (IF p = {} THEN <<>> ELSE The(p).env) @@ m.defaults.env

ResolveTask(m, t) ==
    LET p == ProfileOf(m, t.agent_profile) IN
    [id |-> t.id, directory |-> t.directory, branch |-> t.branch,
     prompt |-> ComposePrompt(p, IF t.prompt # {} THEN The(t.prompt)
                                 ELSE Substitute(TemplateOf(m, The(t.template)).text, t.vars)),
     model |-> The(Or(t.model, Or(m.defaults.model, Or(FromProfile(p, "model"), {"sonnet"})))),
     tools |-> The(Or(t.tools, Or(m.defaults.tools, Or(FromProfile(p, "tools"), {DefaultTools})))),
     timeout_secs |-> The(Or(t.timeout_secs, Or(m.defaults.timeout_secs, {DEFAULT_TIMEOUT_SECS}))),
     use_worktree |-> The(Or(t.use_worktree, Or(m.defaults.use_worktree, {TRUE}))),
     env |-> MergedEnv(m, p, t.env), resume_session_id |-> {}]

\* The lead's own timeout falls back on its session's.
ResolveLead(m, l) ==
    LET p == ProfileOf(m, l.agent_profile) IN
    [id |-> l.id, directory |-> l.directory, prompt |-> ComposePrompt(p, l.prompt),
     model |-> The(Or(l.model, Or(m.defaults.model, Or(FromProfile(p, "model"), {"sonnet"})))),
     tools |-> The(Or(l.tools, Or(m.defaults.tools, Or(FromProfile(p, "tools"), {DefaultTools})))),
     timeout_secs |-> The(Or(l.timeout_secs, Or(l.lead_timeout_secs,
                          Or(m.defaults.timeout_secs, {DEFAULT_TIMEOUT_SECS})))),
     use_worktree |-> The(Or(l.use_worktree, Or(m.defaults.use_worktree, {TRUE}))),
     env |-> MergedEnv(m, p, l.env), resume_session_id |-> {},
     permission_routing |-> l.permission_routing, allow_subleads |-> l.allow_subleads,
     max_subleads |-> l.max_subleads, max_sublead_budget_usd |-> l.max_sublead_budget_usd,
     max_total_workers |-> l.max_total_workers, sublead_defaults |-> m.sublead_defaults]

\* resolve_approval_rule knows these words.
RuleResolves(rule) ==
    /\ rule.action \in {"auto_approve", "auto_reject", "block"}
    /\ rule.category \subseteq {"tool_use", "plan", "cost", "other"}

\* A file of the schema before 0.9 does not parse, and is told from its text how to migrate.
Parses(m) == m.legacy = {}

Resolves(m) ==
    /\ Parses(m)
    /\ Unique(m.agent_profiles, LAMBDA p : p.id)
    /\ \A t \in Elems(m.tasks) : TaskResolves(m, t)
    /\ \A l \in m.lead : l.agent_profile \subseteq DOMAIN Catalogue(m)
    /\ \A n \in Elems(m.notification) : n.needs \subseteq Env
    /\ \A rule \in Elems(m.rules) : RuleResolves(rule)

\* What a resolved manifest takes from the file as it is, and what from the merging.
ResolvedManifest(m, tasks, lead, parallel, limits) ==
    [run |-> m.run, notifications |-> m.notification, rules |-> m.rules, container |-> m.container,
     mcp_servers |-> m.mcp_servers, communication |-> m.communication,
     lifecycle |-> m.lifecycle, worker_types |-> m.worker_types,
     sublead_types |-> m.sublead_types, agent_profiles |-> Catalogue(m),
     tasks |-> tasks, lead |-> lead, max_parallel_tasks |-> parallel,
     max_workers |-> limits.max_workers, budget_usd |-> limits.budget_usd,
     lead_budget_usd |-> limits.lead_budget_usd, lead_timeout_secs |-> limits.lead_timeout_secs]

\* The limits of a lead are the run's; parallelism is for flat runs only.
Resolve(m) == ResolvedManifest(m, [i \in DOMAIN m.tasks |-> ResolveTask(m, m.tasks[i])],
    {ResolveLead(m, l) : l \in m.lead}, IF m.lead # {} THEN {} ELSE Or(m.run.max_parallel_tasks, {4}),
    IF m.lead # {} THEN The(m.lead)
    ELSE [max_workers |-> {}, budget_usd |-> {}, lead_budget_usd |-> {}, lead_timeout_secs |-> {}])

-----------------------------------------------------------------------------
(* Tools of MCP servers *)

\* parse_mcp_tool_name: the server with the longest id that the name begins with, if any,
\* leaves at least one part for the tool.
Candidates(servers, tool) ==
    {i \in DOMAIN servers : /\ Len(tool) > Len(servers[i].id) + 1 /\ tool[1] = "mcp"
                            /\ SubSeq(tool, 2, Len(servers[i].id) + 1) = servers[i].id}
ServerOf(servers, tool) ==
    LET cs == Candidates(servers, tool)
        longest == {i \in cs : \A j \in cs : Len(servers[i].id) >= Len(servers[j].id)}
    IN  IF cs = {} THEN {} ELSE {servers[Min(longest)]}
ToolPart(s, tool) == SubSeq(tool, Len(s.id) + 2, Len(tool))

\* is_admitted: a server without an allowlist admits everything.
Admitted(servers, tool) ==
    \A s \in ServerOf(servers, tool) : \A allow \in s.tools : ToolPart(s, tool) \in Elems(allow)

\* filter_actor_tools_by_mcp_allowlists, for the argument list of a session.
FilteredTools(servers, tools, routing) ==
    IF routing = "path_a" THEN tools ELSE {t \in tools : Admitted(servers, t)}

-----------------------------------------------------------------------------
(* validate *)

\* A name is a word the operator may use; "" and "no good" stand for those refused.
ValidId(id) == id \notin {"", "no good"}

ModeOK(r) == (r.tasks = <<>>) # (r.lead = {})

\* A notification of the file or of [lifecycle] is well-formed by its own module's rules.
NotificationsOK(r) == \A n \in Elems(r.notifications) : n.valid
LifecycleOK(r) == \A l \in r.lifecycle :
    /\ \A n \in l.notify : n.valid
    /\ l.survive_parent => l.notify # {} \/ r.notifications # <<>>

RESOURCE_SAMPLE_SECS_MAX == 3600
RunSettingsOK(r) == r.run.resource_sample_secs <= RESOURCE_SAMPLE_SECS_MAX

ContainerOK(r) == \A c \in r.container :
    /\ \A p \in Elems(c.extra_apt) \cup Elems(c.extra_args) : ValidId(p)
    /\ \A s \in Elems(c.copy) \cup Elems(c.mounts) :
          s.container = "absolute" /\ s.host \in {"absolute", "tilde", "forbidden"}
    /\ \A s \in Elems(c.mounts) : s.host # "forbidden"

CommunicationOK(r) == 0 \notin {r.communication.max_message_bytes,
    r.communication.max_artifact_bytes, r.communication.max_artifacts_per_actor}

ActorTypesOK(r) ==
    /\ \A ts \in {r.worker_types, r.sublead_types} :
          Unique(ts, LAMBDA t : t.id) /\ \A t \in Elems(ts) : ValidId(t.id)
    /\ r.run.require_actor_type /\ r.lead # {} => r.worker_types # <<>> \/ r.sublead_types # <<>>

BlockUntypedOK(r) ==
    r.run.untyped_actor_policy = "block" => r.worker_types # <<>> \/ r.sublead_types # <<>>

TypeIds(r) == {t.id : t \in Elems(r.worker_types) \cup Elems(r.sublead_types)}

\* A scope reads "type:<id>".
ServerScopesOK(r) == \A s \in Elems(r.mcp_servers) : s.scope \subseteq TypeIds(r)

ServerToolsOK(r) == \A s \in Elems(r.mcp_servers) : \A ts \in s.tools :
    ts # <<>> /\ Unique(ts, LAMBDA t : t) /\ <<"">> \notin Elems(ts)

\* No actor lists a tool its server does not admit.
ToolConsistencyOK(r) ==
    \A x \in Elems(r.tasks) \cup r.lead \cup Elems(r.worker_types) \cup Elems(r.sublead_types) :
        \A t \in x.tools : Admitted(r.mcp_servers, t)

\* The pitboss namespace is reserved, and types refer to profiles there are.
AgentProfilesOK(r) ==
    /\ \A id \in DOMAIN r.agent_profiles :
          /\ \A i \in DOMAIN id : ValidId(id[i])
          /\ Len(id) > 1 /\ id[1] = "pitboss" => Has(Builtins, id)
    /\ \A t \in Elems(r.worker_types) \cup Elems(r.sublead_types) :
          t.agent_profile \subseteq DOMAIN r.agent_profiles

SettingSourcesOK(r) == \A ts \in r.run.claude_setting_sources :
    ts # <<>> /\ Unique(ts, LAMBDA t : t) /\ Elems(ts) \subseteq {"user", "project", "local"}

LeadOK(r, skipDirs) == \A l \in r.lead :
    /\ l.prompt[2] # "" \/ l.prompt[1] # {}
    /\ ValidId(l.id)
    /\ ~ skipDirs => l.directory \in Dirs /\ (l.use_worktree => l.directory \in Repos)
    /\ l.timeout_secs > 0

\* Every limit that is set is positive; a lead has at most 16 workers.
HierarchicalRangesOK(r) ==
    /\ \A n \in r.max_workers : n \in 1 .. 16
    /\ \A n \in r.budget_usd \cup r.lead_timeout_secs : n > 0
    /\ \A l \in r.lead : \A n \in l.max_subleads \cup l.max_total_workers \cup l.max_sublead_budget_usd : n > 0

\* A spawn_sublead that names no envelope needs defaults to fall back on.
SubleadDefaultsOK(r) == \A l \in r.lead : l.allow_subleads =>
    \E d \in l.sublead_defaults : d.read_down \/ (d.budget_usd # {} /\ d.max_workers # {})

IdsOK(r) == Unique(r.tasks, LAMBDA t : t.id) /\ \A t \in Elems(r.tasks) : ValidId(t.id)
DirectoriesOK(r) == \A t \in Elems(r.tasks) :
    t.directory \in Dirs /\ (t.use_worktree => t.directory \in Repos)
BranchesOK(r) == \A i, j \in DOMAIN r.tasks :
    LET a == r.tasks[i] b == r.tasks[j] IN
    i # j /\ a.use_worktree /\ b.use_worktree /\ a.directory = b.directory
        => a.branch = {} \/ a.branch # b.branch
RangesOK(r) == 0 \notin r.max_parallel_tasks /\ \A t \in Elems(r.tasks) : t.timeout_secs > 0

Valid(r, skipDirs) ==
    /\ ModeOK(r) /\ NotificationsOK(r) /\ LifecycleOK(r) /\ RunSettingsOK(r) /\ ContainerOK(r)
    /\ CommunicationOK(r) /\ ActorTypesOK(r) /\ BlockUntypedOK(r) /\ ServerScopesOK(r)
    /\ ServerToolsOK(r) /\ ToolConsistencyOK(r) /\ AgentProfilesOK(r) /\ SettingSourcesOK(r)
    /\ IF r.lead # {}
         THEN LeadOK(r, skipDirs) /\ HierarchicalRangesOK(r) /\ SubleadDefaultsOK(r)
         ELSE IdsOK(r) /\ (skipDirs \/ DirectoriesOK(r)) /\ BranchesOK(r) /\ RangesOK(r)

\* load_manifest, which container-dispatch calls without the check of directories.
Loads(m, skipDirs) == Resolves(m) /\ Valid(Resolve(m), skipDirs)
=============================================================================
