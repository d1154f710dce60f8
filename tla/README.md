# pitboss: a TLA+ verification project

pitboss dispatches agent sessions: a flat list of tasks, or a tree with a root lead,
sub-leads, and the workers each of them spawns. One dispatcher process (`pitboss-cli`,
on a multi-threaded tokio runtime) owns a run, serves it over MCP and over a control
socket, charges it to a budget and writes its records. Beside it a terminal console
(`pitboss-tui`), a web console (`pitboss-web`) and commands (prune, resume, status,
container builds) work on the same directory and socket. Almost everything that can go
wrong goes wrong *between* two awaits, two locks, two writes or two processes. That is
what this project models: one module per mechanism, checked with TLC on small
instances and, where the argument carries, proved with TLAPS for all of them.

`K` below is `src/crates/pitboss-core/src`, `C` is `src/crates/pitboss-cli/src`, `T` is
`src/crates/pitboss-tui/src`, `W` is `src/crates/pitboss-web/src`.

## 1. Inventory

| part | state it keeps | operations | interacts through | what is hard | what makes it correct |
|---|---|---|---|---|---|
| cancel tokens and cascades (`K/session/cancel.rs`, `C/dispatch/{signals,layer,state}.rs`) | three watch channels per actor; the maps of children | drain, terminate, cascade, register, cancel_run, finalize | watch channels, maps under RwLocks | fire-once watchers against registrations in flight; a token is written by separate sends | no registered child of a drained layer stays undrained |
| worker lifecycle (`C/mcp/tools/{spawn,lifecycle}.rs`, `C/control/server.rs`, `K/session/handle.rs`) | per task id: state, pid slot, token, auth token, layer index; per incarnation: child and task | spawn, pause, freeze, continue, reprompt, cancel | maps keyed by task id and shared by all incarnations | a tail of an old incarnation against a resume; two requesters | no child out of reach; Done follows the record; killed sessions end |
| budget (`C/mcp/tools/spawn.rs`, `C/dispatch/{sublead,budget_watch}.rs`) | spent, reserved and lead spend per layer; kill switch | reserve, release, charge, roll-up, observe, abort | three counters under three locks | money moves between counters in several steps while others sum them | nothing reserved over the cap, nothing leaked, the total accounts for every dollar |
| shared store (`C/shared_store/*`, `C/mcp/server.rs`) | keys with versions and sizes, leases, event channel; run-global leases | set, cas, wait, acquire, release, prune, cleanup | broadcast channels; a read guard on the map of sub-leads | lost wake-ups, stale lease ids, lock convoys | no waiter sleeps beside what it waits for; no live lease is stolen |
| approvals (`C/mcp/approval.rs`, `C/mcp/policy.rs`, `C/control/server.rs`, `C/dispatch/runner.rs`) | writer slot, bridge, queue, rules | request, drain, replay, approve, expire, update_policy | oneshot responders moved between two containers | consoles that displace each other; timeout against answer against TTL | no responder lost; nobody told what nobody decided; TTL covers all |
| end of a run (`C/dispatch/{hierarchical,kill_resume,sublead}.rs`, `C/mcp/tools/wait.rs`, `K/store/*`) | map entries, completion channel, summary.jsonl, sub-lead results | tails, waits, drain, synthesize, write summary | one bounded broadcast channel | subscription against completion, lag, deadline, concurrent appends | no missed completion; every drained actor reported once; honest exit code |
| event stream (`C/dispatch/{layer,state}.rs`, `C/control/{event_log,server}.rs`, `W/control_bridge.rs`) | sequence counter, ring, jsonl file, queue per connection, web channel per run | broadcast, persist, announce gaps, direct messages, displacement, fan-out | lossy broadcast channels, a file | number and send are two steps; lag at three hops; writes that fail | one order for all readers; the log announces its holes; nobody is left on a dead stream |
| manifest and admission (`C/manifest/*`, `C/mcp/tools/spawn.rs`, `C/dispatch/sublead.rs`) | resolved manifest, registries, health gate, rules | load, resolve, validate, spawn, prompt | maps, tool calls | gates are checked long before the insert; types are looked up through an index that ends of others change | no session gets more than the manifest says; caps are exceeded only by calls that raced |
| identity, messages, artifacts (`C/mcp/{server,bridge}.rs`, `C/communication.rs`) | token map, layer index, mailbox, artifacts, journal | mint, rebind, revoke, send, ack, put, grant, steer, reopen | token map, tree look-ups, append-only file | a tail of the killed incarnation against its successor's token; files and journal are written apart | access follows the true tree; live sessions are heard; what was answered is kept |
| sessions and flat runs (`K/session/*`, `K/parser/*`, `K/worktree/*`, `C/dispatch/runner.rs`, `C/notify/*`, `C/dispatch/resource_watch.rs`) | child, pipe, accumulators; permits, worktrees, records; dedup cache; pressure level | start, stream, timeout, terminate, conclude; halt, Ctrl-C, summary; emit, retry; sample | semaphore, token, pipes, git | children that ignore signals or leave a pipe open; halt against a task already admitted | records, outcome, summary and exit code are true; drains hold; every run ends |
| files of a run (`K/store/*`, `K/{runs,stream,atomic_write}.rs`, `C/prune.rs`, `C/dispatch/{resume,background}.rs`) | summary.jsonl, summary.json and its temporary file, SQLite database, derived images | append, finalize, follow, prune, resume, migrate, build | files | crashes between writes; two writers of one temporary file; concurrent migrations | no record of a returned append is lost; readers miss nothing; live runs are not pruned |
| consoles (`T/*`, `W/insights/*`, `W/api/insights.rs`) | screen state, snapshot and control channels, connection; insights cache | draw, keys, snapshots, reconnect, switch of run; cached build | threads and channels; control socket | snapshots dropped; focus moved under the operator's finger; a switch with old events in flight | operations hit what was on the screen; requests stay listed; the console catches up; pages are fresh |
| audit log, prices, schema crates, reports, front end | none the dispatcher reads back | | | sequential or pure I/O | |

The interactions that matter: a spawn passes its gates, reserves money, enters the maps
and registers a token, in this order; a cancel walks those maps; a session's tail
writes the record, releases and charges, marks Done, cleans up and announces; waits
and finalize listen to the announcements; a sub-lead's end moves its whole layer out of
the map that cancel, waits, finalize, permission prompts, messages and the budget
observer walk. Several of the disagreements in section 7 come from that last move.

PROJECT.json lists every part with its status, and the hazards by source line.

## 2. Plan

Modelled, in the order of importance:

1. `CancelCascade`: a run that cannot be stopped costs money.
2. `WorkerLifecycle`, 3. `BudgetLedger`, 4. `SharedStore`, 5. `Approvals`,
   6. `RunEnd`: the concurrent core of a hierarchical run.
7. `EventStream`, which implements the abstract `EventFeed`.
8. `Admission` on `Manifest` and `Preflight`.
9. `Messages`.
10. `FlatRun` on `Sessions`, `Notify` and `ResourceWatch`.
11. `RunFiles` on `RunDirectory`, `SqliteStore` and `Containers`, which implements the
    abstract `RecordKeeping`.
12. `Console` on `ConsoleState`, `ConsoleKeys` and `Insights`.

Proved: the safety invariants and action properties of 1 to 6 and of 9, those of 10 but for the
measures, for 7 the log's invariant and the refinement of `EventFeed`, and for 8 the caps, the gate
and the prompts (section 6). Left, first to be strengthened to an inductive invariant that the
module's run checks:

- `RunFiles`: the refinement of `RecordKeeping`, for the JSON store.
- `Admission`: what `ManifestIsHonoured` says of sessions.

## 3. Modules

Every specification module has its state as variables, one action per step between
two awaits (or per lock-protected section), and `Spec`/`FairSpec`. Operators named
`X_...` in front of a definition are its mutants: what the code would be after a
plausible mistake. Where a component has many operations, the variable `menu`
(`scenario` in `Admission`) fixes at the start of a behaviour which of them may
happen; a run's menus are the scenarios it explores, and within each TLC explores
everything.

**CancelCascade** A token is `drain`, `term` and `reason`. Every task that can send is a
process: `out[p]` holds the sends it has decided on (`CancelToken::terminate` and
`terminate_with_reason` are up to three), `kids[p]` the children it has still to visit
under the read lock of the map it walks. `WatchFirst .. WatchEnd` are the watchers
of `signals.rs`; `RegisterSublead .. CascadeToSublead` are `register_sublead`;
`RegisterWorkerCancel`, `CascadeToWorker` are `register_worker_cancel`; `ResumeCheck`,
`ResumeInsert` are `spawn_resume_worker`, which does it differently; `CancelRun*` is
the control operation, `Finalize*` the cascade of `run_hierarchical`.

**WorkerLifecycle** One task id and up to `MaxInc` incarnations. `st`, `pidOf`, `tokenOf`
are the shared map entries, `proc`, `tail`, `killed` per incarnation. `Tail*` are the
steps of `run_worker`'s tail in source order, also that of a worker whose worktree could not
be made; `Pause*`, `Continue*`, `Reprompt*`, `Cancel*`, `CancelRun*` the handlers of `lifecycle.rs` and `control/server.rs`, cut where
they let a lock go; `Resume*` is `spawn_resume_worker`. A stopped child ignores SIGTERM
until the SIGKILL after the grace (`Exit`).

**BudgetLedger** Dollars are naturals. `wpc` follows a worker from `handle_spawn_worker`'s
checks through release and charge, `spc` a sub-lead from `resolve_envelope` to the
roll-up of `reconcile_terminated_sublead`, `obs` the three reads of the usage observer,
each of a different moment and skipped when contended. `asked`, `going`, `extra` follow the
sessions a continue or reprompt starts for a worker; the model charges them to nobody, as the
code does. Guards that only refuse and read
no counter (model allow-lists, API health) are left out.

**SharedStore** Per layer: versions, sizes, `total`, leases, and the receivers of the
event channel, which drop their oldest message when full and then report Lagged.
`lockQ`, `readers`, `writer` are the fair read-write lock on `state.subleads` that a store
call holds from its routing to its answer. `Expire` and `Timeout` let a deadline pass at
any moment. `Disconnect` and `ReleaseRunLeases` are the connection's cleanup; `SessionTail` is the
other caller of `release_all_held_by`, a worker's tail or a sub-lead's reconcile.

**Approvals** A request's responder is where its entry is: with its caller, in `queue`, in
`bridge`, or with whoever took it out. `Route`, `Send`, `Push` are `ApprovalBridge::request`
cut at its locks; `LockQueue .. Replay`, `Pump`, `CloseConn` are `serve_connection`;
`ScanQueue`, `ListBridge`, `ScanBridge`, `Expire` the TTL watcher, which takes entries out, records and
answers in separate steps; `Timeout`, `Evict` the caller's own. `Exit` is
the end of an asking session that exited 0, whose status `approval_driven_termination` may
replace by the last answer it was given.

**RunEnd** `SetUp`, `Launch` and `SetUpFails` are `run_hierarchical` up to the lead's first
session; `at[a]` is where an actor's task is. `WriteLine`, `EndLine`, `Remove`,
`MarkDone`, `Settle`, `Announce` are the tails of workers, sub-leads and the root lead;
`append_record`'s two writes are two actions. `Wait .. WaitTimeout` are `wait_actor` and
`wait_for_any` with their subscription taken before the first look. `Capture ..
WriteSummary` are `run_hierarchical` from the end of the lead to the exit code. The run's token
(`Draining`) is tripped by Ctrl-C, the console's cancel_run, a breach of the root's budget and
finalize itself; `Capture` reads it before finalize does.
`LoopTurn` is the kill+resume loop. Workers run one session here (the rest is
WorkerLifecycle) and a terminate reaches its tokens in one step (the rest is
CancelCascade).

**EventFeed, EventStream** `Draw` and `Send` are the two halves of
`broadcast_control_event`; `bus` is everything sent, and a reader has a position in it,
which jumps when it falls more than `BusCap` behind. `PersistStep` is the task that writes
events.jsonl, with its gap record after a lag and what a failed or torn write leaves;
`Hello .. Hangup` are a control connection (subscription, bounded queue, pump, direct
messages, displacement by another writer); `WebStep`, `Open .. StreamEnds` the web server's
one subscription per run and its browsers (its second connection, in writer mode, is one of the
consoles). A content is its number. `EventFeed` is the promise: the events have
one order, and what a reader, be it the log, a console or a browser, is shown next comes behind
what it was shown before. Its `seen[r]` is a set of marks, a place on the reader's stream with the
event that stands there; `Seen` reads the marks off the lines of `EventStream`'s readers.

**Manifest, Preflight, Admission** `Manifest` is the file with its defaults, `resolve` and the checks
of `validate` as operators on records; an `Option` is a set of at most one element and a
tool's name the sequence of its parts. `Preflight` is what `validate --capability-matrix` and
`tree --check` tell of it beforehand. `Admission` loads one, then lets calls of
`spawn_worker` and `spawn_sublead` pass their gates in the source's order and insert in a
later step, builds the session (tools, servers, model, timeout, environment, routing),
lets workers end with a reason, be resumed or outlive their sub-lead, and answers
`permission_prompt`. `MatrixIsTrue` holds the matrix against every session's MCP
configuration, `EnvelopeCovers` the worst case of `tree --check` against the envelopes
that were carved. Budgets are BudgetLedger's: here a check of the budget may refuse.

**Messages** A scenario fixes a few calls; each passes `authenticate_and_rebind`, the
look-ups of the caller's and the target's place in the tree (which go through maps that
ends, tails and resumes change between two look-ups), and the steps of its handler.
`journal` is a sequence of tokens, so that a torn line and what is appended behind it are
what the reader of the file sees. `Crash` and `Reopen` rebuild the store from it.
`ListWorkers` is the control operation that walks root, live and ended layers one after the
other; `ListIsWhole` says what its answer holds when sub-leads end on the way.

**Sessions, Notify, ResourceWatch, FlatRun** `Sessions` is one `run_to_completion`: child,
pipe, parsed lines, log, timeout, cancel, grace, kill, a pipe kept open by a grandchild,
and `TaskStatus` and the failure reason concluded from them. `outcome` is what
`run_to_completion` read when it returned: a stream loop left behind on a pipe that a
grandchild keeps open still fills the accumulators, but no longer the outcome. A script fixes
what a child does when left alone. `Notify` is the router (filter, dedup with its bound, emit tasks that
retry; the write of the line about a failed one may fail, and the counter is raised all the same),
`ResourceWatch` the sampler. `FlatRun` is the dispatch around them, from the run
directory to the exit code, with worktrees and branches as git keeps them; the removal of a worktree
may fail, and nobody looks. A router always has a run directory here, since `entrypoint.rs:152` gives
it one before the first dispatch.

**RunDirectory, SqliteStore, RecordKeeping, Containers, RunFiles** `RunDirectory` is a run's
directory as its readers classify it: summary.jsonl as tokens, summary.json and its shared
temporary file as names of inodes. `FinalizeWrite` writes the records in memory for a flat run and
those read back from summary.jsonl for a lead run; a summary made of the meta alone holds the time
it was made, so that two prunes write different bytes. Of `jsonl_tail_is_safe` only the test of the
length is kept: nobody rotates the file. `SqliteStore` adds the migrations that every connection
runs, each looked up, applied and recorded in separate statements. `Containers` is build,
launch and prune of derived images. `RunFiles` puts the users beside each other: dispatcher,
launcher, two prunes, a follower, resume. `RecordKeeping` is what either store promises.
`prune --include-aborted`, and prune of a flat run, are explored only after the run ended
(section 7 says why), hours without a record pass only while a task is at work or after a
crash, and `older_than` is left out.

**ConsoleState, ConsoleKeys, Insights, Console** `ConsoleState` holds the methods of
`AppState` and the parts of drawing that leave something behind (areas that can be
clicked, clamped scroll), `ConsoleKeys` the handlers of keys, clicks and control events, as
operators from record to record. `Console` runs the loop against the watcher, the
forwarder, the diff threads, a dispatcher and a rival console. `Insights` is what the web
pages compute, and `RequestBegins .. RequestStores` in `Console` the cache they share; the
modification time it is stamped with has a tick, within which a new run need not move it.
Reading the run directory is one step; model names, token figures, store activity and colours are left out.

The modules share the tree (layers, workers, `LayerOf`) and not their state; each
over-approximates the others' effect on it (a session may end at any time, a
registration may fail at any step), so a property of one module does not rely on
another being right.

## 4. Runs

All runs set `CHECK_DEADLOCK FALSE`: every behaviour here is a run that ends, or a
bounded number of requests that is used up. Being stuck is covered by the liveness
properties instead. A property that joins several statements is a conjunction of named
parts, each with its comment; the table names the parts.

| run | bounds | what it shows |
|---|---|---|
| cancel_cascade | one sub-lead, a spawned and a resumed worker in it, a root worker; four scenarios of up to two cancels | `NoMissedDrain`; `CancelReachesEveryone`: reason before terminate, drained with it, finalize terminates every worker of a live layer, cancel_run leaves nobody out; `DrainReachesWorkers` |
| worker_lifecycle | 3 incarnations, 4 requests, one requester with every operation, two with those that resume | `EveryLiveSessionIsCancellable` under one requester; `DoneIsTrue`: record before Done and its child gone, Done hides no session but the successor of a replaced one, nothing left behind after the announcement, a settled worker nobody left paused is Done; `KilledSessionsEnd` |
| budget_ledger | up to 2 workers and 2 sub-leads at a time, resumed sessions, budget 3, envelope 2, costs 1 and 2, with and without budget_usd | `ReservationsFitBudget`; `LedgerIsExact`: nothing leaked or returned twice, the total is the real spend at every moment but for what `Missing` and `Twice` name; `LeadSpendNeverDrops`; `RootOverrunAborts` |
| shared_store | two callers at a time, 3 keys against limits of 2, channel capacity 1, two lease names | `StoreIsSound`: no lost wake-up of a wait or lease waiter, cleanup complete, byte total exact; `LeaseIsNotStolen`; `CallsReturn` |
| approvals | two requests, two consoles, channel of 4, rules that change, a profile, an allow-list | `NoLostResponder`; `AnswersAreTrue`: told is decided, a request stays on the attached console's screen, a session is recorded as rejected or timed out only if it was told so; `SlotIsKept`; `TtlCoverage` |
| run_end | a root worker, a sub-lead with a worker, one wait, channel capacity 1, a set-up that may fail, disk errors, Ctrl-C twice, cancel_run, a budget breach, one reprompt | `RunEndIsTrue`: no missed completion, one record each, drained actors reported, an exit code that follows from what tripped the token before the lead ended and from the records; `WaitsAnswered`; `DrainNeedsNoDeadline` |
| event_stream | two producers, three events, two consoles, web server and browser, capacities 1, two failed writes | `OneOrder`: refines EventFeed; `LogIsTrue`: holes are announced, a failed write costs one line and the one joined to it; `StreamsSettle` |
| admission | two workers, two sub-leads, a manifest for each check of validate and some that pass, clock of 4 | `ManifestIsHonoured`: accepted manifests are sound, sessions and prompt answers stay within them, the capability matrix and the budget envelope told beforehand are true; `CapsHoldUnlessRaced`; `ToldIsGated` |
| messages | root lead, two sub-leads, three workers, one of them resumed; up to three calls at a time | `AccessFollowsTree`: nobody reaches what is not below or beside him, the listing of actors misses only a sub-tree in the gap of its removal; `LiveSessionsAreHeard`; `AnsweredIsKept`: journal and artifact files keep what was answered |
| flat_run | up to three tasks, one or two permits, two sinks, cache of 2, log tail of 3, two Ctrl-C, failed writes and removals | `FlatRunIsTrue`: summary, exit code, worktrees, notifications, memory banner; `MeasuresAreTrue`: outcomes and high-water marks; `HaltHolds`; `RunEnds` |
| run_files | up to three records of three tasks, two prunes, two SQLite connections, two manifests with images, a crash anywhere | `FilesAreTrue`: live runs spared, torn summaries heal, follower exact, resume picks the right session, migrations and images keep what they hold; `KeepsRecords`: refines RecordKeeping; `FollowersEnd` |
| console | two runs, three tasks, two sub-leads, one tile to a row, snapshot channel of 3; three runs on disk, cache TTL 2 of a clock of 4 | `ConsoleIsTrue`: operations match the screen, requests stay listed, clicks hit rows; `FocusLossIsAnnounced`; `InsightsAreTrue`: pages are fresh and add up; `ConsoleSettles` |

The bounds are small because the hazards are: each needs one or two tasks in flight
and one more that interferes, and the smallest channel (capacity 1) that can lag. Two
siblings under one layer differ in nothing the code reads but their order in a map.
What larger instances could add is more of the same pair; where that matters most
(cascades, reservations) it is proved instead. Bounds that are not the code's: the clock
(`MaxNow`, `ClockMax`), how long a build takes (`BuildMax`), focus messages in flight
(`InboxCap`), runs opened one after the other (`MaxOpens`), incarnations (`MaxInc`), requests
and calls (the menus). `SnapshotCap` is 3 rather than the code's 4: with as many early
snapshots as slots the last one may be dropped while the grid is still empty, and nothing
asks for another (section 7).

Pure operators are checked by `ASSUME`s of the MC modules: the guards on sink urls
(`UrlGuards`) and the look-up of a run by prefix.

## 5. Fairness

The runtime polls every ready task and each task modelled is a finite list of steps, so
the steps of tasks are weakly fair (per task in RunEnd and Approvals; as one action in
CancelCascade, WorkerLifecycle, BudgetLedger and SharedStore, which is weaker and
suffices there). Timers of the tokio runtime fire, so `Timeout` (SharedStore) and `Age`
(Approvals) are fair, and in RunEnd the session of a worker or sub-lead ends, since
every session has a `timeout_secs`; the root lead's need not, so that no wait counts as
answered because the run is over. In WorkerLifecycle the exit is fair only for killed
children (SIGKILL). In EventStream the persister, the web server's tasks and a browser
that reads are fair. In FlatRun the loop, the task futures and the sessions are, with
their timers; a child marked slow never ends by itself. In RunFiles only the follower's
poll is. In Console the loop (it polls with a timeout), the watcher and the forwarder are,
per thread, in the scenarios that ask for progress (`menu.live`); Admission and Messages
state safety only. Nothing is assumed of people: spawns, requests, reprompts, Ctrl-C,
keys, consoles that attach or answer are never fair, nobody has to connect or crash, and
neither are the deadlines of the drain and of the waits in RunEnd fair, because the
properties there say that these are not needed.

## 6. Proofs

Every theorem holds for all values of the constants that satisfy the named assumptions of the
component's module: no bound of a run appears in them except as a parameter. Each inductive
invariant was first checked with TLC on the component's run.

**`ActorProofs`**, the cascades, from `TreeAssumption` and `ScenarioAssumption` (a tree of any size):

- `TypeCorrect`: `Spec => []TypeOK`.
- `TerminateDrains`: a terminated token is draining. Inductive together with
  `PlansDrainFirst`: a plan that has reached its terminate send has made its drain send.
- `DrainMissesNobody`: `Spec => []NoMissedDrain`. Not inductive: it speaks of the moment
  when handler and watcher have finished. `DrainInv` says who *owes* a drain before that:
  a registered child of a draining layer has it, or its handler has not cascaded yet, or
  the layer's watcher has not been woken, or the child is still among the watcher's
  `kids`. The step that needs care is the registration during a walk: the map's lock
  excludes it, and behind the walk the handler reads the token after its insert.
- `CancelReaches`: `Spec => []CancelReachesEveryone`, all parts of the run's invariant. `CancelInv`
  adds `RegistryInv` (the order of a registration), `ReasonInv` (a terminate on its way has
  sent its reason first), and for finalize and cancel_run which child is still owed what by
  which walk (`FinalizeInv`, `CancelRunInv`).

**`ActorProofs`**, the lifecycle of one worker, from `LifecycleAssumption` (any number of incarnations and operations,
finitely many requesters):

- `LifecycleInvariant`: `LifecycleInv`. `Holds` is the order of the tail (a record before Done, Done
  before the announcement, the token revoked before it), `Created` that an incarnation which a
  requester is about to launch belongs to it alone, `DoneIsComing` that somebody will
  still write Done unless the worker was left paused, `OneAtATime` that with one requester every token that was replaced had been
  terminated.
- `DoneStaysTrue` (`DoneIsTrue`) and `SessionsStayCancellable` (`EveryLiveSessionIsCancellable`).

**`ActorProofs`**, admission, from `IdsAssumption`, `AdmissionScenariosAssumption` (finitely many ids,
told apart; limits that are numbers, in any manifest and any call) and `BackoffAssumption`:

- `AdmissionInvariant`: `AdmissionInv`. `AdmissionOK` says by a worker's state what its two processes
  can be, that its layer's sub-lead is live or gone, and that a run's limits are those of its file.
- `CapsStayHeld` (`CapsHoldUnlessRaced`). Not inductive, since a call between gate and insert is in
  no map: `CapInv` counts who holds a place *or is about to* (`Placed`, `PlacedSubs`), without the
  workers that were reprompted, which come back past the cap. A call that passes the gate finds
  fewer active than the cap, and besides those only the calls that `peak` has counted.
- `ToldStaysGated` (`ToldIsGated`). `GateInv` follows a failure from the step that records it: it is
  in the health record, or a later one replaced it: a credential's, which shuts the gate for longer,
  or a limit's, which another worker hit.
- `PromptsStayInType` (`PromptsHonourTypes`, a part of `ManifestIsHonoured`). `AskInv` says that who asks
  is alive, that what it asks for has passed the servers' lists, and that the index finds the layer
  of a first incarnation until its tail ends; `FoundIsTrue` draws from it when a type is not found.

**`BudgetLedgerProofs`**, from `BudgetAssumption` (finitely many workers and sub-leads, any budget):

- `LedgerInvariant`: the inductive invariant `LedgerInv`. Its part `LeadSpendIsCommitted` (a
  lead's recorded spend is at most baseline plus running iteration) makes monotonicity inductive.
- `ReservationsFit`: no capped layer reserves more than its budget, because check and
  add happen under one lock on `reserved_usd`.
- `LeadSpendMonotone`: no kill+resume, reconcile or abort lowers a lead's recorded spend.
- `ExactInvariant`, `LedgerStaysExact`: `LedgerIsExact`, for reservations and for the total. The total is
  the identity Total + Missing = Actual + Twice, at every moment and not only when all has settled.
  Missing names the sessions that are never charged (resumed ones), the workers between exit and
  charge, the sub-trees between map and roll-up and what is charged to them later; Twice the
  sub-leads charged and still in the map. It is not inductive: the roll-up copies a layer's
  counter to the root. `SpentIsBooked` says what the counters add up to at any moment, the
  rolled-up snapshots included, and `WorkerBook`, `SubBook`, `LeadBook` say by the stage of each
  worker and sub-lead which of its terms are zero.

**`ApprovalsProofs`**, from `ApprovalAssumption` (any requests, consoles, rule sets, channel capacity):

- `ApprovalInvariant`: `ApprovalInv`. `Held` says where a responder is by the position of its
  caller (with the caller, in the queue, in the bridge, or answered), with the one exception of
  the entry that a drain moved while its caller was timing out; `Decided` that there is one
  decision and the answer is it; `Latest` relates the answer to `last_approval_response`;
  `WriterInv`, `ReplayInv`, `ShownInv` that the console in the slot shows or will replay what waits.
- `ResponderIsHeld` (`NoLostResponder`), `AnswersStayTrue` (`AnswersAreTrue`), and the action
  property `SlotStays` (`SlotIsKept`).

**`RunEndProofs`**, from `Ids`, `Layers`, `Bounds` and `MenuShape` (any tree):

- `RunEndInvariant`: `RunEndInv`. `Trail` orders an actor's record, entry and announcement; `Alert` is
  why no wait sleeps through its answer: from where a wait has looked on, its receiver was open,
  so it hears of the end, by the message or as Lagged; `FinInv` is what each stage of
  `run_hierarchical`'s tail has established, among it that whoever left the drain set has its record.
- `RunEndStaysTrue`: `RunEndIsTrue`. The exit code needs that finalize's own terminate comes after
  `Capture`, and that a lead stopped by the token had it tripped before.

**`SharedStoreProofs`**, from `StoreAssumption` (any actors, layers, keys, leases, channel capacity;
the sets of keys and lease names are finite, and tasks, layers and callers have different names):

- `StoreInvariant`: `StoreInv`. `SendInv` is the key to the wake-ups: a task that starts its next
  operation has nothing left to send, so a write that no waiter has in its queue is in some
  task's hands; `QueueInv` and `CallInv` say where a call is by its operation; `LeaveInv` says what a
  connection may still hold during each step of its cleanup.
- `StoreStaysSound` (`StoreIsSound`: no missed write, no forgotten waiter, the total counts every
  stored byte once, who is gone holds nothing but late grants) and the action property
  `LeasesAreNotStolen` (`LeaseIsNotStolen`).

**`MessagesProofs`**, from `TreeAssumption` (any workers and finitely many sub-leads, each worker under the
root or a sub-lead) and `MenuAssumption` (any finite set of calls; a call that names an item names one
of the kind its tool takes, since the code answers an unknown id with NotFound; after a crash the
root lead is the only actor):

- `MessagesInvariant`: `MessagesInv`. `Stage` and `Permitted` say what a handler has established by its
  position. They speak of the *true* tree, so that they survive the ends, resumes and moves that
  change the maps the code looks in; `Fixed` (the recipient of a settled call and an answer never
  change, and a grant is never taken back) is why a step of one call keeps what is known of another.
  `TokenInv` is that a live session has its token. `JournalInv` says that an answered call's
  record is whole unless spoilt, and behind that of the item it names if that had been answered
  when the call was made; `FileInv` and `CountInv` tie journal, memory and files together, also
  while the dispatcher is down. `ListInv` says which layers a listing has visited by where it is.
- `AccessStaysInTree` (`AccessFollowsTree`), `LiveSessionsStayHeard` (`LiveSessionsAreHeard`) and
  `AnswersStayKept` (`AnsweredIsKept`).

The attempt showed that `SubleadFiled` could fire again after a crash, for a sub-lead of the dead
dispatcher, and that the completeness of a listing is a statement about the workers the layers name,
not about those of the scenario; both were corrected in `Messages`.

**`FlatRunProofs`**, from `MenusAssumption` (any finite list of tasks, of which each names a child script;
at least one permit; any sinks; no branch in two worktrees, and none of the run's own worktrees there,
when the run begins):

- `FlatInvariant`: `FlatInv`. `LoopInv` keeps the books of the semaphore: free permits, tasks that have
  not ended and the permit in the loop's hand are `max_parallel_tasks`, and the tasks
  are taken in order. `RecordInv` and `EndInv` tie the records to the tasks that ended and the summary and
  exit code to the records, by the stage of the run. `TreeInv` follows each task's worktree from
  its preparation to its clean-up, or to the entry that a failed removal leaves. `NotifyInv` numbers the
  emits: every number is with one job, delivered, on file or `unwritten`. `BannerInv` says how the debounce stands after the last loud sample.
- `FlatRunHalts` (`HaltHolds`). The case of one permit needs the books: while the loop holds the
  permit between its last look and the launch, no task is at a point where it could fail.
- `FlatRunTellsTheTruth` (`FlatRunIsTrue`).

The attempt showed that `Sessions` let a stream loop that was left behind change an outcome already read,
so that a worktree cleaned up for a success belonged to a task recorded as failed. The code reads
the accumulators once; `Sessions` now does too (`outcome`).

**`EventStreamProofs`**, from `ActorsDiffer`, `Caps` and `MenuShape` (any actors, consoles and browsers; any
capacity of bus, queue and web channel; any number of connections, direct messages and faults):

- `StreamInvariant`: `StreamInv`. `NumInv` says that a number is drawn once and leaves its drawer's hands
  with the send, so the bus has no number twice and a number determines its place. `ClientInv` orders a
  connection: what it received, then what its queue holds, then what its position in the bus will still
  give; `WebInv` the same for the web server's hop and its browsers, of which none has what the
  server has not read. `LogInv` orders the lines of the file under the task's position. `HoleInv` is a
  balance: while no write has failed, the places before the position are those of the lines, those
  the gap records count, and the gap still to be written. `FaultInv` bounds the unreadable lines, together with a last
  line that has not been ended, by the faults there were.
- `LogStaysTrue` (`LogIsTrue`).
- `StreamImplementsFeed` (`OneOrder`): every step of `EventStream` is a step of `EventFeed` or changes nothing
  it sees. A send is `Publish`; a line that the task writes, an event that a console's pump delivers
  and one that a browser gets are `Show`, the rest are stutters. A displaced console and a direct message write to
  two streams in one step, but no event to either.

The lemmas on sums over finite sets that the budget needs are in `BudgetLedgerProofs`, those on the ranks
of the members of a finite set of numbers (`Numbering`) in `FlatRunProofs`. The
library's induction theorems cannot be instantiated by the installed provers; the lemmas
are proved instead by a least counterexample (`LeastSubset`: a non-empty set of subsets of a
finite set has a member that includes no other), the existence of the recursive function
that `SumFunctionOnSet` applies included (`SumsExist`).

Only model-checked:

- All liveness: fairness and ENABLED are beyond the prover.
- The refinement `RunFiles` of `RecordKeeping`, and `FilesAreTrue`: they rest on `SelectSeq`, `FlattenSeq`
  and folds over sequences, whose unfolding would need the same detour as sums.
- `MeasuresAreTrue` of `FlatRun`, `ConsoleIsTrue` and `InsightsAreTrue`: they compare with folds and filters over
  sequences.
- `ManifestIsHonoured` but for the prompts: sessions are built with `@@` from tables whose entries
  the manifest names, so that what holds depends on the names (a declared server could be called
  as pitboss is), and `EnvelopeCovers` sums over sets.

## 7. Known disagreements

These traces were found while modelling; TLC produced those marked (T) on these modules
with the property that the quoted text suggests. No checked property contradicts them:
where a property would, it names the exception, or the scenario leaves that step out.

Cancel:
- (T) `spawn.rs:1104`: `spawn_resume_worker` checks, then inserts, so a cancel between the two
  never reaches the resumed worker; layer.rs:81 says "All production inserts MUST go
  through LayerState::register_worker_cancel".
- (T) `signals.rs:323`: a terminate that lands after the watcher's first walk read the
  token and before its `is_terminated` check is not fanned out; signals.rs:297 says the
  second cascade "upgrades drained workers to terminated".
- (T) `hierarchical.rs:664`: workers of a sub-lead that has ended are in no map finalize
  walks; hierarchical.rs:627 says "every in-flight worker's CancelToken has been tripped".

Lifecycle:
- (T) `lifecycle.rs:284`: two continues (lead and operator) resume twice, and the first child is in
  no map; session-control.md:116 says cancel_worker is "terminating the subprocess".
- (T) `lifecycle.rs:375`: reprompt sleeps 100 ms "so the prior subprocess exits", the
  grace is seconds; both children run on one worktree.
- (T) `spawn.rs:832`: the tail of a paused session writes Done over Paused, and
  continue_worker refuses; pitboss-tui/README.md:182 says "resumable via continue_worker".
  The tail of a session that was replaced writes Done over its successor's Running in the
  same way (`DoneHidesOnlyReplaced` says that it is the only way while one requester is at
  work); `SettledIsDone` says nothing of a worker that was left paused (`held`).
- (T) `spawn.rs:839`: the first tail removes the layer index entry and a resume never
  restores it, so a resumed sub-tree worker's store calls go to the root layer.
- (T) `control/server.rs:1077`: cancel_run looks a sub-tree worker's pid up in the root's
  map and never thaws it (it ends by SIGKILL); :1053 says "root + every sublead".
- (T) `spawn.rs:1368`: a resumed worker announces to its own layer only;
  hierarchical.rs:613 says "root layer or sub-tree".
- (T) `lifecycle.rs:324`: the Running that continue_worker writes behind its SIGCONT may
  overwrite Done.

Budget:
- (T) `spawn.rs:1251-1369`: the tail of a resumed session charges nobody, the only charge of a worker
  is `spawn.rs:828`; what continue_worker and reprompt_worker cost is in no total that
  budget_usd or the summary knows (`Uncharged` in `TotalIsExact`). It reserves nothing either.
- (T) `sublead.rs:910`: a sub-lead's own cost is in two counters between its end and its removal,
  and another lead's observer aborts; budget_watch.rs:122 says "no double-counting".
- (T) `sublead.rs:329`: spent is read before the lock on reserved; with `spawn.rs:824`
  (release before charge) a finished worker is in neither number, and an envelope is
  granted over the cap. sublead.rs:323 calls the snapshot acceptable since "it only grows".
- (T) `spawn.rs:113`, `sublead.rs:230`: max_workers and max_subleads are checked long
  before the insert; README.md:294 says "hard cap".
- (T) `sublead.rs:1113`: what a sub-tree's workers charge after the roll-up is in no total.
- (T) `sublead.rs:517`: a shared-pool layer gets the root's budget as a cap on counters of
  its own; sublead.rs:164 says "shares root's pool".
- (T) `budget_watch.rs:265`: a sub-lead's cap is compared with the spend of all leads;
  protocol.rs:408 says "the sub-lead's own token spend".

Shared store:
- (T) `mcp/server.rs:1000`: a blocking acquire keeps the read guard on the map of sub-leads, a
  registration queues for it, and all other layers queue behind; lease-scope-selection.md:39
  says "Sub-tree isolation is a core guarantee".
- `mcp/server.rs:1537`: cleanup releases the leases of the root's store only; its comment
  says "every lease (per-layer and run-global)".
- (T) `leases.rs:59, 94`: Conflict and Forbidden drop the list of evicted names, so a
  waiter sleeps beside a free lease (`swallowed` in `NoForgottenWaiter`).
- (T) `spawn.rs:841`, `sublead.rs:1233`, `server.rs:1568`: run-global leases are released by the actor's
  name, so the tail of a session that was killed to be resumed takes what its successor holds
  (the second exception in `LeaseIsNotStolen`).
- (T) a call that is served while its connection is cleaned up is granted afterwards
  (`late` in `GoneHoldsNothing`).
- `run_leases.rs`'s acquire_with_wait and `SharedStore::shutdown` have no caller.

Approvals:
- (T) `approval.rs:327`: a console that attaches between the look at the slot and the push is not
  asked; approval.rs:15 says "if a TUI is attached the request is routed to it".
- (T) a rule with the action "block" falls through to default_approval_policy, so under
  auto_approve the request is approved (`mcp/tools/approval.rs:169`, `mcp/approval.rs:205`);
  book/src/operator-guide/approval-policy-reference.md:48 says block "Overrides any run-level
  default that would be permissive".
- the root lead's exit after a TTL refusal is not reclassified (`hierarchical.rs:473`), a
  worker's and a sub-lead's is.
- (T) `control/server.rs:429, 470`: drain and replay wait for room in a channel whose pump
  starts later, the drain with the queue's lock held. With more pending requests than the
  channel holds (Cap = 1 and two requests) watcher, callers and consoles all wait;
  layer.rs:33 says producers "drop on a full queue rather than block". The passing run's
  Cap exceeds its number of requests, as CONTROL_EVENT_QUEUE_CAP normally does.
- a failed pump leaves the slot with a closed channel, and requests are rejected as
  "queue full" until the connection's cleanup; an operator's answer that races the
  caller's timeout is acknowledged and counted although the caller was told a timeout.

End of a run:
- (T) `json_file.rs:65`: two appends share a line, which the reader skips; hierarchical.rs:674-682 says
  summary.jsonl carries "every Done worker's record" and is the source of truth. A lead run's
  summary.json is built from it, and a worker that is Done gets no synthesized record, so it lacks
  both (`mixed` in `RunFiles`); a flat run's does not, its records are in memory.
- (T) `hierarchical.rs:591` reads the run's token, which cancel_run and a breach of the budget
  (budget_watch.rs:304) trip as well: such a run exits 130 with was_interrupted, although nobody
  pressed Ctrl-C; book/src/getting-started/first-dispatch.md:50 says "130 — interrupted (Ctrl-C;
  tasks drained gracefully)". `ExitCodeIsHonest` says 130 only for one of the three.
- a set-up that fails after the dispatch notification leaves the run's files and a
  run_dispatched behind, with no summary and no run_finished.
- (T) a garbled line of the lead's own record makes the exit code 0 although it failed
  (`Root \notin lost` in `ExitCodeIsHonest`).
- (T) `hierarchical.rs:771`: a sub-lead stuck past the deadline gets no synthesized
  record; :688 says "an entry for every actor we know spawned". A worker that appends and
  becomes Done between the read (683) and the scan (735) is in no summary either, nor is
  one whose spawn call was in flight at the snapshot.
- (T) `wait.rs:71`: Lagged ends a wait with "completion channel closed"; layer.rs:113 says
  a lagged receiver "re-syncs from the states map".
- (T) between `sublead.rs:1096` and `:1257` wait_actor answers that the sub-lead is
  unknown, and so it does for workers of an ended sub-lead; a wait_for_any on those
  sleeps until its timeout (the exception in `WaitsAnswered`).
- (T) `hierarchical.rs:966` cannot see the layers of ended sub-leads, so a drain that
  lagged waits for its deadline (the exception in `DrainNeedsNoDeadline`).
- `layer.rs:585` says a synthetic reprompt kills the current subprocess; the loop looks
  for it only after the subprocess has ended, and drops one sent after its last look.
- `spawn.rs:66` keeps a draining run from spawning workers; spawn_sublead has no such gate.

Admission:
- (T) `spawn.rs:113`: the cap is checked long before the insert, and a reprompted worker is not
  counted meanwhile; schema.rs:1148 says "Hard cap on the lead's concurrent + queued worker
  pool" (the terms added to the cap in `CapsHoldUnlessRaced`).
- (T) `spawn.rs:1071`: a resumed typed worker is launched with the root lead's tools and timeout;
  docs/manifest-map.md:161 calls the type's a "Hard cap". Its type is not found either,
  since its index entry is gone (server.rs:193).
- `tree.rs:28`: the envelope counts max_subleads budgets, but a sub-lead that ended frees its
  slot, so a run may carve more of them one after the other, and overlapping calls exceed
  the count (the exceptions in `EnvelopeCovers`).
- `max_total_workers` is checked by spawn_sublead only, and counts finished workers; its
  doc says "Hard cap on total live workers across the entire tree".
- `validate.rs:905` accepts read_down with one of budget_usd and max_workers, and a
  spawn_sublead without the other then fails. A type's max_timeout_secs is not applied
  when lead_timeout_secs is omitted.
- schema.rs:866 says typed workers inherit the profile's "env/model/tools defaults"; tools,
  and a sub-lead's model, are not inherited.
- book/src/operator-guide/depth-2-subleads.md:31 has `max_workers = 20`, which validate refuses.
- a sub-lead whose session failed to start keeps its layer registered, so it counts towards
  max_subleads; a failed write of a worker's MCP configuration silently changes its routing
  (`spawn.rs:969`).

Messages:
- `communication.rs:168` says "`pitboss resume` rehydrates the mailbox + artifact metadata that
  existed pre-crash"; a resumed run has a new directory and never opens the old journal.
- `communication.rs:614`: the record is appended after the lock is let go, so an ack or grant may stand
  before the send or put it follows and is dropped at replay. `AnsweredIsKept` promises the order
  only of calls made after the other was answered (`prior`).
- (T) `communication.rs:445`: a torn line also swallows the next whole record (`spoilt`).
- (T) `control/server.rs:1516`: a sub-lead between its removal from the map and the push to the
  ended layers (sublead.rs:1096-1109) is in neither, so ListWorkers leaves its sub-tree out;
  the comment there says "covering every actor that's ever existed in this run".
- `server.rs:1565`: the end of a connection releases leases in the root's store only, by actor
  id, so also those of the same actor's next session.

Flat runs:
- `runner.rs:384`: the control server's handle is local to the set-up, so a flat run's socket
  is gone before its first task; its doc and server.rs:51 say it lives as long as the run.
  Such a run is classified stale after 4 hours without a record and may be pruned.
- `runner.rs:686` says a task races `await_drain()` and `await_terminate()`; handle.rs races the
  latter only.
- `notify/mod.rs:371-374` swallows a failed write of the line about a notification that was given
  up, and `runner.rs:795` a failed removal of a worktree, whose entry then stays although the
  policy says to remove it (`unwritten` in `EmitsAreAccounted`, `stale` in the worktrees' property).
- `runner.rs:600`: RunFinished is given to a detached task and the process exits at once;
  notifications.md:45 lists it as delivered; the count of failed notifications is read
  before they settle.
- `--run-dir` moves the store of a flat run but not its directory (runner.rs:624; cli.rs:66 says
  "Override run_dir from the manifest / default").
- a drain by one Ctrl-C whose tasks so far succeeded exits 0 although tasks never ran (the
  exception in `SummaryIsTrue`), and halt_on_failure hides an operator's Ctrl-C.
- resource_watch.rs:85 speaks of a resumed run's summary.json; a resumed run has a new
  directory. The sampler of a flat run sees no terminate at its normal end.
- classification takes words of ordinary output for errors; exit 0 without a result has no
  reason; `failure_classify.rs:535` moves a reset already past to next year.

Files of a run:
- summary.rs:35 says "the freshest row is canonical"; when the later row is on a mixed line,
  the older one of summary.jsonl replaces the newer one of the summary, for the snapshot
  and for a follower.
- (T) two writers of different bytes on the shared temporary file can leave a summary.json that
  does not parse: two prunes of a run that left nothing but its meta stamp different times
  (prune.rs:210); atomic_write.rs:1-5 says readers see "never a half-flushed mix". `prune --include-aborted` may do this to a run that is starting.
- `container_build.rs:89`: the tag hashes copies sorted by target, the Dockerfile copies in
  manifest order; contents are hashed before they are staged (`skew`). `docker` has no
  `image exists`, so derived images exist only with podman.
- a resumed run writes an empty manifest.snapshot.toml (main.rs:882), so resuming it again has
  no notifications, what resume.rs:83 refuses to do; a flat resume prepares a new worktree
  although resume.rs:309 says the session needs the original one; flat resume takes a task's
  last record, hierarchical resume the lead's first (resume.rs:288); `main.rs:809` resolves a
  run id in a fixed directory rather than in runs_base_dir.
- attach.rs:14 says it exits "when a stream-json Event::Result is seen"; one already in the
  history does not end it, and bytes that arrive past the measured size are read twice
  (attach.rs:253), so that line, be it the result, does not parse.
- a dry run leaves a directory that is later classified as aborted.

Consoles:
- ControlEvent::RunFinished is parsed by every client and sent by nobody: at the end of a run
  the socket closes, the forwarder stops, and the console goes on as connected, an open request
  for approval included; app.rs:971-985 dismisses it for this event "so the operator sees the run-finished
  banner instead of a frozen modal".
- `cache.rs:46-54`: a run that appears after the listing within the tick of the directory's
  modification time is hidden until the TTL (`moved` in `Due`).
- `app.rs:190` says "After this abort, no further old-run events can reach `ctrl_events_tx`";
  an abort takes effect at an await, and an event already in hand is sent after the drain.
- the diff channel is not drained on a switch, so a late diff of the old run fills the page
  of a task of the same name.
- every operation is sent by a task of its own: pause and continue may arrive in the other
  order; one sent on a dead connection is lost while the approval leaves the list.
- (T) a console opened before resolved.json exists, on a run that ends at once, can stay blank
  (SnapshotCap 2, `MenuEarly`): the burst of snapshots fills the channel, the last is dropped,
  and without a tile there is no focus message that would ask for another.
- a request takes over whatever mode is open, with its draft; a console opened before
  resolved.json exists stays blank until the first record; the sort key of the Completed
  page changes only the drawing, while j and k go by completion time; focused_subtree_idx can
  stay beyond the last sub-tree.
- `W/api/manifests.rs:364`: fork checks that the target is absent, then copies; save is not
  atomic, and dispatch reads the manifest once to choose the subcommand and pitboss again.

## 8. Not modelled

- Clients and readers that no part of a run waits for: rendering of status, list, tree, diff
  and analyze, the follower of one log (`C/attach.rs`), argument parsing (`C/cli.rs`), the
  JavaScript front end, the manifests and runs APIs of the web console (single reads and writes of files), the Slack and Discord bodies.
- Functions of text: prices, the tokenizer of failure messages (a constant of `Insights`),
  the reset time in an error message, audit and task event logs, the documentation generator.
- Generated code: the schema crates.
- The environment: git, docker and podman, SQLite's own atomicity, the operating system's
  signals. Their effects are modelled from how the code uses them.
- Within the modelled parts: log text, previews, wall-clock times, environment variables a
  property does not read, and the dump of the shared store at the end of a run.
- Liveness and recursive definitions over unbounded data are checked with TLC and not proved:
  fairness, induction with an operator parameter and RECURSIVE operators are beyond the
  proof system.
