------------------------------- MODULE Messages -------------------------------
(***************************************************************************)
(* The tool calls of a run as its MCP server sees them: the bridge that    *)
(* signs them, the identity a connection is bound to, what that identity   *)
(* may reach in the tree of actors, and the mailbox and artifact store     *)
(* with its journal.                                                       *)
(*                                                                         *)
(* A scenario fixes the calls a behaviour may make; each is made at most   *)
(* once and names what it creates.  A handler awaits between its steps, so *)
(* calls overlap with each other, with the ends of workers and sub-leads   *)
(* and with a crash, after which the store is opened again.                *)
(***************************************************************************)
EXTENDS Integers, Sequences, FiniteSets, FiniteSetsExt, SequencesExt

CONSTANTS
    Actor,      \* session to the actor it runs
    Owner,      \* worker to the actor that spawned it: the true tree
    Subs,       \* sub-leads
    Menus       \* scenarios

Workers == DOMAIN Owner
Sessions == DOMAIN Actor
ASSUME TreeAssumption ==
    /\ "root" \notin Subs /\ IsFiniteSet(Subs)
    /\ \A w \in Workers : Owner[w] \in Subs \cup {"root"} /\ w \notin Subs \cup {"root"}

CommunicationTools ==
    {"message_send", "message_list", "message_read", "message_ack",
     "artifact_put", "artifact_list", "artifact_read", "artifact_grant"}

Tools == CommunicationTools \cup {"cancel_worker", "kv_get", "kv_set"}
MessageItemTools == {"message_read", "message_ack"}
ArtifactItemTools == {"artifact_read", "artifact_grant"}
MessageScopes == {"inbox", "sent", "visible", "all"}
ArtifactScopes == {"owned", "granted", "visible", "all"}

\* A scenario: a tree whose sub-leads have their layers, the root lead as the only actor
\* after a crash, and calls that name an item by an id of its kind.
ASSUME MenuAssumption ==
    \A m \in Menus :
        /\ m.subs \subseteq Subs /\ m.workers \subseteq Workers
        /\ \A w \in m.workers : Owner[w] \in m.subs \cup {"root"}
        /\ m.sessions \subseteq Sessions
        /\ \A s \in m.sessions : Actor[s] \in Subs => Actor[s] \in m.subs
        /\ m.after \subseteq Sessions /\ \A s \in m.after : Actor[s] = "root"
        /\ m.per_actor \in Nat
        /\ IsFiniteSet(DOMAIN m.calls)
        /\ \A c \in DOMAIN m.calls :
              LET k == m.calls[c]
                  Names(tool) == k.item \in DOMAIN m.calls /\ m.calls[k.item].tool = tool
              IN  /\ c # "" /\ k.by \in Sessions /\ k.tool \in Tools
                  /\ k.tool \in MessageItemTools => Names("message_send")
                  /\ k.tool \in ArtifactItemTools => Names("artifact_put")
                  /\ k.tool = "message_list" => k.to \in MessageScopes
                  /\ k.tool = "artifact_list" => k.to \in ArtifactScopes

VARIABLES
    menu,       \* the scenario, chosen once
    index,      \* worker_layer_index, as a set of workers: an entry names the worker's owner
    states,     \* workers some layer's states map names
    live, gone, \* sub-leads with a live layer, and in terminated_sublead_layers
    tokens,     \* actor_tokens: sessions whose token is in force
    sess,       \* session: "none", "live" or "ended"
    bound,      \* sessions whose connection holds an identity
    pc, res,    \* per call, where its handler is and its answer
    dest,       \* per call, the recipient it resolved
    prior,      \* per call, the calls that were answered when it was made
    messages,   \* message to who acked it
    artifacts,  \* artifact to its grants
    files,      \* artifact files on disk
    journal,    \* messages.jsonl: records, each whole or torn
    spoilt,     \* calls whose record was not written whole on a line of its own
    listing,    \* a ListWorkers under way: where it is, the layers it has visited, its rows
    up          \* the dispatcher runs

tree == <<index, states, live, gone, tokens, sess, bound>>
store == <<messages, artifacts, files, journal, spoilt>>
vars == <<menu, tree, pc, res, dest, prior, store, listing, up>>

Calls == DOMAIN menu.calls
Call(c) == menu.calls[c]
Items == {c \in Calls : Call(c).tool \in {"message_send", "artifact_put"}}

\* gap: history, the sub-leads in neither map when the second was read.
NoListing == [at |-> "root", layers |-> <<>>, rows |-> {}, gap |-> {}]

Role(a) == IF a = "root" THEN "lead" ELSE IF a \in Subs THEN "sublead" ELSE "worker"

Init ==
    /\ menu \in Menus
    /\ index = menu.workers /\ states = menu.workers /\ live = menu.subs /\ gone = {}
    /\ sess = [s \in Sessions |-> IF s \in menu.sessions THEN "live" ELSE "none"]
    /\ tokens = menu.sessions /\ bound = {}
    /\ pc = [c \in DOMAIN menu.calls |-> "idle"] /\ res = [c \in DOMAIN menu.calls |-> ""]
    /\ dest = [c \in DOMAIN menu.calls |-> ""] /\ prior = [c \in DOMAIN menu.calls |-> {}]
    /\ messages = <<>> /\ artifacts = <<>> /\ files = {} /\ journal = <<>> /\ spoilt = {}
    /\ listing = NoListing /\ up = TRUE

----------------------------------------------------------------------------
(* Identity. *)

\* The bridge of a session puts its own actor and token over whatever _meta
\* the call carried, so the token tells the session.
inject_meta(c) == [actor_id |-> Actor[Call(c).by], token |-> Call(c).by]

\* A connection that is bound keeps its identity whatever the call says; an
\* unbound one is bound by a token in force, and without one is refused.
Heard(s) == s \in bound \/ s \in tokens

\* The identity a heard call acts under: its token's, not the one it states.
Caller(c) == Actor[inject_meta(c).token]
----------------------------------------------------------------------------
(* The tree, as the code looks it up. *)

\* The index first, then the layers: root, live sub-leads, ended ones.
worker_parent(a) ==
    IF a \in Workers /\ (a \in index \/ (a \in states /\ Owner[a] \in {"root"} \cup live \cup gone))
      THEN {Owner[a]} ELSE {}

parent_for_actor(a) ==
    CASE Role(a) = "lead" -> {}
      [] Role(a) = "sublead" -> {"root"}
      [] Role(a) = "worker" -> worker_parent(a)

actor_exists(a) ==
    \/ a = "root" \/ a \in live \cup gone
    \/ a \in states /\ Owner[a] \in {"root"} \cup live \cup gone

resolve_recipient(a, raw) ==
    CASE raw = "self" -> {a}
      [] raw = "parent" -> parent_for_actor(a)
      [] OTHER -> {raw}

ensure_can_send(a, to) ==
    CASE Role(a) = "lead" -> TRUE
      [] Role(a) = "sublead" -> to \in {"root", a} \/ worker_parent(to) = {a}
      [] Role(a) = "worker" -> to = a \/ parent_for_actor(a) = {to}

\* Mutant: a sub-lead observes every worker of the run.
X_can_observe_actor(a, target) ==
    a = target \/ Role(a) = "lead" \/ (Role(a) = "sublead" /\ worker_parent(target) # {})

can_observe_actor(a, target) ==
    \/ a = target \/ Role(a) = "lead"
    \/ Role(a) = "sublead" /\ worker_parent(target) = {a}

From(m) == Caller(m)
can_read_message(a, m) ==
    \/ a \in {From(m), dest[m]}
    \/ can_observe_actor(a, From(m)) \/ can_observe_actor(a, dest[m])

can_read_artifact(a, x) ==
    a = From(x) \/ a \in artifacts[x] \/ can_observe_actor(a, From(x))

\* Which layer's store a kv or lease call works on.  A worker without an
\* index entry is taken for one of the root layer.
resolve_layer_for_caller(a) ==
    CASE Role(a) = "lead" -> {"root"}
      [] Role(a) = "sublead" -> {a} \cap live
      [] Role(a) = "worker" -> IF a \in index THEN {Owner[a]} \cap ({"root"} \cup live) ELSE {"root"}

can_read_peer_slot(layer, a, target) == a = target \/ a = layer

authorize_target(a, target) ==
    \/ a = target \/ Role(a) = "lead"
    \/ Role(a) = "sublead" /\ target \in index /\ Owner[target] = a
----------------------------------------------------------------------------
(* Answers. *)

Answer(c, r) == pc' = [pc EXCEPT ![c] = "done"] /\ res' = [res EXCEPT ![c] = r]
Goto(c, l) == pc' = [pc EXCEPT ![c] = l] /\ UNCHANGED res
At(c, l) == up /\ pc[c] = l

\* Where each handler begins after its own first checks.
FirstStep(t) ==
    CASE t \in {"message_send", "artifact_grant"} -> "resolve"
      [] t \in {"message_list", "message_read", "artifact_list", "artifact_read"} -> "look"
      [] t = "message_ack" -> "store"
      [] t = "artifact_put" -> "file"
      [] t = "cancel_worker" -> "authorize"
      [] t \in {"kv_get", "kv_set"} -> "route"

\* The checks that need no look at the tree or the store.
FirstCheck(c) ==
    CASE Call(c).tool \in CommunicationTools /\ menu.disabled -> "communication_disabled"
      [] Call(c).tool \in {"message_send", "artifact_put"} /\ Call(c).size > menu.limit -> "too_large"
      [] OTHER -> ""

\* call_tool: authenticate_and_rebind, then the tool's handler.  A session
\* names only items whose creation it may know of: ones in the store.
CallTool(c) ==
    /\ At(c, "idle") /\ sess[Call(c).by] = "live"
    /\ Call(c).item # "" => (Call(c).item \in DOMAIN messages \/ Call(c).item \in DOMAIN artifacts)
    /\ prior' = [prior EXCEPT ![c] = {d \in Calls : res[d] # ""}]
    /\ IF Heard(Call(c).by)
         THEN /\ bound' = bound \cup {Call(c).by}
              /\ IF FirstCheck(c) # "" THEN Answer(c, FirstCheck(c)) ELSE Goto(c, FirstStep(Call(c).tool))
         ELSE UNCHANGED bound /\ Answer(c, "invalid_token")
    /\ UNCHANGED <<menu, index, states, live, gone, tokens, sess, dest, store, up, listing>>
----------------------------------------------------------------------------
(* Handlers. *)

ResolveRecipient(c) ==
    /\ At(c, "resolve")
    /\ LET to == resolve_recipient(Caller(c), Call(c).to) IN
        IF to # {} /\ \A t \in to : actor_exists(t)
          THEN \E t \in to : dest' = [dest EXCEPT ![c] = t] /\ Goto(c, "permit")
          ELSE Answer(c, "unknown_actor") /\ UNCHANGED dest
    /\ UNCHANGED <<menu, tree, prior, store, up, listing>>

Permit(c) ==
    /\ At(c, "permit")
    /\ IF ensure_can_send(Caller(c), dest[c]) THEN Goto(c, "store") ELSE Answer(c, "forbidden")
    /\ UNCHANGED <<menu, tree, dest, prior, store, up, listing>>

\* handle_message_send, from the insert under the write lock.
StoreMessage(c) ==
    /\ At(c, "store") /\ Call(c).tool = "message_send"
    /\ messages' = [m \in DOMAIN messages \cup {c} |-> IF m = c THEN {} ELSE messages[m]]
    /\ Goto(c, "journal")
    /\ UNCHANGED <<menu, tree, dest, prior, artifacts, files, journal, spoilt, up, listing>>

handle_message_ack(c) ==
    /\ At(c, "store") /\ Call(c).tool = "message_ack"
    /\ LET m == Call(c).item IN
        IF can_read_message(Caller(c), m)
          THEN messages' = [messages EXCEPT ![m] = @ \cup {Caller(c)}] /\ Goto(c, "journal")
          ELSE Answer(c, "forbidden") /\ UNCHANGED messages
    /\ UNCHANGED <<menu, tree, dest, prior, artifacts, files, journal, spoilt, up, listing>>

\* artifact_put writes the bytes before it takes the lock.
WriteFile(c) ==
    /\ At(c, "file")
    /\ \/ files' = files \cup {c} /\ Goto(c, "store")
       \/ "disk" \in menu.faults /\ Answer(c, "storage_error") /\ UNCHANGED files
    /\ UNCHANGED <<menu, tree, dest, prior, messages, artifacts, journal, spoilt, up, listing>>

OwnedBy(a) == {x \in DOMAIN artifacts : From(x) = a}

AtArtifactLimit(a) == Cardinality(OwnedBy(a)) >= menu.per_actor

StoreArtifact(c) ==
    /\ At(c, "store") /\ Call(c).tool = "artifact_put"
    /\ IF AtArtifactLimit(Caller(c))
         THEN Goto(c, "remove") /\ UNCHANGED artifacts
         ELSE /\ artifacts' = [x \in DOMAIN artifacts \cup {c} |-> IF x = c THEN {} ELSE artifacts[x]]
              /\ Goto(c, "journal")
    /\ UNCHANGED <<menu, tree, dest, prior, messages, files, journal, spoilt, up, listing>>

RemoveFile(c) ==
    /\ At(c, "remove")
    /\ \/ files' = files \ {c}
       \/ "disk" \in menu.faults /\ UNCHANGED files
    /\ Answer(c, "artifact_count_exceeded")
    /\ UNCHANGED <<menu, tree, dest, prior, messages, artifacts, journal, spoilt, up, listing>>

handle_artifact_grant(c) ==
    /\ At(c, "store") /\ Call(c).tool = "artifact_grant"
    /\ LET x == Call(c).item IN
        IF can_read_artifact(Caller(c), x)
          THEN artifacts' = [artifacts EXCEPT ![x] = @ \cup {dest[c]}] /\ Goto(c, "journal")
          ELSE Answer(c, "forbidden") /\ UNCHANGED artifacts
    /\ UNCHANGED <<menu, tree, dest, prior, messages, files, journal, spoilt, up, listing>>

handle_message_read(c) ==
    /\ At(c, "look") /\ Call(c).tool = "message_read"
    /\ Answer(c, IF can_read_message(Caller(c), Call(c).item) THEN "ok" ELSE "forbidden")
    /\ UNCHANGED <<menu, tree, dest, prior, store, up, listing>>

\* Scopes other than these are refused as invalid.
MessageInScope(a, scope, m) ==
    CASE scope = "inbox" -> dest[m] = a
      [] scope = "sent" -> From(m) = a
      [] scope = "visible" -> can_read_message(a, m)
      [] scope = "all" -> TRUE

ArtifactInScope(a, scope, x) ==
    CASE scope = "owned" -> From(x) = a
      [] scope = "granted" -> a \in artifacts[x]
      [] scope = "visible" -> can_read_artifact(a, x)
      [] scope = "all" -> TRUE

\* The scope "all" is refused to others than the lead once the loop meets an
\* item; a list of nothing is answered to anyone.
ListAnswer(c, items) ==
    IF Call(c).to = "all" /\ Role(Caller(c)) # "lead" /\ items # {} THEN "forbidden" ELSE "ok"

\* A list is remembered by what it returned.
handle_message_list(c) ==
    /\ At(c, "look") /\ Call(c).tool = "message_list"
    /\ LET out == {m \in DOMAIN messages : MessageInScope(Caller(c), Call(c).to, m)}
           ans == ListAnswer(c, DOMAIN messages) IN
        Answer(c, ans) /\ dest' = [dest EXCEPT ![c] = IF ans = "ok" THEN out ELSE {}]
    /\ UNCHANGED <<menu, tree, prior, store, up, listing>>

handle_artifact_list(c) ==
    /\ At(c, "look") /\ Call(c).tool = "artifact_list"
    /\ LET out == {x \in DOMAIN artifacts : ArtifactInScope(Caller(c), Call(c).to, x)}
           ans == ListAnswer(c, DOMAIN artifacts) IN
        Answer(c, ans) /\ dest' = [dest EXCEPT ![c] = IF ans = "ok" THEN out ELSE {}]
    /\ UNCHANGED <<menu, tree, prior, store, up, listing>>

\* The metadata is looked up under the lock, the bytes are read after it.
handle_artifact_read(c) ==
    /\ At(c, "look") /\ Call(c).tool = "artifact_read"
    /\ IF can_read_artifact(Caller(c), Call(c).item) THEN Goto(c, "fetch") ELSE Answer(c, "forbidden")
    /\ UNCHANGED <<menu, tree, dest, prior, store, up, listing>>

FetchBytes(c) ==
    /\ At(c, "fetch")
    /\ Answer(c, IF Call(c).item \in files THEN "ok" ELSE "storage_error")
    /\ UNCHANGED <<menu, tree, dest, prior, store, up, listing>>

\* Lifecycle tools: cancel, pause, continue and reprompt of a worker.
Authorize(c) ==
    /\ At(c, "authorize")
    /\ Answer(c, IF authorize_target(Caller(c), Call(c).to) THEN "ok" ELSE "forbidden")
    /\ UNCHANGED <<menu, tree, dest, prior, store, up, listing>>

\* A read of /peer/<id>/... is for its owner and the layer's lead; a path
\* under /peer/self/ is resolved for the caller and is no such read.
PeerRefused(l, c) ==
    Call(c).tool = "kv_get" /\ Call(c).to # "" /\ ~ can_read_peer_slot(l, Caller(c), Call(c).to)

\* The kv and lease tools: the store they reach.
Route(c) ==
    /\ At(c, "route")
    /\ LET layer == resolve_layer_for_caller(Caller(c)) IN
        IF layer = {} THEN Answer(c, "unknown_layer") /\ UNCHANGED dest
        ELSE \E l \in layer :
            IF PeerRefused(l, c)
              THEN Answer(c, "forbidden") /\ UNCHANGED dest
              ELSE Answer(c, "ok") /\ dest' = [dest EXCEPT ![c] = l]
    /\ UNCHANGED <<menu, tree, prior, store, up, listing>>
----------------------------------------------------------------------------
(* The journal. *)

Record(c) ==
    LET t == Call(c).tool IN
    [op |-> t, call |-> c, id |-> IF c \in Items THEN c ELSE Call(c).item,
     who |-> IF t = "artifact_grant" THEN dest[c] ELSE Caller(c)]

\* Best effort: a failed append is only logged, and one that fails half way
\* leaves a piece of a line that swallows the record written after it.
journal_append(c) ==
    /\ At(c, "journal")
    /\ \/ journal' = Append(journal, [rec |-> Record(c), torn |-> FALSE])
       \/ "torn" \in menu.faults /\ journal' = Append(journal, [rec |-> Record(c), torn |-> TRUE])
       \/ "skipped" \in menu.faults /\ UNCHANGED journal
    /\ spoilt' = IF Len(journal') > Len(journal) /\ ~ Last(journal').torn
                      /\ (Len(journal) = 0 \/ ~ Last(journal).torn)
                   THEN spoilt ELSE spoilt \cup {c}
    /\ Answer(c, "ok")
    /\ UNCHANGED <<menu, tree, dest, prior, messages, artifacts, files, up, listing>>

\* A line parses when its record is whole and no piece stands before it.
Lines(j) ==
    [i \in {k \in DOMAIN j : ~ j[k].torn /\ (k # 1 => ~ j[k - 1].torn)} |-> j[i].rec]

Before(rs, i, op, id) == \E k \in DOMAIN rs : k <= i /\ rs[k].op = op /\ rs[k].id = id

\* Mutant: acks are not replayed.
X_MessagesIn(rs) ==
    [m \in {rs[i].id : i \in {k \in DOMAIN rs : rs[k].op = "message_send"}} |-> {}]

\* apply_journal_record in order: an ack or a grant of something the journal
\* has not named yet is dropped.
MessagesIn(rs) ==
    [m \in {rs[i].id : i \in {k \in DOMAIN rs : rs[k].op = "message_send"}} |->
        {rs[i].who : i \in {k \in DOMAIN rs : rs[k].op = "message_ack" /\ rs[k].id = m
                                               /\ Before(rs, k, "message_send", m)}}]

ArtifactsIn(rs) ==
    [x \in {rs[i].id : i \in {k \in DOMAIN rs : rs[k].op = "artifact_put"}} |->
        {rs[i].who : i \in {k \in DOMAIN rs : rs[k].op = "artifact_grant" /\ rs[k].id = x
                                               /\ Before(rs, k, "artifact_put", x)}}]

\* The dispatcher dies; files and journal stay.
Crash ==
    /\ up /\ "crash" \in menu.events
    /\ up' = FALSE /\ listing' = NoListing
    /\ messages' = <<>> /\ artifacts' = <<>>
    /\ pc' = [c \in Calls |-> IF pc[c] \in {"idle", "done"} THEN pc[c] ELSE "dead"]
    /\ index' = {} /\ states' = {} /\ live' = {} /\ gone' = {} /\ tokens' = {} /\ bound' = {}
    /\ sess' = [s \in Sessions |-> IF sess[s] = "live" THEN "ended" ELSE sess[s]]
    /\ UNCHANGED <<menu, res, dest, prior, files, journal, spoilt>>

\* CommunicationStore::new over a directory that holds a journal; the root
\* lead of the new dispatcher is the only actor.
Reopen ==
    /\ ~ up
    /\ up' = TRUE
    /\ messages' = MessagesIn(Lines(journal)) /\ artifacts' = ArtifactsIn(Lines(journal))
    /\ sess' = [s \in Sessions |-> IF s \in menu.after THEN "live" ELSE sess[s]] /\ tokens' = menu.after
    /\ UNCHANGED <<menu, index, states, live, gone, bound, pc, res, dest, prior, files, journal, spoilt, listing>>
----------------------------------------------------------------------------
(* The actors come and go. *)

\* The subprocess of a session ends; its connection goes with it.
SessionEnds(s) ==
    /\ up /\ "ends" \in menu.events /\ sess[s] = "live" /\ Role(Actor[s]) # "lead"
    /\ sess' = [sess EXCEPT ![s] = "ended"] /\ bound' = bound \ {s}
    /\ UNCHANGED <<menu, index, states, live, gone, tokens, pc, res, dest, prior, store, up, listing>>

\* Mutant: a tail revokes every token of its actor.
X_revoke_token(s) == {t \in tokens : Actor[t] # Actor[s]}

\* A tail drops the token of its own incarnation only.
revoke_token(s) == tokens \ {s}

revoke_tokens_for_actor(a) == {s \in tokens : Actor[s] # a}

\* The tail of a worker's task, which may be that of a killed incarnation
\* after the next one has started: the index entry and the token go.
WorkerSettles(s) ==
    /\ up /\ Actor[s] \in Workers /\ sess[s] = "ended" /\ s \in tokens
    /\ index' = index \ {Actor[s]}
    /\ tokens' = revoke_token(s)
    /\ UNCHANGED <<menu, states, live, gone, sess, bound, pc, res, dest, prior, store, up, listing>>

\* continue or reprompt: a second session of the same worker with a token of its own.
mint_token(s) == tokens \cup {s}
WorkerResumes(s) ==
    /\ up /\ "resume" \in menu.events /\ s \notin menu.sessions /\ sess[s] = "none" /\ Actor[s] \in states
    /\ \A t \in menu.sessions : Actor[t] = Actor[s] => sess[t] = "ended"
    /\ sess' = [sess EXCEPT ![s] = "live"]
    /\ tokens' = mint_token(s)
    /\ UNCHANGED <<menu, index, states, live, gone, bound, pc, res, dest, prior, store, up, listing>>

\* The end of a sub-lead takes its layer out of one map and, later, puts it into another.
SubleadLeaves(a) ==
    /\ up /\ a \in live /\ \A s \in Sessions : Actor[s] = a => sess[s] # "live"
    /\ live' = live \ {a}
    /\ UNCHANGED <<menu, index, states, gone, tokens, sess, bound, pc, res, dest, prior, store, up, listing>>

SubleadFiled(a) ==
    /\ up /\ a \in menu.subs \ (live \cup gone) /\ \E s \in tokens : Actor[s] = a /\ sess[s] = "ended"
    /\ gone' = gone \cup {a}
    /\ tokens' = revoke_tokens_for_actor(a)
    /\ UNCHANGED <<menu, index, states, live, sess, bound, pc, res, dest, prior, store, up, listing>>

----------------------------------------------------------------------------
(* ControlOp::ListWorkers. *)

\* collect_layer_workers: the layer's lead under its own parent, its workers under the lead.
LayerRows(l) ==
    {[id |-> l, parent |-> IF l = "root" THEN {} ELSE {"root"}]}
      \cup {[id |-> w, parent |-> {l}] : w \in {v \in states : Owner[v] = l}}

Visit(layers, then) ==
    listing' = [at |-> then, layers |-> listing.layers \o SetToSeq(layers),
                rows |-> listing.rows \cup UNION {LayerRows(l) : l \in layers},
                gap |-> IF then = "done" THEN menu.subs \ (live \cup gone) ELSE {}]

\* The root layer, the live sub-leads and, that lock given back, those that have ended and
\* were not visited yet.
ListWorkers ==
    /\ up /\ "list" \in menu.events
    /\ \/ listing.at = "root" /\ Visit({"root"}, "live")
       \/ listing.at = "live" /\ Visit(live, "terminated")
       \/ listing.at = "terminated" /\ Visit(gone \ ToSet(listing.layers), "done")
    /\ UNCHANGED <<menu, tree, pc, res, dest, prior, store, up>>

Handler(c) ==
    \/ CallTool(c)
    \/ ResolveRecipient(c) \/ Permit(c) \/ StoreMessage(c) \/ handle_message_ack(c)
    \/ WriteFile(c) \/ StoreArtifact(c) \/ RemoveFile(c) \/ handle_artifact_grant(c)
    \/ handle_message_read(c) \/ handle_message_list(c) \/ handle_artifact_list(c)
    \/ handle_artifact_read(c) \/ FetchBytes(c) \/ Authorize(c) \/ Route(c)
    \/ journal_append(c)

Next ==
    \/ \E c \in Calls : Handler(c)
    \/ \E s \in Sessions : SessionEnds(s) \/ WorkerSettles(s) \/ WorkerResumes(s)
    \/ \E a \in Subs : SubleadLeaves(a) \/ SubleadFiled(a)
    \/ ListWorkers \/ Crash \/ Reopen

Spec == Init /\ [][Next]_vars
----------------------------------------------------------------------------
(* Properties. *)

\* Who may see what an actor said: itself, its parent and the root lead, by
\* the tree as it really is.
Overseers(a) == {a, "root"} \cup (IF a \in Workers THEN {Owner[a]} ELSE {})

Parties(m) == {Actor[Call(m).by], dest[m]}
Ok(t) == {c \in Calls : Call(c).tool = t /\ res[c] = "ok"}
Who(c) == Actor[Call(c).by]
Readers(x) == {Who(c) : c \in {d \in Ok("artifact_read") : Call(d).item = x}}
                 \cup {Who(c) : c \in {d \in Ok("artifact_list") : x \in dest[d]}}
Granted(x) == {dest[c] : c \in {d \in Calls : Call(d).tool = "artifact_grant" /\ Call(d).item = x
                                              /\ pc[d] \in {"journal", "done", "dead"} /\ res[d] \in {"", "ok"}}}

\* A list of workers has one row per actor, under its true parent, and lacks an actor only
\* when its sub-lead is on its way from the map of live layers to the list of ended ones.
ListIsWhole == listing.at = "done" =>
    /\ IsInjective(listing.layers)
    /\ \A x \in listing.rows : x.parent \subseteq Overseers(x.id) \ {x.id} /\ (x.parent = {} <=> x.id = "root")
    /\ \A w \in states : (Owner[w] \notin listing.gap) => \E x \in listing.rows : x.id = w
    /\ \A a \in menu.subs \ listing.gap : \E x \in listing.rows : x.id = a

\* A message is read, acked or listed only by its parties, their parents and
\* the root lead, an artifact by its owner, those it was granted to and the
\* owner's overseers, a worker is steered only by itself, its spawner and the
\* lead, a kv call reaches no other sub-tree's store, and a console is shown the
\* tree: by the true tree and the session that called, whatever ended, moved or
\* was resumed meanwhile.
AccessFollowsTree ==
    /\ \A c \in Ok("message_read") \cup Ok("message_ack") :
          Who(c) \in UNION {Overseers(p) : p \in Parties(Call(c).item)}
    /\ \A c \in Ok("message_list") : \A m \in dest[c] : Who(c) \in UNION {Overseers(p) : p \in Parties(m)}
    /\ \A x \in Items : Readers(x) \subseteq Overseers(Who(x)) \cup Granted(x)
    /\ \A c \in Ok("message_send") \cup Ok("artifact_grant") :
          Who(c) \in Overseers(dest[c]) \/ dest[c] \in Overseers(Who(c))
    /\ \A c \in Ok("cancel_worker") : Who(c) \in Overseers(Call(c).to)
    /\ \A c \in Ok("kv_get") \cup Ok("kv_set") : dest[c] \in {"root"} \cup Overseers(Who(c))
    /\ ListIsWhole

\* The calls of a live session are heard: no end, tail or resume of another
\* session, the killed incarnation of the same worker included, takes its
\* token away.
LiveSessionsAreHeard == \A c \in Calls : res[c] # "invalid_token"

\* What opening the journal now would give contains every send and put that
\* was answered, and every ack and grant that was made after the answer, but
\* for records the disk did not take whole.
JournalKeepsAnswered ==
    LET rs == Lines(journal)
        kept(c) == res[c] = "ok" /\ c \notin spoilt
    IN /\ \A c \in Ok("message_send") : kept(c) => c \in DOMAIN MessagesIn(rs)
       /\ \A c \in Ok("artifact_put") : kept(c) => c \in DOMAIN ArtifactsIn(rs)
       /\ \A c \in Ok("message_ack") : (kept(c) /\ Call(c).item \in prior[c] /\ kept(Call(c).item))
              => Who(c) \in MessagesIn(rs)[Call(c).item]
       /\ \A c \in Ok("artifact_grant") : (kept(c) /\ Call(c).item \in prior[c] /\ kept(Call(c).item))
              => dest[c] \in ArtifactsIn(rs)[Call(c).item]

\* No artifact, in memory or in the journal, is without its file; an actor
\* never owns more than the limit; and a file without metadata belongs to a
\* put under way, to one whose record the disk refused, or to a crash.
ArtifactsAreBacked ==
    /\ DOMAIN artifacts \subseteq files /\ DOMAIN ArtifactsIn(Lines(journal)) \subseteq files
    /\ \A a \in Workers \cup Subs \cup {"root"} : Cardinality(OwnedBy(a)) <= menu.per_actor
    /\ \A x \in files \ DOMAIN artifacts :
          pc[x] \in {"store", "remove", "dead"} \/ "disk" \in menu.faults \/ x \in spoilt \/ ~ up

\* What was answered is kept, in the journal and in the artifact files.
AnsweredIsKept == JournalKeepsAnswered /\ ArtifactsAreBacked
=============================================================================
