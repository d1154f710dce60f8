----------------------------- MODULE Approvals -----------------------------
(***************************************************************************)
(* Approval requests: the rules and policies that decide some at once, the *)
(* bridge to an attached operator console, the queue for the next one, the *)
(* TTL watcher, the caller's own timeout, and consoles that come, displace *)
(* each other, answer and die.                                             *)
(*                                                                         *)
(*   pitboss-cli/src/mcp/tools/approval.rs  the three tools                *)
(*   pitboss-cli/src/mcp/approval.rs        ApprovalBridge::request        *)
(*   pitboss-cli/src/mcp/policy.rs          PolicyMatcher                  *)
(*   pitboss-cli/src/control/server.rs      serve_connection, Approve      *)
(*   pitboss-cli/src/dispatch/runner.rs     the TTL watcher                *)
(*                                                                         *)
(* Every actor asks once, so a request is its caller too.  Every tool asks *)
(* with a TTL and the fallback AutoReject.  The responder of a request is  *)
(* where its entry is: with the caller, in queue, in bridge, or in the TTL *)
(* watcher's hand; an operator's Approve takes it out and answers in one   *)
(* step.  Console connections that only subscribe never touch any of this. *)
(***************************************************************************)
EXTENDS Naturals, FiniteSets, FiniteSetsExt, SequencesExt

CONSTANTS
    Requests,   \* the approval requests
    Kind,       \* which tool makes each: "action", "plan" or "prompt"
    LayerOf,    \* the layer of the caller
    Conns,      \* console connections in writer mode
    Cap,        \* CONTROL_EVENT_QUEUE_CAP
    None,
    Menus       \* what one run may see

Layers == {LayerOf[r] : r \in Requests}
Actions == {"approve", "reject", "block"}
Rules == [match : SUBSET Requests, action : Actions]

ASSUME ApprovalAssumption ==
    /\ Kind \in [Requests -> {"action", "plan", "prompt"}]
    /\ Cap \in Nat \ {0} /\ None \notin Requests \cup Conns
    /\ \A m \in Menus :
          /\ m.ask \subseteq Requests /\ m.conns \subseteq Conns
          /\ m.policy \in Actions                    \* default_approval_policy
          /\ m.updates \subseteq Seq(Rules)          \* rule sets, the first too
          /\ m.unlisted \subseteq Requests           \* tools off an MCP server's list
          /\ m.profile \in [Requests -> {"none", "approve", "reject"}]
          /\ m.stop \in BOOLEAN                      \* the run may be terminated
          /\ m.ends \subseteq Requests               \* callers whose sessions end by themselves
          /\ m.lead \subseteq Requests               \* those of the root lead
          /\ m.denial \in {"adapt", "reclassify"}    \* denial_termination_policy

VARIABLES
    pc,         \* where the caller's handler is
    told,       \* what the tool returned
    box,        \* the decision sent to the caller's oneshot
    via,        \* history: "bridge" if a console was attached, "queue" if not
    rules,      \* approvals.matcher
    planOk,     \* plan_approved, per layer
    last,       \* last_approval_response
    counted,    \* outcomes counted, per caller
    ended,      \* how the caller's session is recorded
    yes,        \* history: requests an operator approved
    queue,      \* approvals.queue
    qlock,      \* the connection that holds its lock across awaits
    bridge,     \* approvals.bridge
    slot,       \* control_writer
    wlock,      \* the request that holds its lock across awaits
    conn,       \* where each connection is
    open,       \* its outbound channel is not closed
    chan,       \* approval events in the channel
    flood,      \* other events fill the rest of the channel
    todo,       \* what its replay has still to send
    seen,       \* requests its console shows
    tally,      \* an Approve op that has still to count its outcome
    aged,       \* requests whose TTL is over
    watcher,    \* the TTL watcher: where it is, what is to be looked at, what it took out
    menu        \* the member of Menus this run is; never changes

callerVars == <<pc, told, box, via, rules, planOk, last, counted, ended, yes, aged>>
connVars == <<conn, open, chan, flood, todo, seen, tally>>
storeVars == <<queue, qlock, bridge, slot, wlock>>
vars == <<pc, told, box, via, rules, planOk, last, counted, ended, yes, queue, qlock, bridge,
          slot, wlock, conn, open, chan, flood, todo, seen, tally, aged, watcher, menu>>

Decisions == {"approved", "rejected", "ttl"}
Steps == {"idle", "route", "send", "push", "await", "evict", "done"}
Phases == {"off", "installed", "drain", "replay", "live", "ended", "closed"}

TypeOK ==
    /\ pc \in [Requests -> Steps]
    /\ told \in [Requests -> Decisions \cup {"none", "full", "timeout"}]
    /\ box \in [Requests -> Decisions \cup {"none"}]
    /\ via \in [Requests -> {"none", "bridge", "queue"}]
    /\ rules \in Seq(Rules) /\ planOk \in [Layers -> BOOLEAN]
    /\ last \in [Requests -> Decisions \cup {"none"}]
    /\ counted \in [Requests -> Seq({"approved", "rejected"})]
    /\ ended \in [Requests -> {"none", "success", "rejected", "ttl"}]
    /\ yes \subseteq Requests /\ aged \subseteq Requests /\ bridge \subseteq Requests
    /\ queue \in Seq(Requests) /\ ToSet(queue) \cap bridge = {} /\ IsInjective(queue)
    /\ qlock \in Conns \cup {None} /\ slot \in Conns \cup {None}
    /\ wlock \in Requests \cup {None}
    /\ conn \in [Conns -> Phases] /\ open \in [Conns -> BOOLEAN]
    /\ chan \in [Conns -> Seq(Requests)] /\ todo \in [Conns -> SUBSET Requests]
    /\ seen \in [Conns -> SUBSET Requests]
    /\ \A c \in Conns : Len(chan[c]) <= Cap /\ ((qlock = c) <=> (conn[c] = "drain"))
    /\ flood \in [Conns -> BOOLEAN] /\ tally \in [Conns -> Requests \cup {None}]
    /\ watcher \in [at : {"queue", "list", "bridge", "stopped"},
                    todo : SUBSET Requests, hand : SUBSET Requests]
    /\ watcher.at \in {"queue", "stopped"} => watcher.hand = {}
    /\ menu \in Menus

Init ==
    /\ menu \in Menus
    /\ pc = [r \in Requests |-> "idle"] /\ told = [r \in Requests |-> "none"]
    /\ box = told /\ via = told /\ last = told /\ ended = told
    /\ rules \in menu.updates
    /\ planOk = [l \in Layers |-> FALSE]
    /\ counted = [r \in Requests |-> <<>>] /\ yes = {} /\ aged = {}
    /\ queue = <<>> /\ qlock = None /\ bridge = {} /\ slot = None /\ wlock = None
    /\ conn = [c \in Conns |-> "off"] /\ open = [c \in Conns |-> FALSE]
    /\ chan = [c \in Conns |-> <<>>] /\ flood = open
    /\ todo = [c \in Conns |-> {}] /\ seen = todo
    /\ tally = [c \in Conns |-> None]
    /\ watcher = [at |-> "queue", todo |-> {}, hand |-> {}]

-----------------------------------------------------------------------------
(* The tools, up to the bridge *)

\* PolicyMatcher::evaluate: the first rule that matches.
Evaluate(r) ==
    LET hits == {i \in 1..Len(rules) : r \in rules[i].match} IN
    IF hits = {} THEN "block" ELSE rules[Min(hits)].action

\* The order of the gates: the allowlist of the tool's server, the rules, the
\* caller's profile, the default policy.
Verdict(r) ==
    IF Kind[r] = "prompt" /\ r \in menu.unlisted THEN "reject"
    ELSE IF Evaluate(r) # "block" THEN Evaluate(r)
    ELSE IF Kind[r] = "prompt" /\ menu.profile[r] # "none" THEN menu.profile[r]
    ELSE menu.policy

Outcome(verdict) == IF verdict = "approve" THEN "approved" ELSE "rejected"

\* Mutant: every plan opens the gate of the root layer, the sub-leads' plans too.
X_OneGate(r, d) ==
    /\ pc' = [pc EXCEPT ![r] = "done"] /\ told' = [told EXCEPT ![r] = d]
    /\ last' = [last EXCEPT ![r] = d]
    /\ planOk' = IF d = "approved" /\ Kind[r] = "plan" THEN [l \in Layers |-> TRUE] ELSE planOk

\* The tool returns: last_approval_response, the plan gate, the answer.
Finish(r, d) ==
    /\ pc' = [pc EXCEPT ![r] = "done"] /\ told' = [told EXCEPT ![r] = d]
    /\ last' = [last EXCEPT ![r] = d]
    /\ planOk' = IF d = "approved" /\ Kind[r] = "plan"
                 THEN [planOk EXCEPT ![LayerOf[r]] = TRUE] ELSE planOk

\* A call that a gate decides.
DecideAtOnce(r) ==
    /\ r \in menu.ask /\ pc[r] = "idle" /\ Verdict(r) # "block"
    /\ Finish(r, Outcome(Verdict(r)))
    /\ counted' = [counted EXCEPT ![r] = Append(@, Outcome(Verdict(r)))]
    /\ UNCHANGED <<box, via, rules, yes, aged, storeVars, connVars, watcher, ended>>

\* A call that goes on to the operator.
Ask(r) ==
    /\ r \in menu.ask /\ pc[r] = "idle" /\ Verdict(r) = "block"
    /\ pc' = [pc EXCEPT ![r] = "route"]
    /\ UNCHANGED <<told, box, via, rules, planOk, last, counted, yes, aged, storeVars,
                   connVars, watcher, ended>>

\* ControlOp::UpdatePolicy
UpdatePolicy ==
    /\ rules' \in menu.updates \ {rules}
    /\ UNCHANGED <<pc, told, box, via, planOk, last, counted, yes, aged, storeVars,
                   connVars, watcher, ended>>

-----------------------------------------------------------------------------
(* ApprovalBridge::request *)

\* Under the writer's lock: into the bridge if a console is attached.
Route(r) ==
    /\ pc[r] = "route" /\ wlock = None
    /\ \/ /\ slot # None
          /\ bridge' = bridge \cup {r} /\ wlock' = r
          /\ pc' = [pc EXCEPT ![r] = "send"] /\ via' = [via EXCEPT ![r] = "bridge"]
       \/ /\ slot = None
          /\ pc' = [pc EXCEPT ![r] = "push"] /\ via' = [via EXCEPT ![r] = "queue"]
          /\ UNCHANGED <<bridge, wlock>>
    /\ UNCHANGED <<told, box, rules, planOk, last, counted, yes, aged, queue, qlock, slot,
                   connVars, watcher, ended>>

Full(c) == flood[c] \/ Len(chan[c]) >= Cap

\* try_send to the console; on failure the entry is evicted and the request rejected.
Send(r) ==
    /\ pc[r] = "send" /\ wlock' = None
    /\ \/ /\ open[slot] /\ ~ Full(slot)
          /\ chan' = [chan EXCEPT ![slot] = Append(@, r)]
          /\ pc' = [pc EXCEPT ![r] = "await"]
          /\ UNCHANGED <<bridge, told, last, planOk, counted>>
       \/ /\ ~ open[slot] \/ Full(slot)
          /\ bridge' = bridge \ {r}
          /\ pc' = [pc EXCEPT ![r] = "done"] /\ told' = [told EXCEPT ![r] = "full"]
          /\ last' = [last EXCEPT ![r] = "rejected"]
          /\ counted' = [counted EXCEPT ![r] = Append(@, "rejected")]
          /\ UNCHANGED <<chan, planOk>>
    /\ UNCHANGED <<box, via, rules, yes, aged, queue, qlock, slot, conn, open, flood, todo,
                   seen, tally, watcher, ended>>

\* VecDeque::retain, and the watcher's loop of remove(i): what is not in gone, in order.
Without(q, gone) ==
    LET keep[n \in 0..Len(q)] == IF n = 0 THEN <<>>
                                 ELSE IF q[n] \in gone THEN keep[n - 1]
                                 ELSE Append(keep[n - 1], q[n])
    IN  keep[Len(q)]

\* No console: the event is persisted and the request queued.
Push(r) ==
    /\ pc[r] = "push" /\ qlock = None
    /\ queue' = Append(queue, r)
    /\ pc' = [pc EXCEPT ![r] = "await"]
    /\ UNCHANGED <<told, box, via, rules, planOk, last, counted, yes, aged, qlock, bridge,
                   slot, wlock, connVars, watcher, ended>>

\* The oneshot delivers.
Answer(r) ==
    /\ pc[r] = "await" /\ box[r] # "none"
    /\ Finish(r, box[r])
    /\ UNCHANGED <<box, via, rules, counted, yes, aged, storeVars, connVars, watcher, ended>>

\* The caller's timeout (the TTL and a minute): out of the bridge ...
Timeout(r) ==
    /\ pc[r] = "await" /\ box[r] = "none" /\ r \in aged
    /\ pc' = [pc EXCEPT ![r] = "evict"]
    /\ bridge' = bridge \ {r}
    /\ UNCHANGED <<told, box, via, rules, planOk, last, counted, yes, aged, queue, qlock,
                   slot, wlock, connVars, watcher, ended>>

\* ... and out of the queue.
Evict(r) ==
    /\ pc[r] = "evict" /\ qlock = None
    /\ queue' = Without(queue, {r})
    /\ pc' = [pc EXCEPT ![r] = "done"] /\ told' = [told EXCEPT ![r] = "timeout"]
    /\ UNCHANGED <<box, via, rules, planOk, last, counted, yes, aged, qlock, bridge, slot,
                   wlock, connVars, watcher, ended>>

\* The receiver of the oneshot exists; a decision sent to nobody is lost.
Listening(r) == pc[r] \in {"send", "await"}
Deliver(R, d) == box' = [r \in Requests |-> IF r \in R /\ Listening(r) THEN d ELSE box[r]]

\* The TTL of a request that is in the bridge or in the queue runs out.
Age(r) ==
    /\ pc[r] \in {"send", "await"} /\ r \notin aged
    /\ aged' = aged \cup {r}
    /\ UNCHANGED <<pc, told, box, via, rules, planOk, last, counted, yes, storeVars,
                   connVars, watcher, ended>>

\* approval_driven_termination: what a session that exits by itself is recorded as.  A
\* refusal counts for 30 seconds, and the root lead's only if it was no TTL.
Termination(r, soon) ==
    IF menu.denial = "adapt" \/ last[r] \in {"none", "approved"} \/ ~ soon THEN "success"
    ELSE IF r \in menu.lead /\ last[r] = "ttl" THEN "success" ELSE last[r]

Exit(r, soon) ==
    /\ r \in menu.ends /\ pc[r] = "done" /\ ended[r] = "none"
    /\ ended' = [ended EXCEPT ![r] = Termination(r, soon)]
    /\ UNCHANGED <<pc, told, box, via, rules, planOk, last, counted, yes, aged, storeVars,
                   connVars, watcher>>

-----------------------------------------------------------------------------
(* serve_connection, for a console in writer mode *)

\* The slot is taken, from whoever had it.
Connect(c) ==
    /\ c \in menu.conns /\ conn[c] = "off" /\ wlock = None
    /\ slot' = c
    /\ conn' = [conn EXCEPT ![c] = "installed"] /\ open' = [open EXCEPT ![c] = TRUE]
    /\ UNCHANGED <<callerVars, queue, qlock, bridge, wlock, chan, flood, todo, seen, tally,
                   watcher>>

\* The queue's lock is held for the whole drain ...
LockQueue(c) ==
    /\ conn[c] = "installed" /\ qlock = None
    /\ qlock' = c /\ conn' = [conn EXCEPT ![c] = "drain"]
    /\ UNCHANGED <<callerVars, queue, bridge, slot, wlock, open, chan, flood, todo, seen,
                   tally, watcher>>

\* Mutant: the drained entry is shown but not handed to the bridge.
X_DrainDrops(c) ==
    /\ conn[c] = "drain" /\ queue # <<>> /\ ~ Full(c)
    /\ queue' = Tail(queue)
    /\ chan' = [chan EXCEPT ![c] = Append(@, Head(queue))]
    /\ UNCHANGED <<callerVars, bridge, qlock, slot, wlock, conn, open, flood, todo, seen,
                   tally, watcher>>

\* ... which moves each entry to the bridge and waits for room for its event.
Drain(c) ==
    /\ conn[c] = "drain" /\ queue # <<>> /\ ~ Full(c)
    /\ queue' = Tail(queue) /\ bridge' = bridge \cup {Head(queue)}
    /\ chan' = [chan EXCEPT ![c] = Append(@, Head(queue))]
    /\ UNCHANGED <<callerVars, qlock, slot, wlock, conn, open, flood, todo, seen, tally,
                   watcher>>

\* The replay begins with the entries whose caller still listens ...
Snapshot(c) ==
    /\ conn[c] = "drain" /\ queue = <<>>
    /\ qlock' = None /\ conn' = [conn EXCEPT ![c] = "replay"]
    /\ todo' = [todo EXCEPT ![c] = {r \in bridge : Listening(r)}]
    /\ UNCHANGED <<callerVars, queue, bridge, slot, wlock, open, chan, flood, seen, tally,
                   watcher>>

\* ... and sends them one by one; then the pumps start.
Replay(c) ==
    /\ conn[c] = "replay"
    /\ \/ \E r \in todo[c] :
             /\ ~ Full(c)
             /\ chan' = [chan EXCEPT ![c] = Append(@, r)]
             /\ todo' = [todo EXCEPT ![c] = @ \ {r}]
             /\ UNCHANGED conn
       \/ /\ todo[c] = {}
          /\ conn' = [conn EXCEPT ![c] = "live"]
          /\ UNCHANGED <<chan, todo>>
    /\ UNCHANGED <<callerVars, storeVars, open, flood, seen, tally, watcher>>

\* The outbound pump writes what is in the channel to the socket.
Pump(c) ==
    /\ conn[c] = "live" /\ open[c] /\ (flood[c] \/ chan[c] # <<>>)
    /\ seen' = [seen EXCEPT ![c] = @ \cup ToSet(chan[c])]
    /\ chan' = [chan EXCEPT ![c] = <<>>] /\ flood' = [flood EXCEPT ![c] = FALSE]
    /\ UNCHANGED <<callerVars, storeVars, conn, open, todo, tally, watcher>>

\* The bus bridge fills the channel of a slow console with other events.
Flood(c) ==
    /\ conn[c] = "live" /\ open[c] /\ ~ flood[c]
    /\ flood' = [flood EXCEPT ![c] = TRUE]
    /\ UNCHANGED <<callerVars, storeVars, conn, open, chan, todo, seen, tally, watcher>>

\* A write to the socket fails: the pump ends, its channel closes, the slot stays.
PumpFails(c) ==
    /\ conn[c] = "live" /\ open[c]
    /\ open' = [open EXCEPT ![c] = FALSE]
    /\ chan' = [chan EXCEPT ![c] = <<>>] /\ flood' = [flood EXCEPT ![c] = FALSE]
    /\ UNCHANGED <<callerVars, storeVars, conn, todo, seen, tally, watcher>>

\* The read loop ends ...
HangUp(c) ==
    /\ conn[c] = "live" /\ tally[c] = None
    /\ conn' = [conn EXCEPT ![c] = "ended"]
    /\ UNCHANGED <<callerVars, storeVars, open, chan, flood, todo, seen, tally, watcher>>

\* Mutant: the slot is cleared whoever has it.
X_ClearAnySlot(c) ==
    /\ conn[c] = "ended" /\ wlock = None
    /\ slot' = None
    /\ conn' = [conn EXCEPT ![c] = "closed"] /\ open' = [open EXCEPT ![c] = FALSE]
    /\ chan' = [chan EXCEPT ![c] = <<>>] /\ flood' = [flood EXCEPT ![c] = FALSE]
    /\ UNCHANGED <<callerVars, queue, qlock, bridge, wlock, todo, seen, tally, watcher>>

\* ... and the slot is cleared if it is still this connection's.
CloseConn(c) ==
    /\ conn[c] = "ended" /\ wlock = None
    /\ slot' = IF slot = c THEN None ELSE slot
    /\ conn' = [conn EXCEPT ![c] = "closed"] /\ open' = [open EXCEPT ![c] = FALSE]
    /\ chan' = [chan EXCEPT ![c] = <<>>] /\ flood' = [flood EXCEPT ![c] = FALSE]
    /\ UNCHANGED <<callerVars, queue, qlock, bridge, wlock, todo, seen, tally, watcher>>

\* ControlOp::Approve for a request the console shows: whoever takes the entry out
\* of the bridge decides; for the others the id is unknown.
Approve(c, r, d) ==
    /\ conn[c] = "live" /\ r \in seen[c] /\ tally[c] = None /\ r \in bridge
    /\ bridge' = bridge \ {r}
    /\ Deliver({r}, d)
    /\ yes' = IF d = "approved" THEN yes \cup {r} ELSE yes
    /\ tally' = [tally EXCEPT ![c] = r]
    /\ UNCHANGED <<pc, told, via, rules, planOk, last, counted, aged, queue, qlock, slot,
                   wlock, conn, open, chan, flood, todo, seen, watcher, ended>>

\* The op's last step: the audit row and record_approval_outcome.
Tally(c) ==
    /\ tally[c] # None
    /\ counted' = [counted EXCEPT ![tally[c]] =
                     Append(@, IF tally[c] \in yes THEN "approved" ELSE "rejected")]
    /\ tally' = [tally EXCEPT ![c] = None]
    /\ UNCHANGED <<pc, told, box, via, rules, planOk, last, yes, aged, storeVars, conn, open,
                   chan, flood, todo, seen, watcher, ended>>

-----------------------------------------------------------------------------
(* The TTL watcher *)

\* A tick: what is over at this moment leaves the queue ...
ScanQueue ==
    /\ watcher.at = "queue" /\ qlock = None
    /\ (ToSet(queue) \cup bridge) \cap aged # {}
    /\ queue' = Without(queue, ToSet(queue) \cap aged)
    /\ watcher' = [at |-> "list", todo |-> aged, hand |-> ToSet(queue) \cap aged]
    /\ UNCHANGED <<callerVars, qlock, bridge, slot, wlock, connVars>>

\* ... then what is over in the bridge is listed ...
ListBridge ==
    /\ watcher.at = "list" /\ watcher.hand = {}
    /\ watcher' = [watcher EXCEPT !.at = "bridge", !.todo = @ \cap bridge]
    /\ UNCHANGED <<callerVars, storeVars, connVars>>

\* Mutant: an entry that was handed to a console has no TTL any more.
X_QueueOnly ==
    /\ watcher.at = "bridge"
    /\ watcher' = [at |-> "queue", todo |-> {}, hand |-> {}]
    /\ UNCHANGED <<callerVars, storeVars, connVars>>

\* ... and each entry of the list taken out if it is still there.
ScanBridge ==
    /\ watcher.at = "bridge" /\ watcher.hand = {}
    /\ \/ \E r \in watcher.todo :
             /\ bridge' = bridge \ {r}
             /\ watcher' = [watcher EXCEPT !.todo = @ \ {r}, !.hand = {r} \cap bridge]
       \/ /\ watcher.todo = {}
          /\ watcher' = [watcher EXCEPT !.at = "queue"]
          /\ UNCHANGED bridge
    /\ UNCHANGED <<callerVars, queue, qlock, slot, wlock, connVars>>

\* What the watcher does with an entry it took: last_approval_response, the outcome, the
\* answer; the fallback is AutoReject.  One step: the only other steps on these three are
\* those of the caller, and it may as well take them before or after.
Expire(r) ==
    /\ r \in watcher.hand
    /\ Deliver({r}, "ttl")
    /\ last' = [last EXCEPT ![r] = "ttl"]
    /\ counted' = [counted EXCEPT ![r] = Append(@, "rejected")]
    /\ watcher' = [watcher EXCEPT !.hand = @ \ {r}]
    /\ UNCHANGED <<pc, told, via, rules, planOk, yes, aged, storeVars, connVars, ended>>

\* The run is terminated, and the watcher with it.
StopWatcher ==
    /\ menu.stop /\ watcher.at = "queue"
    /\ watcher' = [watcher EXCEPT !.at = "stopped"]
    /\ UNCHANGED <<callerVars, storeVars, connVars>>

-----------------------------------------------------------------------------
WatcherStep == ScanQueue \/ ListBridge \/ ScanBridge \/ \E r \in Requests : Expire(r)
CallerStep(r) == Route(r) \/ Send(r) \/ Push(r) \/ Answer(r) \/ Evict(r)
ConnStep(c) == \/ LockQueue(c) \/ Drain(c) \/ Snapshot(c) \/ Replay(c) \/ Pump(c)
               \/ CloseConn(c) \/ Tally(c)

Next ==
    /\ \/ \E r \in Requests : \/ DecideAtOnce(r) \/ Ask(r) \/ CallerStep(r) \/ Timeout(r) \/ Age(r)
                             \/ \E soon \in BOOLEAN : Exit(r, soon)
       \/ \E c \in Conns : \/ Connect(c) \/ ConnStep(c)
                           \/ Flood(c) \/ PumpFails(c) \/ HangUp(c)
                           \/ \E r \in Requests, d \in {"approved", "rejected"} :
                                 Approve(c, r, d)
       \/ UpdatePolicy \/ WatcherStep \/ StopWatcher
    /\ UNCHANGED menu

Spec == Init /\ [][Next]_vars

\* Tasks run and the clock goes on; nobody has to attach, answer or hang up, and the
\* callers' own timeouts are no part of it.
FairSpec ==
    /\ Spec
    /\ \A r \in Requests : WF_vars((CallerStep(r) \/ Age(r)) /\ UNCHANGED menu)
    /\ \A c \in Conns : WF_vars(ConnStep(c) /\ UNCHANGED menu)
    /\ WF_vars(WatcherStep /\ UNCHANGED menu)

-----------------------------------------------------------------------------
(* Properties *)

\* A caller that waits can be answered: its responder is in the queue, in the bridge
\* or with the watcher that answers it, or the decision is already on its way, whatever
\* consoles, watcher and timeout do to the containers in between.
NoLostResponder ==
    \A r \in Requests : pc[r] = "await" /\ box[r] = "none" =>
                            r \in ToSet(queue) \cup bridge \cup watcher.hand

\* A tool returns "approved", and a plan's gate opens, only for a request that an
\* operator approved or a gate decided, and only in the caller's layer.  One outcome
\* is counted, the one that was told, but for two ways to be told otherwise: a timeout
\* while the decision is made, and a console that is full or gone when the event of an
\* entry that watcher or replay have already found is sent.
ToldIsDecided ==
    /\ \A r \in Requests :
          /\ told[r] = "approved" /\ r \notin yes => via[r] = "none"
          /\ told[r] = "approved" => "rejected" \notin ToSet(counted[r])
          /\ told[r] \in {"ttl", "rejected"} => "approved" \notin ToSet(counted[r])
          /\ Len(counted[r]) > 1 => told[r] = "full"
    /\ \A l \in Layers : planOk[l] =>
          \E r \in Requests : LayerOf[r] = l /\ Kind[r] = "plan" /\ told[r] = "approved"

\* A request that found a console attached, until somebody takes it to answer it, is on
\* the screen of the console that is attached now, or on its way there, however consoles
\* displace each other.
AskedIsShown ==
    \A r \in Requests, c \in Conns :
        ( /\ slot = c /\ conn[c] = "live" /\ open[c]
          /\ pc[r] = "await" /\ box[r] = "none" /\ via[r] = "bridge" /\ r \notin watcher.hand )
        => r \in seen[c] \cup ToSet(chan[c])

\* The connection that is attached keeps the slot until it ends or is displaced:
\* the cleanup of an older one does not take it away.
SlotIsKept ==
    [][\A c \in Conns : slot = c /\ slot' = None => conn[c] = "ended"]_vars

\* approvals.md: "TTL coverage is complete regardless of TUI state": a request whose
\* TTL is over is answered while the run lasts.
TtlCoverage ==
    \A r \in Requests : (pc[r] = "await" /\ r \in aged) ~>
                            (pc[r] = "done" \/ watcher.at = "stopped")

\* A session that exits after its request is recorded as refused or as timed out only if
\* that is what its tool returned, whoever wrote last_approval_response last: tool, watcher
\* or a bridge that could not reach its console (an entry the watcher took just before
\* counts as timed out).
ExitIsTold == \A r \in Requests :
    /\ ended[r] = "rejected" => told[r] \in {"rejected", "full"}
    /\ ended[r] = "ttl" => told[r] \in {"ttl", "timeout", "full"}

\* What is told was decided, what is asked is shown, and what is recorded was told (the two
\* gates of a decision, bridge and queue; attach, drain and replay; the end of a session).
AnswersAreTrue == TypeOK /\ ToldIsDecided /\ AskedIsShown /\ ExitIsTold
=============================================================================
