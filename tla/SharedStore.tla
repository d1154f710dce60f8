---------------------------- MODULE SharedStore ----------------------------
(***************************************************************************)
(* The per-layer stores (keys, waits, leases), the run-global leases and   *)
(* the read-write lock on the map of sub-leads that every store call       *)
(* holds from its routing to its answer.                                   *)
(*                                                                         *)
(*   pitboss-cli/src/shared_store/mod.rs         SharedStore               *)
(*   pitboss-cli/src/shared_store/leases.rs      LeaseRegistry (per layer) *)
(*   pitboss-cli/src/shared_store/run_leases.rs  LeaseRegistry (run-global) *)
(*   pitboss-cli/src/mcp/server.rs               the tools, the routing and *)
(*                                               the connection's cleanup  *)
(*   pitboss-cli/src/dispatch/{state,sublead}.rs the writers of the map    *)
(*                                                                         *)
(* Values are sizes and versions.  A deadline passes at any moment: Expire *)
(* for a lease, Timeout for a call.  Reads without a wait (kv_get, kv_list) *)
(* change nothing and are left out; so is SharedStore::shutdown, which     *)
(* nothing outside the tests calls.                                        *)
(***************************************************************************)
EXTENDS Naturals, FiniteSets, SequencesExt

CONSTANTS
    Root,       \* the root layer
    Subs,       \* the sub-leads
    Actors,     \* the callers ...
    LayerOf,    \* ... and the layer each is routed to
    Keys,       \* keys of a layer's store
    Names,      \* lease names, per layer and run-global
    Sizes,      \* sizes of a value
    MaxKeys, MaxTotal,  \* Limits
    Capacity,   \* capacity of a broadcast channel
    Nobody,     \* no lease, no writer
    Menus       \* what one run may see: callers, operations, keys, names of
                \* leases, sub-leads that are registered from the start and ones that come and go, and max,
                \* the bound on its calls

Layers == {Root} \cup Subs
AllOps == {"set", "cas", "wait", "acquire", "try", "release", "run", "drop", "tail"}

ASSUME StoreAssumption ==
    /\ Root \notin Subs /\ LayerOf \in [Actors -> Layers]
    /\ Actors \cap Layers = {} /\ Nobody \notin Actors \cup Subs /\ "run" \notin Layers
    /\ \A a \in Actors : <<a>> \notin Actors \cup Layers    \* a task is named by one thing
    /\ IsFiniteSet(Keys) /\ IsFiniteSet(Names)
    /\ Sizes \subseteq Nat /\ MaxKeys \in Nat /\ MaxTotal \in Nat
    /\ Capacity \in Nat \ {0}
    /\ Menus \subseteq [who : SUBSET Actors, ops : SUBSET AllOps, keys : SUBSET Keys,
                         names : SUBSET Names, pre : SUBSET Subs, subs : SUBSET Subs, max : Nat]

VARIABLES
    registered, \* the keys of state.subleads
    lockQ,      \* who waits for the lock on it, in order
    readers,    \* the calls that hold it
    writer,     \* the registration or reconcile that holds it
    reg,        \* where each sub-lead is
    ver, size,  \* entries: version (0: absent) and size of the value
    total,      \* total_bytes
    lease,      \* lease[l][n]: the entry of the layer's registry
    ids,        \* lease ids given out
    mine,       \* the ids each caller was given
    runLease,   \* run_leases
    call,       \* the call each actor is in the middle of
    rx,         \* its broadcast receiver
    toSend,     \* events decided on and not sent, per task
    swallowed,  \* history: names freed by an eviction nobody was told of
    late,       \* history: leases granted to a caller whose connection is gone
    gone,       \* how far the cleanup of each connection is
    calls,      \* calls made so far
    menu        \* the member of Menus this run is; never changes

lockVars == <<registered, lockQ, readers, writer, reg>>
kvVars == <<ver, size, total>>
leaseVars == <<lease, ids, mine, swallowed, late>>
vars == <<registered, lockQ, readers, writer, reg, ver, size, total, lease, ids, mine,
          runLease, call, rx, toSend, swallowed, late, gone, calls, menu>>

Idle == [op |-> "none", at |-> "idle", name |-> Nobody, n |-> 0, exp |-> 0]
NoRx == [q |-> <<>>, lag |-> FALSE]
Free == [holder |-> Nobody, id |-> 0, expired |-> FALSE]
Cleanup(a) == <<a>>             \* the cleanup of a's connection, a task of its own
Senders == Actors \cup Layers   \* a layer stands for its pruner
           \cup {Cleanup(a) : a \in Actors}
Places == {"idle", "queued", "go", "check", "waiting", "try", "send"}

Request == [op : AllOps \cup {"none"}, at : Places, name : Keys \cup Names \cup {Nobody},
            n : Nat, exp : Nat]
Event == [layer : Layers, op : {"wait", "acquire"}, name : Keys \cup Names, ver : Nat]
Entry == [holder : Actors \cup {Nobody}, id : Nat, expired : BOOLEAN]

LockOK ==
    /\ registered \subseteq Subs /\ readers \subseteq Actors /\ writer \in Subs \cup {Nobody}
    /\ lockQ \in Seq(Actors \cup Subs)
    /\ reg \in [Subs -> {"absent", "coming", "in", "leaving", "out"}]
    /\ \A a \in Actors : call[a].at \in {"idle", "queued"} <=> a \notin readers

CallOK ==
    /\ call \in [Actors -> Request] /\ rx \in [Actors -> [q : Seq(Event), lag : BOOLEAN]]
    /\ \A a \in Actors : Len(rx[a].q) <= Capacity
    /\ toSend \in [Senders -> Seq(Event)]
    /\ gone \in [Actors -> {"no", "store", "yes"}] /\ calls \in Nat /\ menu \in Menus

KeysOK ==
    /\ ver \in [Layers -> [Keys -> Nat]] /\ size \in [Layers -> [Keys -> Nat]]
    /\ total \in [Layers -> Nat]
    /\ \A l \in Layers, k \in Keys : ver[l][k] = 0 => size[l][k] = 0

LeaseOK ==
    /\ lease \in [Layers -> [Names -> Entry]] /\ runLease \in [Names -> Entry]
    /\ ids \in Nat /\ mine \in [Actors -> SUBSET Nat]

TypeOK == LockOK /\ CallOK /\ KeysOK /\ LeaseOK

Init ==
    /\ menu \in Menus
    /\ registered = menu.pre /\ lockQ = <<>> /\ readers = {} /\ writer = Nobody
    /\ reg = [s \in Subs |-> IF s \in menu.pre THEN "in" ELSE "absent"]
    /\ ver = [l \in Layers |-> [k \in Keys |-> 0]] /\ size = ver
    /\ total = [l \in Layers |-> 0]
    /\ lease = [l \in Layers |-> [n \in Names |-> Free]]
    /\ ids = 0 /\ mine = [a \in Actors |-> {}]
    /\ runLease = [n \in Names |-> Free]
    /\ call = [a \in Actors |-> Idle] /\ rx = [a \in Actors |-> NoRx]
    /\ toSend = [p \in Senders |-> <<>>]
    /\ swallowed = {} /\ late = {} /\ gone = [a \in Actors |-> "no"] /\ calls = 0

-----------------------------------------------------------------------------
(* The lock on state.subleads: tokio's RwLock serves its queue in order, a  *)
(* reader behind a waiting writer waits.                                   *)

Grant ==
    /\ lockQ # <<>> /\ writer = Nobody
    /\ LET p == Head(lockQ) IN
       \/ /\ p \in Actors
          /\ readers' = readers \cup {p}
          /\ call' = [call EXCEPT ![p] = [@ EXCEPT !.at = "go"]]
          /\ UNCHANGED writer
       \/ /\ p \in Subs /\ readers = {}
          /\ writer' = p
          /\ UNCHANGED <<readers, call>>
    /\ lockQ' = Tail(lockQ)
    /\ UNCHANGED <<registered, reg, kvVars, leaseVars, runLease, rx, toSend, gone, calls>>

\* register_sublead and reconcile_terminated_sublead ask for the write lock ...
WantWrite(s) ==
    /\ s \in menu.subs /\ reg[s] \in {"absent", "in"}
    /\ reg' = [reg EXCEPT ![s] = IF @ = "absent" THEN "coming" ELSE "leaving"]
    /\ lockQ' = Append(lockQ, s)
    /\ UNCHANGED <<registered, readers, writer, kvVars, leaseVars, runLease, call, rx,
                   toSend, gone, calls>>

\* ... and insert or remove the layer.
WriteMap(s) ==
    /\ writer = s
    /\ reg' = [reg EXCEPT ![s] = IF @ = "coming" THEN "in" ELSE "out"]
    /\ registered' = IF reg[s] = "coming" THEN registered \cup {s} ELSE registered \ {s}
    /\ writer' = Nobody
    /\ UNCHANGED <<lockQ, readers, kvVars, leaseVars, runLease, call, rx, toSend, gone, calls>>

-----------------------------------------------------------------------------
(* Calls *)

\* A tool call arrives and waits for the read guard.
Call(a, c) ==
    /\ a \in menu.who /\ c.op \in menu.ops
    /\ call[a] = Idle /\ gone[a] = "no" /\ calls < menu.max
    /\ call' = [call EXCEPT ![a] = c] /\ calls' = calls + 1
    /\ lockQ' = Append(lockQ, a)
    /\ UNCHANGED <<registered, readers, writer, reg, kvVars, leaseVars, runLease, rx,
                   toSend, gone>>

\* Mutant: an answered call keeps its guard.
X_KeepGuard(a) ==
    /\ call' = [call EXCEPT ![a] = Idle]
    /\ rx' = [rx EXCEPT ![a] = NoRx]
    /\ readers' = readers

\* The answer drops the receiver and the guard.
Return(a) ==
    /\ call' = [call EXCEPT ![a] = Idle]
    /\ rx' = [rx EXCEPT ![a] = NoRx]
    /\ readers' = readers \ {a}

\* The handler goes on to its next await with the guard held.
Goto(a, at) == call' = [call EXCEPT ![a] = [@ EXCEPT !.at = at]] /\ UNCHANGED <<rx, readers>>

\* resolve_layer_for_caller
Routed(a) == LayerOf[a] = Root \/ LayerOf[a] \in registered

\* Routing refuses the call, or validation, authorization or peer visibility does:
\* paths and roles are left out, so any call on a key may be refused.
Refuse(a) ==
    /\ call[a].at = "go"
    /\ ~ Routed(a) \/ call[a].op \in {"set", "cas", "wait"}
    /\ Return(a)
    /\ UNCHANGED <<registered, lockQ, writer, reg, kvVars, leaseVars, runLease, toSend,
                   gone, calls>>

\* Whom an event of layer l's notifier reaches: every receiver subscribed to it.
Subscribed(e) ==
    {a \in Actors : /\ LayerOf[a] = e.layer /\ call[a].at \in {"check", "waiting", "try"}
                    /\ call[a].op = e.op}

\* Mutant: a full channel forgets its oldest event without telling the receiver.
X_SilentLag(r, e) ==
    LET q == Append(r.q, e) IN
    [r EXCEPT !.q = IF Len(q) <= Capacity THEN q ELSE Tail(q)]

\* A full channel drops its oldest event, and the receiver learns it as Lagged.
Receive(r, e) ==
    LET q == Append(r.q, e) IN
    IF Len(q) <= Capacity THEN [r EXCEPT !.q = q] ELSE [q |-> Tail(q), lag |-> TRUE]

\* One broadcast send of a task.
Send(p) ==
    /\ toSend[p] # <<>>
    /\ LET e == Head(toSend[p]) IN
       rx' = [a \in Actors |-> IF a \in Subscribed(e) THEN Receive(rx[a], e) ELSE rx[a]]
    /\ toSend' = [toSend EXCEPT ![p] = Tail(@)]
    /\ UNCHANGED <<lockVars, kvVars, leaseVars, runLease, call, gone, calls>>

Answer(a) ==
    /\ call[a].at = "send" /\ toSend[a] = <<>>
    /\ Return(a)
    /\ UNCHANGED <<registered, lockQ, writer, reg, kvVars, leaseVars, runLease, toSend,
                   gone, calls>>

-----------------------------------------------------------------------------
(* Keys *)

Written(l) == {k \in Keys : ver[l][k] > 0}

Projected(l, k, n) == total[l] - size[l][k] + n

\* The early returns of set and cas, under the write lock on the entries.
Rejected(a) ==
    LET l == LayerOf[a]  c == call[a] IN
    \/ c.op = "cas" /\ c.exp # ver[l][c.name]
    \/ ver[l][c.name] = 0 /\ Cardinality(Written(l)) >= MaxKeys
    \/ Projected(l, c.name, c.n) > MaxTotal

RejectWrite(a) ==
    /\ call[a].at = "go" /\ call[a].op \in {"set", "cas"} /\ Routed(a) /\ Rejected(a)
    /\ Return(a)
    /\ UNCHANGED <<registered, lockQ, writer, reg, kvVars, leaseVars, runLease, toSend,
                   gone, calls>>

\* The entry is written; the event is sent after the lock is dropped.
Write(a) ==
    LET l == LayerOf[a]  k == call[a].name  n == call[a].n IN
    /\ call[a].at = "go" /\ call[a].op \in {"set", "cas"} /\ Routed(a) /\ ~ Rejected(a)
    /\ ver' = [ver EXCEPT ![l] = [@ EXCEPT ![k] = ver[l][k] + 1]]
    /\ size' = [size EXCEPT ![l] = [@ EXCEPT ![k] = n]]
    /\ total' = [total EXCEPT ![l] = Projected(l, k, n)]
    /\ toSend' = [toSend EXCEPT ![a] = <<[layer |-> l, op |-> "wait", name |-> k,
                                          ver |-> ver[l][k] + 1]>>]
    /\ Goto(a, "send")
    /\ UNCHANGED <<registered, lockQ, writer, reg, leaseVars, runLease, gone, calls>>

\* wait and lease_acquire subscribe before they look.
Subscribe(a) ==
    /\ call[a].at = "go" /\ call[a].op \in {"wait", "acquire", "try"} /\ Routed(a)
    /\ Goto(a, IF call[a].op = "wait" THEN "check" ELSE "try")
    /\ UNCHANGED <<registered, lockQ, writer, reg, kvVars, leaseVars, runLease, toSend,
                   gone, calls>>

Satisfied(a) == ver[LayerOf[a]][call[a].name] >= call[a].n

CheckEntry(a) ==
    /\ call[a].at = "check"
    /\ IF Satisfied(a) THEN Return(a) ELSE Goto(a, "waiting")
    /\ UNCHANGED <<registered, lockQ, writer, reg, kvVars, leaseVars, runLease, toSend,
                   gone, calls>>

\* recv(): Lagged once after an overflow, else the oldest event.
Recv(r) == IF r.lag THEN [r EXCEPT !.lag = FALSE] ELSE [r EXCEPT !.q = Tail(r.q)]

\* One turn of the loop in wait: an event, or Lagged, which reads the map again.
WaitTurn(a) ==
    /\ call[a].at = "waiting" /\ call[a].op = "wait"
    /\ rx[a].lag \/ rx[a].q # <<>>
    /\ LET e == Head(rx[a].q) IN
       IF Satisfied(a) /\ (rx[a].lag \/ (e.name = call[a].name /\ e.ver >= call[a].n))
       THEN Return(a)
       ELSE /\ rx' = [rx EXCEPT ![a] = Recv(rx[a])]
            /\ UNCHANGED <<call, readers>>
    /\ UNCHANGED <<registered, lockQ, writer, reg, kvVars, leaseVars, runLease, toSend,
                   gone, calls>>

\* The deadline of wait or lease_acquire.
Timeout(a) ==
    /\ call[a].at = "waiting"
    /\ Return(a)
    /\ UNCHANGED <<registered, lockQ, writer, reg, kvVars, leaseVars, runLease, toSend,
                   gone, calls>>

-----------------------------------------------------------------------------
(* Leases of a layer *)

Held(l, n) == lease[l][n].holder # Nobody
Expired(l) == {n \in Names : Held(l, n) /\ lease[l][n].expired}

\* prune_expired and the removal of the names in S.
Without(l, S) == [n \in Names |-> IF n \in S \cup Expired(l) THEN Free ELSE lease[l][n]]
Put(l, row) == lease' = [lease EXCEPT ![l] = row]
Events(l, S) == LET s == SetToSeq(S) IN
    [i \in 1..Len(s) |-> [layer |-> l, op |-> "acquire", name |-> s[i], ver |-> 0]]

\* Conflict and Forbidden carry no list of evicted names: nobody is told.
Swallow(l) == swallowed' = swallowed \cup {<<l, n>> : n \in Expired(l)}

\* A call that was being served when its connection ended is served to its end.
Late(a, x) == IF gone[a] = "no" THEN late \ {x} ELSE late \cup {x}

\* LeaseRegistry::acquire, first or again.
TryAcquire(a) ==
    LET l == LayerOf[a]  n == call[a].name  E == Expired(l) IN
    /\ call[a].at = "try"
    /\ \/ /\ ~ Held(l, n) \/ n \in E
          /\ ids' = ids + 1
          /\ Put(l, [Without(l, {}) EXCEPT ![n] = [holder |-> a, id |-> ids + 1,
                                                   expired |-> FALSE]])
          /\ mine' = [mine EXCEPT ![a] = @ \cup {ids + 1}]
          /\ toSend' = [toSend EXCEPT ![a] = Events(l, E)]
          /\ swallowed' = swallowed \ {<<l, n>>}
          /\ late' = Late(a, <<l, n>>)
          /\ Goto(a, "send")
       \/ /\ Held(l, n) /\ n \notin E
          /\ Put(l, Without(l, {}))
          /\ Swallow(l)
          /\ IF call[a].op = "acquire" THEN Goto(a, "waiting") ELSE Return(a)
          /\ UNCHANGED <<ids, mine, late, toSend>>
    /\ UNCHANGED <<registered, lockQ, writer, reg, kvVars, runLease, gone, calls>>

\* One turn of the loop in lease_acquire: the name it waits for, or Lagged.
LeaseTurn(a) ==
    /\ call[a].at = "waiting" /\ call[a].op = "acquire"
    /\ rx[a].lag \/ rx[a].q # <<>>
    /\ rx' = [rx EXCEPT ![a] = Recv(rx[a])]
    /\ call' = IF rx[a].lag \/ Head(rx[a].q).name = call[a].name
               THEN [call EXCEPT ![a] = [@ EXCEPT !.at = "try"]] ELSE call
    /\ UNCHANGED <<lockVars, kvVars, leaseVars, runLease, toSend, gone, calls>>

\* Mutant: the lease is looked up by its holder's old name, not by its id.
X_ReleaseByName(a) ==
    LET l == LayerOf[a]  n == call[a].name  E == Expired(l) IN
    /\ call[a].at = "go" /\ call[a].op = "release" /\ Routed(a)
    /\ Put(l, Without(l, {n}))
    /\ toSend' = [toSend EXCEPT ![a] = Events(l, E \cup {n})]
    /\ Goto(a, "send")
    /\ UNCHANGED <<registered, lockQ, writer, reg, kvVars, ids, mine, swallowed, late, runLease,
                   gone, calls>>

\* lease_release by id, for the holder only.
Release(a) ==
    LET l == LayerOf[a]  E == Expired(l)
        F == {n \in Names \ E : Held(l, n) /\ lease[l][n].id = call[a].n
                                           /\ lease[l][n].holder = a}
    IN
    /\ call[a].at = "go" /\ call[a].op = "release" /\ Routed(a)
    /\ Put(l, Without(l, F))
    /\ \/ /\ F # {}
          /\ toSend' = [toSend EXCEPT ![a] = Events(l, E) \o Events(l, F)]
          /\ Goto(a, "send")
          /\ UNCHANGED swallowed
       \/ /\ F = {}
          /\ Swallow(l)
          /\ Return(a)
          /\ UNCHANGED toSend
    /\ UNCHANGED <<registered, lockQ, writer, reg, kvVars, ids, mine, late, runLease, gone,
                   calls>>

\* The layer's background pruner.
Prune(l) ==
    /\ toSend[l] = <<>> /\ Expired(l) # {}
    /\ Put(l, Without(l, {}))
    /\ toSend' = [toSend EXCEPT ![l] = Events(l, Expired(l))]
    /\ UNCHANGED <<lockVars, kvVars, ids, mine, swallowed, late, runLease, call, rx, gone, calls>>

\* A TTL runs out.
Expire(l, n) ==
    /\ Held(l, n) /\ ~ lease[l][n].expired
    /\ Put(l, [lease[l] EXCEPT ![n] = [@ EXCEPT !.expired = TRUE]])
    /\ UNCHANGED <<lockVars, kvVars, ids, mine, swallowed, late, runLease, call, rx, toSend, gone,
                   calls>>

-----------------------------------------------------------------------------
(* Run-global leases: no guard on the sub-leads, one mutex *)

MayRun(a) == a \in menu.who /\ "run" \in menu.ops /\ call[a] = Idle

\* try_acquire: free, expired, or a renewal by the holder.
RunAcquire(a, n) ==
    /\ MayRun(a) /\ calls < menu.max /\ calls' = calls + 1
    /\ runLease[n].holder \in {Nobody, a} \/ runLease[n].expired
    /\ runLease' = [runLease EXCEPT ![n] = [holder |-> a, id |-> 0, expired |-> FALSE]]
    /\ late' = Late(a, <<"run", n>>)
    /\ UNCHANGED <<lockVars, kvVars, lease, ids, mine, swallowed, call, rx, toSend, gone>>

RunRelease(a, n) ==
    /\ MayRun(a) /\ runLease[n].holder = a
    /\ runLease' = [runLease EXCEPT ![n] = Free]
    /\ UNCHANGED <<lockVars, kvVars, leaseVars, call, rx, toSend, gone, calls>>

RunExpire(n) ==
    /\ runLease[n].holder # Nobody /\ ~ runLease[n].expired
    /\ runLease' = [runLease EXCEPT ![n] = [@ EXCEPT !.expired = TRUE]]
    /\ UNCHANGED <<lockVars, kvVars, leaseVars, call, rx, toSend, gone, calls>>

-----------------------------------------------------------------------------
(* The end of a connection *)

\* The session ends, in the middle of a call or not: release_all_for_actor on the
\* root layer's store ...
Disconnect(a) ==
    LET E == Expired(Root)
        F == {n \in Names \ E : lease[Root][n].holder = a}
    IN
    /\ a \in menu.who /\ "drop" \in menu.ops /\ gone[a] = "no"
    /\ Put(Root, Without(Root, F))
    /\ toSend' = [toSend EXCEPT ![Cleanup(a)] = Events(Root, E) \o Events(Root, F)]
    /\ gone' = [gone EXCEPT ![a] = "store"]
    /\ UNCHANGED <<lockVars, kvVars, ids, mine, swallowed, late, runLease, call, rx, calls>>

\* release_all_held_by: whatever the run-global registry has under the name.
FreeHeldBy(a) == [n \in Names |-> IF runLease[n].holder = a THEN Free ELSE runLease[n]]

\* ... and release_all_held_by on the run-global registry.
ReleaseRunLeases(a) ==
    /\ gone[a] = "store" /\ toSend[Cleanup(a)] = <<>>
    /\ runLease' = FreeHeldBy(a)
    /\ gone' = [gone EXCEPT ![a] = "yes"]
    /\ UNCHANGED <<lockVars, kvVars, leaseVars, call, rx, toSend, calls>>

\* The tail of a worker's session and the reconcile of a sub-lead call it too, in tasks of
\* their own: before or after the cleanup of the connection, and, when the session was
\* killed to be resumed, while its successor of the same name already holds leases.
SessionTail(a) ==
    /\ a \in menu.who /\ "tail" \in menu.ops /\ \E n \in Names : runLease[n].holder = a
    /\ runLease' = FreeHeldBy(a)
    /\ UNCHANGED <<lockVars, kvVars, leaseVars, call, rx, toSend, gone, calls>>

-----------------------------------------------------------------------------
\* What a caller may ask: any write, a wait for the first or the second
\* version, a lease with or without a wait, a release of an id it was given.
Requests(a) ==
    {[op |-> o, at |-> "queued", name |-> k, n |-> s, exp |-> v] :
        o \in {"cas"}, k \in menu.keys, s \in Sizes, v \in 0..1}
    \cup {[op |-> "set", at |-> "queued", name |-> k, n |-> s, exp |-> 0] :
            k \in menu.keys, s \in Sizes}
    \cup {[op |-> "wait", at |-> "queued", name |-> k, n |-> v, exp |-> 0] :
            k \in menu.keys, v \in 1..2}
    \cup {[op |-> o, at |-> "queued", name |-> n, n |-> 0, exp |-> 0] :
            o \in {"acquire", "try"}, n \in menu.names}
    \cup {[op |-> "release", at |-> "queued", name |-> n, n |-> i, exp |-> 0] :
            n \in menu.names, i \in mine[a]}

CallStep(a) == \/ Refuse(a) \/ Answer(a) \/ RejectWrite(a) \/ Write(a) \/ Subscribe(a)
               \/ CheckEntry(a) \/ WaitTurn(a) \/ TryAcquire(a) \/ LeaseTurn(a)
               \/ Release(a)
RunStep(a) == \/ \E n \in menu.names : RunAcquire(a, n) \/ RunRelease(a, n)
              \/ Disconnect(a) \/ ReleaseRunLeases(a) \/ SessionTail(a)

Next ==
    /\ \/ Grant
       \/ \E s \in Subs : WantWrite(s) \/ WriteMap(s)
       \/ \E p \in Senders : Send(p)
       \/ \E a \in Actors : \/ \E c \in Requests(a) : Call(a, c)
                            \/ CallStep(a) \/ Timeout(a) \/ RunStep(a)
       \/ \E l \in Layers : Prune(l) \/ \E n \in Names : Expire(l, n)
       \/ \E n \in Names : RunExpire(n)
    /\ UNCHANGED menu

Spec == Init /\ [][Next]_vars

\* Tasks that can run do run; a lock that can be granted is.
Progress ==
    /\ \/ Grant \/ \E s \in Subs : WriteMap(s)
       \/ \E p \in Senders : Send(p)
       \/ \E a \in Actors : CallStep(a) \/ ReleaseRunLeases(a)
    /\ UNCHANGED menu

\* A deadline passes sooner or later.
FairSpec == /\ Spec /\ WF_vars(Progress)
            /\ \A a \in Actors : WF_vars(Timeout(a) /\ UNCHANGED menu)

-----------------------------------------------------------------------------
(* Properties *)

Pending(p, l, op, name) == {i \in 1..Len(toSend[p]) : /\ toSend[p][i].layer = l
                              /\ toSend[p][i].op = op /\ toSend[p][i].name = name}

\* SharedStore::wait subscribes before it looks and looks again on Lagged: no
\* wait sleeps on beside an entry that satisfies it unless the event that will
\* wake it is on its way.
NoMissedWrite ==
    \A a \in Actors :
        call[a].at = "waiting" /\ call[a].op = "wait" /\ Satisfied(a) =>
            \/ rx[a].lag
            \/ \E i \in 1..Len(rx[a].q) : rx[a].q[i].name = call[a].name
                                          /\ rx[a].q[i].ver >= call[a].n
            \/ \E p \in Senders : \E i \in Pending(p, LayerOf[a], "wait", call[a].name) :
                   toSend[p][i].ver >= call[a].n

\* No lease_acquire sleeps beside a free lease without an event on its way, but
\* for one way: a call that ended in Conflict or Forbidden evicted the lease and
\* dropped the list of evicted names.
NoForgottenWaiter ==
    \A a \in Actors :
        LET l == LayerOf[a]  n == call[a].name IN
        call[a].at = "waiting" /\ call[a].op = "acquire" /\ ~ Held(l, n) =>
            \/ rx[a].lag \/ \E i \in 1..Len(rx[a].q) : rx[a].q[i].name = n
            \/ \E p \in Senders : Pending(p, l, "acquire", n) # {}
            \/ <<l, n>> \in swallowed

\* A lease whose TTL runs is never taken from its holder: only its own release,
\* by the id it was given, or the end of its connection removes it, whatever
\* stale ids are released and whoever else tries to acquire it.  A run-global lease
\* has no id: the end of any session under the holder's name takes it as well.
LeaseIsNotStolen ==
    [][/\ \A l \in Layers, n \in Names :
            LET e == lease[l][n] IN
            Held(l, n) /\ ~ e.expired /\ lease'[l][n].id # e.id =>
                \/ call[e.holder].op = "release" /\ call[e.holder].n = e.id
                \/ gone'[e.holder] # gone[e.holder]
       /\ \A n \in Names :
            LET h == runLease[n].holder IN
            h # Nobody /\ ~ runLease[n].expired /\ runLease'[n].holder # h =>
                RunRelease(h, n) \/ SessionTail(h) \/ gone'[h] # gone[h]]_vars

\* The connection's cleanup leaves nothing behind that its actor held, no lease of
\* the root's store and no run-global lease, but for what a call that was being
\* served at the time is granted afterwards.
GoneHoldsNothing ==
    \A a \in Actors, n \in Names : gone[a] = "yes" =>
        /\ lease[Root][n].holder = a => <<Root, n>> \in late
        /\ runLease[n].holder = a => <<"run", n>> \in late

\* The bytes of a layer's values, each by its key and its place.
Stored(sizes) == UNION {{k} \X (1..sizes[k]) : k \in Keys}

\* total_bytes, kept up to date by differences, is the number of bytes stored and
\* within the limit.
TotalIsSum ==
    \A l \in Layers : /\ total[l] = Cardinality(Stored(size[l]))
                      /\ total[l] <= MaxTotal

\* Every call is answered: a wait holds the guard that registrations queue for and
\* other calls queue behind them, but the deadlines undo the queue.
CallsReturn == \A a \in Actors : call[a] # Idle ~> call[a] = Idle

\* Nobody sleeps beside what it waits for, nobody who left holds anything, and the
\* byte count is the sum (SharedStore::wait, LeaseRegistry, the connection's cleanup).
StoreIsSound ==
    TypeOK /\ NoMissedWrite /\ NoForgottenWaiter /\ GoneHoldsNothing /\ TotalIsSum
=============================================================================
