---------------------------- MODULE EventStream ----------------------------
(***************************************************************************)
(* How an event of the run reaches its readers.  broadcast_control_event   *)
(* numbers it and puts it on the run's broadcast channel (the bus).  One   *)
(* task of the dispatcher copies the bus to events.jsonl; every control    *)
(* connection copies it through a bounded queue to its socket; the web     *)
(* server holds one such connection per run and fans it out to browsers    *)
(* over a broadcast channel of its own.  Messages meant for one client     *)
(* (refused operations, activity ticks, Superseded) are numbered and       *)
(* logged too, but are not on the bus.                                     *)
(*                                                                         *)
(* An event's content is its number.  Approvals on the control socket are  *)
(* Approvals'; operations are answered by one more event on the bus.       *)
(***************************************************************************)
EXTENDS Integers, FiniteSets, FiniteSetsExt, Sequences

CONSTANTS
    Producers,  \* tasks of the dispatcher that broadcast events
    Consoles,   \* clients of the control socket
    Web,        \* the web server's subscriber connection, also a client
    Browsers,   \* browsers on the web server's SSE endpoint
    BusCap, QueueCap, WebCap,   \* EVENTS_BROADCAST_CAP, CONTROL_EVENT_QUEUE_CAP, CHANNEL_CAPACITY
    Menus       \* what may happen in a behaviour: records
                \*   events   how many events are broadcast
                \*   direct   how many messages are sent to one client
                \*   dials    how often each client may connect
                \*   faults   how many writes to events.jsonl may fail
                \*   producers, clients, browsers   who takes part
                \*   writers  the clients that say hello as Writer
                \*   crash    whether the dispatcher may be killed

Clients == Consoles \cup {Web}
Persister == "persister"
Actors == Producers \cup Clients \cup {Persister}
None == 0

\* Tasks and clients are different things.
ASSUME ActorsDiffer ==
    /\ Producers \cap Clients = {} /\ Persister \notin Producers \cup Clients \cup Browsers
    /\ Browsers \cap Clients = {} /\ Web \notin Consoles /\ None \notin Clients
ASSUME Caps == {BusCap, QueueCap, WebCap} \subseteq Nat \ {0}
ASSUME MenuShape == \A m \in Menus :
    /\ {m.events, m.direct, m.dials, m.faults} \subseteq Nat /\ m.crash \in BOOLEAN
    /\ m.clients \subseteq Clients /\ m.writers \subseteq m.clients \ {Web}
    /\ m.producers \subseteq Producers /\ m.browsers \subseteq Browsers

VARIABLES
    menu,       \* the choice of Menus, constant
    seq,        \* EventLog.seq
    drawn,      \* per actor, the envelope it has numbered and not yet sent or persisted
    bus,        \* everything sent on events_tx; a receiver lags behind the last BusCap
    pos,        \* receivers: index of the next event of the bus; None when not subscribed
    log,        \* events.jsonl, its lines: sequences of envelopes, one each if all is well
    ended,      \* the last line has its newline
    faults,     \* failed writes so far
    conn,       \* per client: where its serve_connection is
    dials,      \* how often it has connected
    queue,      \* per client: ev_tx, the envelopes for its pump
    wire,       \* per client: everything written to its sockets
    slot,       \* the client whose sender is control_writer, or None
    up,         \* the dispatcher lives
    gen,        \* the web server's entry for the run: its number, None when it has none
    gens,       \* how many entries there have been
    chan,       \* per entry: what was sent on its channel
    pumped,     \* how much of wire[Web] the pump has read
    tab         \* per browser: its receiver and what it was shown

busVars == <<seq, drawn, bus>>
logVars == <<log, ended, faults>>
connVars == <<conn, dials, queue, wire, slot>>
webVars == <<gen, gens, chan, pumped, tab>>
vars == <<menu, busVars, pos, logVars, connVars, up, webVars>>

NoEnv == [k |-> "none", s |-> 0, n |-> 0]
Envelopes == [k : {"bus", "direct", "gap", "torn"}, s : Nat, n : Nat]
NoTab == [gen |-> None, next |-> 1, got |-> <<>>]

\* Where an envelope is on the bus; 0 for one that never was.
PlaceOn(b, e) == IF \E i \in DOMAIN b : b[i] = e THEN CHOOSE i \in DOMAIN b : b[i] = e ELSE 0
At(e) == PlaceOn(bus, e)
MaxEvents == Max({m.events : m \in Menus})

TypeOK ==
    /\ menu \in Menus /\ seq \in Nat
    /\ drawn \in [Actors -> Envelopes \cup {NoEnv}]
    /\ \A i \in DOMAIN bus : bus[i] \in Envelopes
    /\ pos \in [{Persister} \cup Clients -> Nat]
    /\ \A i \in DOMAIN log : log[i] # <<>> /\ \A j \in DOMAIN log[i] : log[i][j] \in Envelopes
    /\ ended \in BOOLEAN /\ faults \in 0 .. menu.faults
    /\ conn \in [Clients -> {"off", "hello", "live"}] /\ dials \in [Clients -> 0 .. menu.dials]
    /\ \A c \in Clients : Len(queue[c]) <= QueueCap
    /\ slot \in menu.writers \cup {None} /\ up \in BOOLEAN
    /\ gen \in 0 .. gens /\ gens \in Nat /\ pumped \in 0 .. Len(wire[Web])
    /\ \A b \in Browsers : tab[b].gen \in 0 .. gens

Init ==
    /\ menu \in Menus
    /\ seq = 0 /\ drawn = [a \in Actors |-> NoEnv] /\ bus = <<>>
    /\ pos = [r \in {Persister} \cup Clients |-> IF r = Persister THEN 1 ELSE None]
    /\ log = <<>> /\ ended = TRUE /\ faults = 0
    /\ conn = [c \in Clients |-> "off"] /\ dials = [c \in Clients |-> 0]
    /\ queue = [c \in Clients |-> <<>>] /\ wire = [c \in Clients |-> <<>>] /\ slot = None
    /\ up = TRUE
    /\ gen = None /\ gens = 0 /\ chan = <<>> /\ pumped = 0
    /\ tab = [b \in Browsers |-> NoTab]

-----------------------------------------------------------------------------
(* The bus and the log *)

\* Whoever sends an envelope draws its number first, in one atomic step of its own.
NextSeq(a, k, n) ==
    /\ up /\ drawn[a] = NoEnv
    /\ seq' = seq + 1
    /\ drawn' = [drawn EXCEPT ![a] = [k |-> k, s |-> seq + 1, n |-> n]]

Numbered(k) == Cardinality({i \in DOMAIN bus : bus[i].k = k})
               + Cardinality({a \in Actors : drawn[a].k = k})

\* broadcast_control_event, first half.
Draw(p) ==
    /\ Numbered("bus") < menu.events
    /\ NextSeq(p, "bus", 0)
    /\ UNCHANGED <<bus, pos, logVars, connVars, up, webVars>>

\* broadcast_control_event, second half: by now others may have drawn and sent.
Send(p) ==
    /\ up /\ drawn[p] # NoEnv
    /\ bus' = Append(bus, drawn[p])
    /\ drawn' = [drawn EXCEPT ![p] = NoEnv]
    /\ UNCHANGED <<seq, pos, logVars, connVars, up, webVars>>

\* The oldest event the channel still holds.
Oldest(c, cap) == IF Len(c) > cap THEN Len(c) - cap + 1 ELSE 1

\* A receiver that lagged learns how many it lost and goes on with the oldest event kept.
Behind(r) == [n |-> Oldest(bus, BusCap) - pos[r], to |-> Oldest(bus, BusCap)]

Receives(r) == up /\ pos[r] # None /\ pos[r] \in Oldest(bus, BusCap) .. Len(bus)
Lagged(r) == up /\ pos[r] # None /\ pos[r] < Oldest(bus, BusCap)

\* The bytes of a line land behind whatever the file ends with; torn are a line's first bytes.
Written(e, torn) ==
    LET piece == [e EXCEPT !.k = IF torn THEN "torn" ELSE @]
    IN  IF ended THEN Append(log, <<piece>>)
        ELSE [log EXCEPT ![Len(log)] = Append(@, piece)]

\* persist, with the file's lock: the line, then its newline.  The file is opened at first
\* use and a failed open tried again; errors are logged and the caller goes on.
Persist(e) ==
    \/ log' = Written(e, FALSE) /\ ended' = TRUE /\ UNCHANGED faults
    \/ /\ faults < menu.faults /\ faults' = faults + 1
       /\ \/ UNCHANGED <<log, ended>>
          \/ log' = Written(e, FALSE) /\ ended' = FALSE
          \/ log' = Written(e, TRUE) /\ ended' = FALSE

\* The persistence task of DispatchState::new.
PersistNext ==
    /\ Receives(Persister) /\ drawn[Persister] = NoEnv
    /\ Persist(bus[pos[Persister]])
    /\ pos' = [pos EXCEPT ![Persister] = @ + 1]
    /\ UNCHANGED <<busVars, connVars, up, webVars>>

\* Mutant: a lagged persistence task goes on without a sentinel.
X_PersistGap ==
    /\ Lagged(Persister)
    /\ pos' = [pos EXCEPT ![Persister] = Behind(Persister).to]
    /\ UNCHANGED <<busVars, logVars, connVars, up, webVars>>

\* It fell behind: the sentinel draws a number of its own, and is only logged.
PersistGap ==
    /\ Lagged(Persister)
    /\ NextSeq(Persister, "gap", Behind(Persister).n)
    /\ pos' = [pos EXCEPT ![Persister] = Behind(Persister).to]
    /\ UNCHANGED <<bus, logVars, connVars, up, webVars>>

PersistSentinel ==
    /\ up /\ drawn[Persister] # NoEnv
    /\ Persist(drawn[Persister])
    /\ drawn' = [drawn EXCEPT ![Persister] = NoEnv]
    /\ UNCHANGED <<seq, bus, pos, connVars, up, webVars>>

\* pitboss events: lines with one whole envelope; the others are counted as malformed.
Readable(line) == Len(line) = 1 /\ line[1].k # "torn"

-----------------------------------------------------------------------------
(* Control connections *)

Direct == Cardinality({i \in DOMAIN log : \E j \in DOMAIN log[i] : log[i][j].k = "direct"})
          + Cardinality({c \in Clients : drawn[c] # NoEnv})


\* connect_session_socket and drive_socket: one attempt, no retry.
Dial(c) == up /\ conn[c] = "off" /\ c \in menu.clients \ {Web} /\ dials[c] < menu.dials

\* A client connects and says hello; a writer takes the slot, and the writer it displaces
\* is sent Superseded, unless its queue is full.
Hello(c) ==
    /\ Dial(c)
    /\ conn' = [conn EXCEPT ![c] = "hello"] /\ dials' = [dials EXCEPT ![c] = @ + 1]
    /\ IF c \in menu.writers /\ slot # None
         THEN /\ seq' = seq + 2      \* the hello's own number, and Superseded's
              /\ LET e == [k |-> "direct", s |-> seq + 2, n |-> 0]
                 IN  /\ Persist(e)
                     /\ queue' = [queue EXCEPT ![slot] = IF Len(@) < QueueCap THEN Append(@, e) ELSE @]
         ELSE seq' = seq + 1 /\ UNCHANGED <<logVars, queue>>
    /\ slot' = IF c \in menu.writers THEN c ELSE slot
    /\ UNCHANGED <<drawn, bus, pos, wire, up, webVars>>

\* The first line is not a hello: it is refused, and the connection closed.
BadHello(c) ==
    /\ up /\ conn[c] = "off" /\ c \in menu.clients \ {Web} /\ Direct < menu.direct
    /\ seq' = seq + 1
    /\ LET e == [k |-> "direct", s |-> seq + 1, n |-> 0]
       IN  Persist(e) /\ wire' = [wire EXCEPT ![c] = Append(@, e)]
    /\ UNCHANGED <<drawn, bus, pos, conn, dials, queue, slot, up, webVars>>

\* The handshake is over: the bridge subscribes to the bus from here on.
Subscribe(c) ==
    /\ up /\ conn[c] = "hello"
    /\ conn' = [conn EXCEPT ![c] = "live"]
    /\ pos' = [pos EXCEPT ![c] = Len(bus) + 1]
    /\ UNCHANGED <<busVars, logVars, dials, queue, wire, slot, up, webVars>>

\* try_send: a full queue drops the envelope.
Offer(c, e) == queue' = [queue EXCEPT ![c] = IF Len(@) < QueueCap THEN Append(@, e) ELSE @]

\* bus_bridge: a full queue drops the event, a lag drops what the bus no longer holds;
\* neither is told to the client.
Bridge(c) ==
    /\ conn[c] = "live"
    /\ \/ Receives(c) /\ Offer(c, bus[pos[c]]) /\ pos' = [pos EXCEPT ![c] = @ + 1]
       \/ Lagged(c) /\ pos' = [pos EXCEPT ![c] = Behind(c).to] /\ UNCHANGED queue
    /\ UNCHANGED <<busVars, logVars, conn, dials, wire, slot, up, webVars>>

\* Mutant: the batch is written and the queue kept for a retry.
X_Pump(c) ==
    /\ up /\ conn[c] = "live" /\ queue[c] # <<>>
    /\ wire' = [wire EXCEPT ![c] = @ \o queue[c]]
    /\ UNCHANGED <<busVars, pos, logVars, conn, dials, queue, slot, up, webVars>>

\* The pump writes all that is queued in one batch.
Pump(c) ==
    /\ up /\ conn[c] = "live" /\ queue[c] # <<>>
    /\ wire' = [wire EXCEPT ![c] = @ \o queue[c]]
    /\ queue' = [queue EXCEPT ![c] = <<>>]
    /\ UNCHANGED <<busVars, pos, logVars, conn, dials, slot, up, webVars>>

\* An activity tick, or the refusal of an operation that a subscriber may not ask for or
\* that does not parse: numbered ...
DrawDirect(c) ==
    /\ conn[c] = "live" /\ Direct < menu.direct
    /\ NextSeq(c, "direct", 0)
    /\ UNCHANGED <<bus, pos, logVars, connVars, up, webVars>>

\* ... logged, and put in the queue (the tick) or written past it (the refusal).
SendDirect(c) ==
    /\ up /\ conn[c] = "live" /\ drawn[c] # NoEnv
    /\ Persist(drawn[c])
    /\ \/ Offer(c, drawn[c]) /\ UNCHANGED wire
       \/ wire' = [wire EXCEPT ![c] = Append(@, drawn[c])] /\ UNCHANGED queue
    /\ drawn' = [drawn EXCEPT ![c] = NoEnv]
    /\ UNCHANGED <<seq, bus, pos, conn, dials, slot, up, webVars>>

\* An operation is answered on the bus, to every client: any of a writer's, and a
\* subscriber's Hello or Subscribe (the web server's connection sends a Subscribe).
Answer(c) ==
    /\ conn[c] = "live" /\ Numbered("bus") < menu.events
    /\ NextSeq(c, "bus", 0)
    /\ UNCHANGED <<bus, pos, logVars, connVars, up, webVars>>

AnswerSent(c) == drawn[c].k = "bus" /\ Send(c)

\* The socket ends: what is queued is lost, and the slot given up unless it is another's.
Hangup(c) ==
    /\ conn[c] # "off"
    /\ conn' = [conn EXCEPT ![c] = "off"] /\ pos' = [pos EXCEPT ![c] = None]
    /\ queue' = [queue EXCEPT ![c] = <<>>] /\ drawn' = [drawn EXCEPT ![c] = NoEnv]
    /\ slot' = IF slot = c THEN None ELSE slot
    /\ UNCHANGED <<seq, bus, logVars, dials, wire, up, webVars>>

\* The dispatcher is killed or returns: the bus, its receivers and the sockets are gone.
Crash ==
    /\ up /\ menu.crash /\ up' = FALSE
    /\ conn' = [c \in Clients |-> "off"] /\ queue' = [c \in Clients |-> <<>>] /\ slot' = None
    /\ drawn' = [a \in Actors |-> NoEnv]
    /\ UNCHANGED <<seq, bus, pos, logVars, dials, wire, webVars>>

-----------------------------------------------------------------------------
(* The web server *)

\* subscribe: a run that has an entry shares it; the browser's receiver starts at the end.
Open(b) ==
    /\ b \in menu.browsers /\ tab[b].gen = None /\ gen # None
    /\ tab' = [tab EXCEPT ![b] = [@ EXCEPT !.gen = gen, !.next = Len(chan[gen]) + 1]]
    /\ UNCHANGED <<busVars, pos, logVars, connVars, up, gen, gens, chan, pumped>>

\* drive_live: the subscriber connection of an entry's pump.
DialWeb ==
    /\ up /\ conn[Web] = "off" /\ dials[Web] < menu.dials
    /\ conn' = [conn EXCEPT ![Web] = "hello"]
    /\ dials' = [dials EXCEPT ![Web] = @ + 1]
    /\ seq' = seq + 1

\* subscribe of a run without an entry: it is made with the map's lock held.  The
\* connection in writer mode that is opened with it, for operations, is one of Consoles: it
\* takes the slot in Hello, what it is sent is read and thrown away, and it may end alone.
Connect(b) ==
    /\ b \in menu.browsers /\ tab[b].gen = None /\ gen = None
    /\ DialWeb
    /\ gen' = gens + 1 /\ gens' = gens + 1 /\ chan' = Append(chan, <<>>)
    /\ tab' = [tab EXCEPT ![b] = [@ EXCEPT !.gen = gens + 1, !.next = 1]]
    /\ UNCHANGED <<drawn, bus, pos, logVars, queue, wire, slot, up, pumped>>

\* handshake_and_forward: lines are read in order, to the end of the socket.
NextLine == wire[Web][pumped + 1]

\* The pump hands an envelope it read to the channel of its entry.
Fan ==
    /\ gen # None /\ pumped < Len(wire[Web])
    /\ pumped' = pumped + 1
    /\ chan' = [chan EXCEPT ![gen] = Append(@, NextLine)]
    /\ UNCHANGED <<busVars, pos, logVars, connVars, up, gen, gens, tab>>

\* Mutant: the pump's end leaves the entry in the map.
X_PumpEnds ==
    /\ gen # None /\ conn[Web] = "off" /\ FALSE
    /\ gen' = None
    /\ UNCHANGED <<busVars, pos, logVars, connVars, up, gens, chan, pumped, tab>>

\* The socket is read to its end: the pump takes the entry out of the map.
PumpEnds ==
    /\ gen # None /\ conn[Web] = "off" /\ pumped = Len(wire[Web])
    /\ gen' = None
    /\ UNCHANGED <<busVars, pos, logVars, connVars, up, gens, chan, pumped, tab>>

\* The SSE stream: an event, or how many were lost.
Event(b) ==
    LET t == tab[b] c == chan[t.gen] IN
    /\ t.gen # None
    /\ \/ /\ t.next \in Oldest(c, WebCap) .. Len(c)
          /\ tab' = [tab EXCEPT ![b] = [t EXCEPT !.next = t.next + 1, !.got = Append(t.got, c[t.next])]]
       \/ /\ t.next < Oldest(c, WebCap)
          /\ tab' = [tab EXCEPT ![b] = [t EXCEPT !.next = Oldest(c, WebCap)]]
    /\ UNCHANGED <<busVars, pos, logVars, connVars, up, gen, gens, chan, pumped>>

\* The channel's senders are gone and it is empty: the stream ends, and the browser's
\* EventSource may open it again.
StreamEnds(b) ==
    LET t == tab[b] IN
    /\ t.gen # None /\ t.gen # gen /\ t.next > Len(chan[t.gen])
    /\ tab' = [tab EXCEPT ![b] = [t EXCEPT !.gen = None]]
    /\ UNCHANGED <<busVars, pos, logVars, connVars, up, gen, gens, chan, pumped>>

-----------------------------------------------------------------------------
PersistStep == PersistNext \/ PersistGap \/ PersistSentinel
WebStep == Fan \/ PumpEnds

Next ==
    /\ \/ \E p \in menu.producers : Draw(p) \/ Send(p)
       \/ PersistStep
       \/ \E c \in Clients : \/ Hello(c) \/ BadHello(c) \/ Subscribe(c) \/ Bridge(c) \/ Pump(c) \/ DrawDirect(c)
                             \/ drawn[c].k = "direct" /\ SendDirect(c)
                             \/ Answer(c) \/ AnswerSent(c) \/ Hangup(c)
       \/ Crash
       \/ WebStep
       \/ \E b \in Browsers : Open(b) \/ Connect(b) \/ Event(b) \/ StreamEnds(b)
    /\ UNCHANGED menu

Spec == Init /\ [][Next]_vars

\* Spawned tasks run while the dispatcher lives; the web server's tasks run and a browser
\* reads its stream.  Nobody has to connect, hang up or crash, and no write has to fail.
FairSpec ==
    /\ Spec
    /\ WF_vars(PersistStep /\ UNCHANGED menu)
    /\ WF_vars(WebStep /\ UNCHANGED menu)
    /\ \A b \in Browsers : WF_vars((Event(b) \/ StreamEnds(b)) /\ UNCHANGED menu)

-----------------------------------------------------------------------------
(* Properties *)

\* What every reader has been shown: the events of the bus on each of its lines.  A socket
\* and a stream have one envelope on a line.
Lines(es) == [i \in DOMAIN es |-> <<es[i]>>]
OnLine(b, ls, i) == {[at |-> <<i, j>>, ev |-> PlaceOn(b, ls[i][j])] : j \in {j \in DOMAIN ls[i] : ls[i][j].k = "bus"}}
Shown(b, ls) == UNION {OnLine(b, ls, i) : i \in DOMAIN ls}
LinesOf(r) == IF r = Persister THEN log ELSE IF r \in Clients THEN Lines(wire[r]) ELSE Lines(tab[r].got)
Readers == {Persister} \cup Clients \cup Browsers
Seen == [r \in Readers |-> Shown(bus, LinesOf(r))]

\* The bus, the queues, the log and the web server's second channel together keep the
\* promise of EventFeed: one order, no duplicates, nothing invented, for every reader and
\* across reconnects.
Feed == INSTANCE EventFeed WITH sent <- Len(bus), seen <- Seen
OneOrder == Feed!Spec

\* state.rs: "Persist a sentinel so downstream replay can detect the discontinuity": from
\* the log alone a reader knows the place of every event on the bus, so it knows of every
\* hole where it is and how large, as long as no write failed.
Tells(e) == IF e.k = "bus" THEN 1 ELSE e.n
Told(ls, n) == UNION {{i} \X (1 .. Tells(ls[i][1])) : i \in 1 .. n}
Before(i) == Cardinality(Told(log, i))
HolesAreAnnounced == faults = 0 =>
    /\ \A i \in DOMAIN log : Readable(log[i])
    /\ \A i \in DOMAIN log : log[i][1].k = "bus" => At(log[i][1]) = Before(i)
    /\ up => pos[Persister] - 1 = Before(Len(log)) + drawn[Persister].n

\* A failed write costs the line it hits and the one that is joined to it, no more.
FaultsStayLocal ==
    Cardinality({i \in DOMAIN log : ~ Readable(log[i])}) <= faults

\* What was broadcast is in the log, or announced as missing, or the dispatcher is gone.
EventsSettle ==
    \A i \in 1 .. MaxEvents : (Len(bus) >= i /\ up) ~> (~ up \/ (pos[Persister] > i /\ drawn[Persister] = NoEnv))

\* A browser is not left on the channel of a connection that has ended.
StreamsEnd ==
    \A b \in Browsers : (tab[b].gen # None /\ conn[Web] = "off") ~>
                            (tab[b].gen = None \/ conn[Web] # "off")

\* The log tells what it lost, and loses no more than what failed.
LogIsTrue == TypeOK /\ HolesAreAnnounced /\ FaultsStayLocal

\* Events reach the log and streams end with their connection (the persistence task,
\* control_bridge.rs).
StreamsSettle == EventsSettle /\ StreamsEnd
=============================================================================
