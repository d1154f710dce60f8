------------------------------ MODULE Console ------------------------------
(***************************************************************************)
(* The consoles beside a run: the terminal console (pitboss-tui) with its  *)
(* loop, the watcher thread that reads the run directory, the forwarder    *)
(* of the control socket and the threads that ask git for a diff; and the  *)
(* cached insights pages of the web console (pitboss-web).                 *)
(*                                                                         *)
(* The loop of the terminal console is sequential: draw, wait for a key,   *)
(* drain the channels.  What it does between the wait and the drain, and   *)
(* from the drain over the next frame to the wait, is one step each; the   *)
(* other threads interleave.  The dispatcher is environment: it writes its *)
(* run directory, serves one console connection at a time and takes the    *)
(* operations that arrive.                                                 *)
(***************************************************************************)
EXTENDS ConsoleKeys, Insights

CONSTANTS
    Menus,       \* the scenarios; one is chosen at the start
    SnapshotCap, \* slots of the snapshot channel (4 in the code)
    InboxCap,    \* bound: focus messages waiting for the watcher
    CacheTtl,    \* CACHE_TTL of the insights cache, in ticks of the clock
    BuildMax,    \* bound: the longest time a build of the insights takes
    ClockMax,    \* bound: the time the scenario ends
    MaxOpens     \* bound: runs opened one after the other

VARIABLES
    menu,      \* the scenario
    app,       \* AppState
    pc,        \* where the console's loop is: poll, drain, quit (off: no terminal)
    screen,    \* the last frame
    keyed,     \* whether the last poll brought a key or a click
    keys,      \* keys the operator may still press
    got,       \* requests shown since the run was opened
    runs,      \* the runs: directory and dispatcher
    conns,     \* the control connections made so far
    ctrl,      \* ctrl_events: what the forwarders passed on
    watchers,  \* the watcher threads started so far
    diffing,   \* git diff threads at work
    diffq,     \* git_diff: what they found
    ops,       \* operations sent, with the frame they were keyed on
    clock, disk, cache, reqs, answer    \* web console: see below

tui == <<app, pc, screen, keyed, keys, got, conns, ctrl, watchers, diffing, diffq, ops>>
web == <<clock, disk, cache, reqs, answer>>
vars == <<menu, tui, runs, web>>

Runs == IF menu.open = "none" THEN {} ELSE DOMAIN menu.static
NoSet == [runs |-> <<>>, failures |-> <<>>]
NoCache == [set |-> NoSet, at |-> 0, stamp |-> 0, has |-> FALSE]
NoRequest == [st |-> "idle", left |-> 0, stamp |-> 0, due |-> {}, asof |-> 0, set |-> NoSet]
NoAnswer == [set |-> NoSet, due |-> {}, over |-> {}]

-----------------------------------------------------------------------------
(* The watcher: a snapshot of the run directory, built anew each time.     *)

StaticIds(R, r) == IF R.resolved THEN menu.static[r] ELSE <<>>
\* Tasks that are not in the manifest: those with a record, and the directories.
DynamicIds(R, r, seen) ==
    SelectSeq(TaskOrder, LAMBDA t : /\ ~ Contains(StaticIds(R, r), t)
                                    /\ \/ \E i \in 1 .. seen : R.recs[i].task = t
                                       \/ t \in R.dirs)
\* The map keeps one record a task, the last one read.
LastRecord(R, t, seen) ==
    LET mine == {i \in 1 .. seen : R.recs[i].task = t}
    IN  IF mine = {} THEN 0 ELSE CHOOSE i \in mine : \A j \in mine : j <= i
BuildTile(R, t, seen) ==
    LET n == LastRecord(R, t, seen)
    IN  [id |-> t, ended |-> n,
         live |-> IF n # 0 THEN "done" ELSE IF t \in R.dirs \ R.quiet THEN "running" ELSE "pending"]
BuildSnapshot(R, r, seen, focus) ==
    LET ids == StaticIds(R, r) \o DynamicIds(R, r, seen)
        shown == IF Contains(ids, focus) THEN focus ELSE IF ids = <<>> THEN "none" ELSE ids[1]
    IN  [tasks |-> [i \in 1 .. Len(ids) |-> BuildTile(R, ids[i], seen)],
         log |-> [task |-> shown, rows |-> IF shown = "none" THEN 0 ELSE R.rows[shown]],
         failed |-> Cardinality({i \in 1 .. Len(ids) :
                        LET n == LastRecord(R, ids[i], seen) IN n # 0 /\ ~ R.recs[n].ok})]

\* The snapshot channel: the console takes all that is in it and applies the
\* newest, so how many there are and the newest are all that matters.
NoSnapshots == [n |-> 0, newest |-> [tasks |-> <<>>, log |-> [task |-> "none", rows |-> 0], failed |-> 0]]
TrySend(out, snap) == IF out.n < SnapshotCap THEN [n |-> out.n + 1, newest |-> snap] ELSE out

NewWatcher(r) ==
    [run |-> r, seen |-> 0, focus |-> "none", stream |-> TRUE, inbox |-> <<"">>,
     out |-> NoSnapshots, st |-> "new"]

\* Both ends are dropped when another run is opened or the console quits.
Left(i) == i # Len(watchers) \/ pc = "quit"

\* A full channel loses the snapshot; a closed one ends the watcher.
Rebuild(i, w) ==
    LET snap == BuildSnapshot(runs[w.run], w.run, w.seen, w.focus)
    IN  watchers' = [watchers EXCEPT ![i] =
            IF Left(i) THEN [w EXCEPT !.st = "ended"]
            ELSE [w EXCEPT !.out = TrySend(@, snap), !.st = "loop"]]

WatcherRest == UNCHANGED <<menu, app, pc, screen, keyed, keys, got, runs, conns, ctrl,
                           diffing, diffq, ops, web>>

WatcherStarts(i) ==
    /\ watchers[i].st = "new"
    /\ Rebuild(i, watchers[i])
    /\ WatcherRest

\* A record, or the end of the run with all of them.
WatcherReads(i) ==
    LET w == watchers[i]
        R == runs[w.run]
    IN  /\ w.st = "loop" /\ w.stream
        /\ \/ /\ w.seen < Len(R.recs)
              /\ Rebuild(i, [w EXCEPT !.seen = @ + 1])
           \/ /\ w.seen = Len(R.recs) /\ R.final
              /\ Rebuild(i, [w EXCEPT !.stream = FALSE])
        /\ WatcherRest

WatcherFocuses(i) ==
    LET w == watchers[i]
    IN  /\ w.st = "loop" /\ w.inbox # <<>>
        /\ Rebuild(i, [w EXCEPT !.focus = Head(w.inbox), !.inbox = Tail(@)])
        /\ WatcherRest

WatcherEnds(i) ==
    /\ watchers[i].st = "loop" /\ Left(i) /\ watchers[i].inbox = <<>>
    /\ watchers' = [watchers EXCEPT ![i].st = "ended"]
    /\ WatcherRest

-----------------------------------------------------------------------------
(* The control connection: the forwarder and the operations.               *)

\* A connection is refused where no dispatcher listens, and given up after 200 ms.
Serving(r) == {c \in 1 .. Len(conns) : conns[c].run = r /\ conns[c].srv}

Connected(s, r, cs) ==
    [app |-> [s EXCEPT !.conn = Len(cs) + 1, !.connected = TRUE],
     conns |-> Append([c \in 1 .. Len(cs) |->
                          IF cs[c].run = r THEN [cs[c] EXCEPT !.srv = FALSE] ELSE cs[c]],
                      [run |-> r, srv |-> TRUE, fwd |-> "up", hand |-> <<>>,
                       wire |-> <<[kind |-> "hello", rules |-> menu.rules]>>
                                  \o [i \in 1 .. Len(runs[r].queued) |->
                                         [kind |-> "request", req |-> runs[r].queued[i]]]])]
NotConnected(s, cs) == [app |-> [s EXCEPT !.conn = 0, !.connected = FALSE], conns |-> cs]
ConnectControl(s, r, cs) ==
    {NotConnected(s, cs)} \cup (IF runs[r].up THEN {Connected(s, r, cs)} ELSE {})

ForwarderRest == UNCHANGED <<menu, app, pc, screen, keyed, keys, got, runs, watchers, diffing,
                             diffq, ops, web>>

\* The forwarder takes an event off the stream, then passes it on.  Aborting it
\* stops it at the first of these points only: what it holds still goes out.
ForwarderTakes(c) ==
    /\ conns[c].fwd = "up" /\ conns[c].hand = <<>> /\ conns[c].wire # <<>>
    /\ conns' = [conns EXCEPT ![c].hand = <<Head(conns[c].wire)>>, ![c].wire = Tail(@)]
    /\ ctrl' = ctrl
    /\ ForwarderRest
ForwarderPasses(c) ==
    /\ conns[c].hand # <<>>
    /\ ctrl' = Append(ctrl, [conn |-> c, ev |-> conns[c].hand[1]])
    /\ conns' = [conns EXCEPT ![c].hand = <<>>]
    /\ ForwarderRest

\* Every operation is written by a task of its own: they may arrive in any
\* order, and one that finds the connection gone is lost without a word.
OpArrives(o) ==
    /\ o.st = "flying"
    /\ LET r == conns[o.conn].run
           taken == conns[o.conn].srv /\ runs[r].up
       IN  /\ ops' = (ops \ {o}) \cup {[o EXCEPT !.st = IF taken THEN "taken" ELSE "lost"]}
           /\ runs' = IF taken /\ o.op.kind = "approve"
                      THEN [runs EXCEPT ![r].asked = @ \ {o.op.req}] ELSE runs
    /\ UNCHANGED <<menu, app, pc, screen, keyed, keys, got, conns, ctrl, watchers, diffing, diffq, web>>

-----------------------------------------------------------------------------
(* The threads that ask git for a diff.                                    *)

\* A diff that fails or runs out of time is not reported.
DiffEnds(d) ==
    /\ d \in diffing
    /\ diffing' = diffing \ {d}
    /\ diffq' \in {diffq, Append(diffq, d)}
    /\ UNCHANGED <<menu, app, pc, screen, keyed, keys, got, runs, conns, ctrl, watchers, ops, web>>

-----------------------------------------------------------------------------
(* The loop.                                                               *)

\* The loop comes round: a frame, and the wait for the next event.
Draw(s) ==
    /\ app' = Render(s, runs[s.run].cool)
    /\ screen' = Screen(s)
    /\ pc' = "poll"

SendFocus(ws, s) ==
    IF HasFocus(s) THEN [ws EXCEPT ![Len(ws)].inbox = Append(@, FocusedId(s))] ELSE ws
InboxHasRoom == Len(watchers[Len(watchers)].inbox) < InboxCap

\* Opening another run: a new watcher, clean pages, the old forwarder aborted,
\* what it passed on dropped, a new client.
SwitchRun(s, r) ==
    LET aborted == IF app.conn = 0 THEN conns
                   ELSE [conns EXCEPT ![app.conn].fwd = "aborted", ![app.conn].wire = <<>>]
    IN  \E n \in ConnectControl(ResetForSwitch(s, r), r, aborted) :
            /\ Draw(n.app)
            /\ conns' = n.conns
            /\ runs' = IF n.app.conn = 0 THEN runs ELSE [runs EXCEPT ![r].queued = <<>>]
            /\ watchers' = Append([watchers EXCEPT ![Len(watchers)].out = NoSnapshots], NewWatcher(r))
            /\ ctrl' = <<>>
            /\ got' = {}
            /\ UNCHANGED ops

Acts(res) ==
    /\ keyed' = TRUE
    /\ keys' = keys - 1
    /\ diffing' = diffing \cup {[run |-> app.run, task |-> t] : t \in DiffWanted(app, res.s)}
    /\ \/ /\ res.act = "quit"
          /\ pc' = "quit" /\ app' = res.s
          /\ UNCHANGED <<screen, watchers, conns, ctrl, got, runs, ops>>
       \/ /\ res.act = "switch"
          /\ SwitchRun(res.s, res.to)
       \/ /\ res.act = "continue" /\ InboxHasRoom
          /\ pc' = "drain" /\ app' = res.s
          /\ watchers' = SendFocus(watchers, res.s)
          /\ ops' = IF res.op = NoOp THEN ops
                    ELSE ops \cup {[op |-> res.op, conn |-> app.conn, seen |-> screen, st |-> "flying"]}
          /\ UNCHANGED <<screen, conns, ctrl, got, runs>>
    /\ UNCHANGED <<menu, diffq, web>>

Key ==
    /\ pc = "poll" /\ keys > 0
    /\ \E k \in menu.keys : Acts(HandleKey(app, k, runs[app.run].cool, menu.known))

Mouse ==
    /\ pc = "poll" /\ keys > 0 /\ menu.mouse
    /\ \E res \in HandleMouse(app, runs[app.run].cool) : Acts(res)

\* No event within 50 ms.
Idle ==
    /\ pc = "poll"
    /\ pc' = "drain" /\ keyed' = FALSE
    /\ UNCHANGED <<menu, app, screen, keys, got, runs, conns, ctrl, watchers, diffing, diffq, ops, web>>

\* Mutant: the watcher is not told the focus again after a snapshot.
X_Resend(ws, s) == ws
Resend(ws, s) == SendFocus(ws, s)

\* The newest snapshot is applied, the older ones are passed over; then the
\* control events in order, then the diffs.
Drain ==
    LET w == watchers[Len(watchers)]
        cool == runs[app.run].cool
        fed == IF w.out.n = 0 THEN app ELSE AutoScroll(ApplySnapshot(app, w.out.newest, cool))
        emptied == [watchers EXCEPT ![Len(watchers)].out = NoSnapshots]
        told == FoldLeft(LAMBDA s, e : ApplyControlEvent(s, e.ev), fed, ctrl)
        found == {diffq[i] : i \in 1 .. Len(diffq)}
    IN  /\ pc = "drain" /\ InboxHasRoom
        /\ watchers' = IF w.out.n = 0 THEN watchers ELSE Resend(emptied, fed)
        /\ Draw([told EXCEPT !.diffs = {d \in @ : \A f \in found : f.task # d.task} \cup found])
        /\ got' = got \cup {e.ev.req : e \in {x \in ToSet(ctrl) : x.ev.kind = "request"}}
        /\ ctrl' = <<>> /\ diffq' = <<>>
        /\ UNCHANGED <<menu, keyed, keys, runs, conns, diffing, ops, web>>

-----------------------------------------------------------------------------
(* The dispatcher and time, as the console meets them.                     *)

World == UNCHANGED <<menu, app, pc, screen, keyed, keys, got, ctrl, watchers, diffing, diffq, ops, web>>

\* An event goes to the connected console; a request waits in the queue for one.
Tell(r, ev) ==
    conns' = [c \in 1 .. Len(conns) |->
                 IF c \in Serving(r) /\ conns[c].fwd = "up"
                 THEN [conns[c] EXCEPT !.wire = Append(@, ev)] ELSE conns[c]]

\* The control socket opens after resolved.json is written.
ResolvedWritten(r) ==
    /\ ~ runs[r].resolved
    /\ runs' = [runs EXCEPT ![r].resolved = TRUE, ![r].up = TRUE]
    /\ UNCHANGED conns /\ World
TaskStarts(r, t) ==
    /\ runs[r].resolved /\ ~ runs[r].final /\ t \notin runs[r].dirs
    /\ runs' = [runs EXCEPT ![r].dirs = @ \cup {t}]
    /\ UNCHANGED conns /\ World
LogGrows(r, t) ==
    /\ t \in runs[r].dirs /\ ~ runs[r].final /\ runs[r].rows[t] < menu.rows
    /\ runs' = [runs EXCEPT ![r].rows[t] = @ + 1, ![r].quiet = @ \ {t}]
    /\ UNCHANGED conns /\ World
LogGoesQuiet(r, t) ==
    /\ t \in runs[r].dirs \ runs[r].quiet /\ menu.rows > 0
    /\ runs' = [runs EXCEPT ![r].quiet = @ \cup {t}]
    /\ UNCHANGED conns /\ World
RecordWritten(r, t, ok) ==
    /\ t \in runs[r].dirs /\ ~ runs[r].final /\ Len(runs[r].recs) < menu.recs
    /\ runs' = [runs EXCEPT ![r].recs = Append(@, [task |-> t, ok |-> ok])]
    /\ UNCHANGED conns /\ World
CooldownPasses(r) ==
    /\ menu.cools /\ runs[r].cool < Len(runs[r].recs)
    /\ runs' = [runs EXCEPT ![r].cool = @ + 1]
    /\ UNCHANGED conns /\ World
\* The dispatcher ends and the socket with it.  It has an event for this, RunFinished,
\* and never sends it: the console keeps a client that nobody listens to.
RunFinishes(r) ==
    /\ menu.ends /\ runs[r].resolved /\ ~ runs[r].final
    /\ runs' = [runs EXCEPT ![r].final = TRUE, ![r].up = FALSE]
    /\ UNCHANGED conns /\ World
Asks(r, q) ==
    /\ runs[r].up /\ q \in menu.reqs[r] \ runs[r].told
    /\ runs' = [runs EXCEPT ![r].asked = @ \cup {q}, ![r].told = @ \cup {q},
                            ![r].queued = IF Serving(r) = {} THEN Append(@, q) ELSE @]
    /\ Tell(r, [kind |-> "request", req |-> q])
    /\ World
SubleadComes(r, l) ==
    /\ runs[r].up /\ l \in menu.leads /\ l \notin runs[r].trees /\ l \notin runs[r].gone
    /\ runs' = [runs EXCEPT ![r].trees = @ \cup {l}]
    /\ Tell(r, [kind |-> "spawned", sublead |-> l])
    /\ World
SubleadGoes(r, l) ==
    /\ runs[r].up /\ l \in runs[r].trees
    /\ runs' = [runs EXCEPT ![r].trees = @ \ {l}, ![r].gone = @ \cup {l}]
    /\ Tell(r, [kind |-> "terminated", sublead |-> l])
    /\ World
\* Another console connects to the run.
Superseded(r) ==
    /\ runs[r].up /\ menu.rival /\ Serving(r) # {}
    /\ conns' = [c \in 1 .. Len(conns) |->
                    IF c \in Serving(r)
                    THEN [conns[c] EXCEPT !.srv = FALSE,
                             !.wire = IF conns[c].fwd = "up" THEN Append(@, [kind |-> "superseded"]) ELSE @]
                    ELSE conns[c]]
    /\ UNCHANGED runs /\ World

TerminalNext ==
    \/ Key \/ Mouse \/ Idle \/ Drain
    \/ \E i \in 1 .. Len(watchers) :
           WatcherStarts(i) \/ WatcherReads(i) \/ WatcherFocuses(i) \/ WatcherEnds(i)
    \/ \E c \in 1 .. Len(conns) : ForwarderTakes(c) \/ ForwarderPasses(c)
    \/ \E o \in ops : OpArrives(o)
    \/ \E d \in diffing : DiffEnds(d)
    \/ \E r \in Runs :
        \/ ResolvedWritten(r) \/ CooldownPasses(r) \/ RunFinishes(r) \/ Superseded(r)
        \/ \E t \in menu.tasks[r] :
               \/ TaskStarts(r, t) \/ LogGrows(r, t) \/ LogGoesQuiet(r, t)
               \/ \E ok \in menu.oks : RecordWritten(r, t, ok)
        \/ \E q \in menu.reqs[r] : Asks(r, q)
        \/ \E l \in menu.leads : SubleadComes(r, l) \/ SubleadGoes(r, l)

-----------------------------------------------------------------------------
(* The insights pages of the web console: a cache in front of a build that *)
(* reads every run directory.  Requests are served concurrently.           *)
(*                                                                         *)
(* disk: the run directories, in the order listed, each with the time it   *)
(* appeared, whether that moved the modification time of the directory of  *)
(* runs, and the time its summary appeared (0: not yet).  The modification *)
(* time has the file system's tick: of two runs that appear at one time of *)
(* the clock the second may leave it as it was.                            *)

Tui == UNCHANGED <<menu, tui, runs>>

DirMtime == disk.mtime
EntryOf(d) ==
    [menu.web[d.run] EXCEPT !.final = d.fin # 0,
                            !.status = IF d.fin = 0 THEN "running" ELSE @]

\* A page is looked at in the step it is answered in.
NoPage == answer' = NoAnswer

Tick ==
    /\ menu.web # <<>> /\ clock < ClockMax
    \* a build does not take longer than BuildMax
    /\ \A q \in DOMAIN reqs : reqs[q].st = "read" => clock - reqs[q].asof < BuildMax
    /\ clock' = clock + 1
    /\ UNCHANGED <<disk, cache, reqs>> /\ NoPage /\ Tui

RunAppears ==
    /\ Len(disk.list) < Len(menu.web)
    /\ \E moved \in BOOLEAN :
        /\ moved \/ Last(disk.list).born = clock
        /\ disk' = [list |-> Append(disk.list, [run |-> Len(disk.list) + 1, born |-> clock,
                                                moved |-> moved, fin |-> 0]),
                    mtime |-> IF moved THEN disk.mtime + 1 ELSE disk.mtime]
    /\ UNCHANGED <<clock, cache, reqs>> /\ NoPage /\ Tui

\* The summary appears inside the run's own directory: the mtime does not change.
\* A run the scenario lists as running stays so.
SummaryAppears(i) ==
    /\ disk.list[i].fin = 0 /\ menu.web[disk.list[i].run].status # "running"
    /\ disk' = [disk EXCEPT !.list[i].fin = clock]
    /\ UNCHANGED <<clock, cache, reqs>> /\ NoPage /\ Tui

\* InsightsCache::get: the mtime is read first; a fresh entry with the same one
\* is the answer, else the directories are read.
\* Due on a page: the runs whose appearance moved the mtime, and the others once
\* every entry that was built without them is too old.
Due == {disk.list[i].run : i \in {j \in 1 .. Len(disk.list) :
            disk.list[j].moved \/ disk.list[j].born + CacheTtl + BuildMax <= clock}}
\* The runs that ended longer ago than an entry is kept and a build takes.
LongOver == {disk.list[i].run : i \in {j \in 1 .. Len(disk.list) :
                 disk.list[j].fin # 0 /\ disk.list[j].fin + CacheTtl + BuildMax <= clock}}
RequestBegins(q) ==
    /\ reqs[q].st = "idle" /\ reqs[q].left > 0
    /\ LET hit == cache.has /\ clock - cache.at < CacheTtl /\ cache.stamp = DirMtime
       IN  \/ /\ hit
              /\ reqs' = [reqs EXCEPT ![q].left = @ - 1]
              /\ answer' = [set |-> cache.set, due |-> Due, over |-> LongOver]
           \/ /\ ~ hit
              /\ reqs' = [reqs EXCEPT ![q].st = "build", ![q].stamp = DirMtime, ![q].due = Due]
              /\ NoPage
    /\ UNCHANGED <<clock, disk, cache>> /\ Tui
RequestReads(q) ==
    /\ reqs[q].st = "build"
    /\ reqs' = [reqs EXCEPT ![q].st = "read", ![q].asof = clock,
            ![q].set = BuildSet([i \in 1 .. Len(disk.list) |-> EntryOf(disk.list[i])])]
    /\ UNCHANGED <<clock, disk, cache>> /\ NoPage /\ Tui
\* Mutant: the entry is stamped with the mtime found after the build.
X_Stamp(q) == DirMtime
Stamp(q) == reqs[q].stamp
RequestStores(q) ==
    /\ reqs[q].st = "read"
    /\ cache' = [set |-> reqs[q].set, at |-> clock, stamp |-> Stamp(q), has |-> TRUE]
    /\ reqs' = [reqs EXCEPT ![q] = [NoRequest EXCEPT !.left = reqs[q].left - 1]]
    /\ answer' = [set |-> reqs[q].set, due |-> reqs[q].due, over |-> LongOver]
    /\ UNCHANGED <<clock, disk>> /\ Tui

WebNext ==
    \/ Tick
    \/ RunAppears
    \/ \E i \in 1 .. Len(disk.list) : SummaryAppears(i)
    \/ \E q \in DOMAIN reqs : RequestBegins(q) \/ RequestReads(q) \/ RequestStores(q)

-----------------------------------------------------------------------------

NewRun(r) ==
    [resolved |-> menu.resolved, dirs |-> {}, quiet |-> {}, recs |-> <<>>, cool |-> 0,
     final |-> FALSE, up |-> menu.resolved, rows |-> [t \in ToSet(TaskOrder) |-> 0],
     asked |-> {}, told |-> {}, queued |-> <<>>, trees |-> {}, gone |-> {}]

\* app::run: the state, the first connection, the first watcher.  The web console
\* starts beside one run that is over.
Init ==
    /\ menu \in Menus
    /\ runs = [r \in Runs |-> NewRun(r)]
    /\ \/ /\ menu.open # "none"
          /\ \E n \in ConnectControl(AppNew(menu.open), menu.open, <<>>) :
                 app = Render(n.app, 0) /\ conns = n.conns
          /\ watchers = <<NewWatcher(menu.open)>>
          /\ pc = "poll"
       \/ /\ menu.open = "none"
          /\ app = AppNew("none") /\ conns = <<>> /\ watchers = <<>> /\ pc = "off"
    /\ screen = Screen(AppNew(menu.open))
    /\ keyed = FALSE /\ keys = menu.presses /\ got = {}
    /\ ctrl = <<>> /\ diffing = {} /\ diffq = <<>> /\ ops = {}
    /\ clock = 1 /\ cache = NoCache
    /\ disk = IF menu.web = <<>> THEN [list |-> <<>>, mtime |-> 0]
              ELSE [list |-> <<[run |-> 1, born |-> 0, moved |-> TRUE, fin |-> 1]>>, mtime |-> 1]
    /\ reqs = [q \in 1 .. menu.requests |-> [NoRequest EXCEPT !.left = q]]
    /\ answer = NoAnswer

Next == TerminalNext \/ WebNext

\* The loop polls with a timeout, so it always comes round; the watcher's and the
\* forwarder's threads run whenever they have something to do, and select! picks
\* among ready branches at random.  Keys and the dispatcher are free.
\* Only the scenarios that ask for progress (menu.live) assume it.
LoopTurns == menu.live /\ (Idle \/ Drain)
WatcherStreams(i) == menu.live /\ i <= Len(watchers) /\ (WatcherStarts(i) \/ WatcherReads(i))
WatcherListens(i) == menu.live /\ i <= Len(watchers) /\ (WatcherFocuses(i) \/ WatcherEnds(i))
ForwarderRuns(c) == menu.live /\ c <= Len(conns) /\ (ForwarderTakes(c) \/ ForwarderPasses(c))
Fairness ==
    /\ WF_vars(LoopTurns)
    /\ \A i \in 1 .. MaxOpens :
           WF_vars(WatcherStreams(i)) /\ WF_vars(WatcherListens(i)) /\ WF_vars(ForwarderRuns(i))

Spec == Init /\ [][Next]_vars /\ Fairness

-----------------------------------------------------------------------------
(* Properties.                                                             *)

\* What is sent is what was on the screen when the key was pressed: every
\* operation goes to the run in the title, and to the task or request that was
\* in focus or asked about (handle_key, connect_control and reset_state_for_switch).
OpsMatchScreen ==
    \A o \in ops :
        LET m == o.seen.mode
        IN  /\ conns[o.conn].run = o.seen.run
            /\ CASE o.op.kind \in {"pause", "continue"} -> m = Normal /\ o.op.task = o.seen.focus
                 [] o.op.kind = "cancel" -> m = [kind |-> "confirm", target |-> o.op.task]
                 [] o.op.kind = "cancel_run" -> m = [kind |-> "confirm", target |-> "run"]
                 [] o.op.kind = "reprompt" -> m.kind = "reprompt" /\ m.task = o.op.task
                 [] o.op.kind = "approve" -> /\ m.kind = "modal" /\ m.req = o.op.req
                                             /\ o.op.ok = (m.sub # "rejecting")
                 [] o.op.kind = "policy" -> m.kind = "policy" /\ m.rules = o.op.rules

\* A request for approval that was shown stays in the list until an answer to it
\* is sent, however often its modal is put aside or taken over by another
\* (send_approve, Esc in the modal, Superseded), and the list's selection points
\* into it.
RequestsStayListed ==
    /\ \A q \in got : \/ Contains(app.list, q)
                       \/ \E o \in ops : o.op.kind = "approve" /\ o.op.req = q
    /\ (app.list # <<>> => app.sel < Len(app.list))

\* A click on the Completed page indexes the tasks by a row of the last frame
\* (handle_mouse): the row is still a task when the click is handled.
RowsAreTasks ==
    app.mode.kind = "completed" /\ pc = "poll" => app.hit.completed \subseteq 0 .. Len(app.tasks) - 1

ConsoleIsTrue == OpsMatchScreen /\ RequestsStayListed /\ RowsAreTasks

\* Between two frames with no key in between the focus does not move to another
\* task unannounced (apply_snapshot, ensure_active_focus): the next key would hit
\* a task the operator did not choose.
FocusLossIsAnnounced ==
    [][pc = "drain" /\ pc' = "poll" /\ ~ keyed /\ screen'.run = screen.run
         /\ screen.focus # "none" /\ screen'.focus # screen.focus
       => screen'.notice # NoNotice]_vars

\* When the run is over and the console stays on it, the console ends up showing
\* every record and the whole log of the task in focus, although the snapshot
\* channel drops what does not fit (run_watch_loop_async); the watcher of a run
\* that was left ends; and what the control socket brings is not held up.
Open == menu.live /\ pc # "quit"
CaughtUp ==
    LET r == app.run
        now == BuildSnapshot(runs[r], r, Len(runs[r].recs), FocusedId(app))
    IN  Open /\ app.tasks = now.tasks /\ app.log = now.log /\ app.failed = now.failed
InTransit ==
    \/ ctrl # <<>>
    \/ \E c \in 1 .. Len(conns) : conns[c].hand # <<>> \/ (conns[c].fwd = "up" /\ conns[c].wire # <<>>)
WatcherLeft(i) == menu.live /\ i <= Len(watchers) /\ Left(i)
WatcherDone(i) == i <= Len(watchers) /\ watchers[i].st = "ended"
ConsoleSettles ==
    /\ (<>[](Open /\ runs[app.run].final)) => <>[]CaughtUp
    /\ (<>[]Open) => []<>(~ InTransit)
    /\ \A i \in 1 .. MaxOpens : WatcherLeft(i) ~> WatcherDone(i)

\* An insights page shows every run whose appearance moved the directory's mtime
\* before it was asked for, whichever request filled the cache (InsightsCache::get);
\* a run hidden by the tick of the mtime, and the end of a run, are shown once the
\* time an entry is kept and a build takes is over.
PagesAreFresh ==
    /\ answer.due \subseteq {d.run : d \in ToSet(answer.set.runs)}
    /\ answer.over \subseteq {d.run : d \in {x \in ToSet(answer.set.runs) : x.status # "running"}}

\* The pages agree with each other under every filter: the clusters count every
\* failure once, a run listed under a kind has a failure of that kind, a manifest's
\* row, which keeps the times of a filter only, counts every run of it that the
\* list of runs shows, and one page goes on where the one before it ends
\* (apply_filter, cluster_failures, manifests).
PagesAddUp ==
    \A f \in menu.filters :
        LET set == ApplyFilter(answer.set, f)
            clusters == ClusterFailures(set.failures)
            byManifest == ManifestsPage(answer.set, f)
        IN  /\ FoldSet(LAMBDA c, n : c.count + n, 0, clusters) = Len(set.failures)
            /\ \A c \in clusters : c.first <= c.last /\ c.runs # {}
                                    /\ (c.key[2] # "none" => c.exemplar # "none")
            /\ \A d \in ToSet(set.runs) : \E m \in byManifest :
                   /\ m.manifest = d.manifest /\ d.kinds \subseteq m.kinds
                   /\ Len(SelectSeq(set.runs, LAMBDA e : e.manifest = d.manifest)) <= m.total
            /\ \A d \in ToSet(set.runs) : \A k \in d.kinds \cap {f.kind} :
                   \E x \in ToSet(set.failures) : x.run = d.run /\ x.kind = k
            /\ \A k \in 0 .. Len(set.runs) :
                   RunsPage(set, 0, k) \o RunsPage(set, k, Len(set.runs)) = set.runs
            /\ \A k \in 1 .. Len(set.failures) - 1 :
                   FailuresPage(set, 0, k)[k].at >= FailuresPage(set, k, 1)[1].at
            /\ \A m \in byManifest : m.failed <= m.total /\ (m.kinds # {} => m.failed > 0)

InsightsAreTrue == PagesAreFresh /\ PagesAddUp
=============================================================================
