-------------------------------- MODULE RunFiles --------------------------------
(***************************************************************************)
(* Everyone who works on the files of one run: the dispatcher that writes  *)
(* them and may die at any point, the background launcher and the          *)
(* container that start it, `prune` twice at a time, a reader that follows *)
(* the run, and `resume` after it.  The store is the JSON one the program  *)
(* uses, or the SQLite one.                                                *)
(***************************************************************************)
EXTENDS SqliteStore, Containers

CONSTANT Menus  \* scenarios

VARIABLES
    d,        \* where the dispatcher is
    parent,   \* where the background launcher is
    app,      \* record to where its append is
    order,    \* records handed to the store, in order
    mixed,    \* history: appends that failed or overlapped another
    sum,      \* the summary the dispatcher is about to write
    fd,       \* inode the dispatcher has open, or 0
    sock,     \* the control socket: "none", "live", or "left" by a crash
    old,      \* no record for longer than STALENESS_THRESHOLD
    ended,    \* history: a summary has been in place
    prune,    \* the prunes
    fol,      \* the reader that follows
    res,      \* `pitboss resume`
    harmed,   \* history: a prune wrote to a run whose process lived
    lost      \* inodes a writer had open when it died

fileVars == <<d, parent, app, order, mixed, sum, fd, sock, old, ended, prune, fol, res, harmed, lost>>
vars == <<menu, dir, inode, sqlVars, boxVars, fileVars>>

Recs == 1..Len(menu.recs)
Idle == [at |-> "idle", status |-> "none", settled |-> 0, live |-> FALSE, sum |-> Torn, fd |-> 0]
Reader == [at |-> "poll", tasks |-> NoTasks, got |-> FALSE, final |-> <<>>, jm |-> -1, hj |-> -1,
           off |-> 0, sz |-> -1, known |-> FALSE, emitted |-> <<>>]

Init ==
    /\ menu \in Menus
    /\ dir = NoDir /\ inode = <<>>
    /\ InitSqlite /\ InitContainers
    /\ d = "wait" /\ parent = IF menu.background THEN "validate" ELSE "off"
    /\ app = [i \in Recs |-> "idle"] /\ order = <<>> /\ mixed = {} /\ sum = Torn /\ fd = 0
    /\ sock = "none" /\ old = FALSE /\ ended = FALSE
    /\ prune = [p \in menu.pruners |-> Idle]
    /\ fol = IF menu.follow THEN Reader ELSE [Reader EXCEPT !.at = "off"]
    /\ res = [at |-> "idle", sids |-> <<>>, subs |-> {}]
    /\ harmed = FALSE /\ lost = {}

disk == <<menu, sqlVars, boxVars>>
books == <<app, order, mixed, sum>>
----------------------------------------------------------------------------
(* The start of a run. *)

\* The manifest is read, the log of stderr opened, the child started with the
\* id that is announced; its output does not matter to the child.
run_background ==
    /\ parent \in {"validate", "log", "spawn", "announce"}
    /\ parent' = CASE parent = "validate" -> IF menu.fault = "manifest" THEN "refused" ELSE "log"
                   [] parent = "log" -> "spawn"
                   [] parent = "spawn" -> IF menu.fault = "spawn" THEN "refused" ELSE "announce"
                   [] parent = "announce" -> "done"
    /\ UNCHANGED <<disk, dir, inode, d, books, fd, sock, old, ended, prune, fol, res, harmed, lost>>

Started == /\ parent \in {"off", "announce", "done"}
           /\ menu.launch # "" => launch.at = "running"
dRest == <<disk, parent, prune, fol, res, harmed, lost>>

\* An id handed over by the launcher must be a version 7 one.
BeginRun ==
    /\ d = "wait" /\ Started
    /\ d' = IF menu.fault = "id" THEN "refused" ELSE "snapshot"
    /\ UNCHANGED <<dRest, dir, inode, books, fd, sock, old, ended>>
\* The directory and the manifest's text, then what it resolved to.
WriteSnapshot ==
    /\ d = "snapshot" /\ d' = "resolved"
    /\ dir' = [dir EXCEPT !.exists = TRUE, !.snapshot = IF menu.resumed THEN "empty" ELSE "full"]
    /\ UNCHANGED <<dRest, inode, books, fd, sock, old, ended>>
WriteResolved ==
    /\ d = "resolved" /\ d' = "meta" /\ dir' = [dir EXCEPT !.resolved = TRUE]
    /\ UNCHANGED <<dRest, inode, books, fd, sock, old, ended>>
init_run ==
    /\ d = "meta" /\ d' = "jsonl" /\ dir' = [dir EXCEPT !.meta = TRUE]
    /\ UNCHANGED <<dRest, inode, books, fd, sock, old, ended>>
CreateJsonl ==
    /\ d = "jsonl" /\ d' = "setup" /\ dir' = [dir EXCEPT !.hasJsonl = TRUE]
    /\ UNCHANGED <<dRest, inode, books, fd, sock, old, ended>>
\* A lead keeps its control socket to the end; a flat run does not.
OpenSocket ==
    /\ d = "setup" /\ d' = "work" /\ sock' = IF menu.socket THEN "live" ELSE "none"
    /\ UNCHANGED <<dRest, dir, inode, books, fd, old, ended>>
----------------------------------------------------------------------------
(* Its records, each appended by a future of its own, in two writes. *)

json == menu.store = "json"
Before(i) == \A j \in Recs : menu.recs[j].task = menu.recs[i].task /\ j < i => app[j] = "done"
AtLine == {i \in Recs : app[i] = "line"}
\* Mutant: the record is written over what another task appended meanwhile.
X_AppendLine(i) ==
    /\ json /\ d = "work" /\ app[i] = "idle" /\ Before(i)
    /\ app' = [app EXCEPT ![i] = "line"] /\ order' = Append(order, menu.recs[i]) /\ old' = FALSE
    /\ mixed' = IF AtLine = {} THEN mixed ELSE mixed \cup AtLine \cup {i}
    /\ dir' = [dir EXCEPT !.hasJsonl = TRUE, !.jsonl = IF Len(@) > 1 THEN <<menu.recs[i]>> ELSE Append(@, menu.recs[i])]
    /\ UNCHANGED <<dRest, d, sum, inode, fd, sock, ended>>
AppendLine(i) ==
    /\ json /\ d = "work" /\ app[i] = "idle" /\ Before(i)
    /\ order' = Append(order, menu.recs[i])
    /\ \/ /\ dir.exists /\ app' = [app EXCEPT ![i] = "line"] /\ old' = FALSE
          /\ mixed' = IF AtLine = {} THEN mixed ELSE mixed \cup AtLine \cup {i}
          /\ dir' = [dir EXCEPT !.hasJsonl = TRUE, !.jsonl = Append(@, menu.recs[i])]
       \/ /\ menu.fault = "append" /\ app' = [app EXCEPT ![i] = "done"] /\ mixed' = mixed \cup {i}
          /\ UNCHANGED <<dir, old>>
    /\ UNCHANGED <<dRest, d, sum, inode, fd, sock, ended>>
AppendNewline(i) ==
    /\ json /\ d = "work" /\ app[i] = "line" /\ app' = [app EXCEPT ![i] = "done"]
    /\ dir' = [dir EXCEPT !.jsonl = Append(@, Nl)] /\ old' = FALSE
    /\ UNCHANGED <<dRest, d, inode, order, mixed, sum, fd, sock, ended>>
\* Hours without a record: while a task is at work, or after a crash.
HoursPass ==
    /\ menu.hours /\ ~old /\ dir.hasJsonl /\ old' = TRUE
    /\ d = "dead" \/ (d = "work" /\ \E i \in Recs : app[i] # "done")
    /\ UNCHANGED <<dRest, d, dir, inode, books, fd, sock, ended>>
----------------------------------------------------------------------------
(* Its summary. *)

\* A flat run has its records in memory.  A lead run reads them from the file
\* and skips what does not parse; a worker that is done gets no record in the
\* place of one that is missing.
read_summary_jsonl_records ==
    /\ json /\ d = "work" /\ \A i \in Recs : app[i] = "done"
    /\ IF menu.socket /\ ~dir.hasJsonl THEN d' = "close" /\ UNCHANGED sum
       ELSE /\ sum' = RunSummary("run", menu.interrupted,
                                 IF menu.socket THEN ByEnd(read_run_snapshot) ELSE order)
            /\ d' = "open"
    /\ UNCHANGED <<dRest, dir, inode, app, order, mixed, fd, sock, old, ended>>
FinalizeOpen ==
    /\ d = "open" /\ d' = "write" /\ OpenTmp /\ fd' = Opened
    /\ UNCHANGED <<dRest, books, sock, old, ended>>
FinalizeWrite ==
    /\ d = "write" /\ d' = "rename" /\ WriteTmp(fd, sum)
    /\ UNCHANGED <<dRest, books, fd, sock, old, ended>>
FinalizeRename ==
    /\ d = "rename" /\ d' = "close" /\ fd' = 0 /\ RenameTmp
    /\ ended' = (ended \/ dir.tmp # 0)
    /\ UNCHANGED <<dRest, inode, books, sock, old>>
CloseSocket ==
    /\ d = "close" /\ d' = "done" /\ sock' = "none"
    /\ UNCHANGED <<dRest, dir, inode, books, fd, old, ended>>

\* The process dies; a record it was writing may be cut short.
Crash ==
    /\ menu.crash /\ json /\ d \notin {"wait", "refused", "done", "dead"}
    /\ d' = "dead" /\ sock' = IF sock = "live" THEN "left" ELSE sock
    /\ lost' = (IF fd = 0 THEN lost ELSE lost \cup {fd}) /\ fd' = 0
    /\ dir' \in {dir} \cup {[dir EXCEPT !.jsonl = Append(@, Part)] : i \in {j \in Recs : d = "work" /\ app[j] = "idle"}}
    /\ UNCHANGED <<disk, parent, prune, fol, res, harmed, inode, books, old, ended>>

\* The same calls on the SQLite store.
SqliteRun(c) ==
    /\ ~json /\ UNCHANGED <<menu, boxVars, dir, inode, parent, fd, sock, old, prune, fol, res, harmed, lost>>
    /\ \/ /\ d = "wait" /\ sqlite_init_run(c) /\ d' = "work" /\ UNCHANGED <<books, ended>>
       \/ \E i \in Recs :
            /\ d = "work" /\ app[i] = "idle" /\ Before(i)
            /\ sqlite_append_record(c, menu.recs[i]) /\ app' = [app EXCEPT ![i] = "done"]
            /\ order' = Append(order, menu.recs[i]) /\ UNCHANGED <<d, mixed, sum, ended>>
       \/ /\ d = "work" /\ \A i \in Recs : app[i] = "done"
          /\ sqlite_finalize_run(c, RunSummary("run", menu.interrupted, order))
          /\ d' = "done" /\ ended' = TRUE /\ UNCHANGED books
----------------------------------------------------------------------------
(* prune: collects every run's status, then acts on its candidates. *)

pRest == <<disk, d, parent, books, fd, sock, old, fol, res>>
P(p, rec) == prune' = [prune EXCEPT ![p] = rec]

\* An operator prunes aborted runs, and flat ones, only when they have ended.
collect_run_entry(p) ==
    /\ prune[p].at = "idle" /\ dir.exists
    /\ (menu.aborted \/ ~menu.socket) => d \in {"done", "dead"}
    /\ P(p, [Idle EXCEPT !.at = IF dir.json = 0 THEN "live" ELSE "filter",
                         !.status = IF dir.json = 0 THEN "none" ELSE SummaryStatus(Summary),
                         !.settled = task_count(read_run_snapshot)])
    /\ UNCHANGED <<pRest, dir, inode, ended, harmed, lost>>
\* A socket a crash left behind does not answer.
control_socket_is_live(p) ==
    /\ prune[p].at = "live" /\ P(p, [prune[p] EXCEPT !.at = "recent", !.live = (sock = "live")])
    /\ UNCHANGED <<pRest, dir, inode, ended, harmed, lost>>
jsonl_recent(p) ==
    /\ prune[p].at = "recent"
    /\ P(p, [prune[p] EXCEPT !.at = "filter",
                !.status = classify_status(prune[p].live, prune[p].settled, dir.hasJsonl /\ ~old)])
    /\ UNCHANGED <<pRest, dir, inode, ended, harmed, lost>>
matches_status(s) == s = "stale" \/ (s = "aborted" /\ menu.aborted)
filter_candidates(p) ==
    /\ prune[p].at = "filter"
    /\ P(p, [prune[p] EXCEPT !.at = IF matches_status(prune[p].status) /\ menu.apply THEN "act" ELSE "done"])
    /\ UNCHANGED <<pRest, dir, inode, ended, harmed, lost>>

Harm == harmed' = (harmed \/ d \notin {"dead", "done"})
remove_run(p) ==
    /\ prune[p].at = "act" /\ menu.remove
    /\ dir' = NoDir /\ P(p, [Idle EXCEPT !.at = "done"]) /\ Harm /\ ended' = FALSE
    /\ UNCHANGED <<pRest, inode, lost>>
\* From the records when there are any, else from the meta and the clock.
build_synthesized_summary(p) ==
    CASE dir.hasJsonl -> load_summary
      [] ~dir.hasJsonl /\ dir.meta -> [ok |-> TRUE, sum |-> RunSummary(p, TRUE, <<>>)]
      [] OTHER -> [ok |-> FALSE, sum |-> Torn]
synthesize_summary(p) ==
    /\ prune[p].at = "act" /\ ~menu.remove
    /\ P(p, IF build_synthesized_summary(p).ok
            THEN [prune[p] EXCEPT !.at = "open", !.sum = build_synthesized_summary(p).sum]
            ELSE [Idle EXCEPT !.at = "done"])
    /\ UNCHANGED <<pRest, dir, inode, ended, harmed, lost>>
PruneOpen(p) ==
    /\ prune[p].at = "open" /\ OpenTmp /\ P(p, [prune[p] EXCEPT !.at = "write", !.fd = Opened]) /\ Harm
    /\ UNCHANGED <<pRest, ended, lost>>
PruneWrite(p) ==
    /\ prune[p].at = "write" /\ WriteTmp(prune[p].fd, prune[p].sum)
    /\ P(p, [prune[p] EXCEPT !.at = "rename"])
    /\ UNCHANGED <<pRest, ended, harmed, lost>>
PruneRename(p) ==
    /\ prune[p].at = "rename" /\ RenameTmp /\ ended' = (ended \/ dir.tmp # 0)
    /\ P(p, [Idle EXCEPT !.at = "done"])
    /\ UNCHANGED <<pRest, inode, harmed, lost>>
PruneDies(p) ==
    /\ menu.crash /\ prune[p].fd # 0 /\ lost' = lost \cup {prune[p].fd}
    /\ P(p, [Idle EXCEPT !.at = "done"])
    /\ UNCHANGED <<pRest, dir, inode, ended, harmed>>
----------------------------------------------------------------------------
(* The reader that follows a run. *)

fRest == <<disk, dir, inode, d, parent, books, fd, sock, old, ended, prune, res, harmed, lost>>

\* What the two files look like; a record file that shrank is read anew.
jsonl_tail_is_safe(sz) == CASE sz = -1 -> fol.off = 0
                            [] sz # -1 /\ ~fol.known /\ fol.off = 0 -> TRUE
                            [] OTHER -> sz >= fol.off
\* Mutant: nothing is looked at while the record file has not grown.
X_refresh ==
    /\ fol.at = "poll"
    /\ LET sz == IF dir.hasJsonl THEN Len(dir.jsonl) ELSE -1
       IN  fol' = [fol EXCEPT !.hj = IF dir.json = 0 THEN -1 ELSE dir.jstamp, !.sz = sz,
                              !.at = IF fol.known /\ sz = fol.off THEN "emit" ELSE IF jsonl_tail_is_safe(sz) THEN "json" ELSE "reparse"]
    /\ UNCHANGED fRest
refresh ==
    /\ fol.at = "poll"
    /\ LET sz == IF dir.hasJsonl THEN Len(dir.jsonl) ELSE -1
       IN  fol' = [fol EXCEPT !.hj = IF dir.json = 0 THEN -1 ELSE dir.jstamp, !.sz = sz,
                              !.at = IF jsonl_tail_is_safe(sz) THEN "json" ELSE "reparse"]
    /\ UNCHANGED fRest
full_reparse ==
    /\ fol.at = "reparse"
    /\ fol' = [fol EXCEPT !.tasks = read_run_snapshot, !.got = HasSummary, !.final = Summary.tasks,
                          !.jm = fol.hj, !.off = IF fol.sz = -1 THEN 0 ELSE fol.sz, !.known = fol.sz # -1,
                          !.at = "emit"]
    /\ UNCHANGED fRest
reload_json ==
    /\ fol.at = "json"
    /\ fol' = CASE fol.hj # -1 /\ fol.jm # fol.hj ->
                    [fol EXCEPT !.tasks = load_summary_json(@), !.got = HasSummary, !.final = Summary.tasks,
                                !.jm = fol.hj, !.at = "tail"]
                [] fol.hj = -1 -> [fol EXCEPT !.got = FALSE, !.jm = -1, !.at = "tail"]
                [] OTHER -> [fol EXCEPT !.at = "tail"]
    /\ UNCHANGED fRest
\* Only whole lines are taken; the rest waits for its line end.
tail_jsonl ==
    /\ fol.at = "tail"
    /\ LET piece == SubSeq(dir.jsonl, fol.off + 1, IF fol.sz < Len(dir.jsonl) THEN fol.sz ELSE Len(dir.jsonl))
           ends == {i \in 1..Len(piece) : piece[i].k = "nl"}
           last == IF ends = {} THEN 0 ELSE CHOOSE i \in ends : \A j \in ends : j <= i
       IN  fol' = [fol EXCEPT !.tasks = Insert(@, Lines(SubSeq(piece, 1, last))), !.off = @ + last,
                              !.known = fol.known \/ fol.sz # -1, !.at = "emit"]
    /\ UNCHANGED fRest
\* Records that are new or newer, then Finalized, which ends the stream.
emit_diff ==
    /\ fol.at = "emit"
    /\ LET fresh == {t \in DOMAIN fol.tasks : t \in DOMAIN fol.emitted => fol.tasks[t].at > fol.emitted[t]}
       IN  fol' = [fol EXCEPT !.emitted = [t \in DOMAIN @ \cup fresh |-> IF t \in fresh THEN fol.tasks[t].at ELSE @[t]],
                              !.at = IF fol.got THEN "done" ELSE "poll"]
    /\ UNCHANGED fRest
----------------------------------------------------------------------------
(* resume. *)

rRest == <<disk, dir, inode, d, parent, books, fd, sock, old, ended, prune, fol, harmed, lost>>
Refuse == res' = [res EXCEPT !.at = "refused"]
validate_session_id(s) == s \notin {"", "-x", "a/b"}

reconstruct_notifications == dir.snapshot # "none" /\ menu.envSet
read_resolved_manifest ==
    /\ menu.resume # "none" /\ res.at = "idle" /\ d \in {"done", "dead"}
    /\ IF dir.resolved /\ menu.version <= 1 /\ reconstruct_notifications
       THEN res' = [res EXCEPT !.at = "summary"] ELSE Refuse
    /\ UNCHANGED rRest

SidOf(tasks, t) == LET of == {i \in 1..Len(tasks) : tasks[i].task = t}
                   IN  IF of = {} THEN "none" ELSE tasks[CHOOSE i \in of : \A j \in of : j <= i].sid
\* Tasks that have a session; one bad id rejects all.
build_resume_manifest ==
    /\ res.at = "summary" /\ menu.resume = "flat"
    /\ LET some == {t \in menu.tasks : SidOf(Summary.tasks, t) # "none"}
           sids == [t \in some |-> SidOf(Summary.tasks, t)]
       IN  IF HasSummary /\ some # {} /\ \A t \in some : validate_session_id(sids[t])
           THEN res' = [res EXCEPT !.at = "ready", !.sids = sids] ELSE Refuse
    /\ UNCHANGED rRest
\* The lead's first record, its worktree, and the sub-leads' sessions, whose
\* bad lines are skipped.
build_resume_hierarchical ==
    /\ res.at = "summary" /\ menu.resume = "lead"
    /\ LET of == {i \in 1..Len(Summary.tasks) : Summary.tasks[i].task = menu.lead}
           sid == IF of = {} THEN "none" ELSE Summary.tasks[CHOOSE i \in of : \A j \in of : i <= j].sid
           good == {s \in menu.subs : validate_session_id(s[2])}
       IN  IF HasSummary /\ sid # "none" /\ validate_session_id(sid) /\ menu.worktree
           THEN res' = [at |-> "ready", sids |-> [t \in {menu.lead} |-> sid], subs |-> good] ELSE Refuse
    /\ UNCHANGED rRest
----------------------------------------------------------------------------
StartStep == run_background \/ BeginRun \/ WriteSnapshot \/ WriteResolved \/ init_run \/ CreateJsonl \/ OpenSocket
StoreStep == \/ read_summary_jsonl_records \/ FinalizeOpen \/ FinalizeWrite \/ FinalizeRename \/ CloseSocket
             \/ \E i \in Recs : AppendLine(i) \/ AppendNewline(i)
PruneStep == \E p \in menu.pruners :
    \/ collect_run_entry(p) \/ control_socket_is_live(p) \/ jsonl_recent(p) \/ filter_candidates(p)
    \/ remove_run(p) \/ synthesize_summary(p) \/ PruneOpen(p) \/ PruneWrite(p) \/ PruneRename(p) \/ PruneDies(p)
FollowStep == refresh \/ full_reparse \/ reload_json \/ tail_jsonl \/ emit_diff
ResumeStep == read_resolved_manifest \/ build_resume_manifest \/ build_resume_hierarchical
SqliteStep == \E c \in menu.conns :
    \/ /\ \/ NewSqlite(c) \/ run_migrations(c) \/ migrate_rename_shire_version_to_pitboss_version(c)
          \/ RenameColumn(c) \/ init_schema(c) \/ add_column_if_missing(c) \/ AlterTable(c)
          \/ RecordMigration(c) \/ ConnDies(c)
       /\ UNCHANGED <<menu, dir, inode, boxVars, fileVars>>
    \/ SqliteRun(c)
BoxStep == ContainerStep /\ UNCHANGED <<menu, inode, sqlVars, fileVars>>

Next == StartStep \/ StoreStep \/ HoursPass \/ Crash \/ PruneStep \/ FollowStep \/ ResumeStep
        \/ SqliteStep \/ BoxStep
Spec == Init /\ [][Next]_vars /\ WF_vars(FollowStep)
----------------------------------------------------------------------------
(* What the files promise. *)

\* A run whose process lives and whose socket answers is never pruned.
PruneSparesLive == ~harmed
\* summary.json can be unreadable only while a writer still has that very file
\* open, or because one died with it open; or, of a run that left nothing but
\* its meta, because two prunes wrote what they made of it at the same time.
SummaryHeals ==
    dir.json # 0 /\ Summary.torn /\ (dir.hasJsonl \/ Cardinality(menu.pruners) < 2) =>
        \/ fd = dir.json \/ dir.json \in lost
        \/ \E p \in menu.pruners : prune[p].fd = dir.json
\* A reader has every whole line it has passed, and says Finalized only after
\* the latest record of every task of that summary.
FollowerExact ==
    /\ dir.exists /\ fol.at = "poll" /\ fol.off <= Len(dir.jsonl) =>
        \A i \in 1..fol.off : Readable(dir.jsonl, i) =>
            LET t == dir.jsonl[i].task IN t \in DOMAIN fol.tasks /\ fol.tasks[t].at >= dir.jsonl[i].at
    /\ fol.at = "done" => \A i \in 1..Len(fol.final) :
            LET r == fol.final[i] IN r.task \in DOMAIN fol.emitted /\ fol.emitted[r.task] >= r.at
\* A resumed task continues a session it had itself; after a run that ended by
\* itself, its last one.
ResumePicks ==
    res.at = "ready" => \A t \in DOMAIN res.sids :
        /\ \E i \in 1..Len(order) : order[i].task = t /\ order[i].sid = res.sids[t]
        /\ d = "done" /\ menu.resume = "flat" => res.sids[t] = SidOf(order, t)
Tasks(recs) == {recs[k].task : k \in 1..Len(recs)}
Handed == {menu.recs[i] : i \in {j \in Recs : app[j] # "idle"}}
\* A run that was stored is listed and read back: its last records, its
\* counts, and whether it was interrupted.  The summary of a flat run has every
\* record; that of a lead run may lack a task only if its last append failed
\* or overlapped another, holds nothing that was not handed over, and agrees
\* with what `status` shows.
StoreReadsBack ==
    /\ ~json /\ d = "done" =>
        /\ iter_runs_blocking /\ load_run_blocking.ok
        /\ load_run_blocking.interrupted = menu.interrupted /\ load_run_blocking.total = Len(order)
        /\ \A i \in 1..Len(order) : SidOf(load_run_blocking.tasks, order[i].task) = SidOf(order, order[i].task)
    /\ json /\ d = "done" /\ dir.exists =>
        /\ iter_runs /\ status_run.ok
        /\ load_run.ok /\ ~menu.socket => load_run.sum.tasks = order /\ Tasks(status_run.tasks) = Tasks(order)
        /\ load_run.ok /\ menu.socket =>
            LET got == load_run.sum.tasks IN
            /\ \A i \in Recs : i \in mixed \/ \E k \in 1..Len(got) : got[k].task = menu.recs[i].task /\ got[k].at >= menu.recs[i].at
            /\ {got[k] : k \in 1..Len(got)} \subseteq Handed
            /\ Tasks(status_run.tasks) = Tasks(got)

\* The files of a run tell the truth: live runs are not pruned, a torn summary
\* heals, readers miss nothing, resume takes the right sessions, migrations and
\* images keep what they hold.
FilesAreTrue == PruneSparesLive /\ SummaryHeals /\ FollowerExact /\ ResumePicks /\ StoreReadsBack
                /\ MigrationsKeep /\ ImagesServe

Kept == IF json THEN {dir.jsonl[i] : i \in {j \in 1..Len(dir.jsonl) : Readable(dir.jsonl, j)}}
                     \cup (IF HasSummary THEN {Summary.tasks[i] : i \in 1..Len(Summary.tasks)} ELSE {})
        ELSE {r \in {menu.recs[i] : i \in Recs} : \E i \in 1..Len(db.rows) : db.rows[i] = TaskRow(r)}
Keeps == INSTANCE RecordKeeping WITH
    Records <- UNION {{m.recs[i] : i \in 1..Len(m.recs)} : m \in Menus}, handed <- Handed, kept <- Kept, final <- ended,
    open <- {menu.recs[i] : i \in AtLine}, memory <- ~(json /\ menu.socket)
\* Both stores keep every record whose append overlapped no other, through
\* crashes, prunes and the summary, which in a flat run gets back the others.
KeepsRecords == Keeps!Spec

\* Who follows a run that ends is told so.
FollowersEnd == (menu.follow /\ d = "done" /\ dir.exists) ~> (fol.at = "done" \/ ~dir.exists)
================================================================================
