----------------------------- MODULE RunDirectory -----------------------------
(***************************************************************************)
(* The directory of one run and what its readers make of it.  A line of    *)
(* summary.jsonl is written in two writes, the record and its line end, so *)
(* the file is a sequence of tokens: records, line ends and the part of a  *)
(* record a crash leaves.  summary.json is replaced through a temporary    *)
(* file of a fixed name, which two writers share, so both names point to   *)
(* inodes.                                                                 *)
(***************************************************************************)
EXTENDS Integers, FiniteSets, Sequences, SequencesExt

VARIABLES
    menu,    \* the scenario
    dir,     \* the run directory
    inode    \* contents of the inodes made for summary.json, in order

Nl == [k |-> "nl", task |-> "", at |-> 0, ok |-> TRUE, sid |-> "none", why |-> "none"]
Part == [Nl EXCEPT !.k = "part"]
\* A record: its task, ended_at, whether it succeeded, its session and the
\* reason it was terminated.
Rec(t, at, ok, sid) == [k |-> "rec", task |-> t, at |-> at, ok |-> ok, sid |-> sid, why |-> "none"]

\* A summary: torn when it does not parse; by tells apart summaries of the
\* same records, which hold the time they were made.
Torn == [torn |-> TRUE, interrupted |-> FALSE, tasks |-> <<>>, by |-> "none"]
RunSummary(by, interrupted, tasks) ==
    [torn |-> FALSE, interrupted |-> interrupted, tasks |-> tasks, by |-> by]

NoDir == [exists |-> FALSE, source |-> FALSE, snapshot |-> "none", resolved |-> FALSE, meta |-> FALSE,
          hasJsonl |-> FALSE, jsonl |-> <<>>, json |-> 0, jstamp |-> 0, tmp |-> 0]
----------------------------------------------------------------------------
(* Readers. *)

\* A line is readable when its record stands alone on it; the last line need
\* not have ended.
Readable(ts, i) ==
    /\ ts[i].k = "rec"
    /\ i > 1 => ts[i - 1].k = "nl"
    /\ i < Len(ts) => ts[i + 1].k = "nl"
Lines(ts) == LET good == SelectSeq([i \in 1..Len(ts) |-> i], LAMBDA i : Readable(ts, i))
             IN  [n \in 1..Len(good) |-> ts[good[n]]]

\* Later records replace earlier ones of the same task.
Insert(tasks, recs) ==
    LET of(t) == {i \in 1..Len(recs) : recs[i].task = t}
        last(t) == CHOOSE i \in of(t) : \A j \in of(t) : j <= i
        named == {recs[i].task : i \in 1..Len(recs)}
    IN  [t \in DOMAIN tasks \cup named |-> IF t \in named THEN recs[last(t)] ELSE tasks[t]]
NoTasks == Insert(<<>>, <<>>)

Summary == IF dir.json = 0 THEN Torn ELSE inode[dir.json]
HasSummary == dir.json # 0 /\ ~Summary.torn
load_summary_json(tasks) == IF HasSummary THEN Insert(tasks, Summary.tasks) ELSE tasks
overlay_summary_jsonl(tasks, ts) == Insert(tasks, Lines(ts))
read_run_snapshot == overlay_summary_jsonl(load_summary_json(NoTasks), dir.jsonl)

task_count(tasks) == Cardinality(DOMAIN tasks)
failed_count(tasks) == Cardinality({t \in DOMAIN tasks : ~tasks[t].ok})

\* The tasks of a snapshot by ended_at; ids break ties.
ByEnd(tasks) == SetToSortSeq({tasks[t] : t \in DOMAIN tasks},
                    LAMBDA a, b : a.at < b.at \/ (a.at = b.at /\ menu.rank[a.task] < menu.rank[b.task]))
\* What the replay of a run gives: its tasks, then Finalized if it has ended.
build_replay_items == [tasks |-> ByEnd(read_run_snapshot), final |-> HasSummary]

\* The summary of a run as `diff`, `prune` and the reports see it, or "none".
load_summary ==
    CASE HasSummary -> [ok |-> TRUE, sum |-> Summary]
      [] ~HasSummary /\ dir.hasJsonl /\ dir.meta ->
            [ok |-> TRUE, sum |-> RunSummary("records", TRUE, build_replay_items.tasks)]
      [] OTHER -> [ok |-> FALSE, sum |-> Torn]

\* A run that has no summary at all cannot be shown yet.
status_run == IF dir.json = 0 /\ ~dir.hasJsonl THEN [ok |-> FALSE, tasks |-> <<>>]
              ELSE [ok |-> TRUE, tasks |-> build_replay_items.tasks]

\* Runs are listed by their meta.json.
iter_runs == dir.exists /\ dir.meta
\* The store's own reader gives up at the first line that does not parse.
load_run ==
    LET solid == \A i \in 1..Len(dir.jsonl) : dir.jsonl[i].k = "nl" \/ Readable(dir.jsonl, i)
    IN  CASE dir.json # 0 -> [ok |-> ~Summary.torn, sum |-> Summary]
          [] dir.json = 0 /\ dir.meta /\ dir.hasJsonl /\ solid ->
                [ok |-> TRUE, sum |-> RunSummary("records", TRUE, Lines(dir.jsonl))]
          [] OTHER -> [ok |-> FALSE, sum |-> Torn]
----------------------------------------------------------------------------
(* Status. *)

\* Mutant: a socket that answers is not looked at.
X_classify_status(live, settled, recent) ==
    IF settled = 0 /\ ~recent THEN "aborted" ELSE IF recent THEN "running" ELSE "stale"
classify_status(live, settled, recent) ==
    CASE live -> "running"
      [] ~live /\ settled = 0 /\ ~recent -> "aborted"
      [] ~live /\ recent -> "running"
      [] OTHER -> "stale"

\* What a readable, or an unreadable, summary.json says by itself.
SummaryStatus(s) == CASE s.torn -> "aborted"
                      [] ~s.torn /\ s.interrupted -> "cancelled"
                      [] OTHER -> "complete"

\* A run is found by its whole id, or by a prefix no other run has.
resolve_run_dir_by_prefix(names, p) ==
    LET hits == {n \in names : IsPrefix(p, n)}
    IN  CASE p = <<>> -> <<>>
          [] p # <<>> /\ p \in names -> p
          [] p # <<>> /\ p \notin names /\ Cardinality(hits) = 1 -> CHOOSE n \in hits : TRUE
          [] OTHER -> <<>>

\* The data directory, or the old one while only that exists.
runs_base_dir(canonical, legacy, exist) ==
    CASE canonical # "" /\ legacy # "" /\ canonical \notin exist /\ legacy \in exist -> legacy
      [] canonical # "" /\ ~(legacy # "" /\ canonical \notin exist /\ legacy \in exist) -> canonical
      [] canonical = "" /\ legacy # "" -> legacy
      [] OTHER -> "./pitboss-runs"
----------------------------------------------------------------------------
(* write_atomic: open and truncate the shared temporary file, write, rename. *)

OpenTmp ==
    IF dir.tmp = 0 THEN inode' = Append(inode, Torn) /\ dir' = [dir EXCEPT !.tmp = Len(inode) + 1]
    ELSE inode' = [inode EXCEPT ![dir.tmp] = Torn] /\ UNCHANGED dir
Opened == IF dir.tmp = 0 THEN Len(inode) + 1 ELSE dir.tmp

\* A file another writer filled meanwhile with other bytes may keep their end.
WriteTmp(n, s) ==
    /\ \E new \in {s} \cup (IF inode[n] \in {Torn, s} THEN {} ELSE {Torn}) : inode' = [inode EXCEPT ![n] = new]
    /\ dir' = IF dir.json = n THEN [dir EXCEPT !.jstamp = @ + 1] ELSE dir

\* Renames whatever file has the name now; an error when none has.
RenameTmp == dir' = IF dir.tmp = 0 THEN dir ELSE [dir EXCEPT !.json = dir.tmp, !.tmp = 0, !.jstamp = @ + 1]
================================================================================
