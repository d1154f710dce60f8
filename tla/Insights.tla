------------------------------ MODULE Insights ------------------------------
(***************************************************************************)
(* What the web console's insights pages compute from the run directories  *)
(* (pitboss-web: insights/ and api/insights.rs), as operators.             *)
(*                                                                         *)
(* A run as the directory listing gives it is a record [id, status, start, *)
(* final, name, path, tasks]; `final' says whether a summary could be      *)
(* read.  A task record is [task, status, reason, text, at], reason "none" *)
(* or a FailureReason, text its message ("none" where the reason has       *)
(* none), at the time it ended.  Templates are external: Template maps a   *)
(* message to what tokenizer::canonicalize leaves of it.                   *)
(***************************************************************************)
EXTENDS Naturals, Sequences, FiniteSets, SequencesExt

CONSTANT Template

-----------------------------------------------------------------------------
(* AggregateSet::build.                                                    *)

\* The manifest's name, else the stem of its path, else a placeholder.
ResolveManifestName(name, stem) ==
    IF name # "none" THEN name ELSE IF stem # "none" THEN stem ELSE "<unnamed>"

ComputeOutcome(status, failed, total) ==
    CASE status # "complete" -> status
      [] status = "complete" /\ failed = 0 -> "success"
      [] status = "complete" /\ failed # 0 /\ failed = total -> "failed"
      [] OTHER -> "partial"

\* A reason names its own kind; a failure without one is named after its status.
FailureKind(t) ==
    CASE t.reason # "none" -> t.reason
      [] t.reason = "none" /\ t.status = "failed" -> "failed_no_reason"
      [] OTHER -> t.status
IsFailure(t) == t.reason # "none" \/ t.status # "success"

TaskFailure(r, t) ==
    [run |-> r.id, manifest |-> ResolveManifestName(r.name, r.path), task |-> t.task,
     kind |-> FailureKind(t), text |-> t.text,
     template |-> IF t.text = "none" THEN "none" ELSE Template[t.text], at |-> t.at]

\* A run without a readable summary contributes its entry and no failures.
SummaryTasks(r) == IF r.final THEN r.tasks ELSE <<>>
FailuresOf(r) ==
    LET failed == SelectSeq(SummaryTasks(r), IsFailure)
    IN  [i \in 1 .. Len(failed) |-> TaskFailure(r, failed[i])]

RunDigest(r) ==
    LET bad == Len(SelectSeq(r.tasks, LAMBDA t : t.status # "success"))
    IN  [run |-> r.id, manifest |-> ResolveManifestName(r.name, r.path), status |-> r.status,
         outcome |-> ComputeOutcome(r.status, bad, Len(r.tasks)), start |-> r.start,
         failed |-> bad, total |-> Len(r.tasks),
         kinds |-> {FailureKind(t) : t \in {u \in ToSet(SummaryTasks(r)) : IsFailure(u)}}]

BuildSet(entries) ==
    [runs |-> [i \in 1 .. Len(entries) |-> RunDigest(entries[i])],
     failures |-> FlattenSeq([i \in 1 .. Len(entries) |-> FailuresOf(entries[i])])]

-----------------------------------------------------------------------------
(* Filters and pages.                                                      *)

\* A filter's "any" (0 for the times) restricts nothing.
MatchRun(d, f) ==
    /\ f.manifest \in {"any", d.manifest}
    /\ f.status \in {"any", d.status}
    /\ d.start >= f.since
    /\ (f.until # 0 => d.start <= f.until)
    /\ (f.kind # "any" => f.kind \in d.kinds)

ApplyFilter(set, f) ==
    LET kept == SelectSeq(set.runs, LAMBDA d : MatchRun(d, f))
        ids == {d.run : d \in ToSet(kept)}
    IN  [runs |-> kept,
         failures |-> SelectSeq(set.failures,
                                LAMBDA x : x.run \in ids /\ f.kind \in {"any", x.kind})]

Page(seq, offset, limit) ==
    SubSeq(seq, offset + 1, IF offset + limit < Len(seq) THEN offset + limit ELSE Len(seq))
RunsPage(set, offset, limit) == Page(set.runs, offset, limit)
\* The newest failures come first.
FailuresPage(set, offset, limit) ==
    Page(SortSeq(set.failures, LAMBDA x, y : x.at > y.at), offset, limit)

-----------------------------------------------------------------------------
(* cluster_failures: failures of one kind and template, counted.           *)

ClusterKey(x) == <<x.kind, x.template>>
Cluster(failures, key) ==
    LET mine == SelectSeq(failures, LAMBDA x : ClusterKey(x) = key)
        times == {x.at : x \in ToSet(mine)}
        told == {i \in 1 .. Len(mine) : mine[i].text # "none"}
        \* the earliest message; of equals, the first met
        best == {i \in told : \A j \in told :
                     mine[i].at < mine[j].at \/ (mine[i].at = mine[j].at /\ i <= j)}
    IN  [key |-> key, count |-> Len(mine),
         first |-> CHOOSE t \in times : \A u \in times : t <= u,
         last |-> CHOOSE t \in times : \A u \in times : t >= u,
         runs |-> {x.run : x \in ToSet(mine)},
         exemplar |-> IF told = {} THEN "none" ELSE mine[CHOOSE i \in best : TRUE].text]
ClusterFailures(failures) == {Cluster(failures, k) : k \in {ClusterKey(x) : x \in ToSet(failures)}}

\* build_manifest_summaries: the runs of one manifest, counted.
ManifestSummary(runs, name) ==
    LET mine == SelectSeq(runs, LAMBDA d : d.manifest = name)
    IN  [manifest |-> name, total |-> Len(mine),
         failed |-> Len(SelectSeq(mine, LAMBDA d : d.failed > 0)),
         kinds |-> UNION {d.kinds : d \in ToSet(mine)}]
ManifestSummaries(runs) == {ManifestSummary(runs, n) : n \in {d.manifest : d \in ToSet(runs)}}
\* The page of manifests keeps the times of a filter and drops the rest of it.
ManifestsPage(set, f) ==
    ManifestSummaries(ApplyFilter(set, [f EXCEPT !.manifest = "any", !.status = "any",
                                                 !.kind = "any"]).runs)
=============================================================================
