-------------------------------- MODULE Notify --------------------------------
(***************************************************************************)
(* The notification router of a run: envelopes deduplicated by key in a    *)
(* bounded cache, a detached task per sink that retries, a counter of the  *)
(* emits given up and a line on file for each.                             *)
(***************************************************************************)
EXTENDS Integers, Sequences, FiniteSets, FiniteSetsExt, SequencesExt

CONSTANT DedupCap   \* entries the dedup cache holds
ASSUME DedupAssumption == DedupCap \in Nat \ {0}

VARIABLES
    sinks,      \* the router's sinks, in order; empty without a router
    dedup,      \* dedup_cache: keys, least recent first
    jobs,       \* emit tasks under way
    sent,       \* numbers of the emits delivered
    failed,     \* failed_emits_total
    notes,      \* notifications.jsonl: numbers of the emits given up
    unwritten,  \* history: emits given up whose line could not be written
    asked       \* history: emits owed so far, counted from 1

notifyVars == <<sinks, dedup, jobs, sent, failed, notes, unwritten, asked>>

Severity(s) == CASE s = "info" -> 0 [] s = "warning" -> 1 [] s = "error" -> 2 [] s = "critical" -> 3
EventKinds == {"approval_request", "approval_pending", "run_dispatched", "run_finished", "budget_exceeded"}

\* One key per request for approvals, one per run for the rest.
DedupKey(kind, request) ==
    IF kind \in {"approval_request", "approval_pending"} THEN <<kind, request>> ELSE <<kind, "">>
Envelope(kind, severity, request) == [kind |-> kind, severity |-> severity, key |-> DedupKey(kind, request)]

----------------------------------------------------------------------------
(* Configuration. *)

\* What the manifest may ask for: an unknown event is refused, and a sink
\* that posts needs an https url outside the private ranges.
PrivateHosts == {"loopback", "private", "link_local", "unspecified", "broadcast", "multicast",
                 "shared_100_64", "mapped_private", "unique_local", "site_local"}
is_disallowed_ip(ip) == ip \in PrivateHosts
validate_webhook_url(u) == u.scheme = "https" /\ u.host # "none" /\ u.host # "localhost" /\ ~is_disallowed_ip(u.host)
validate(cfg) ==
    /\ cfg.kind # "log" => validate_webhook_url(cfg.url)
    /\ cfg.events \subseteq EventKinds

\* ${NAME} in a url: only names with the prefix, and only names that are set.
Substitutes(u, env) == u.var = "" \/ (u.prefixed /\ u.var \in env)

\* A name is looked up again at every emit and every address must be public.
pre_request_ssrf_check(u) ==
    IF u.host \in PrivateHosts THEN "refused"
    ELSE IF ~u.named THEN "pass"
    ELSE IF u.addrs = {} \/ u.addrs \cap PrivateHosts # {} THEN "refused" ELSE "pass"

\* The sinks of the manifest, then the parent's when its url parses; no
\* router at all without any.
build_router_with(cfgs, parent) ==
    [i \in 1..Len(cfgs) |-> [id |-> cfgs[i].id, min |-> cfgs[i].min, events |-> cfgs[i].events,
                             url |-> cfgs[i].url, guarded |-> cfgs[i].kind # "log"]]
    \o (IF parent = "url" THEN <<[id |-> "parent", min |-> "info", events |-> {},
                                  url |-> "parent", guarded |-> FALSE]>> ELSE <<>>)

\* An empty list of events stands for no list.
Matches(s, env) ==
    /\ Severity(env.severity) >= Severity(s.min)
    /\ s.events # {} => env.kind \in s.events
----------------------------------------------------------------------------
(* Dispatch and delivery. *)

\* LruCache::put of a new key: the least recent entry makes room.
Remember(key) == LET c == Append(dedup, key) IN IF Len(c) > DedupCap THEN Tail(c) ELSE c

\* A duplicate within the cache's memory is dropped; anything else starts one
\* detached task per matching sink and returns at once.
dispatch(env) ==
    IF Contains(dedup, env.key) THEN UNCHANGED notifyVars
    ELSE LET hit == {i \in 1..Len(sinks) : Matches(sinks[i], env)} IN
         /\ dedup' = Remember(env.key)
         /\ jobs' = jobs \cup {[no |-> asked + Cardinality({k \in hit : k <= i}), sink |-> i,
                               attempt |-> 1, st |-> "emit"] : i \in hit}
         /\ asked' = asked + Cardinality(hit)
         /\ UNCHANGED <<sinks, sent, failed, notes, unwritten>>

Move(j, k) == jobs' = (jobs \ {j}) \cup {k}

\* What one emit may come to: a refusal by the guard and a server error are
\* tried again, a client error other than 429 is not.
Answers(s) == IF s.guarded /\ pre_request_ssrf_check(s.url) = "refused" THEN {"again"}
              ELSE {"ok", "again", "fatal"}
MaxAttempts == 3
emit_with_retry(j, a) ==
    /\ j.st = "emit" /\ a \in Answers(sinks[j.sink])
    /\ CASE a = "ok" -> jobs' = jobs \ {j} /\ sent' = sent \cup {j.no}
         [] a = "again" /\ j.attempt < MaxAttempts -> Move(j, [j EXCEPT !.attempt = @ + 1]) /\ UNCHANGED sent
         [] OTHER -> Move(j, [j EXCEPT !.st = "record"]) /\ UNCHANGED sent
    /\ UNCHANGED <<sinks, dedup, failed, notes, unwritten, asked>>

\* The line goes to the file before the counter is raised. An error of the
\* write is swallowed.
record_notification_failure(j) ==
    /\ j.st = "record" /\ Move(j, [j EXCEPT !.st = "count"])
    /\ \/ notes' = notes \cup {j.no} /\ UNCHANGED unwritten
       \/ unwritten' = unwritten \cup {j.no} /\ UNCHANGED notes
    /\ UNCHANGED <<sinks, dedup, sent, failed, asked>>

\* Whether the line was written or not.
CountFailure(j) ==
    /\ j.st = "count" /\ jobs' = jobs \ {j} /\ failed' = failed + 1
    /\ UNCHANGED <<sinks, dedup, sent, notes, unwritten, asked>>

NotifyStep == \E j \in jobs :
    \/ \E a \in {"ok", "again", "fatal"} : emit_with_retry(j, a)
    \/ record_notification_failure(j)
    \/ CountFailure(j)
----------------------------------------------------------------------------
GivenUp == notes \cup unwritten

\* No emit is lost without trace while the run lives: each one asked for is
\* under way, delivered, or given up; the counter holds every one given up
\* whose task has ended, once; and, its readers taking it for a barrier, it
\* never runs ahead of the lines on file and the writes the disk refused.
EmitsAreAccounted ==
    /\ 1..asked = {j.no : j \in jobs} \cup sent \cup GivenUp
    /\ failed + Cardinality({j \in jobs : j.st = "count"}) = Cardinality(GivenUp)
=============================================================================
