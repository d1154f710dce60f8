------------------------------- MODULE MCFlatRun -------------------------------
(***************************************************************************)
(* Scenarios of a flat dispatch for TLC.                                   *)
(***************************************************************************)
EXTENDS FlatRun

\* Lines a child prints.
Line(type) == [type |-> type, init |-> FALSE, sid |-> "", content |-> TRUE, blocks |-> <<>>,
               usage |-> NoUsage, err |-> "none", marks |-> {}]
Hello == [Line("system") EXCEPT !.init = TRUE, !.sid = "s1"]
Says(n, u) == [Line("assistant") EXCEPT !.blocks = <<[type |-> "text", len |-> n], [type |-> "tool_use", len |-> 0]>>,
                                        !.usage = u]
Bare == [Line("assistant") EXCEPT !.content = FALSE, !.usage = 9]
Replies == [Line("user") EXCEPT !.blocks = <<[type |-> "tool_result", len |-> 0]>>]
Result(u) == [Line("result") EXCEPT !.sid = "s1", !.usage = u]
NoUsageResult == [Line("result") EXCEPT !.sid = "s1"]
Error(e, m) == [Line("error") EXCEPT !.err = e, !.marks = m]

Runs(lines, code) == [spawns |-> TRUE, lines |-> lines, errs |-> <<>>, code |-> code, hangs |-> FALSE,
                      ignores |-> FALSE, slow |-> FALSE, heir |-> FALSE]
Works == Runs(<<Result(2)>>, "0")
Fails == Runs(<<Error("overloaded_error", {})>>, "1")
NoBinary == [Works EXCEPT !.spawns = FALSE]
Hangs == [Runs(<<Hello>>, "0") EXCEPT !.hangs = TRUE, !.slow = TRUE]
Deaf == [Hangs EXCEPT !.ignores = TRUE]

Base == [script |-> [t \in {"a"} |-> Works], order |-> <<"a">>, parallel |-> 1, dry |-> FALSE,
         fault |-> "none", notify |-> <<>>, parent |-> "none", cadence |-> 0, ticks |-> 0, procs |-> {},
         mem |-> {}, emits |-> <<>>, trees |-> {}, worktree |-> [t \in {"a"} |-> FALSE],
         branch |-> [t \in {"a"} |-> <<>>], repo |-> TRUE, cleanup |-> "on_success", halt |-> FALSE,
         presses |-> 0, escalate |-> FALSE]

Dry == [Base EXCEPT !.dry = TRUE]
NoDirectory == [Base EXCEPT !.fault = "init"]
NoSocket == [Base EXCEPT !.fault = "control"]
Complains == [Base EXCEPT !.script["a"] = [Fails EXCEPT !.errs = <<Error("none", {"auth"})>>]]
NoSummary == [Base EXCEPT !.fault = "finalize"]

\* One session with every kind of line, interrupted at any point.
Talks == [Base EXCEPT
    !.script = [t \in {"a"} |-> Runs(<<Hello, Line("malformed"), Says(3, 4), Bare, Replies, Says(2, 5),
                                       Line("rate_limit_event"), Line("other"), NoUsageResult, Result(7)>>, "0")],
    !.presses = 2, !.escalate = TRUE]
Silent == [Base EXCEPT !.script = [t \in {"a"} |-> Runs(<<Hello, Says(3, 4), Says(1, 6), NoUsageResult>>, "0")]]

\* Children that will not end, or whose pipe outlives them.
Stuck == [Base EXCEPT
    !.script = [a |-> [Deaf EXCEPT !.heir = TRUE], b |-> [Hangs EXCEPT !.lines = <<>>]],
    !.order = <<"a", "b">>, !.parallel = 2, !.presses = 2,
    !.worktree = [t \in {"a", "b"} |-> FALSE], !.branch = [t \in {"a", "b"} |-> <<>>]]
HeldOpen == [Base EXCEPT !.script = [t \in {"a"} |-> [Talks.script["a"] EXCEPT !.heir = TRUE, !.slow = TRUE]],
    !.worktree = [t \in {"a"} |-> TRUE], !.presses = 1]

\* halt_on_failure, alone and against running neighbours and Ctrl-C.
ThreeTasks(p, n) == [Base EXCEPT
    !.script = [a |-> Fails, b |-> Works, c |-> NoBinary], !.order = <<"a", "b", "c">>,
    !.parallel = p, !.halt = TRUE, !.presses = n,
    !.worktree = [t \in {"a", "b", "c"} |-> FALSE], !.branch = [t \in {"a", "b", "c"} |-> <<>>]]
HaltAlone == ThreeTasks(1, 0)
HaltAmong == ThreeTasks(2, 0)
HaltPressed == ThreeTasks(1, 2)

\* Worktrees: two tasks on one branch, one with its own; a policy each; a
\* branch kept by an earlier run.
Trees(policy, repo, kept) == [Base EXCEPT
    !.script = [a |-> Works, b |-> Fails, c |-> Works], !.order = <<"a", "b", "c">>, !.parallel = 2,
    !.worktree = [a |-> TRUE, b |-> TRUE, c |-> TRUE], !.branch = [a |-> <<"x">>, b |-> <<"x">>, c |-> <<>>],
    !.cleanup = policy, !.repo = repo, !.trees = kept]
TreesOnSuccess == Trees("on_success", TRUE, {})
TreesAlways == Trees("always", TRUE, {})
TreesNever == Trees("never", TRUE, {})
TreesKept == Trees("never", TRUE, {[name |-> <<"old", "c">>, branch |-> TreeName("c"), stale |-> FALSE]})
TreesStuck == [Trees("always", TRUE, {}) EXCEPT !.fault = "prune", !.parallel = 1]
TreesNoRepo == Trees("always", FALSE, {})

\* Notifications: a log sink, a webhook whose name turned private, a parent.
Public == [scheme |-> "https", host |-> "name", named |-> TRUE, addrs |-> {"public"}, var |-> "", prefixed |-> FALSE]
Rebound == [Public EXCEPT !.addrs = {"public", "link_local"}]
Literal == [Public EXCEPT !.host = "public", !.named = FALSE, !.addrs = {}]
Sink(id, kind, min, events, url) == [id |-> id, kind |-> kind, min |-> min, events |-> events, url |-> url]
Notified == [Base EXCEPT !.fault = "control", !.parent = "url",
    !.notify = <<Sink("hook", "webhook", "info", {"approval_request", "budget_exceeded"}, Rebound)>>,
    !.emits = <<Envelope("approval_request", "warning", "r1"), Envelope("approval_request", "warning", "r1")>>]
Finishes == [Base EXCEPT !.script = [t \in {"a"} |-> NoBinary], !.parent = "url"]
Filtered == [Base EXCEPT !.fault = "control",
    !.notify = <<Sink("log", "log", "warning", {}, Public), Sink("hook", "slack", "critical", {"budget_exceeded"}, Literal)>>,
    !.emits = <<Envelope("approval_request", "warning", "r1"), Envelope("budget_exceeded", "critical", ""),
                Envelope("approval_request", "warning", "r1")>>]

\* Memory: actors come and go, and limits of every origin.
Sampled == [Base EXCEPT !.script = [t \in {"a"} |-> NoBinary], !.cadence = 1, !.ticks = 4,
    !.procs = {[p |-> 0, q |-> None], [p |-> 30, q |-> 35], [p |-> 95, q |-> None]},
    !.mem = {[v2 |-> Unlimited, v1 |-> Unlimited, host |-> 100], [v2 |-> None, v1 |-> None, host |-> None]}]
SampledCgroup == [Sampled EXCEPT !.ticks = 2, !.presses = 2,
    !.mem = {[v2 |-> 100, v1 |-> 50, host |-> 800], [v2 |-> None, v1 |-> 60, host |-> 800],
             [v2 |-> None, v1 |-> Unlimited, host |-> 200]}]

MCMenus == {Dry, NoDirectory, NoSocket, NoSummary, Complains, Talks, Silent, Stuck, HeldOpen,
            HaltAlone, HaltAmong, HaltPressed,
            TreesOnSuccess, TreesAlways, TreesNever, TreesKept, TreesStuck,
            TreesNoRepo, Notified, Filtered, Finishes,
            Sampled, SampledCgroup}
----------------------------------------------------------------------------
\* The url guards agree: a url the manifest check refuses for its host is
\* also refused when it is about to be called, and a name that resolves to
\* nothing, or to one private address among public ones, is never called.
ASSUME UrlGuards ==
    /\ \A h \in PrivateHosts \cup {"public", "name", "localhost", "none"}, sch \in {"https", "http"} :
         LET u == [Literal EXCEPT !.host = h, !.scheme = sch] IN
         /\ validate(Sink("x", "webhook", "info", {}, u)) => pre_request_ssrf_check(u) = "pass"
         /\ pre_request_ssrf_check(u) = "refused" => ~validate(Sink("x", "slack", "info", {}, u))
    /\ pre_request_ssrf_check(Rebound) = "refused" /\ pre_request_ssrf_check([Public EXCEPT !.addrs = {}]) = "refused"
    /\ ~validate(Sink("x", "log", "info", {"nonsense"}, Public)) /\ validate(Sink("x", "log", "info", EventKinds, Public))

\* A variable in a url is read from the environment only under the prefix.
ASSUME UrlVariables ==
    LET u(v, p) == [Public EXCEPT !.var = v, !.prefixed = p] IN
    /\ Substitutes(u("", FALSE), {}) /\ Substitutes(u("V", TRUE), {"V"})
    /\ ~Substitutes(u("V", TRUE), {}) /\ ~Substitutes(u("V", FALSE), {"V"})

\* Which reason wins when a log holds several.
ASSUME ReasonOrder ==
    LET auth == Error("authentication_error", {}) rate == Error("rate_limit_exceeded", {})
        ctx == Error("invalid_request_error", {"context"}) arg == Error("invalid_request_error", {})
        word(m) == Error("none", {m})
    IN  /\ classify(<<rate, ctx, auth>>) = "AuthFailure" /\ classify(<<rate, ctx>>) = "ContextExceeded"
        /\ classify(<<arg, rate>>) = "RateLimit" /\ classify(<<arg, word("auth")>>) = "AuthFailure"
        /\ classify(<<word("context"), word("rate")>>) = "RateLimit"
        /\ classify(<<word("network"), word("argument")>>) = "InvalidArgument"
        /\ classify(<<>>) = "Unknown"
=============================================================================
