---------------------------- MODULE ResourceWatch ----------------------------
(***************************************************************************)
(* The sampler of a run's memory: every tick it adds up the resident bytes *)
(* of the actors with a process, compares them with the limit of the       *)
(* cgroup or the host, keeps the high-water marks and announces pressure   *)
(* with a debounce.  Fractions are percent.                                *)
(***************************************************************************)
EXTENDS Integers, Sequences, FiniteSets, FiniteSetsExt, SequencesExt

VARIABLES
    sampler,    \* "off", "on" or "done"
    level,      \* PressureTracker: state ...
    clears,     \* ... and consecutive_clear_samples
    seen,       \* last_observed: <<rss, available>>, or <<>>
    hw,         \* HighWaterAccum
    banner,     \* the level consoles were last told
    hist        \* history: the samples taken, <<rss, available>>

resourceVars == <<sampler, level, clears, seen, hw, banner, hist>>

WarnFrac == 70
ErrorFrac == 90
ClearFrac == 60
ClearDebounce == 2

\* The cgroup's limit, v2 before v1, unless it is "max" or near i64::MAX;
\* else the host's memory; 0 when nothing can be read.
None == -1
Unlimited == 2^30
CgroupMax(m) == IF m.v2 \notin {None, Unlimited} THEN m.v2
                ELSE IF m.v1 \notin {None, Unlimited} THEN m.v1 ELSE None
Denominator(m) == LET c == CgroupMax(m) IN IF c # None THEN c ELSE IF m.host # None THEN m.host ELSE 0

\* One entry per registered actor: 0 before its process starts, none for a
\* process that is gone.
collect_samples(procs) == [a \in {a \in DOMAIN procs : procs[a] # None} |-> procs[a]]
TotalRss(s) == FoldFunction(+, 0, s)

\* Accumulators start empty, or from the marks of a summary in the run's own
\* directory.
NoHighWater == [total |-> 0, cgroup |-> None, peak |-> <<>>, actors |-> <<>>, samples |-> 0]
hydrate(prior) == IF prior = <<>> THEN NoHighWater ELSE prior[1]

ObserveHighWater(h, total, denom, cgroup, s) ==
    [total |-> Max({h.total, total}),
     cgroup |-> IF cgroup # None THEN cgroup ELSE h.cgroup,
     peak |-> IF total > h.total /\ denom > 0 THEN <<total, denom>> ELSE h.peak,
     actors |-> [a \in DOMAIN h.actors \cup DOMAIN s |->
                   Max({IF a \in DOMAIN h.actors THEN h.actors[a] ELSE 0,
                        IF a \in DOMAIN s THEN s[a] ELSE 0})],
     samples |-> h.samples + 1]

\* Samples below the clear line in a row; one between the lines starts over.
ClearsAfter(frac) == IF frac < ClearFrac THEN clears + 1 ELSE 0

\* PressureTracker::observe: the new level and count.
Observed(frac) ==
    IF frac >= ErrorFrac THEN <<"error", 0>>
    ELSE IF frac >= WarnFrac THEN <<"warn", 0>>
    ELSE IF level = "clear" THEN <<"clear", 0>>
    ELSE IF ClearsAfter(frac) >= ClearDebounce THEN <<"clear", 0>>
    ELSE <<level, ClearsAfter(frac)>>

InitResources ==
    /\ sampler = "off" /\ level = "clear" /\ clears = 0 /\ seen = <<>> /\ hw = NoHighWater
    /\ banner = "clear" /\ hist = <<>>

StartSampler(cadence, prior) ==
    /\ hw' = hydrate(prior) /\ sampler' = (IF cadence = 0 THEN "off" ELSE "on")
    /\ UNCHANGED <<level, clears, seen, banner, hist>>

\* One tick: marks, the sample event, then the transition, if any.
run_sampler(procs, mem) ==
    LET s == collect_samples(procs) total == TotalRss(s) denom == Denominator(mem) IN
    /\ sampler = "on"
    /\ hw' = ObserveHighWater(hw, total, denom, CgroupMax(mem), s)
    /\ hist' = Append(hist, <<total, denom>>)
    /\ IF denom > 0
       THEN LET n == Observed((100 * total) \div denom) IN
            /\ seen' = <<total, denom>> /\ level' = n[1] /\ clears' = n[2] /\ banner' = n[1]
       ELSE UNCHANGED <<seen, level, clears, banner>>
    /\ UNCHANGED sampler

\* The end of the run by its token: a banner that is up is taken down.
synthesize_shutdown_clear(terminated) ==
    /\ sampler = "on" /\ terminated
    /\ sampler' = "done" /\ banner' = "clear"
    /\ UNCHANGED <<level, clears, seen, hw, hist>>
----------------------------------------------------------------------------
\* A banner that is up comes down only after two samples in a row, of those
\* that had a limit to compare with, below the clear line, or with the run.
Known == {i \in 1..Len(hist) : hist[i][2] > 0}
Frac(i) == (100 * hist[i][1]) \div hist[i][2]
BannerIsHonest == sampler = "on" /\ banner = "clear" =>
    \A k \in Known : Frac(k) >= WarnFrac =>
        \E i, j \in Known : /\ k < i /\ i < j /\ \A m \in Known : m <= i \/ j <= m
                           /\ Frac(i) < ClearFrac /\ Frac(j) < ClearFrac

\* The high-water mark is no less than any sample taken.
HighWaterIsTrue == \A i \in 1..Len(hist) : hist[i][1] <= hw.total
=============================================================================
