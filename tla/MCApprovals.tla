---------------------------- MODULE MCApprovals ----------------------------
(* Approvals with two requests and two consoles.                            *)
EXTENDS Approvals, TLC

CONSTANTS p, q, A, B, R, S

\* A plan of a sub-lead and a permission prompt of a root worker, or of the root lead (`lead`).
Kinds == (p :> "plan") @@ (q :> "prompt")
LayersOf == (p :> S) @@ (q :> R)

NoProfile == [r \in {p, q} |-> "none"]
Block == [ask |-> {p, q}, conns |-> {A, B}, policy |-> "block", updates |-> {<<>>},
          unlisted |-> {}, profile |-> NoProfile, stop |-> FALSE,
          ends |-> {}, lead |-> {}, denial |-> "reclassify"]
Rule(m, a) == [match |-> m, action |-> a]

\* Two requests and one console, one request and two consoles, a run that is
\* terminated while sessions end; rules that are changed on the way, a profile, an allowlist, and a
\* policy that decides.
ApprovalMenus ==
    {[Block EXCEPT !.conns = {A}],
     [Block EXCEPT !.ask = {p}],
     [Block EXCEPT !.ask = {p}, !.conns = {A}, !.stop = TRUE, !.ends = {p}],
     [Block EXCEPT !.ask = {q}, !.conns = {}, !.ends = {q}, !.lead = {q}],
     [Block EXCEPT !.conns = {}, !.profile[q] = "approve", !.ends = {p, q},
                   !.updates = {<<>>, <<Rule({p}, "approve"), Rule({p, q}, "reject")>>}],
     [Block EXCEPT !.conns = {}, !.unlisted = {q}, !.policy = "approve",
                   !.ends = {q}, !.denial = "adapt",
                   !.updates = {<<Rule({p}, "block"), Rule({p}, "approve")>>}]}
=============================================================================
