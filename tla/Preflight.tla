------------------------------ MODULE Preflight ------------------------------
(***************************************************************************)
(* What an operator is told of a manifest before a run of it:              *)
(* `pitboss validate --capability-matrix` lists the servers each kind of   *)
(* actor would be given, and `pitboss tree --check <USD>` fails when the   *)
(* budgets the manifest allows may add up to more than a threshold.        *)
(* Admission compares both with what the run then does.                    *)
(*                                                                         *)
(*   pitboss-cli/src/capability_matrix.rs, pitboss-cli/src/tree.rs         *)
(***************************************************************************)
EXTENDS Manifest

\* mcp_server_scope_admits: a scoped server goes to the actors of its type only.
ScopeAdmits(s, type) == s.scope = {} \/ (s.scope = type /\ type # {})

\* admitted_for: in the order of declaration.
AdmittedFor(servers, type) == SelectSeq(servers, LAMBDA s : ScopeAdmits(s, type))

MatrixRow(kind, type, servers) == [kind |-> kind, actor_type |-> type, servers |-> AdmittedFor(servers, type)]

\* rows: the untyped row, then a row per declared type.
Rows(m) ==
    <<MatrixRow("untyped", {}, m.mcp_servers)>>
      \o [i \in DOMAIN m.worker_types |-> MatrixRow("worker_type", {m.worker_types[i].id}, m.mcp_servers)]
      \o [i \in DOMAIN m.sublead_types |-> MatrixRow("sublead_type", {m.sublead_types[i].id}, m.mcp_servers)]

\* BudgetEnvelope::from_resolved_manifest.  A leg without a limit is {}, and so is the
\* total then; sub-leads that are not allowed cost nothing.
BudgetEnvelope(m) ==
    LET lead == The(m.lead)
        subleads == IF lead.allow_subleads
                      THEN {n * per : n \in lead.max_subleads, per \in lead.max_sublead_budget_usd}
                      ELSE {0}
    IN  [root_lead_usd |-> m.budget_usd, subleads |-> subleads,
         total_usd |-> {a + b : a \in m.budget_usd, b \in subleads}]

\* tree --check
Check(m, usd) ==
    IF m.lead = {} THEN "flat_mode"
    ELSE IF BudgetEnvelope(m).total_usd = {} THEN "unbounded"
    ELSE IF The(BudgetEnvelope(m).total_usd) > usd THEN "over" ELSE "ok"
=============================================================================
