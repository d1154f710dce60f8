--------------------------- MODULE MCBudgetLedger ---------------------------
(* BudgetLedger with up to two workers and two sub-leads at a time.         *)
EXTENDS BudgetLedger

CONSTANTS R, S1, S2, S3, W1, W2, W3, W4

\* W1 in the first sub-tree, W2 and W4 in the root layer, W3 in a shared-pool
\* sub-tree.
TreeLayer == [w \in {W1, W2, W3, W4} |->
                CASE w = W1 -> S1 [] w \in {W2, W4} -> R [] w = W3 -> S3]

\* lead_budget_usd is unset: no lead can reach 99.
NoLeadCap == [l \in {R, S1, S2, S3} |-> 99]

\* A sub-lead with a worker beside a root worker, with and without budget_usd;
\* two sub-leads; a root lead that burns past budget_usd beside a shared pool;
\* workers of both layers that are continued or reprompted.
LedgerMenus ==
    {[capped |-> TRUE, workers |-> {W1, W2}, subs |-> {S1}, lead |-> 2, again |-> 0],
     [capped |-> FALSE, workers |-> {W1, W2}, subs |-> {S1}, lead |-> 1, again |-> 0],
     [capped |-> TRUE, workers |-> {}, subs |-> {S1, S2}, lead |-> 1, again |-> 0],
     [capped |-> TRUE, workers |-> {W3}, subs |-> {S3}, lead |-> 4, again |-> 0],
     [capped |-> TRUE, workers |-> {W1}, subs |-> {S1}, lead |-> 1, again |-> 2],
     [capped |-> TRUE, workers |-> {W2, W4}, subs |-> {}, lead |-> 1, again |-> 2]}
=============================================================================
