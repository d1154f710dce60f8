-------------------------- MODULE MCCancelCascade --------------------------
(* CancelCascade on small trees.  Workers of every kind: one registered in  *)
(* the sub-tree, one resumed there, one in the root layer.                  *)
EXTENDS CancelCascade, TLC

CONSTANTS s1, w1, r1, x1

\* One sub-lead with a spawned and a resumed worker, and a root worker.
TreeLayer == (w1 :> s1) @@ (r1 :> s1) @@ (x1 :> Root)

\* Ctrl-C and a cancel by name against registrations and a resume in the
\* sub-tree; the finalizer, and cancel_run, against registrations everywhere.
CascadeScenarios ==
    {{Reg(s1), Reg(w1), Reg(r1), Kill("ctrlc")},
     {Reg(s1), Reg(w1), Kill("ctrlc"), Kill("cancel_actor")},
     {Reg(s1), Reg(w1), Reg(x1), Kill("finalize")},
     {Reg(s1), Reg(w1), Reg(x1), Kill("cancel_run")}}
=============================================================================
