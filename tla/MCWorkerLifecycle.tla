------------------------- MODULE MCWorkerLifecycle -------------------------
(* WorkerLifecycle with three incarnations and one or two requesters.       *)
EXTENDS WorkerLifecycle

CONSTANTS r1, r2

\* One requester with every operation, two with the ones that resume.
LifecycleMenus ==
    {[who |-> {r1}, ops |-> AllOps],
     [who |-> {r1, r2}, ops |-> {"pause", "continue", "reprompt", "cancel"}]}
=============================================================================
