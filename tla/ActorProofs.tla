---------------------------- MODULE ActorProofs ----------------------------
(***************************************************************************)
(* An actor from its admission to its end.  Stopping comes first: the      *)
(* cancel cascades of a run, for every tree, every set of cancel requests  *)
(* and every interleaving (terminate implies drain, and watchers and eager *)
(* cascades together miss no drain).  Then the life of one worker, for any *)
(* number of incarnations, requests and requesters (what Done and an       *)
(* announced completion promise, and that a single requester never orphans *)
(* a live session).  Then admission, for every manifest and any number of  *)
(* calls that overlap: the caps of the spawn tools, the gate that a failure*)
(* shuts, and the answers of permission_prompt.                            *)
(***************************************************************************)
EXTENDS CancelCascade, WorkerLifecycle, Admission, FiniteSetTheorems, TLAPS

\* The tasks are pairwise different and every one is in Procs.
LEMMA ProcFacts ==
    /\ \A l \in Layers : Watch(l) \in Procs /\ Watch(l)[1] = "watch"
    /\ \A c \in Subleads \cup Workers : Reg(c) \in Procs /\ Reg(c)[1] = "reg"
    /\ \A k \in KillOps : Kill(k) \in Procs /\ Kill(k)[1] = "kill"
    /\ \A l \in Layers, c \in Subleads \cup Workers : Watch(l) # Reg(c)
    /\ \A l \in Layers, k \in KillOps : Watch(l) # Kill(k)
    /\ \A c \in Subleads \cup Workers, k \in KillOps : Reg(c) # Kill(k)
    /\ \A l, m \in Layers : Watch(l) = Watch(m) => l = m
    /\ \A c, d \in Subleads \cup Workers : Reg(c) = Reg(d) => c = d
BY DEF Watch, Reg, Kill, Procs, Requests, Layers

\* What a cascade or a terminate decides to send is a well-formed plan.
LEMMA SendsTyped ==
    ASSUME TypeOK
    PROVE  /\ Idle \in Sends
           /\ \A t \in Tokens : /\ DrainSends(t) \in Sends
                                /\ TerminateSends(t) \in Sends
                                /\ TerminateWithReasonSends(t, Killed) \in Sends
           /\ \A p, t \in Tokens : CascadeSends(p, t) \in Sends
           /\ \A p, t \in Tokens : ResumeSends(p, t) \in Sends
BY DEF TypeOK, Idle, Sends, DrainSends, TerminateSends, TerminateWithReasonSends,
       CascadeSends, ResumeSends, Tokens, Layers

\* A send changes the token channels and the sender's plan, nothing else, and
\* keeps their types.
LEMMA SendTyped ==
    ASSUME TypeOK, NEW p \in Procs, Send(p)
    PROVE  TypeOK'
<1>1. out[p] \in Sends BY DEF TypeOK
<1>2. Idle \in Sends BY SendsTyped
<1>3. CASE SendReason(p)
  <2>1. [out[p] EXCEPT !.next = "drain"] \in Sends BY <1>1 DEF Sends
  <2>2. out' = [out EXCEPT ![p] = [out[p] EXCEPT !.next = "drain"]]
    BY <1>3 DEF SendReason
  <2> QED BY <1>1, <1>3, <2>1, <2>2 DEF TypeOK, Send, SendReason, Sends
<1>4. CASE SendDrain(p)
  <2>1. [out[p] EXCEPT !.next = "terminate"] \in Sends BY <1>1 DEF Sends
  <2> QED BY <1>1, <1>2, <1>4, <2>1 DEF TypeOK, Send, SendDrain, Sends
<1>5. CASE SendTerminate(p)
  BY <1>1, <1>2, <1>5 DEF TypeOK, Send, SendTerminate, Sends
<1> QED BY <1>3, <1>4, <1>5 DEF Send

\* Type correctness of the initial state.
LEMMA TypeInit == Init => TypeOK
BY SendsTyped, ProcFacts DEF Init, NewTokens, TypeOK, PCs, Idle, Sends, Tokens, Layers

\* Every step keeps the types.
LEMMA TypeStep == TypeOK /\ [Next]_vars => TypeOK'
<1> SUFFICES ASSUME TypeOK, [Next]_vars PROVE TypeOK'
  OBVIOUS
<1> USE TreeAssumption, ProcFacts
<1>1. CASE \E p \in Procs : Send(p)
  BY <1>1, SendTyped
<1>2. ASSUME NEW l \in Layers, WatcherStep(l) PROVE TypeOK'
  <2>1. Watch(l) \in Procs OBVIOUS
  <2>2. Children(l) \subseteq Subleads \cup Workers
    BY DEF Children, WorkersOf, TypeOK
  <2>3. CASE WatchFirst(l) BY <2>1, <2>2, <2>3 DEF WatchFirst, TypeOK, PCs
  <2>4. CASE WatchVisit(l)
    <3>1. PICK c \in kids[Watch(l)] :
             /\ kids' = [kids EXCEPT ![Watch(l)] = @ \ {c}]
             /\ out' = [out EXCEPT ![Watch(l)] = CascadeSends(l, c)]
             /\ UNCHANGED <<drain, term, reason, subleads, cancels, pc, subs>>
      BY <2>4 DEF WatchVisit, VisitChild
    <3>2. CascadeSends(l, c) \in Sends
      BY <2>1, SendsTyped DEF TypeOK, Tokens, Layers
    <3> QED BY <2>1, <3>1, <3>2 DEF TypeOK
  <2>5. CASE WatchCheck(l) BY <2>1, <2>5 DEF WatchCheck, TypeOK, PCs
  <2>6. CASE WatchSecond(l) BY <2>1, <2>2, <2>6 DEF WatchSecond, TypeOK, PCs
  <2>7. CASE WatchEnd(l) BY <2>1, <2>7 DEF WatchEnd, TypeOK, PCs
  <2> QED BY <1>2, <2>3, <2>4, <2>5, <2>6, <2>7 DEF WatcherStep
<1>3. ASSUME NEW s \in Subleads, SubleadStep(s) PROVE TypeOK'
  <2>1. Reg(s) \in Procs /\ Watch(s) \in Procs BY DEF Layers
  <2>2. CascadeSends(Root, s) \in Sends BY SendsTyped DEF Tokens, Layers
  <2>3. CASE RegisterSublead(s) BY <2>1, <2>3 DEF RegisterSublead, TypeOK, PCs
  <2>4. CASE InstallSubleadWatcher(s)
    BY <2>1, <2>4 DEF InstallSubleadWatcher, TypeOK, PCs
  <2>5. CASE CascadeToSublead(s)
    BY <2>1, <2>2, <2>5 DEF CascadeToSublead, TypeOK, PCs
  <2>6. CASE ReconcileSublead(s) BY <2>6 DEF ReconcileSublead, TypeOK
  <2> QED BY <1>3, <2>3, <2>4, <2>5, <2>6 DEF SubleadStep
<1>4. ASSUME NEW w \in Workers, WorkerStep(w) PROVE TypeOK'
  <2>1. Reg(w) \in Procs OBVIOUS
  <2>2. LayerOf[w] \in Tokens /\ w \in Tokens BY DEF Tokens
  <2>3. CascadeSends(LayerOf[w], w) \in Sends /\ ResumeSends(LayerOf[w], w) \in Sends
    BY <2>2, SendsTyped
  <2>4. CASE AdmitWorker(w) BY <2>1, <2>4 DEF AdmitWorker, TypeOK, PCs
  <2>5. CASE RegisterWorkerCancel(w)
    BY <2>1, <2>5 DEF RegisterWorkerCancel, TypeOK, PCs
  <2>6. CASE CascadeToWorker(w)
    BY <2>1, <2>3, <2>6 DEF CascadeToWorker, TypeOK, PCs
  <2>7. CASE ResumeCheck(w) BY <2>1, <2>3, <2>7 DEF ResumeCheck, TypeOK, PCs
  <2>8. CASE ResumeInsert(w) BY <2>1, <2>8 DEF ResumeInsert, TypeOK, PCs
  <2> QED BY <1>4, <2>4, <2>5, <2>6, <2>7, <2>8 DEF WorkerStep
<1>5. CASE CancelStep
  <2>1. \A t \in Tokens : DrainSends(t) \in Sends
                          /\ TerminateWithReasonSends(t, Killed) \in Sends
    BY SendsTyped
  <2>2. Root \in Tokens /\ Subleads \cup Workers \subseteq Tokens BY DEF Tokens, Layers
  <2>3. CASE CtrlCDrain BY <2>1, <2>2, <2>3 DEF CtrlCDrain, TypeOK, PCs
  <2>4. CASE CtrlCTerminate BY <2>1, <2>2, <2>4 DEF CtrlCTerminate, TypeOK, PCs
  <2>5. ASSUME NEW t \in Subleads \cup Workers, CancelActor(t) PROVE TypeOK'
    BY <2>1, <2>2, <2>5 DEF CancelActor, TypeOK, PCs
  <2>6. CASE CancelRunDrain BY <2>1, <2>2, <2>6 DEF CancelRunDrain, CR, TypeOK, PCs
  <2>7. CASE CancelRunRootWorkers
    BY <2>7 DEF CancelRunRootWorkers, WorkersOf, CR, TypeOK, PCs
  <2>8. CASE CancelRunVisit
    <3>1. CR \in Procs BY <2>8 DEF CancelRunVisit, CR
    <3>2. PICK c \in kids[CR] :
             /\ kids' = [kids EXCEPT ![CR] = @ \ {c}]
             /\ out' = [out EXCEPT ![CR] = TerminateWithReasonSends(c, Killed)]
      BY <2>8 DEF CancelRunVisit
    <3>3. TerminateWithReasonSends(c, Killed) \in Sends
      BY <2>1, <2>2, <3>1 DEF TypeOK
    <3> QED BY <2>8, <3>1, <3>2, <3>3 DEF CancelRunVisit, TypeOK
  <2>9. CASE CancelRunSubleads BY <2>9 DEF CancelRunSubleads, CR, TypeOK, PCs
  <2>10. CASE CancelRunLayer
    <3>1. CR \in Procs BY <2>10 DEF CancelRunLayer, CR
    <3>2. PICK s \in subs[CR] : kids' = [kids EXCEPT ![CR] = WorkersOf(s) \cup {s}]
                               /\ subs' = [subs EXCEPT ![CR] = @ \ {s}]
      BY <2>10 DEF CancelRunLayer
    <3> QED BY <2>10, <3>1, <3>2 DEF CancelRunLayer, WorkersOf, TypeOK
  <2>11. CASE CancelRunRoot BY <2>1, <2>2, <2>11 DEF CancelRunRoot, CR, TypeOK, PCs
  <2> QED BY <1>5, <2>3, <2>4, <2>5, <2>6, <2>7, <2>8, <2>9, <2>10, <2>11
          DEF CancelStep
<1>6. CASE FinalizeStep
  <2>1. Root \in Tokens BY DEF Tokens, Layers
  <2>2. CASE FinalizeTerminate
    BY <2>1, <2>2, SendsTyped DEF FinalizeTerminate, Fin, TypeOK, PCs
  <2>3. CASE FinalizeSubleads BY <2>3 DEF FinalizeSubleads, Fin, TypeOK, PCs
  <2>4. CASE FinalizeLayers BY <2>4 DEF FinalizeLayers, Fin, TypeOK, PCs
  <2>5. CASE FinalizeLayer
    <3>1. Fin \in Procs BY <2>5 DEF FinalizeLayer, Fin
    <3>2. PICK s \in subs[Fin] : kids' = [kids EXCEPT ![Fin] = WorkersOf(s)]
                                /\ subs' = [subs EXCEPT ![Fin] = @ \ {s}]
      BY <2>5 DEF FinalizeLayer
    <3> QED BY <2>5, <3>1, <3>2 DEF FinalizeLayer, WorkersOf, TypeOK
  <2>6. CASE FinalizeRootWorkers
    BY <2>6 DEF FinalizeRootWorkers, WorkersOf, Fin, TypeOK, PCs
  <2>7. CASE FinalizeVisit
    <3>1. Fin \in Procs BY <2>7 DEF FinalizeVisit, Fin
    <3>2. PICK c \in kids[Fin] :
             /\ kids' = [kids EXCEPT ![Fin] = @ \ {c}]
             /\ out' = [out EXCEPT ![Fin] = CascadeSends(ParentOf(c), c)]
      BY <2>7 DEF FinalizeVisit
    <3>3. c \in Subleads \cup Workers BY <3>1 DEF TypeOK
    <3>4. ParentOf(c) \in Tokens /\ c \in Tokens
      BY <3>3 DEF ParentOf, Tokens, Layers
    <3>5. CascadeSends(ParentOf(c), c) \in Sends BY <3>4, SendsTyped
    <3> QED BY <2>7, <3>1, <3>2, <3>5 DEF FinalizeVisit, TypeOK
  <2>8. CASE FinalizeEnd BY <2>8 DEF FinalizeEnd, Fin, TypeOK, PCs
  <2> QED BY <1>6, <2>2, <2>3, <2>4, <2>5, <2>6, <2>7, <2>8 DEF FinalizeStep
<1>7. CASE UNCHANGED vars BY <1>7 DEF vars, TypeOK
<1> QED BY <1>1, <1>2, <1>3, <1>4, <1>5, <1>6, <1>7 DEF Next

\* The specification is type correct: every walk stays inside the tree and
\* every pending send addresses a token of the run.
THEOREM TypeCorrect == Spec => []TypeOK
BY TypeInit, TypeStep, PTL DEF Spec

-----------------------------------------------------------------------------
(* Terminate implies drain, and no drain is missed. *)

\* No plan starts at its terminate send.
LEMMA PlansStart ==
    /\ Idle.next # "terminate"
    /\ \A t \in Tokens : /\ DrainSends(t).next # "terminate"
                         /\ TerminateSends(t).next # "terminate"
                         /\ TerminateWithReasonSends(t, Killed).next # "terminate"
    /\ \A p, t \in Tokens : /\ CascadeSends(p, t).next # "terminate"
                            /\ ResumeSends(p, t).next # "terminate"
BY DEF Idle, DrainSends, TerminateSends, TerminateWithReasonSends, CascadeSends,
       ResumeSends

\* The steps of the handlers and watchers touch no channel themselves: they
\* only decide on sends.
LEMMA OnlySendsSignal ==
    ASSUME TypeOK,
           \/ \E l \in Layers : WatcherStep(l)
           \/ \E s \in Subleads : SubleadStep(s)
           \/ \E w \in Workers : WorkerStep(w)
           \/ CancelStep
           \/ FinalizeStep
    PROVE  /\ UNCHANGED <<drain, term, reason>>
           /\ \A p \in Procs : out'[p] = out[p] \/ out'[p].next # "terminate"
<1> USE TreeAssumption, ProcFacts, PlansStart
<1>0. /\ Root \in Tokens /\ Layers \subseteq Tokens
      /\ Subleads \cup Workers \subseteq Tokens
  BY DEF Tokens, Layers
<1>1. ASSUME NEW l \in Layers, WatcherStep(l)
      PROVE  /\ UNCHANGED <<drain, term, reason>>
             /\ \A p \in Procs : out'[p] = out[p] \/ out'[p].next # "terminate"
  <2>1. CASE WatchVisit(l)
    BY <1>0, <2>1 DEF WatchVisit, VisitChild, TypeOK
  <2>2. CASE ~ WatchVisit(l)
    BY <1>1, <2>2 DEF WatcherStep, WatchFirst, WatchCheck, WatchSecond, WatchEnd
  <2> QED BY <2>1, <2>2
<1>2. ASSUME NEW s \in Subleads, SubleadStep(s)
      PROVE  /\ UNCHANGED <<drain, term, reason>>
             /\ \A p \in Procs : out'[p] = out[p] \/ out'[p].next # "terminate"
  BY <1>0, <1>2 DEF SubleadStep, RegisterSublead, InstallSubleadWatcher,
                    CascadeToSublead, ReconcileSublead, TypeOK
<1>3. ASSUME NEW w \in Workers, WorkerStep(w)
      PROVE  /\ UNCHANGED <<drain, term, reason>>
             /\ \A p \in Procs : out'[p] = out[p] \/ out'[p].next # "terminate"
  <2>1. LayerOf[w] \in Tokens BY <1>0
  <2> QED BY <1>0, <1>3, <2>1
          DEF WorkerStep, AdmitWorker, RegisterWorkerCancel, CascadeToWorker,
              ResumeCheck, ResumeInsert, TypeOK
<1>4. CASE CancelStep
  <2>1. CASE CancelRunVisit
    BY <1>0, <2>1 DEF CancelRunVisit, CR, TypeOK
  <2>2. CASE ~ CancelRunVisit
    BY <1>0, <1>4, <2>2
    DEF CancelStep, CtrlCDrain, CtrlCTerminate, CancelActor, CancelRunDrain,
        CancelRunRootWorkers, CancelRunSubleads, CancelRunLayer, CancelRunRoot, TypeOK
  <2> QED BY <2>1, <2>2
<1>5. CASE FinalizeStep
  <2>1. CASE FinalizeVisit
    <3>1. \A c \in Subleads \cup Workers : ParentOf(c) \in Tokens
      BY <1>0 DEF ParentOf
    <3>2. Fin \in Procs BY <2>1 DEF FinalizeVisit, Fin
    <3>3. PICK c \in kids[Fin] : out' = [out EXCEPT ![Fin] = CascadeSends(ParentOf(c), c)]
      BY <2>1 DEF FinalizeVisit
    <3>4. c \in Subleads \cup Workers BY <3>2 DEF TypeOK
    <3>5. CascadeSends(ParentOf(c), c).next # "terminate" BY <1>0, <3>1, <3>4
    <3> QED BY <2>1, <3>2, <3>3, <3>5 DEF FinalizeVisit, TypeOK
  <2>2. CASE ~ FinalizeVisit
    BY <1>0, <1>5, <2>2
    DEF FinalizeStep, FinalizeTerminate, FinalizeSubleads, FinalizeLayers,
        FinalizeLayer, FinalizeRootWorkers, FinalizeEnd, TypeOK
  <2> QED BY <2>1, <2>2
<1> QED BY <1>1, <1>2, <1>3, <1>4, <1>5

\* A send keeps the order drain before terminate.
LEMMA SendOrder ==
    ASSUME TypeOK, TerminateImpliesDrain, PlansDrainFirst, NEW p \in Procs, Send(p)
    PROVE  /\ TerminateImpliesDrain' /\ PlansDrainFirst'
           /\ \A t \in Tokens : drain[t] => drain'[t]
<1> USE DEF TypeOK, TerminateImpliesDrain, PlansDrainFirst
<1>0. out[p].tok \in Tokens BY DEF Sends
<1>1. CASE SendReason(p) BY <1>0, <1>1 DEF SendReason
<1>2. CASE SendDrain(p) BY <1>0, <1>2 DEF SendDrain, Idle, Sends
<1>3. CASE SendTerminate(p) BY <1>0, <1>3 DEF SendTerminate, Idle, Sends
<1> QED BY <1>1, <1>2, <1>3 DEF Send

\* Every step keeps the order of the sends, drain before terminate, and takes back no drain.
LEMMA OrderStep ==
    ASSUME TypeOK, TerminateImpliesDrain, PlansDrainFirst, [Next]_vars
    PROVE  /\ TerminateImpliesDrain' /\ PlansDrainFirst'
           /\ \A t \in Tokens : drain[t] => drain'[t]
<1>1. CASE \E p \in Procs : Send(p) BY <1>1, SendOrder
<1>2. CASE UNCHANGED vars
  BY <1>2 DEF vars, TerminateImpliesDrain, PlansDrainFirst
<1>3. CASE /\ UNCHANGED <<drain, term, reason>>
           /\ \A p \in Procs : out'[p] = out[p] \/ out'[p].next # "terminate"
  BY <1>3 DEF TerminateImpliesDrain, PlansDrainFirst
<1> QED BY <1>1, <1>2, <1>3, OnlySendsSignal DEF Next

\* A token that a task terminates drains as well, in every reachable state, so
\* drain-only listeners wake on every terminate (CancelToken::terminate).
THEOREM TerminateDrains == Spec => []TerminateImpliesDrain
<1>1. Init => TypeOK /\ TerminateImpliesDrain /\ PlansDrainFirst
  BY TypeInit DEF Init, NewTokens, TerminateImpliesDrain, PlansDrainFirst, Idle
<1>2. TypeOK /\ TerminateImpliesDrain /\ PlansDrainFirst /\ [Next]_vars
      => (TypeOK /\ TerminateImpliesDrain /\ PlansDrainFirst)'
  BY TypeStep, OrderStep
<1> QED BY <1>1, <1>2, PTL DEF Spec

\* Watchers start their walks only for a signal that is there.
LEMMA WokenStep ==
    ASSUME DrainInv, [Next]_vars
    PROVE  WatchersWokenByDrain'
<1> USE TreeAssumption, ProcFacts DEF WatchersWokenByDrain
<1>1. TypeOK /\ TerminateImpliesDrain /\ PlansDrainFirst /\ WatchersWokenByDrain
  BY DEF DrainInv
<1>2. \A t \in Tokens : drain[t] => drain'[t] BY <1>1, OrderStep
<1>3. Layers \subseteq Tokens BY DEF Tokens
<1>4. CASE pc' = pc BY <1>1, <1>2, <1>3, <1>4
<1>5. ASSUME NEW l \in Layers, WatcherStep(l) PROVE WatchersWokenByDrain'
  <2>1. drain[l] \/ pc'[Watch(l)] = pc[Watch(l)]
    BY <1>1, <1>3, <1>5
    DEF WatcherStep, WatchFirst, WatchVisit, VisitChild, WatchCheck, WatchSecond,
        WatchEnd, TerminateImpliesDrain
  <2>2. \A m \in Layers : m # l => pc'[Watch(m)] = pc[Watch(m)]
    BY <1>1, <1>5
    DEF WatcherStep, WatchFirst, WatchVisit, VisitChild, WatchCheck, WatchSecond,
        WatchEnd, TypeOK
  <2> QED BY <1>1, <1>2, <1>3, <2>1, <2>2
<1>6. ASSUME NEW s \in Subleads, SubleadStep(s) PROVE WatchersWokenByDrain'
  <2>1. CASE InstallSubleadWatcher(s)
    BY <1>1, <1>2, <1>3, <2>1 DEF InstallSubleadWatcher, TypeOK, Layers
  <2>2. CASE ~ InstallSubleadWatcher(s)
    <3>1. \A l \in Layers : pc'[Watch(l)] = pc[Watch(l)]
      BY <1>1, <1>6, <2>2 DEF SubleadStep, RegisterSublead, CascadeToSublead,
                              ReconcileSublead, TypeOK
    <3> QED BY <1>1, <1>2, <1>3, <3>1
  <2> QED BY <2>1, <2>2
<1>7. ASSUME NEW w \in Workers, WorkerStep(w) PROVE WatchersWokenByDrain'
  <2>1. \A l \in Layers : pc'[Watch(l)] = pc[Watch(l)]
    BY <1>1, <1>7 DEF WorkerStep, AdmitWorker, RegisterWorkerCancel, CascadeToWorker,
                      ResumeCheck, ResumeInsert, TypeOK
  <2> QED BY <1>1, <1>2, <1>3, <2>1
<1>8. CASE CancelStep
  <2>1. \A l \in Layers : pc'[Watch(l)] = pc[Watch(l)]
    BY <1>1, <1>8 DEF CancelStep, CtrlCDrain, CtrlCTerminate, CancelActor,
                      CancelRunDrain, CancelRunRootWorkers, CancelRunVisit,
                      CancelRunSubleads, CancelRunLayer, CancelRunRoot, CR, TypeOK
  <2> QED BY <1>1, <1>2, <1>3, <2>1
<1>9. CASE FinalizeStep
  <2>1. \A l \in Layers : pc'[Watch(l)] = pc[Watch(l)]
    BY <1>1, <1>9 DEF FinalizeStep, FinalizeTerminate, FinalizeSubleads,
                      FinalizeLayers, FinalizeLayer, FinalizeRootWorkers,
                      FinalizeVisit, FinalizeEnd, Fin, TypeOK
  <2> QED BY <1>1, <1>2, <1>3, <2>1
<1>10. CASE \E p \in Procs : Send(p) BY <1>4, <1>10 DEF Send
<1>11. CASE UNCHANGED vars BY <1>4, <1>11 DEF vars
<1> QED BY <1>5, <1>6, <1>7, <1>8, <1>9, <1>10, <1>11 DEF Next

\* A cascade read from a draining layer always ends in a drain of the child.
LEMMA CascadeFromDraining ==
    ASSUME NEW l \in Layers, NEW c \in Tokens, drain[l]
    PROVE  /\ CascadeSends(l, c).next # "none"
           /\ CascadeSends(l, c).tok = c
BY DEF CascadeSends, DrainSends, TerminateSends, TerminateWithReasonSends

\* The heart of the argument: a drain that a registered child has not got yet
\* stays owed by its handler or by its layer's watcher.
LEMMA OwedStep ==
    ASSUME DrainInv, [Next]_vars
    PROVE  DrainOwed'
<1> USE TreeAssumption, ProcFacts
<1>1. TypeOK /\ TerminateImpliesDrain /\ PlansDrainFirst /\ WatchersWokenByDrain
  BY DEF DrainInv
<1>2. \A t \in Tokens : drain[t] => drain'[t] BY <1>1, OrderStep
<1> SUFFICES ASSUME NEW c \in Subleads \cup Workers,
                    Enrolled(c)', drain'[ParentOf(c)], ~ drain'[c]
             PROVE  Owed(c)'
  BY DEF DrainOwed, ParentOf
<1> DEFINE l == ParentOf(c)
<1>3. l \in Layers /\ l \in Tokens /\ c \in Tokens
  BY DEF ParentOf, Layers, Tokens
<1>4. ~ drain[c] BY <1>2, <1>3
<1>5. Enrolled(c) /\ drain[l] => Owed(c) BY <1>4 DEF DrainInv, DrainOwed
<1>6. ~ drain[l] => pc[Watch(l)] \in {"off", "wait1"}
  BY <1>1, <1>3 DEF WatchersWokenByDrain
<1>7. Enrolled(c) => Owed(c) BY <1>5, <1>6 DEF Owed
<1>8. /\ Watch(l) \in Procs /\ Reg(c) \in Procs /\ Watch(l) # Reg(c)
  BY <1>3
<1> HIDE DEF l
<1>9. l = ParentOf(c) BY DEF l
<1>10. CASE \E p \in Procs : Send(p)
  <2>1. PICK p \in Procs : Send(p) BY <1>10
  <2>2. Owed(c) BY <1>7, <2>1 DEF Send, Enrolled
  <2>3. UNCHANGED <<pc, kids>> BY <2>1 DEF Send
  <2>4. \A q \in Procs : Sending(q) /\ out[q].tok = c =>
                         Sending(q)' /\ out'[q].tok = c
    <3> SUFFICES ASSUME NEW q \in Procs, Sending(q), out[q].tok = c
                 PROVE  Sending(q)' /\ out'[q].tok = c
      OBVIOUS
    <3>1. CASE q # p
      BY <1>1, <2>1, <3>1
      DEF Send, SendReason, SendDrain, SendTerminate, Sending, TypeOK
    <3>2. CASE q = p
      <4>1. out[p].next # "terminate" BY <1>1, <1>4, <3>2 DEF PlansDrainFirst
      <4>2. out[p].next # "drain"
        BY <1>1, <1>3, <2>1, <3>2 DEF Send, SendReason, SendDrain, SendTerminate, TypeOK
      <4>3. SendReason(p)
        BY <2>1, <4>1, <4>2 DEF Send, SendDrain, SendTerminate
      <4> QED BY <1>1, <3>2, <4>3 DEF SendReason, Sending, TypeOK, Sends
    <3> QED BY <3>1, <3>2
  <2> QED BY <1>8, <1>9, <2>2, <2>3, <2>4 DEF Owed
<1>11. ASSUME NEW m \in Layers, WatcherStep(m) PROVE Owed(c)'
  <2>1. Owed(c) /\ Enrolled(c) /\ UNCHANGED drain
    BY <1>7, <1>11 DEF WatcherStep, WatchFirst, WatchVisit, VisitChild, WatchCheck,
                   WatchSecond, WatchEnd, Enrolled
  <2>2. drain[l] BY <1>9, <2>1
  <2>3. CASE m # l
    <3>1. /\ pc'[Watch(l)] = pc[Watch(l)] /\ pc'[Reg(c)] = pc[Reg(c)]
          /\ kids'[Watch(l)] = kids[Watch(l)]
          /\ out'[Watch(l)] = out[Watch(l)] /\ out'[Reg(c)] = out[Reg(c)]
      BY <1>1, <1>3, <1>8, <1>11, <2>3
      DEF WatcherStep, WatchFirst, WatchVisit, VisitChild, WatchCheck, WatchSecond,
          WatchEnd, TypeOK
    <3> QED BY <1>9, <2>1, <3>1 DEF Owed, Sending
  <2>4. CASE m = l
    <3>1. pc'[Reg(c)] = pc[Reg(c)] /\ out'[Reg(c)] = out[Reg(c)]
      BY <1>1, <1>8, <1>11, <2>4
      DEF WatcherStep, WatchFirst, WatchVisit, VisitChild, WatchCheck, WatchSecond,
          WatchEnd, TypeOK
    <3>2. CASE \/ pc[Reg(c)] \in {"inserted", "watched"}
               \/ Sending(Reg(c)) /\ out[Reg(c)].tok = c
      BY <3>1, <3>2 DEF Owed, Sending
    <3>3. CASE WatchFirst(l)
      <4>1. c \in Children(l)
        BY <1>9, <2>1 DEF Children, WorkersOf, Enrolled, ParentOf, TypeOK, DrainInv
      <4> QED BY <1>1, <1>8, <1>9, <3>3, <4>1 DEF WatchFirst, Owed, TypeOK
    <3>4. CASE ~ WatchFirst(l) /\ ~(\/ pc[Reg(c)] \in {"inserted", "watched"}
                                    \/ Sending(Reg(c)) /\ out[Reg(c)].tok = c)
      <4>1. pc[Watch(l)] = "walk1" /\ ( \/ c \in kids[Watch(l)]
                                        \/ Sending(Watch(l)) /\ out[Watch(l)].tok = c)
        BY <1>9, <1>11, <2>1, <2>4, <3>4
        DEF Owed, WatcherStep, WatchVisit, WatchCheck, WatchSecond, WatchEnd
      <4>2. WatchVisit(l)
        BY <1>11, <2>4, <3>4, <4>1
        DEF WatcherStep, WatchCheck, WatchSecond, WatchEnd, Rested
      <4>3. PICK d \in kids[Watch(l)] :
               /\ ~ Sending(Watch(l))
               /\ kids' = [kids EXCEPT ![Watch(l)] = @ \ {d}]
               /\ out' = [out EXCEPT ![Watch(l)] = CascadeSends(l, d)]
               /\ pc' = pc
        BY <4>2 DEF WatchVisit, VisitChild
      <4>4. CASE d = c
        <5>1. out'[Watch(l)].next # "none" /\ out'[Watch(l)].tok = c
          BY <1>1, <1>3, <1>8, <2>2, <4>3, <4>4, CascadeFromDraining DEF TypeOK
        <5> QED BY <1>9, <4>1, <4>3, <5>1 DEF Owed, Sending
      <4>5. CASE d # c
        BY <1>1, <1>8, <1>9, <4>1, <4>3, <4>5 DEF Owed, TypeOK
      <4> QED BY <4>4, <4>5
    <3> QED BY <3>2, <3>3, <3>4
  <2> QED BY <2>3, <2>4
<1>12. ASSUME NEW s \in Subleads, SubleadStep(s) PROVE Owed(c)'
  <2>1. UNCHANGED <<drain, kids, cancels>>
    BY <1>12 DEF SubleadStep, RegisterSublead, InstallSubleadWatcher,
                 CascadeToSublead, ReconcileSublead
  <2>2. drain[l] BY <1>9, <2>1
  <2>3. out'[Watch(l)] = out[Watch(l)]
    BY <1>1, <1>3, <1>12 DEF SubleadStep, RegisterSublead, InstallSubleadWatcher,
                 CascadeToSublead, ReconcileSublead, TypeOK
  <2>4. CASE s = c /\ RegisterSublead(s)
    BY <1>1, <1>8, <2>4 DEF RegisterSublead, Owed, TypeOK
  <2>5. CASE s = c /\ InstallSubleadWatcher(s)
    BY <1>1, <1>8, <2>5 DEF InstallSubleadWatcher, Owed, TypeOK
  <2>6. CASE s = c /\ CascadeToSublead(s)
    <3>1. l = Root BY <1>9, <2>6 DEF ParentOf
    <3>2. out'[Reg(c)].next # "none" /\ out'[Reg(c)].tok = c
      BY <1>1, <1>3, <1>8, <2>2, <2>6, <3>1, CascadeFromDraining
      DEF CascadeToSublead, TypeOK
    <3> QED BY <3>2 DEF Owed, Sending
  <2>7. CASE s = c /\ ReconcileSublead(s)
    BY <2>7 DEF ReconcileSublead, Enrolled, TypeOK, DrainInv
  <2>8. CASE s # c
    <3>1. pc'[Reg(c)] = pc[Reg(c)] /\ out'[Reg(c)] = out[Reg(c)]
      BY <1>1, <1>3, <1>8, <1>12, <2>8 DEF SubleadStep, RegisterSublead,
         InstallSubleadWatcher, CascadeToSublead, ReconcileSublead, TypeOK, Layers
    <3>2. Enrolled(c)
      BY <1>12, <2>1, <2>8 DEF SubleadStep, RegisterSublead, InstallSubleadWatcher,
         CascadeToSublead, ReconcileSublead, Enrolled
    <3>3. pc'[Watch(l)] = pc[Watch(l)] \/ pc'[Watch(l)] = "wait1"
      BY <1>1, <1>3, <1>8, <1>12 DEF SubleadStep, RegisterSublead,
         InstallSubleadWatcher, CascadeToSublead, ReconcileSublead, TypeOK, Layers
    <3> QED BY <1>7, <1>9, <2>1, <2>3, <3>1, <3>2, <3>3 DEF Owed, Sending
  <2> QED BY <1>12, <2>4, <2>5, <2>6, <2>7, <2>8 DEF SubleadStep
<1>13. ASSUME NEW w \in Workers, WorkerStep(w) PROVE Owed(c)'
  <2>1. UNCHANGED <<drain, kids, subleads>>
    BY <1>13 DEF WorkerStep, AdmitWorker, RegisterWorkerCancel, CascadeToWorker,
                 ResumeCheck, ResumeInsert
  <2>2. drain[l] BY <1>9, <2>1
  <2>3. out'[Watch(l)] = out[Watch(l)] /\ pc'[Watch(l)] = pc[Watch(l)]
    BY <1>1, <1>3, <1>13 DEF WorkerStep, AdmitWorker, RegisterWorkerCancel,
                 CascadeToWorker, ResumeCheck, ResumeInsert, TypeOK
  <2>4. CASE w # c
    <3>1. pc'[Reg(c)] = pc[Reg(c)] /\ out'[Reg(c)] = out[Reg(c)]
      BY <1>1, <1>8, <1>13, <2>4 DEF WorkerStep, AdmitWorker, RegisterWorkerCancel,
                 CascadeToWorker, ResumeCheck, ResumeInsert, TypeOK
    <3>2. Enrolled(c)
      BY <1>13, <2>1, <2>4 DEF WorkerStep, AdmitWorker, RegisterWorkerCancel,
                 CascadeToWorker, ResumeCheck, ResumeInsert, Enrolled
    <3> QED BY <1>7, <1>9, <2>1, <2>3, <3>1, <3>2 DEF Owed, Sending
  <2>5. CASE w = c
    <3>1. c \notin Resumed /\ LayerOf[c] # Root
      BY <1>1, <2>1, <2>5 DEF Enrolled, TypeOK
    <3>2. CASE RegisterWorkerCancel(c)
      BY <1>1, <1>8, <3>2 DEF RegisterWorkerCancel, Owed, TypeOK
    <3>3. CASE CascadeToWorker(c)
      <4>1. l = LayerOf[c] BY <1>9, <2>5 DEF ParentOf
      <4>2. out'[Reg(c)].next # "none" /\ out'[Reg(c)].tok = c
        BY <1>1, <1>3, <1>8, <2>2, <3>3, <4>1, CascadeFromDraining
        DEF CascadeToWorker, TypeOK
      <4> QED BY <4>2 DEF Owed, Sending
    <3>4. CASE AdmitWorker(c)
      <4>1. Enrolled(c) BY <3>4 DEF AdmitWorker, Enrolled
      <4>2. pc[Reg(c)] = "new" /\ UNCHANGED out BY <3>4 DEF AdmitWorker
      <4> QED BY <1>7, <1>9, <2>1, <2>3, <4>1, <4>2 DEF Owed, Sending
    <3>5. ~ ResumeCheck(c) /\ ~ ResumeInsert(c)
      BY <3>1 DEF ResumeCheck, ResumeInsert
    <3> QED BY <1>13, <2>5, <3>2, <3>3, <3>4, <3>5 DEF WorkerStep
  <2> QED BY <2>4, <2>5
<1>14. CASE CancelStep
  <2>1. UNCHANGED <<drain, subleads, cancels>>
    BY <1>14 DEF CancelStep, CtrlCDrain, CtrlCTerminate, CancelActor, CancelRunDrain,
       CancelRunRootWorkers, CancelRunVisit, CancelRunSubleads, CancelRunLayer,
       CancelRunRoot
  <2>2. \A p \in {Watch(l), Reg(c)} : /\ pc'[p] = pc[p] /\ kids'[p] = kids[p]
                                      /\ out'[p] = out[p]
    BY <1>1, <1>3, <1>8, <1>14 DEF CancelStep, CtrlCDrain, CtrlCTerminate, CancelActor,
       CancelRunDrain, CancelRunRootWorkers, CancelRunVisit, CancelRunSubleads,
       CancelRunLayer, CancelRunRoot, CR, TypeOK
  <2> QED BY <1>7, <1>9, <2>1, <2>2 DEF Enrolled, Owed, Sending
<1>15. CASE FinalizeStep
  <2>1. UNCHANGED <<drain, subleads, cancels>>
    BY <1>15 DEF FinalizeStep, FinalizeTerminate, FinalizeSubleads, FinalizeLayers,
       FinalizeLayer, FinalizeRootWorkers, FinalizeVisit, FinalizeEnd
  <2>2. \A p \in {Watch(l), Reg(c)} : /\ pc'[p] = pc[p] /\ kids'[p] = kids[p]
                                      /\ out'[p] = out[p]
    BY <1>1, <1>3, <1>8, <1>15 DEF FinalizeStep, FinalizeTerminate, FinalizeSubleads,
       FinalizeLayers, FinalizeLayer, FinalizeRootWorkers, FinalizeVisit, FinalizeEnd,
       Fin, TypeOK
  <2> QED BY <1>7, <1>9, <2>1, <2>2 DEF Enrolled, Owed, Sending
<1>16. CASE UNCHANGED vars
  BY <1>7, <1>16 DEF vars, Enrolled, Owed, Sending
<1> QED BY <1>10, <1>11, <1>12, <1>13, <1>14, <1>15, <1>16 DEF Next

\* Nobody is registered and nothing is signalled at first.
LEMMA DrainInvInit == Init => DrainInv
<1> SUFFICES ASSUME Init PROVE DrainInv
  OBVIOUS
<1>1. TypeOK BY TypeInit
<1>2. \A l \in Layers : pc[Watch(l)] \in {"off", "wait1"}
  <2>1. PICK coming \in Scenarios :
           pc = [p \in Procs |-> CASE p = Watch(Root) -> "wait1"
                                  [] p # Watch(Root) /\ p \in coming -> "new"
                                  [] p # Watch(Root) /\ p \notin coming -> "off"]
    BY DEF Init
  <2>2. \A l \in Layers : Watch(l) \notin coming
    BY ScenarioAssumption DEF Requests, Watch
  <2> QED BY <2>1, <2>2, ProcFacts
<1> QED BY <1>1, <1>2, TreeAssumption, ProcFacts
        DEF Init, NewTokens, Idle, DrainInv, TerminateImpliesDrain, PlansDrainFirst,
            WatchersWokenByDrain, DrainOwed, Enrolled, Tokens, Layers

\* Every step keeps a drain owed until it has arrived.
LEMMA DrainInvStep == DrainInv /\ [Next]_vars => DrainInv'
BY TypeStep, OrderStep, WokenStep, OwedStep DEF DrainInv

\* For every tree and every interleaving of registrations, watchers and cancel
\* requests: when a layer drains, the layer's watcher and the registration's
\* own cascade leave no registered child without the drain.
THEOREM DrainMissesNobody == Spec => []NoMissedDrain
<1>1. DrainInv => NoMissedDrain
  BY DEF DrainInv, DrainOwed, NoMissedDrain, Owed
<1> QED BY <1>1, DrainInvInit, DrainInvStep, PTL DEF Spec

-----------------------------------------------------------------------------
(* What finalize and cancel_run reach. *)

\* The registration of c has come to one of these points.
RegAt(c, points) == pc[Reg(c)] \in points

\* A registered sub-lead has its watcher; a worker was admitted by a sub-lead
\* whose own registration was complete, and is in the map once it is inserted.
RegistryInv ==
    /\ pc[Watch(Root)] # "off"
    /\ \A s \in Subleads :
           /\ s \in subleads => RegAt(s, {"inserted", "watched", "done"})
           /\ RegAt(s, {"watched", "done"}) => pc[Watch(s)] # "off"
    /\ \A w \in Workers \ Resumed :
           /\ w \in cancels => RegAt(w, {"inserted", "done"})
           /\ RegAt(w, {"admitted", "inserted", "done"}) /\ LayerOf[w] \in Subleads =>
                  RegAt(LayerOf[w], {"done"}) /\ ~ Sending(Reg(LayerOf[w]))

\* Before the finalizer starts, every terminate on its way to a token that was
\* not resumed carries a reason, and the reason is sent first.
Reasonless == "finalize" \in KillOps => pc[Fin] \in {"off", "new"}
ReasonInv ==
    /\ \A p \in Procs : /\ out[p].next = "reason" => out[p].why # NoReason
                        /\ out[p].next = "terminate" => out[p].last = "terminate"
    /\ Reasonless =>
           /\ \A t \in Tokens \ Resumed : term[t] => reason[t] # NoReason
           /\ \A p \in Procs :
                  Sending(p) /\ out[p].last = "terminate" /\ out[p].tok \notin Resumed =>
                      out[p].next = "reason" \/ reason[out[p].tok] # NoReason

\* Task p is sending token t a terminate.
Terminating(p, t) == Sending(p) /\ out[p].tok = t /\ out[p].last = "terminate"

\* Child c is terminated, or will be: by the handler that registers it, or by
\* the finalizer.
TermOwed(c) == term[c] \/ RegAt(c, {"inserted", "watched"}) \/ Terminating(Reg(c), c)
FinOwes(c) == c \in kids[Fin] \/ Terminating(Fin, c)

\* Finalize terminates the root, then the sub-leads, their workers and the
\* root's; what it has walked past can only be owed by its own registration.
FinalizeInv ==
    "finalize" \in KillOps =>
        /\ pc[Fin] = "last" => term[Root] \/ Terminating(Fin, Root)
        /\ pc[Fin] \in {"subs", "layers", "roots", "done"} =>
               /\ term[Root]
               /\ \A s \in subleads : TermOwed(s) \/ (pc[Fin] = "subs" /\ FinOwes(s))
        /\ pc[Fin] \in {"layers", "roots", "done"} =>
               \A w \in cancels \ Resumed : LayerOf[w] \in subleads =>
                   \/ TermOwed(w)
                   \/ pc[Fin] = "layers" /\ (LayerOf[w] \in subs[Fin] \/ FinOwes(w))
        /\ pc[Fin] \in {"roots", "done"} =>
               \A w \in cancels \ Resumed : LayerOf[w] = Root =>
                   TermOwed(w) \/ (pc[Fin] = "roots" /\ FinOwes(w))

\* Root worker w is drained, or its registration or cancel_run still owes it.
RootOwed(w) == \/ drain[w]
               \/ RegAt(w, {"inserted"})
               \/ \E p \in {Reg(w), CR} : Sending(p) /\ out[p].tok = w
               \/ w \in kids[CR]

\* cancel_run drains the root first: a root worker that is registered behind
\* its walk is drained by its own registration.
CancelRunInv ==
    "cancel_run" \in KillOps =>
        /\ pc[CR] = "run" => drain[Root] \/ (out[CR].tok = Root /\ out[CR].next = "drain")
        /\ pc[CR] \in {"roots", "subs", "done"} =>
               /\ drain[Root]
               /\ \A w \in cancels \ Resumed : LayerOf[w] = Root => RootOwed(w)

CancelInv == DrainInv /\ RegistryInv /\ ReasonInv /\ FinalizeInv /\ CancelRunInv

\* What a send keeps: the maps and the positions of every task, and every
\* signal that is pending stays pending or has arrived.
LEMMA SendKeeps ==
    ASSUME TypeOK, PlansDrainFirst, NEW p \in Procs, Send(p)
    PROVE  /\ UNCHANGED <<subleads, cancels, pc, kids, subs>>
           /\ \A t \in Tokens : (drain[t] => drain'[t]) /\ (term[t] => term'[t])
           /\ \A q \in Procs : ~ Sending(q) => ~ Sending(q)'
           /\ \A q \in Procs, t \in Tokens :
                  /\ Terminating(q, t) => Terminating(q, t)' \/ term'[t]
                  /\ Sending(q) /\ out[q].tok = t =>
                         (Sending(q)' /\ out'[q].tok = t) \/ drain'[t]
<1> USE DEF TypeOK, Sending, Terminating
<1>0. out[p] \in Sends OBVIOUS
<1>1. CASE SendReason(p)
  <2>1. out'[p].tok = out[p].tok /\ out'[p].last = out[p].last /\ out'[p].next = "drain"
    BY <1>0, <1>1 DEF SendReason, Sends
  <2>2. \A q \in Procs : q # p => out'[q] = out[q] BY <1>1 DEF SendReason
  <2> QED BY <1>1, <2>1, <2>2 DEF Send, SendReason
<1>2. CASE SendDrain(p)
  <2>1. \A q \in Procs : q # p => out'[q] = out[q] BY <1>2 DEF SendDrain
  <2>2. out[p].last = "terminate" =>
           out'[p].tok = out[p].tok /\ out'[p].last = "terminate" /\ out'[p].next = "terminate"
    BY <1>0, <1>2 DEF SendDrain, Sends
  <2>3. drain' = [drain EXCEPT ![out[p].tok] = TRUE] /\ term' = term BY <1>2 DEF SendDrain
  <2>4. out[p].tok \in Tokens /\ out[p].next = "drain" BY <1>0, <1>2 DEF SendDrain, Sends
  <2> QED BY <2>1, <2>2, <2>3, <2>4 DEF Send
<1>3. CASE SendTerminate(p)
  <2>1. \A q \in Procs : q # p => out'[q] = out[q] BY <1>3 DEF SendTerminate
  <2>2. term' = [term EXCEPT ![out[p].tok] = TRUE] /\ drain' = drain BY <1>3 DEF SendTerminate
  <2>3. out[p].tok \in Tokens /\ out[p].next = "terminate" /\ drain[out[p].tok]
    BY <1>0, <1>3 DEF SendTerminate, Sends, PlansDrainFirst
  <2>4. out'[p].next = "none" BY <1>3 DEF SendTerminate, Idle
  <2> QED BY <2>1, <2>2, <2>3, <2>4 DEF Send
<1> QED BY <1>1, <1>2, <1>3 DEF Send

\* A watcher's step changes nothing but its own position, walk and sends.
LEMMA WatchFrame ==
    ASSUME TypeOK, NEW l \in Layers, WatcherStep(l)
    PROVE  /\ UNCHANGED <<drain, term, reason, subleads, cancels, subs>>
           /\ \A p \in Procs : p # Watch(l) =>
                  pc'[p] = pc[p] /\ kids'[p] = kids[p] /\ out'[p] = out[p]
           /\ pc'[Watch(l)] # "off"
BY ProcFacts DEF TypeOK, WatcherStep, WatchFirst, WatchVisit, VisitChild, WatchCheck,
                 WatchSecond, WatchEnd

\* The registration of c changes no channel and no walk, and of the tasks only
\* its own and, for a sub-lead, the position of the new watcher.
LEMMA RegFrame ==
    ASSUME TypeOK, NEW c \in Subleads \cup Workers,
           (c \in Subleads /\ SubleadStep(c)) \/ (c \in Workers /\ WorkerStep(c))
    PROVE  /\ UNCHANGED <<drain, term, reason, kids, subs>>
           /\ \A p \in Procs : p # Reg(c) =>
                  /\ out'[p] = out[p]
                  /\ pc'[p] = pc[p] \/ (c \in Subleads /\ p = Watch(c) /\ pc'[p] = "wait1")
           /\ c \in Subleads => /\ cancels' = cancels
                                /\ \A s \in Subleads : s # c => (s \in subleads' <=> s \in subleads)
           /\ c \in Workers => /\ subleads' = subleads
                               /\ \A w \in Workers : w # c => (w \in cancels' <=> w \in cancels)
<1>1. CASE c \in Subleads /\ SubleadStep(c)
  BY <1>1, ProcFacts, TreeAssumption
  DEF TypeOK, SubleadStep, RegisterSublead, InstallSubleadWatcher, CascadeToSublead,
      ReconcileSublead, Layers
<1>2. CASE c \in Workers /\ WorkerStep(c)
  BY <1>2, ProcFacts, TreeAssumption
  DEF TypeOK, WorkerStep, AdmitWorker, RegisterWorkerCancel, CascadeToWorker,
      ResumeCheck, ResumeInsert
<1> QED BY <1>1, <1>2

\* A cancel request changes no channel and no map, and of the tasks only its own.
LEMMA CancelFrame ==
    ASSUME TypeOK, CancelStep
    PROVE  /\ UNCHANGED <<drain, term, reason, subleads, cancels>>
           /\ \A p \in Procs : p[1] # "kill" \/ p = Fin =>
                  /\ pc'[p] = pc[p] /\ kids'[p] = kids[p]
                  /\ subs'[p] = subs[p] /\ out'[p] = out[p]
BY ProcFacts DEF TypeOK, CancelStep, CtrlCDrain, CtrlCTerminate, CancelActor,
   CancelRunDrain, CancelRunRootWorkers, CancelRunVisit, CancelRunSubleads,
   CancelRunLayer, CancelRunRoot, CR, Fin, Kill

\* The finalizer changes no channel and no map, and no other task.
LEMMA FinalizeFrame ==
    ASSUME TypeOK, FinalizeStep
    PROVE  /\ UNCHANGED <<drain, term, reason, subleads, cancels>>
           /\ \A p \in Procs : p # Fin =>
                  /\ pc'[p] = pc[p] /\ kids'[p] = kids[p]
                  /\ subs'[p] = subs[p] /\ out'[p] = out[p]
BY DEF TypeOK, FinalizeStep, FinalizeTerminate, FinalizeSubleads, FinalizeLayers,
   FinalizeLayer, FinalizeRootWorkers, FinalizeVisit, FinalizeEnd

\* Registrations stay in order.
LEMMA RegistryStep ==
    ASSUME CancelInv, [Next]_vars
    PROVE  RegistryInv'
<1> USE TreeAssumption, ProcFacts DEF RegistryInv, RegAt
<1>1. TypeOK /\ PlansDrainFirst /\ RegistryInv BY DEF CancelInv, DrainInv
<1>2. Root \in Layers /\ Subleads \subseteq Layers BY DEF Layers
<1>3. ASSUME NEW p \in Procs, Send(p) PROVE RegistryInv'
  BY <1>1, <1>2, <1>3, SendKeeps
<1>4. ASSUME NEW l \in Layers, WatcherStep(l) PROVE RegistryInv'
  BY <1>1, <1>2, <1>4, WatchFrame DEF Sending
<1>5. ASSUME NEW s \in Subleads, SubleadStep(s) PROVE RegistryInv'
  <2>1. CASE RegisterSublead(s) BY <1>1, <1>2, <2>1 DEF RegisterSublead, Sending, TypeOK
  <2>2. CASE InstallSubleadWatcher(s)
    BY <1>1, <1>2, <2>2 DEF InstallSubleadWatcher, Sending, TypeOK
  <2>3. CASE CascadeToSublead(s)
    BY <1>1, <1>2, <2>3 DEF CascadeToSublead, Sending, TypeOK
  <2>4. CASE ReconcileSublead(s) BY <1>1, <1>2, <2>4 DEF ReconcileSublead, Sending, TypeOK
  <2> QED BY <1>5, <2>1, <2>2, <2>3, <2>4 DEF SubleadStep
<1>6. ASSUME NEW w \in Workers, WorkerStep(w) PROVE RegistryInv'
  <2>1. CASE AdmitWorker(w)
    BY <1>1, <1>2, <2>1 DEF AdmitWorker, LayerLive, Rested, Sending, TypeOK
  <2>2. CASE RegisterWorkerCancel(w)
    BY <1>1, <1>2, <2>2 DEF RegisterWorkerCancel, Sending, TypeOK
  <2>3. CASE CascadeToWorker(w)
    BY <1>1, <1>2, <2>3 DEF CascadeToWorker, Sending, TypeOK
  <2>4. CASE ResumeCheck(w) BY <1>1, <1>2, <2>4 DEF ResumeCheck, Sending, TypeOK
  <2>5. CASE ResumeInsert(w) BY <1>1, <1>2, <2>5 DEF ResumeInsert, Sending, TypeOK
  <2> QED BY <1>6, <2>1, <2>2, <2>3, <2>4, <2>5 DEF WorkerStep
<1>7. CASE CancelStep BY <1>1, <1>2, <1>7, CancelFrame DEF Sending
<1>8. CASE FinalizeStep
  <2>1. \A p \in Procs : p[1] # "kill" => p # Fin BY DEF Fin, Kill
  <2> QED BY <1>1, <1>2, <1>8, <2>1, FinalizeFrame DEF Sending
<1>9. CASE UNCHANGED vars BY <1>1, <1>9 DEF vars, Sending
<1> QED BY <1>3, <1>4, <1>5, <1>6, <1>7, <1>8, <1>9 DEF Next

\* Every terminate that a task decides on carries the reason of the token it
\* was read from; only finalize and a resume send none.
LEMMA PlansCarryReason ==
    ASSUME TypeOK, ReasonInv, Reasonless
    PROVE  /\ ~ (Idle.next # "none")
           /\ \A t \in Tokens : DrainSends(t).last # "terminate"
           /\ \A t \in Tokens : TerminateWithReasonSends(t, Killed).next = "reason"
           /\ \A l \in Layers, t \in Tokens :
                  \/ CascadeSends(l, t).next = "reason"
                  \/ CascadeSends(l, t).last # "terminate"
<1>1. Layers \subseteq Tokens \ Resumed BY TreeAssumption DEF Layers, Tokens
<1> QED BY <1>1 DEF ReasonInv, Idle, DrainSends, TerminateWithReasonSends, CascadeSends

\* A plan that starts with a reason has one.
LEMMA ReasonsAreReal ==
    /\ Idle.next # "reason"
    /\ \A t \in Tokens : /\ DrainSends(t).next # "reason"
                         /\ TerminateSends(t).next # "reason"
                         /\ TerminateWithReasonSends(t, Killed).why # NoReason
    /\ \A l, t \in Tokens : /\ CascadeSends(l, t).next = "reason" =>
                                CascadeSends(l, t).why # NoReason
                            /\ ResumeSends(l, t).next # "reason"
BY TreeAssumption DEF Idle, DrainSends, TerminateSends, TerminateWithReasonSends,
   CascadeSends, ResumeSends

\* What a step may put in the place of a task's sends.
NewPlan(p) ==
    \/ out'[p] = out[p]
    \/ out'[p] = Idle
    \/ \E t \in Tokens : out'[p] \in {DrainSends(t), TerminateWithReasonSends(t, Killed)}
    \/ \E l \in Layers, t \in Tokens : out'[p] = CascadeSends(l, t)
    \/ \E l \in Layers, t \in Resumed : out'[p] = ResumeSends(l, t)
    \/ p = Fin /\ "finalize" \in KillOps /\ pc'[Fin] = "last" /\ out'[p] = TerminateSends(Root)

\* Every plan comes from one of the token's operations.
LEMMA PlansAreKnown ==
    ASSUME TypeOK,
           \/ \E l \in Layers : WatcherStep(l)
           \/ \E s \in Subleads : SubleadStep(s)
           \/ \E w \in Workers : WorkerStep(w)
           \/ CancelStep
           \/ FinalizeStep
    PROVE  \A p \in Procs : NewPlan(p)
<1> USE TreeAssumption, ProcFacts DEF NewPlan
<1>0. /\ Root \in Layers /\ Layers \subseteq Tokens /\ Root \in Tokens
      /\ Subleads \cup Workers \subseteq Tokens
  BY DEF Tokens, Layers
<1>1. ASSUME NEW l \in Layers, WatcherStep(l) PROVE \A p \in Procs : NewPlan(p)
  <2>1. CASE WatchVisit(l) BY <1>0, <2>1 DEF WatchVisit, VisitChild, TypeOK
  <2>2. CASE ~ WatchVisit(l)
    BY <1>1, <2>2 DEF WatcherStep, WatchFirst, WatchCheck, WatchSecond, WatchEnd
  <2> QED BY <2>1, <2>2
<1>2. ASSUME NEW s \in Subleads, SubleadStep(s) PROVE \A p \in Procs : NewPlan(p)
  BY <1>0, <1>2 DEF SubleadStep, RegisterSublead, InstallSubleadWatcher,
                    CascadeToSublead, ReconcileSublead, TypeOK
<1>3. ASSUME NEW w \in Workers, WorkerStep(w) PROVE \A p \in Procs : NewPlan(p)
  <2>1. CASE ResumeCheck(w) BY <1>0, <2>1 DEF ResumeCheck, TypeOK
  <2>2. CASE ~ ResumeCheck(w)
    BY <1>0, <1>3, <2>2 DEF WorkerStep, AdmitWorker, RegisterWorkerCancel,
                            CascadeToWorker, ResumeInsert, TypeOK
  <2> QED BY <2>1, <2>2
<1>4. CASE CancelStep
  <2>1. CASE CancelRunVisit BY <1>0, <2>1 DEF CancelRunVisit, CR, TypeOK
  <2>2. CASE ~ CancelRunVisit
    BY <1>0, <1>4, <2>2
    DEF CancelStep, CtrlCDrain, CtrlCTerminate, CancelActor, CancelRunDrain,
        CancelRunRootWorkers, CancelRunSubleads, CancelRunLayer, CancelRunRoot, TypeOK
  <2> QED BY <2>1, <2>2
<1>5. CASE FinalizeStep
  <2>1. CASE FinalizeVisit
    <3>1. Fin \in Procs BY <2>1 DEF FinalizeVisit, Fin
    <3>2. PICK c \in kids[Fin] : out' = [out EXCEPT ![Fin] = CascadeSends(ParentOf(c), c)]
      BY <2>1 DEF FinalizeVisit
    <3>3. c \in Subleads \cup Workers BY <3>1 DEF TypeOK
    <3>4. ParentOf(c) \in Layers /\ c \in Tokens BY <1>0, <3>3 DEF ParentOf
    <3> QED BY <3>2, <3>4 DEF TypeOK
  <2>2. CASE FinalizeTerminate
    BY <2>2 DEF FinalizeTerminate, Fin, TypeOK
  <2>3. CASE ~ FinalizeVisit /\ ~ FinalizeTerminate
    BY <1>5, <2>3 DEF FinalizeStep, FinalizeSubleads, FinalizeLayers, FinalizeLayer,
                      FinalizeRootWorkers, FinalizeEnd
  <2> QED BY <2>1, <2>2, <2>3
<1> QED BY <1>1, <1>2, <1>3, <1>4, <1>5

\* The finalizer's position goes forward only: once it has started, it stays
\* started.
LEMMA FinalizerStarts ==
    ASSUME TypeOK, [Next]_vars, Reasonless'
    PROVE  Reasonless
<1> USE ProcFacts DEF Reasonless
<1> SUFFICES ASSUME "finalize" \in KillOps PROVE pc[Fin] \in {"off", "new"}
  OBVIOUS
<1>0. Fin \in Procs /\ Fin[1] = "kill" BY DEF Fin
<1>1. CASE pc'[Fin] = pc[Fin] BY <1>1
<1>2. CASE \E p \in Procs : Send(p) BY <1>2 DEF Send
<1>3. CASE \E l \in Layers : WatcherStep(l)
  BY <1>0, <1>1, <1>3, WatchFrame
<1>4. CASE \E s \in Subleads : SubleadStep(s)
  BY <1>0, <1>1, <1>4, RegFrame DEF Layers
<1>5. CASE \E w \in Workers : WorkerStep(w)
  BY <1>0, <1>1, <1>5, RegFrame, TreeAssumption
<1>6. CASE CancelStep BY <1>0, <1>1, <1>6, CancelFrame
<1>7. CASE FinalizeStep
  BY <1>0, <1>7 DEF TypeOK, FinalizeStep, FinalizeTerminate, FinalizeSubleads,
     FinalizeLayers, FinalizeLayer, FinalizeRootWorkers, FinalizeVisit, FinalizeEnd
<1>8. CASE UNCHANGED vars BY <1>8 DEF vars
<1> QED BY <1>2, <1>3, <1>4, <1>5, <1>6, <1>7, <1>8 DEF Next

\* Reasons go ahead of their terminate.
LEMMA ReasonStep ==
    ASSUME TypeOK, ReasonInv, [Next]_vars
    PROVE  ReasonInv'
<1> USE TreeAssumption, ProcFacts
<1>1. ASSUME NEW p \in Procs, Send(p) PROVE ReasonInv'
  <2> USE DEF ReasonInv, TypeOK, Sending
  <2>0. out[p] \in Sends /\ out[p].tok \in Tokens BY DEF Sends
  <2>1. Reasonless' <=> Reasonless BY <1>1 DEF Send, Reasonless
  <2>2. CASE SendReason(p)
    <3>1. \A q \in Procs : q # p => out'[q] = out[q] BY <2>2 DEF SendReason
    <3>2. out'[p].next = "drain" /\ out'[p].tok = out[p].tok
      BY <2>0, <2>2 DEF SendReason, Sends
    <3>3. reason'[out[p].tok] # NoReason /\ term' = term
          /\ \A t \in Tokens : reason[t] # NoReason => reason'[t] # NoReason
      BY <2>0, <2>2 DEF SendReason
    <3>4. \A q \in Procs : out[q].tok \in Tokens BY DEF Sends
    <3> QED BY <2>1, <3>1, <3>2, <3>3, <3>4
  <2>3. CASE SendDrain(p)
    <3>1. \A q \in Procs : q # p => out'[q] = out[q] BY <2>3 DEF SendDrain
    <3>2. \/ out'[p].next = "none"
          \/ /\ out'[p].next = "terminate" /\ out'[p].tok = out[p].tok
             /\ out[p].last = "terminate" /\ out'[p].last = "terminate"
      BY <2>0, <2>3 DEF SendDrain, Sends, Idle
    <3>3. UNCHANGED <<term, reason>> /\ out[p].next = "drain" BY <2>3 DEF SendDrain
    <3> QED BY <2>1, <3>1, <3>2, <3>3
  <2>4. CASE SendTerminate(p)
    <3>1. \A q \in Procs : q # p => out'[q] = out[q] BY <2>4 DEF SendTerminate
    <3>2. out'[p].next = "none" BY <2>4 DEF SendTerminate, Idle
    <3>3. out[p].next = "terminate" /\ reason' = reason
          /\ term' = [term EXCEPT ![out[p].tok] = TRUE]
      BY <2>4 DEF SendTerminate
    <3> QED BY <2>0, <2>1, <3>1, <3>2, <3>3
  <2> QED BY <1>1, <2>2, <2>3, <2>4 DEF Send
<1>2. CASE /\ UNCHANGED <<drain, term, reason>>
           /\ \A p \in Procs : NewPlan(p) /\ (out'[p] = out[p] \/ out'[p].next # "terminate")
  <2>1. Layers \subseteq Tokens /\ Resumed \subseteq Tokens BY DEF Tokens
  <2>2. \A p \in Procs : out'[p].next = "reason" => out'[p].why # NoReason
    <3> SUFFICES ASSUME NEW p \in Procs, out'[p].next = "reason"
                 PROVE  out'[p].why # NoReason
      OBVIOUS
    <3>1. CASE out'[p] = out[p] BY <3>1 DEF ReasonInv
    <3>2. CASE \E t \in Tokens :
                  out'[p] \in {DrainSends(t), TerminateWithReasonSends(t, Killed)}
      BY <3>2, ReasonsAreReal
    <3>3. CASE \E l \in Layers, t \in Tokens : out'[p] = CascadeSends(l, t)
      BY <2>1, <3>3, ReasonsAreReal
    <3>4. CASE \E l \in Layers, t \in Resumed : out'[p] = ResumeSends(l, t)
      BY <2>1, <3>4, ReasonsAreReal
    <3>5. Root \in Tokens BY DEF Tokens, Layers
    <3> QED BY <1>2, <3>1, <3>2, <3>3, <3>4, <3>5, ReasonsAreReal DEF NewPlan
  <2>3. ASSUME Reasonless' PROVE
           \A p \in Procs :
               out'[p].next # "none" /\ out'[p].last = "terminate" /\ out'[p].tok \notin Resumed =>
                   out'[p].next = "reason" \/ reason[out'[p].tok] # NoReason
    <3>1. Reasonless BY <2>3, FinalizerStarts
    <3> SUFFICES ASSUME NEW p \in Procs, out'[p].next # "none", out'[p].last = "terminate",
                        out'[p].tok \notin Resumed
                 PROVE  out'[p].next = "reason" \/ reason[out'[p].tok] # NoReason
      OBVIOUS
    <3>2. CASE out'[p] = out[p] BY <3>1, <3>2 DEF ReasonInv, Sending
    <3>3. ~ \E l \in Layers, t \in Resumed : out'[p] = ResumeSends(l, t)
      <4> SUFFICES ASSUME NEW l \in Layers, NEW t \in Resumed, out'[p] = ResumeSends(l, t)
                   PROVE  FALSE
        OBVIOUS
      <4>1. ResumeSends(l, t).next = "none" \/ ResumeSends(l, t).tok = t
        BY DEF ResumeSends, TerminateSends, DrainSends, Idle
      <4> QED BY <4>1
    <3>4. ~ (p = Fin /\ "finalize" \in KillOps /\ pc'[Fin] = "last")
      BY <2>3 DEF Reasonless
    <3> QED BY <1>2, <3>1, <3>2, <3>3, <3>4, PlansCarryReason DEF NewPlan
  <2> QED BY <1>2, <2>2, <2>3, FinalizerStarts DEF ReasonInv, Sending
<1>3. CASE UNCHANGED vars BY <1>3 DEF vars, ReasonInv, Reasonless, Sending
<1> QED BY <1>1, <1>2, <1>3, OnlySendsSignal, PlansAreKnown DEF Next

\* A cascade read from a terminated layer ends in a terminate of the child.
LEMMA CascadeFromTerminated ==
    ASSUME NEW l \in Layers, NEW c \in Tokens, term[l]
    PROVE  /\ CascadeSends(l, c).next # "none"
           /\ CascadeSends(l, c).tok = c
           /\ CascadeSends(l, c).last = "terminate"
BY DEF CascadeSends, DrainSends, TerminateSends, TerminateWithReasonSends

\* A sub-lead that has admitted a worker and is still registered behind
\* finalize's walk is terminated: its registration owes it nothing more.
LEMMA LayersOfWorkersTerminated ==
    ASSUME CancelInv, "finalize" \in KillOps, pc[Fin] \in {"layers", "roots", "done"},
           NEW w \in Workers \ Resumed, RegAt(w, {"admitted", "inserted", "done"}),
           LayerOf[w] \in subleads
    PROVE  term[LayerOf[w]]
BY DEF CancelInv, DrainInv, TypeOK, RegistryInv, FinalizeInv, TermOwed, RegAt, Terminating

\* The finalizer's debt is kept by every step until it is paid.
LEMMA FinalizeInvStep ==
    ASSUME CancelInv, [Next]_vars
    PROVE  FinalizeInv'
<1> USE TreeAssumption, ProcFacts
<1> SUFFICES ASSUME "finalize" \in KillOps PROVE FinalizeInv'
  BY DEF FinalizeInv
<1>0. /\ Fin \in Procs /\ Fin[1] = "kill"
      /\ \A c \in Subleads \cup Workers : Fin # Reg(c)
      /\ \A l \in Layers : Fin # Watch(l)
  BY DEF Fin
<1>1. TypeOK /\ PlansDrainFirst /\ RegistryInv /\ FinalizeInv
  BY DEF CancelInv, DrainInv
<1>2. /\ Root \in Layers /\ Root \in Tokens /\ Subleads \subseteq Layers
      /\ Subleads \subseteq Tokens /\ Workers \subseteq Tokens /\ Layers \subseteq Tokens
  BY DEF Layers, Tokens
<1>3. ASSUME NEW p \in Procs, Send(p) PROVE FinalizeInv'
  <2>1. /\ UNCHANGED <<subleads, cancels, pc, kids, subs>>
        /\ \A t \in Tokens : term[t] => term'[t]
        /\ \A q \in Procs, t \in Tokens :
               Terminating(q, t) => Terminating(q, t)' \/ term'[t]
    BY <1>1, <1>3, SendKeeps
  <2>2. subleads \subseteq Tokens /\ cancels \subseteq Workers
    BY <1>1, <1>2 DEF TypeOK
  <2>3. \A c \in Subleads \cup Workers : TermOwed(c) => TermOwed(c)'
    BY <1>2, <2>1 DEF TermOwed, RegAt
  <2>4. \A c \in Subleads \cup Workers : FinOwes(c) => FinOwes(c)' \/ TermOwed(c)'
    BY <1>0, <1>2, <2>1 DEF FinOwes, TermOwed
  <2> QED BY <1>0, <1>1, <1>2, <2>1, <2>2, <2>3, <2>4 DEF FinalizeInv, TypeOK
<1>4. ASSUME NEW l \in Layers, WatcherStep(l) PROVE FinalizeInv'
  <2>1. /\ UNCHANGED <<term, subleads, cancels, subs>>
        /\ \A p \in Procs : p # Watch(l) =>
               pc'[p] = pc[p] /\ kids'[p] = kids[p] /\ out'[p] = out[p]
    BY <1>1, <1>4, WatchFrame
  <2>2. /\ \A c \in Subleads \cup Workers :
               (TermOwed(c) => TermOwed(c)') /\ (FinOwes(c) => FinOwes(c)')
        /\ Terminating(Fin, Root) => Terminating(Fin, Root)'
    BY <1>0, <2>1 DEF TermOwed, FinOwes, RegAt, Terminating, Sending
  <2> QED BY <1>0, <1>1, <2>1, <2>2 DEF FinalizeInv, TypeOK
<1>5. ASSUME NEW s \in Subleads, SubleadStep(s) PROVE FinalizeInv'
  <2>1. /\ UNCHANGED <<term, kids, subs, cancels>>
        /\ pc'[Fin] = pc[Fin] /\ out'[Fin] = out[Fin]
        /\ \A c \in Subleads \cup Workers : c # s =>
               /\ pc'[Reg(c)] = pc[Reg(c)] /\ out'[Reg(c)] = out[Reg(c)]
        /\ \A u \in Subleads : u # s => (u \in subleads' <=> u \in subleads)
    BY <1>0, <1>1, <1>2, <1>5, RegFrame
  <2>2. /\ \A c \in Subleads \cup Workers :
               (c # s /\ TermOwed(c) => TermOwed(c)') /\ (FinOwes(c) => FinOwes(c)')
        /\ Terminating(Fin, Root) => Terminating(Fin, Root)'
    BY <2>1 DEF TermOwed, FinOwes, RegAt, Terminating, Sending
  <2>3. \/ s \notin subleads'
        \/ RegAt(s, {"inserted", "watched"})'
        \/ CascadeToSublead(s)
    BY <1>1, <1>5 DEF SubleadStep, RegisterSublead, InstallSubleadWatcher,
                      ReconcileSublead, RegAt, TypeOK
  <2>4. CascadeToSublead(s) /\ term[Root] => Terminating(Reg(s), s)'
    BY <1>1, <1>2, CascadeFromTerminated DEF CascadeToSublead, Terminating, Sending, TypeOK
  <2>5. term[Root] /\ s \in subleads' => TermOwed(s)'
    BY <2>3, <2>4 DEF TermOwed
  <2>6. \A w \in cancels \ Resumed : LayerOf[w] \in subleads' => LayerOf[w] \in subleads
    <3> SUFFICES ASSUME NEW w \in cancels \ Resumed, LayerOf[w] = s, RegisterSublead(s)
                 PROVE  FALSE
      BY <1>1, <1>5, <2>1 DEF SubleadStep, InstallSubleadWatcher, CascadeToSublead,
                              ReconcileSublead, RegisterSublead, TypeOK
    <3> QED BY <1>1 DEF RegistryInv, RegAt, RegisterSublead, TypeOK
  <2>7. \A w \in cancels \ Resumed : w \in Workers /\ w # s BY <1>1 DEF TypeOK
  <2>8. subleads' \subseteq Subleads BY <1>1, TypeStep DEF TypeOK
  <2> QED BY <1>0, <1>1, <2>1, <2>2, <2>5, <2>6, <2>7, <2>8 DEF FinalizeInv
<1>6. ASSUME NEW w \in Workers, WorkerStep(w) PROVE FinalizeInv'
  <2>1. /\ UNCHANGED <<term, kids, subs, subleads>>
        /\ pc'[Fin] = pc[Fin] /\ out'[Fin] = out[Fin]
        /\ \A c \in Subleads \cup Workers : c # w =>
               /\ pc'[Reg(c)] = pc[Reg(c)] /\ out'[Reg(c)] = out[Reg(c)]
        /\ \A v \in Workers : v # w => (v \in cancels' <=> v \in cancels)
    BY <1>0, <1>1, <1>2, <1>6, RegFrame
  <2>2. /\ \A c \in Subleads \cup Workers :
               (c # w /\ TermOwed(c) => TermOwed(c)') /\ (FinOwes(c) => FinOwes(c)')
        /\ Terminating(Fin, Root) => Terminating(Fin, Root)'
    BY <2>1 DEF TermOwed, FinOwes, RegAt, Terminating, Sending
  <2>3. \/ w \notin cancels' \ Resumed
        \/ RegAt(w, {"inserted"})'
        \/ CascadeToWorker(w) /\ RegAt(w, {"inserted"}) /\ w \in Workers \ Resumed
    BY <1>1, <1>6 DEF WorkerStep, AdmitWorker, RegisterWorkerCancel, CascadeToWorker,
                      ResumeCheck, ResumeInsert, RegAt, RegistryInv, TypeOK
  <2>4. CascadeToWorker(w) /\ term[LayerOf[w]] => Terminating(Reg(w), w)'
    BY <1>1, <1>2, CascadeFromTerminated DEF CascadeToWorker, Terminating, Sending, TypeOK
  <2>5. \/ ~ (w \in cancels' \ Resumed)
        \/ TermOwed(w)'
        \/ RegAt(w, {"inserted"}) /\ w \in Workers \ Resumed /\ ~ term[LayerOf[w]]
    BY <2>3, <2>4 DEF TermOwed, RegAt
  <2>6. pc[Fin] \in {"layers", "roots", "done"} /\ w \in cancels' \ Resumed
        /\ LayerOf[w] \in subleads => TermOwed(w)'
    BY <2>5, LayersOfWorkersTerminated DEF RegAt
  <2>7. pc[Fin] \in {"roots", "done"} /\ w \in cancels' \ Resumed
        /\ LayerOf[w] = Root => TermOwed(w)'
    BY <1>1, <2>5 DEF FinalizeInv
  <2>8. /\ cancels' \subseteq Workers
        /\ \A u \in subleads : u \in Subleads /\ u # w
    BY <1>1, TypeStep DEF TypeOK
  <2> QED BY <1>0, <1>1, <2>1, <2>2, <2>6, <2>7, <2>8 DEF FinalizeInv
<1>7. CASE CancelStep
  <2>1. /\ UNCHANGED <<term, subleads, cancels>>
        /\ \A p \in Procs : p[1] # "kill" \/ p = Fin =>
               /\ pc'[p] = pc[p] /\ kids'[p] = kids[p]
               /\ subs'[p] = subs[p] /\ out'[p] = out[p]
    BY <1>1, <1>7, CancelFrame
  <2>2. /\ \A c \in Subleads \cup Workers :
               (TermOwed(c) => TermOwed(c)') /\ (FinOwes(c) => FinOwes(c)')
        /\ Terminating(Fin, Root) => Terminating(Fin, Root)'
    BY <1>0, <2>1 DEF TermOwed, FinOwes, RegAt, Terminating, Sending
  <2> QED BY <1>0, <1>1, <2>1, <2>2 DEF FinalizeInv, TypeOK
<1>8. CASE FinalizeStep
  <2>1. /\ UNCHANGED <<term, subleads, cancels>>
        /\ \A p \in Procs : p # Fin =>
               /\ pc'[p] = pc[p] /\ kids'[p] = kids[p]
               /\ subs'[p] = subs[p] /\ out'[p] = out[p]
    BY <1>1, <1>8, FinalizeFrame
  <2>2. \A c \in Subleads \cup Workers : TermOwed(c) => TermOwed(c)'
    BY <1>0, <2>1 DEF TermOwed, RegAt, Terminating, Sending
  <2>3. subleads \subseteq Subleads /\ cancels \subseteq Workers BY <1>1 DEF TypeOK
  <2> USE <1>0, <1>1, <2>1, <2>2, <2>3
  <2>4. CASE FinalizeTerminate
    BY <2>4 DEF FinalizeTerminate, TerminateSends, Terminating, Sending, FinalizeInv, TypeOK
  <2>5. CASE FinalizeSubleads
    BY <2>5 DEF FinalizeSubleads, FinOwes, Terminating, FinalizeInv, TypeOK
  <2>6. CASE FinalizeLayers
    BY <2>6 DEF FinalizeLayers, Rested, FinOwes, Terminating, FinalizeInv, TypeOK
  <2>7. CASE FinalizeLayer
    BY <2>7 DEF FinalizeLayer, WorkersOf, Rested, FinOwes, Terminating, FinalizeInv, TypeOK
  <2>8. CASE FinalizeRootWorkers
    BY <2>8 DEF FinalizeRootWorkers, WorkersOf, Rested, FinOwes, Terminating, FinalizeInv,
                TypeOK
  <2>9. CASE FinalizeVisit
    <3>1. PICK c \in kids[Fin] :
             /\ kids' = [kids EXCEPT ![Fin] = @ \ {c}]
             /\ out' = [out EXCEPT ![Fin] = CascadeSends(ParentOf(c), c)]
      BY <2>9 DEF FinalizeVisit
    <3>2. c \in Subleads \cup Workers BY DEF TypeOK
    <3>3. ParentOf(c) \in Layers /\ c \in Tokens BY <1>2, <3>2 DEF ParentOf
    <3>4. term[ParentOf(c)] => Terminating(Fin, c)'
      BY <3>1, <3>3, CascadeFromTerminated DEF Terminating, Sending, TypeOK
    <3>5. ~ Sending(Fin) /\ pc' = pc /\ subs' = subs /\ pc[Fin] \in {"subs", "layers", "roots"}
      BY <2>9 DEF FinalizeVisit
    <3>6. \A d \in Subleads \cup Workers : FinOwes(d) =>
             FinOwes(d)' \/ (d = c /\ ~ term[ParentOf(c)])
      BY <3>1, <3>4, <3>5 DEF FinOwes, Terminating, TypeOK
    <3>7. c \in Subleads => term[ParentOf(c)]
      BY <3>5 DEF ParentOf, FinalizeInv
    <3>8. ASSUME c \in cancels \ Resumed, LayerOf[c] \in subleads, pc[Fin] = "layers"
          PROVE  term[ParentOf(c)]
      BY <3>8, LayersOfWorkersTerminated DEF RegistryInv, RegAt, ParentOf
    <3>9. c \in Workers /\ LayerOf[c] = Root => term[ParentOf(c)]
      BY <3>5 DEF ParentOf, FinalizeInv
    <3> QED BY <3>2, <3>5, <3>6, <3>7, <3>8, <3>9 DEF FinalizeInv
  <2>10. CASE FinalizeEnd
    BY <2>10 DEF FinalizeEnd, Rested, FinOwes, Terminating, FinalizeInv, TypeOK
  <2> QED BY <1>8, <2>4, <2>5, <2>6, <2>7, <2>8, <2>9, <2>10 DEF FinalizeStep
<1>9. CASE UNCHANGED vars
  BY <1>1, <1>9 DEF vars, FinalizeInv, TermOwed, FinOwes, RegAt, Terminating, Sending
<1> QED BY <1>3, <1>4, <1>5, <1>6, <1>7, <1>8, <1>9 DEF Next

\* What cancel_run owes to the root's workers stays owed until it is paid.
LEMMA CancelRunInvStep ==
    ASSUME CancelInv, [Next]_vars
    PROVE  CancelRunInv'
<1> USE TreeAssumption, ProcFacts
<1> SUFFICES ASSUME "cancel_run" \in KillOps PROVE CancelRunInv'
  BY DEF CancelRunInv
<1>0. /\ CR \in Procs /\ CR[1] = "kill" /\ CR # Fin
      /\ \A c \in Subleads \cup Workers : CR # Reg(c)
      /\ \A l \in Layers : CR # Watch(l)
  BY DEF CR, Fin, Kill
<1>1. TypeOK /\ PlansDrainFirst /\ RegistryInv /\ CancelRunInv
  BY DEF CancelInv, DrainInv
<1>2. /\ Root \in Layers /\ Root \in Tokens /\ Subleads \subseteq Layers
      /\ Workers \subseteq Tokens /\ cancels \subseteq Workers /\ cancels' \subseteq Workers
  BY <1>1, TypeStep DEF Layers, Tokens, TypeOK
<1> DEFINE Start == drain[Root] \/ (out[CR].tok = Root /\ out[CR].next = "drain")
           Walked == pc[CR] \in {"roots", "subs", "done"}
<1>3. /\ pc[CR] = "run" => Start
      /\ Walked => drain[Root]
      /\ Walked => \A w \in cancels \ Resumed : LayerOf[w] = Root => RootOwed(w)
  BY <1>1 DEF CancelRunInv
<1>4. SUFFICES /\ pc'[CR] = "run" => Start'
               /\ Walked' => drain'[Root]
               /\ Walked' => \A w \in cancels' \ Resumed : LayerOf[w] = Root => RootOwed(w)'
  BY DEF CancelRunInv
<1>5. ASSUME NEW p \in Procs, Send(p)
      PROVE  /\ pc'[CR] = "run" => Start'
             /\ Walked' => drain'[Root]
             /\ Walked' => \A w \in cancels' \ Resumed : LayerOf[w] = Root => RootOwed(w)'
  <2>1. /\ UNCHANGED <<subleads, cancels, pc, kids, subs>>
        /\ \A t \in Tokens : drain[t] => drain'[t]
        /\ \A q \in Procs, t \in Tokens : Sending(q) /\ out[q].tok = t =>
               (Sending(q)' /\ out'[q].tok = t) \/ drain'[t]
    BY <1>1, <1>5, SendKeeps
  <2>2. Start => Start'
    BY <1>0, <1>1, <1>2, <1>5, <2>1
    DEF Send, SendReason, SendDrain, SendTerminate, TypeOK
  <2>3. \A w \in Workers : RootOwed(w) => RootOwed(w)'
    BY <1>0, <1>2, <2>1 DEF RootOwed, RegAt
  <2> QED BY <1>2, <1>3, <2>1, <2>2, <2>3
<1>6. ASSUME /\ UNCHANGED <<drain, cancels>>
             /\ pc'[CR] = pc[CR] /\ kids'[CR] = kids[CR] /\ out'[CR] = out[CR]
             /\ \A w \in Workers : pc'[Reg(w)] = pc[Reg(w)] /\ out'[Reg(w)] = out[Reg(w)]
      PROVE  /\ pc'[CR] = "run" => Start'
             /\ Walked' => drain'[Root]
             /\ Walked' => \A w \in cancels' \ Resumed : LayerOf[w] = Root => RootOwed(w)'
  BY <1>2, <1>3, <1>6 DEF RootOwed, RegAt, Sending
<1>7. CASE \E l \in Layers : WatcherStep(l) BY <1>0, <1>1, <1>6, <1>7, WatchFrame
<1>8. CASE \E s \in Subleads : SubleadStep(s) BY <1>0, <1>1, <1>2, <1>6, <1>8, RegFrame
<1>9. ASSUME NEW w \in Workers, WorkerStep(w)
      PROVE  /\ pc'[CR] = "run" => Start'
             /\ Walked' => drain'[Root]
             /\ Walked' => \A v \in cancels' \ Resumed : LayerOf[v] = Root => RootOwed(v)'
  <2>1. /\ UNCHANGED <<drain, kids>>
        /\ pc'[CR] = pc[CR] /\ out'[CR] = out[CR]
        /\ \A v \in Workers : v # w =>
               /\ pc'[Reg(v)] = pc[Reg(v)] /\ out'[Reg(v)] = out[Reg(v)]
               /\ (v \in cancels' <=> v \in cancels)
    BY <1>0, <1>1, <1>9, RegFrame
  <2>2. \A v \in Workers : v # w /\ RootOwed(v) => RootOwed(v)'
    BY <2>1 DEF RootOwed, RegAt, Sending
  <2>3. \/ w \notin cancels' \ Resumed
        \/ RegAt(w, {"inserted"})'
        \/ CascadeToWorker(w)
    BY <1>1, <1>9 DEF WorkerStep, AdmitWorker, RegisterWorkerCancel, CascadeToWorker,
                      ResumeCheck, ResumeInsert, RegAt, RegistryInv, TypeOK
  <2>4. CascadeToWorker(w) /\ LayerOf[w] = Root /\ drain[Root] => RootOwed(w)'
    BY <1>1, <1>2, CascadeFromDraining DEF CascadeToWorker, RootOwed, Sending, TypeOK
  <2> QED BY <1>2, <1>3, <2>1, <2>2, <2>3, <2>4 DEF RootOwed
<1>10. CASE CancelStep
  <2>1. /\ UNCHANGED <<drain, cancels>>
        /\ \A w \in Workers : pc'[Reg(w)] = pc[Reg(w)] /\ out'[Reg(w)] = out[Reg(w)]
    BY <1>1, <1>10, CancelFrame
  <2>2. CASE CtrlCDrain \/ CtrlCTerminate \/ \E t \in Subleads \cup Workers : CancelActor(t)
    BY <1>0, <1>1, <1>6, <2>1, <2>2 DEF CtrlCDrain, CtrlCTerminate, CancelActor, CR, Kill, TypeOK
  <2>3. CASE CancelRunDrain
    BY <1>0, <1>1, <2>3 DEF CancelRunDrain, DrainSends, TypeOK
  <2>4. CASE CancelRunRootWorkers
    <3>1. drain[Root] BY <1>3, <2>4 DEF CancelRunRootWorkers, Sending
    <3> QED BY <1>0, <1>1, <2>1, <2>4, <3>1
            DEF CancelRunRootWorkers, WorkersOf, RootOwed, TypeOK
  <2>5. CASE CancelRunVisit
    <3>1. PICK c \in kids[CR] :
             /\ kids' = [kids EXCEPT ![CR] = @ \ {c}]
             /\ out' = [out EXCEPT ![CR] = TerminateWithReasonSends(c, Killed)]
      BY <2>5 DEF CancelRunVisit
    <3>2. Sending(CR)' /\ out'[CR].tok = c /\ pc' = pc /\ ~ Sending(CR)
      BY <1>0, <1>1, <2>5, <3>1
      DEF CancelRunVisit, TerminateWithReasonSends, Sending, TypeOK
    <3>3. \A w \in Workers : RootOwed(w) => RootOwed(w)'
      BY <1>0, <1>1, <2>1, <3>1, <3>2 DEF RootOwed, RegAt, Sending, TypeOK
    <3>4. pc[CR] = "run" => drain[Root] BY <1>3, <3>2 DEF Sending
    <3> QED BY <1>2, <1>3, <2>1, <3>2, <3>3, <3>4
  <2>6. CASE CancelRunSubleads \/ CancelRunLayer \/ CancelRunRoot
    <3>1. /\ Walked /\ pc'[CR] \in {"subs", "done"}
          /\ kids[CR] = {} /\ ~ Sending(CR)
      BY <1>0, <1>1, <2>6 DEF CancelRunSubleads, CancelRunLayer, CancelRunRoot, Rested, TypeOK
    <3>2. \A w \in Workers : RootOwed(w) => RootOwed(w)'
      BY <2>1, <3>1 DEF RootOwed, RegAt, Sending
    <3> QED BY <1>2, <1>3, <2>1, <3>1, <3>2
  <2> QED BY <1>10, <2>2, <2>3, <2>4, <2>5, <2>6 DEF CancelStep
<1>11. CASE FinalizeStep
  <2>1. \A w \in Workers : Reg(w) # Fin BY DEF Fin, Kill, Reg
  <2> QED BY <1>0, <1>1, <1>6, <1>11, <2>1, FinalizeFrame
<1>12. CASE UNCHANGED vars BY <1>6, <1>12 DEF vars
<1> QED BY <1>5, <1>7, <1>8, <1>9, <1>10, <1>11, <1>12 DEF Next

\* The initial state: no registration, no signal and no request under way.
LEMMA CancelInvInit == Init => CancelInv
<1> SUFFICES ASSUME Init PROVE CancelInv
  OBVIOUS
<1> USE TreeAssumption, ProcFacts
<1>1. DrainInv BY DrainInvInit
<1>2. PICK coming \in Scenarios :
         pc = [p \in Procs |-> CASE p = Watch(Root) -> "wait1"
                                [] p # Watch(Root) /\ p \in coming -> "new"
                                [] p # Watch(Root) /\ p \notin coming -> "off"]
  BY DEF Init
<1>3. \A p \in Procs : p # Watch(Root) => pc[p] \in {"off", "new"} BY <1>2
<1>4. pc[Watch(Root)] = "wait1" BY <1>2 DEF Layers
<1>5. RegistryInv
  BY <1>3, <1>4 DEF RegistryInv, RegAt, Init, Layers
<1>6. ReasonInv
  BY DEF ReasonInv, Sending, Init, NewTokens, Idle
<1>7. FinalizeInv BY <1>3 DEF FinalizeInv, Fin, Layers
<1>8. CancelRunInv BY <1>3 DEF CancelRunInv, CR, Layers
<1> QED BY <1>1, <1>5, <1>6, <1>7, <1>8 DEF CancelInv

\* A cancel reaches everyone it is for, in every tree and every interleaving of
\* registrations, watchers and requests: who is terminated can read why until
\* finalize, finalize terminates every worker of a live layer, and cancel_run
\* leaves nobody undrained, whoever registers behind their walks.
THEOREM CancelReaches == Spec => []CancelReachesEveryone
<1>1. CancelInv /\ [Next]_vars => CancelInv'
  <2> SUFFICES ASSUME CancelInv, [Next]_vars PROVE CancelInv'
    OBVIOUS
  <2>1. DrainInv' BY DrainInvStep DEF CancelInv
  <2>2. ReasonInv' BY ReasonStep DEF CancelInv, DrainInv
  <2> QED BY <2>1, <2>2, RegistryStep, FinalizeInvStep, CancelRunInvStep DEF CancelInv
<1>2. CancelInv => CancelReachesEveryone
  <2> SUFFICES ASSUME CancelInv PROVE CancelReachesEveryone
    OBVIOUS
  <2> USE TreeAssumption, ProcFacts
  <2>1. TypeOK /\ DrainOwed /\ RegistryInv BY DEF CancelInv, DrainInv
  <2>2. ReasonPrecedesTerminate
    BY DEF CancelInv, ReasonInv, Reasonless, ReasonPrecedesTerminate
  <2>3. FinalizeTripsLiveLayers
    <3> SUFFICES ASSUME "finalize" \in KillOps, pc[Fin] = "done",
                        NEW w \in cancels \ Resumed,
                        LayerOf[w] = Root \/ LayerOf[w] \in subleads,
                        pc[Reg(w)] = "done", ~ Sending(Reg(w))
                 PROVE  term[w]
      BY DEF FinalizeTripsLiveLayers
    <3>1. TermOwed(w) BY DEF CancelInv, FinalizeInv
    <3> QED BY <3>1 DEF TermOwed, RegAt, Terminating
  <2>4. CancelRunMissesNobody
    <3> SUFFICES ASSUME "cancel_run" \in KillOps, pc[CR] = "done", Quiet,
                        NEW c \in subleads \cup (cancels \ Resumed),
                        ParentOf(c) = Root \/ ParentOf(c) \in subleads
                 PROVE  drain[c]
      BY DEF CancelRunMissesNobody
    <3>1. drain[Root] BY DEF CancelInv, CancelRunInv
    <3>2. \A p \in Procs : kids[p] = {} /\ ~ Sending(p) BY DEF Quiet, Rested
    <3>3. \A d \in Subleads \cup Workers :
             pc[Reg(d)] \notin {"inserted", "watched"} BY DEF Quiet
    <3>4. ASSUME NEW d \in Subleads \cup Workers, Enrolled(d), drain[ParentOf(d)],
                 pc[Watch(ParentOf(d))] # "off", ParentOf(d) \in Layers
          PROVE  drain[d]
      <4>1. pc[Watch(ParentOf(d))] # "wait1" BY <3>4 DEF Quiet
      <4> QED BY <2>1, <3>2, <3>3, <3>4, <4>1 DEF DrainOwed, Owed
    <3>5. ASSUME NEW s \in subleads PROVE drain[s]
      <4>1. ParentOf(s) = Root /\ Enrolled(s) /\ s \in Subleads
        BY <2>1 DEF ParentOf, Enrolled, TypeOK
      <4> QED BY <2>1, <3>1, <3>4, <4>1 DEF RegistryInv, Layers
    <3>6. CASE c \in subleads BY <3>5, <3>6
    <3>7. CASE c \in cancels \ Resumed /\ LayerOf[c] = Root
      <4>1. RootOwed(c) BY <3>7 DEF CancelInv, CancelRunInv
      <4>2. c \in Workers /\ CR \in Procs BY <2>1, <3>7 DEF TypeOK, CR
      <4> QED BY <3>2, <3>3, <4>1, <4>2 DEF RootOwed, RegAt
    <3>8. CASE c \in cancels \ Resumed /\ LayerOf[c] # Root
      <4>1. /\ c \in Workers /\ ParentOf(c) = LayerOf[c] /\ Enrolled(c)
            /\ LayerOf[c] \in Layers
        BY <2>1, <3>8 DEF ParentOf, Enrolled, TypeOK
      <4>2. LayerOf[c] \in subleads /\ LayerOf[c] \in Subleads
        BY <2>1, <3>8, <4>1 DEF TypeOK
      <4>3. drain[LayerOf[c]] BY <3>5, <4>2
      <4>4. pc[Watch(LayerOf[c])] # "off"
        BY <2>1, <3>3, <4>2 DEF RegistryInv, RegAt
      <4> QED BY <3>4, <4>1, <4>3, <4>4
    <3> QED BY <3>6, <3>7, <3>8
  <2>5. TerminateImpliesDrain BY DEF CancelInv, DrainInv
  <2> QED BY <2>1, <2>2, <2>3, <2>4, <2>5 DEF CancelReachesEveryone
<1> QED BY <1>1, <1>2, CancelInvInit, PTL DEF Spec
-----------------------------------------------------------------------------
(* The lifecycle of a worker. *)

LiveChild == {"live", "stopped"}
PastRecord == {"state", "index", "token", "announce", "done"}
Ended == {"pids", "record"} \cup PastRecord

\* Where an incarnation's task is decides what it holds: its child and its pid
\* slot during the session, its record behind it, its auth token until it
\* announces.
Holds(i) ==
    /\ tail[i] \in {"none", "start"} =>
           proc[i] = "none" /\ i \notin slot /\ i \notin auth
    /\ tail[i] = "session" => (proc[i] # "none" <=> i \in slot)
    /\ tail[i] \in Ended => proc[i] \notin LiveChild /\ i \notin slot
    /\ tail[i] \in PastRecord => i \in records
    /\ tail[i] \in {"announce", "done"} => i \notin auth
    /\ \A b \in {"layer", "root"} : i \in announced[b] => tail[i] = "done"
    /\ tail[i] = "start" => i = 1

\* An incarnation that is not created yet has left no trace, and one that a
\* requester is about to launch belongs to that requester alone.
Created ==
    /\ \A i \in Inc : i > incs => tail[i] = "none"
    /\ tokenOf <= incs
    /\ \A p \in Requesters : req[p].at \in {"register", "launch"} =>
           /\ req[p].inc \in 2..incs /\ tail[req[p].inc] = "none"
           /\ \A q \in Requesters \ {p} :
                  req[q].at \in {"register", "launch"} => req[q].inc # req[p].inc
    /\ \A p \in Requesters : req[p].at \in {"thaw", "thawed", "wake"} =>
           req[p].inc \in Inc /\ proc[req[p].inc] # "none"

\* A worker that is not Done has an incarnation whose task will still write
\* Done, or a requester about to start one.
Unfinished == {"start", "session", "pids", "record", "state"}
DoneIsComing ==
    /\ st = "done" => doneBy \in Inc /\ tail[doneBy] \in {"index", "token", "announce", "done"}
    /\ "freeze" \notin menu.ops =>
           /\ st # "frozen"
           /\ \A p \in Requesters : req[p].at \notin {"thaw", "thawed"}
           /\ \/ st = "done"
              \/ \E i \in Inc : tail[i] \in Unfinished
              \/ \E p \in Requesters : req[p].at = "launch"

\* With one requester, every incarnation but the one in workers.cancels was
\* terminated before it was replaced: pause and reprompt kill first, and
\* nobody else replaces a token in between.
OneAtATime ==
    /\ \A p \in Requesters : req[p] # NoRequest => p \in menu.who
    /\ Cardinality(menu.who) = 1 =>
           /\ \A i \in 1..incs : i \in killed \/ i = tokenOf
           /\ \A p \in Requesters : req[p].at = "resume" => tokenOf \in killed
           /\ st = "paused" =>
                  \/ tokenOf \in killed
                  \/ \E p \in Requesters : req[p].at = "register"

LifecycleInv == LifecycleTypeOK /\ (\A i \in Inc : Holds(i)) /\ Created /\ DoneIsComing /\ OneAtATime

\* SIGCONT either finds the group gone and gives up, or wakes a child that is
\* live or stopped.
ThawOutcome(p) ==
    /\ req[p].at = "thaw" /\ req[p].inc \in Inc /\ proc[req[p].inc] # "none"
    /\ \/ req' = [req EXCEPT ![p] = NoRequest] /\ proc' = proc
       \/ /\ proc[req[p].inc] \in LiveChild
          /\ proc' = [proc EXCEPT ![req[p].inc] = "live"]
          /\ req' = [req EXCEPT ![p] = [at |-> "thawed", inc |-> req[p].inc]]
    /\ UNCHANGED <<st, tokenOf, pidOf, index, doneBy, held, killed, slot, tail, auth,
                   records, announced, incs, ops>>

\* Thaw reaches one of these two outcomes.
LEMMA ThawCases ==
    ASSUME NEW p \in Requesters, LifecycleTypeOK, Created, Thaw(p)
    PROVE  ThawOutcome(p)
<1>1. req[p].at = "thaw" /\ req[p].inc \in Inc /\ proc[req[p].inc] # "none"
  BY DEF Thaw, Created
<1>2. proc[req[p].inc] \in ProcStates BY <1>1 DEF LifecycleTypeOK
<1>3. CASE proc[req[p].inc] = "gone" BY <1>1, <1>3 DEF Thaw, ThawOutcome, registry
<1>4. CASE proc[req[p].inc] # "gone" BY <1>1, <1>2, <1>4
                                     DEF Thaw, ThawOutcome, registry, ProcStates, LiveChild
<1> QED BY <1>3, <1>4

\* cancel_worker goes on to SIGCONT a child it has found, or to the token.
CancelOutcome(p) ==
    /\ p \in menu.who /\ req[p] = NoRequest
    /\ \/ /\ pidOf \in Inc /\ proc[pidOf] # "none" /\ "freeze" \in menu.ops
          /\ req' = [req EXCEPT ![p] = [at |-> "wake", inc |-> pidOf]]
       \/ req' = [req EXCEPT ![p] = [at |-> "kill", inc |-> 0]]
    /\ UNCHANGED <<st, tokenOf, pidOf, index, doneBy, held, killed, slot, proc, tail, auth,
                   records, announced, incs>>

\* cancel_worker reaches one of these two outcomes.
LEMMA CancelCases ==
    ASSUME NEW p \in Requesters, LifecycleInv, Cancel(p)
    PROVE  CancelOutcome(p)
<1>1. /\ p \in menu.who /\ req[p] = NoRequest
      /\ UNCHANGED <<st, tokenOf, pidOf, index, doneBy, held, killed, slot, proc, tail, auth,
                     records, announced, incs>>
  BY DEF Cancel, Serve, registry, sessions
<1>2. CASE /\ st = "frozen" /\ PidLive(pidOf)
           /\ req' = [req EXCEPT ![p] = [at |-> "wake", inc |-> pidOf]]
  <2>1. pidOf \in Inc /\ pidOf \in slot BY <1>2 DEF PidLive, LifecycleInv, LifecycleTypeOK
  <2>2. Holds(pidOf) /\ tail[pidOf] \in Tails /\ "freeze" \in menu.ops
    BY <1>2, <2>1 DEF LifecycleInv, LifecycleTypeOK, DoneIsComing
  <2>3. proc[pidOf] # "none" BY <2>1, <2>2 DEF Holds, Tails, Ended, PastRecord
  <2> QED BY <1>1, <1>2, <2>1, <2>2, <2>3 DEF CancelOutcome
<1>3. CASE req' = [req EXCEPT ![p] = [at |-> "kill", inc |-> 0]]
  BY <1>1, <1>3 DEF CancelOutcome
<1> QED BY <1>2, <1>3 DEF Cancel

\* Two requesters of a menu that has one are the same.
LEMMA OneRequester ==
    ASSUME LifecycleTypeOK, Cardinality(menu.who) = 1
    PROVE  \A q, p \in menu.who : q = p
<1>1. menu.who \subseteq Requesters BY LifecycleAssumption DEF LifecycleTypeOK
<1>2. IsFiniteSet(menu.who) BY <1>1, LifecycleAssumption, FS_Subset
<1> QED BY <1>2, FS_Singleton

\* Every step keeps the types.
LEMMA LifecycleTypeStep == LifecycleTypeOK /\ Created /\ [LifecycleNext]_lifecycleVars => LifecycleTypeOK'
<1> SUFFICES ASSUME LifecycleTypeOK /\ Created, [LifecycleNext]_lifecycleVars PROVE LifecycleTypeOK'
  OBVIOUS
<1> menu' = menu BY DEF LifecycleNext, lifecycleVars
<1> USE LifecycleAssumption DEF LifecycleTypeOK, Inc, States, ProcStates, Tails, Reqs, NoRequest, entry
<1>1. CASE RunWorker BY <1>1 DEF RunWorker
<1>2. CASE WorktreeFailed BY <1>2 DEF WorktreeFailed, registry
<1>3. CASE Promote BY <1>3 DEF Promote, sessions
<1>4. ASSUME NEW i \in Inc, SessionStep(i) PROVE LifecycleTypeOK'
  <2>1. CASE Launch(i) BY <2>1 DEF Launch, registry
  <2>2. CASE SpawnFailed(i) BY <2>2 DEF SpawnFailed, registry
  <2>3. CASE Exit(i) BY <2>3 DEF Exit, registry
  <2>4. CASE Reap(i) BY <2>4 DEF Reap, registry
  <2> QED BY <1>4, <2>1, <2>2, <2>3, <2>4 DEF SessionStep
<1>5. ASSUME NEW i \in Inc, TailStep(i) PROVE LifecycleTypeOK'
  <2>1. CASE TailPids(i) BY <2>1 DEF TailPids
  <2>2. CASE TailRecord(i) BY <2>2 DEF TailRecord, registry
  <2>3. CASE TailDone(i) BY <2>3 DEF TailDone
  <2>4. CASE TailIndex(i) BY <2>4 DEF TailIndex
  <2>5. CASE TailToken(i) BY <2>5 DEF TailToken, registry
  <2>6. CASE TailAnnounce(i) BY <2>6 DEF TailAnnounce, registry
  <2> QED BY <1>5, <2>1, <2>2, <2>3, <2>4, <2>5, <2>6 DEF TailStep
<1>6. ASSUME NEW p \in Requesters, RequestStep(p) PROVE LifecycleTypeOK'
  <2>1. CASE PauseCancel(p) BY <2>1 DEF PauseCancel, Serve, sessions
  <2>2. CASE PauseFreeze(p) BY <2>2 DEF PauseFreeze, PidLive, Serve
  <2>3. CASE ContinuePaused(p) BY <2>3 DEF ContinuePaused, Serve, registry, sessions
  <2>4. CASE ContinueFrozen(p) BY <2>4 DEF ContinueFrozen, PidLive, Serve, registry, sessions
  <2>5. CASE Reprompt(p) BY <2>5 DEF Reprompt, Serve, registry, sessions
  <2>6. CASE Cancel(p) BY <2>6 DEF Cancel, PidLive, Serve, registry, sessions
  <2>7. CASE CancelRun(p) BY <2>7 DEF CancelRun, PidLive, CancelRunPid, Serve, registry
  <2> QED BY <1>6, <2>1, <2>2, <2>3, <2>4, <2>5, <2>6, <2>7 DEF RequestStep
<1>7. ASSUME NEW p \in Requesters, ResumeStep(p) PROVE LifecycleTypeOK'
  <2>1. CASE ResumeToken(p) BY <2>1 DEF ResumeToken
  <2>2. CASE ResumeRunning(p) BY <2>2 DEF ResumeRunning, sessions
  <2>3. CASE ResumeLaunch(p)
    <3>1. req[p].inc \in Inc BY <2>3 DEF ResumeLaunch, Created
    <3> QED BY <2>3, <3>1 DEF ResumeLaunch
  <2>4. CASE Thaw(p)
    <3>1. ThawOutcome(p) BY <2>4, ThawCases
    <3>2. [at |-> "thawed", inc |-> req[p].inc] \in [at : Reqs, inc : Inc \cup {0}]
      BY <3>1 DEF ThawOutcome
    <3>3. req' \in [Requesters -> [at : Reqs, inc : Inc \cup {0}]]
      <4>1. CASE req' = [req EXCEPT ![p] = NoRequest]
        <5>1. NoRequest \in [at : Reqs, inc : Inc \cup {0}] OBVIOUS
        <5> QED BY <4>1, <5>1
      <4>2. CASE req' = [req EXCEPT ![p] = [at |-> "thawed", inc |-> req[p].inc]]
        BY <4>2, <3>2
      <4> QED BY <3>1, <4>1, <4>2 DEF ThawOutcome
    <3> QED BY <3>1, <3>3 DEF ThawOutcome
  <2>5. CASE Thawed(p) BY <2>5 DEF Thawed, sessions
  <2>6. CASE Wake(p) BY <2>6 DEF Wake, registry
  <2>7. CASE TerminateToken(p) BY <2>7 DEF TerminateToken, registry, sessions
  <2>8. CASE Replace(p) BY <2>8 DEF Replace, registry, sessions
  <2> QED BY <1>7, <2>1, <2>2, <2>3, <2>4, <2>5, <2>6, <2>7, <2>8 DEF ResumeStep
<1>8. CASE UNCHANGED lifecycleVars BY <1>8 DEF lifecycleVars
<1> QED BY <1>1, <1>2, <1>3, <1>4, <1>5, <1>6, <1>7, <1>8 DEF LifecycleNext

\* Every step keeps what an incarnation holds in line with where its task is.
LEMMA HoldsStep == LifecycleInv /\ [LifecycleNext]_lifecycleVars => (\A j \in Inc : Holds(j))'
<1> SUFFICES ASSUME LifecycleInv, [LifecycleNext]_lifecycleVars PROVE (\A j \in Inc : Holds(j))'
  OBVIOUS
<1> menu' = menu BY DEF LifecycleNext, lifecycleVars
<1> USE LifecycleAssumption DEF LifecycleTypeOK, LifecycleInv, Inc, ProcStates, Tails, Holds, LiveChild, PastRecord, Ended, entry
<1>1. CASE RunWorker BY <1>1 DEF RunWorker
<1>2. CASE WorktreeFailed BY <1>2 DEF WorktreeFailed, registry
<1>3. CASE Promote BY <1>3 DEF Promote, sessions
<1>4. ASSUME NEW i \in Inc, SessionStep(i) PROVE (\A j \in Inc : Holds(j))'
  <2>1. CASE Launch(i) BY <2>1 DEF Launch, registry
  <2>2. CASE SpawnFailed(i) BY <2>2 DEF SpawnFailed, registry
  <2>3. CASE Exit(i) BY <2>3 DEF Exit, registry
  <2>4. CASE Reap(i) BY <2>4 DEF Reap, registry
  <2> QED BY <1>4, <2>1, <2>2, <2>3, <2>4 DEF SessionStep
<1>5. ASSUME NEW i \in Inc, TailStep(i) PROVE (\A j \in Inc : Holds(j))'
  <2>1. CASE TailPids(i) BY <2>1 DEF TailPids
  <2>2. CASE TailRecord(i) BY <2>2 DEF TailRecord, registry
  <2>3. CASE TailDone(i) BY <2>3 DEF TailDone
  <2>4. CASE TailIndex(i) BY <2>4 DEF TailIndex
  <2>5. CASE TailToken(i) BY <2>5 DEF TailToken, registry
  <2>6. CASE TailAnnounce(i) BY <2>6 DEF TailAnnounce, registry
  <2> QED BY <1>5, <2>1, <2>2, <2>3, <2>4, <2>5, <2>6 DEF TailStep
<1>6. ASSUME NEW p \in Requesters, RequestStep(p) PROVE (\A j \in Inc : Holds(j))'
  <2>1. CASE PauseCancel(p) BY <2>1 DEF PauseCancel, Serve, sessions
  <2>2. CASE PauseFreeze(p) BY <2>2 DEF PauseFreeze, PidLive, Serve
  <2>3. CASE ContinuePaused(p) BY <2>3 DEF ContinuePaused, Serve, registry, sessions
  <2>4. CASE ContinueFrozen(p) BY <2>4 DEF ContinueFrozen, PidLive, Serve, registry, sessions
  <2>5. CASE Reprompt(p) BY <2>5 DEF Reprompt, Serve, registry, sessions
  <2>6. CASE Cancel(p) BY <2>6 DEF Cancel, PidLive, Serve, registry, sessions
  <2>7. CASE CancelRun(p) BY <2>7 DEF CancelRun, PidLive, CancelRunPid, Serve, registry
  <2> QED BY <1>6, <2>1, <2>2, <2>3, <2>4, <2>5, <2>6, <2>7 DEF RequestStep
<1>7. ASSUME NEW p \in Requesters, ResumeStep(p) PROVE (\A j \in Inc : Holds(j))'
  <2>1. CASE ResumeToken(p) BY <2>1 DEF ResumeToken
  <2>2. CASE ResumeRunning(p) BY <2>2 DEF ResumeRunning, sessions
  <2>3. CASE ResumeLaunch(p)
    <3>1. req[p].inc \in Inc /\ tail[req[p].inc] = "none" BY <2>3 DEF ResumeLaunch, Created
    <3>2. \A j \in Inc : j # req[p].inc => Holds(j)'
      BY <2>3, <3>1 DEF ResumeLaunch
    <3>3. \A j \in Inc : j = req[p].inc => Holds(j)'
      BY <2>3, <3>1 DEF ResumeLaunch
    <3> QED BY <3>2, <3>3
  <2>4. CASE Thaw(p)
    <3>1. ThawOutcome(p) BY <2>4, ThawCases
    <3> QED BY <3>1 DEF ThawOutcome
  <2>5. CASE Thawed(p) BY <2>5 DEF Thawed, sessions
  <2>6. CASE Wake(p) BY <2>6 DEF Wake, registry
  <2>7. CASE TerminateToken(p) BY <2>7 DEF TerminateToken, registry, sessions
  <2>8. CASE Replace(p) BY <2>8 DEF Replace, registry, sessions
  <2> QED BY <1>7, <2>1, <2>2, <2>3, <2>4, <2>5, <2>6, <2>7, <2>8 DEF ResumeStep
<1>8. CASE UNCHANGED lifecycleVars BY <1>8 DEF lifecycleVars
<1> QED BY <1>1, <1>2, <1>3, <1>4, <1>5, <1>6, <1>7, <1>8 DEF LifecycleNext

\* Every step keeps the incarnations of different requesters apart.
LEMMA CreatedStep == LifecycleInv /\ [LifecycleNext]_lifecycleVars => Created'
<1> SUFFICES ASSUME LifecycleInv, [LifecycleNext]_lifecycleVars PROVE Created'
  OBVIOUS
<1> menu' = menu BY DEF LifecycleNext, lifecycleVars
<1> USE LifecycleAssumption DEF LifecycleTypeOK, LifecycleInv, Created, Holds, Inc, ProcStates, Tails, Reqs, NoRequest, LiveChild, Ended, PastRecord, entry
<1>1. CASE RunWorker BY <1>1 DEF RunWorker
<1>2. CASE WorktreeFailed BY <1>2 DEF WorktreeFailed, registry
<1>3. CASE Promote BY <1>3 DEF Promote, sessions
<1>4. ASSUME NEW i \in Inc, SessionStep(i) PROVE Created'
  <2>1. CASE Launch(i) BY <2>1 DEF Launch, registry
  <2>2. CASE SpawnFailed(i) BY <2>2 DEF SpawnFailed, registry
  <2>3. CASE Exit(i) BY <2>3 DEF Exit, registry
  <2>4. CASE Reap(i) BY <2>4 DEF Reap, registry
  <2> QED BY <1>4, <2>1, <2>2, <2>3, <2>4 DEF SessionStep
<1>5. ASSUME NEW i \in Inc, TailStep(i) PROVE Created'
  <2>1. CASE TailPids(i) BY <2>1 DEF TailPids
  <2>2. CASE TailRecord(i) BY <2>2 DEF TailRecord, registry
  <2>3. CASE TailDone(i) BY <2>3 DEF TailDone
  <2>4. CASE TailIndex(i) BY <2>4 DEF TailIndex
  <2>5. CASE TailToken(i) BY <2>5 DEF TailToken, registry
  <2>6. CASE TailAnnounce(i) BY <2>6 DEF TailAnnounce, registry
  <2> QED BY <1>5, <2>1, <2>2, <2>3, <2>4, <2>5, <2>6 DEF TailStep
<1>6. ASSUME NEW p \in Requesters, RequestStep(p) PROVE Created'
  <2>1. CASE PauseCancel(p) BY <2>1 DEF PauseCancel, Serve, sessions
  <2>2. CASE PauseFreeze(p) BY <2>2 DEF PauseFreeze, PidLive, Serve
  <2>3. CASE ContinuePaused(p) BY <2>3 DEF ContinuePaused, Serve, registry, sessions
  <2>4. CASE ContinueFrozen(p)
    <3>1. pidOf \in Inc /\ proc[pidOf] # "none"
      BY <2>4 DEF ContinueFrozen, PidLive
    <3> QED BY <2>4, <3>1 DEF ContinueFrozen, Serve, registry, sessions
  <2>5. CASE Reprompt(p) BY <2>5 DEF Reprompt, Serve, registry, sessions
  <2>6. CASE Cancel(p)
    <3>1. CancelOutcome(p) BY <2>6, CancelCases
    <3>2. /\ \A q \in Requesters \ {p} : req'[q] = req[q]
          /\ req'[p].at \in {"wake", "kill"} /\ req[p].at = "idle" /\ p \in menu.who
          /\ req'[p].at = "wake" => req'[p].inc \in Inc /\ proc[req'[p].inc] # "none"
          /\ UNCHANGED <<st, tokenOf, doneBy, killed, proc, tail, records, incs>>
      BY <3>1 DEF CancelOutcome
    <3>3. \A q \in Requesters : req'[q].at \in {"register", "launch"} =>
               q # p /\ req'[q] = req[q]
      BY <3>2
    <3>4. \A q \in Requesters : req'[q].at \in {"thaw", "thawed", "wake"} =>
               \/ req[q].at \in {"thaw", "thawed", "wake"} /\ req'[q].inc = req[q].inc
               \/ req'[q].inc \in Inc /\ proc[req'[q].inc] # "none"
      BY <3>2
    <3> QED BY <3>2, <3>3, <3>4
  <2>7. CASE CancelRun(p) BY <2>7 DEF CancelRun, PidLive, CancelRunPid, Serve, registry
  <2> QED BY <1>6, <2>1, <2>2, <2>3, <2>4, <2>5, <2>6, <2>7 DEF RequestStep
<1>7. ASSUME NEW p \in Requesters, ResumeStep(p) PROVE Created'
  <2>1. CASE ResumeToken(p) BY <2>1 DEF ResumeToken
  <2>2. CASE ResumeRunning(p) BY <2>2 DEF ResumeRunning, sessions
  <2>3. CASE ResumeLaunch(p) BY <2>3 DEF ResumeLaunch
  <2>4. CASE Thaw(p)
    <3>1. ThawOutcome(p) BY <2>4, ThawCases
    <3>2. /\ \A q \in Requesters \ {p} : req'[q] = req[q]
          /\ req'[p].at \in {"idle", "thawed"}
          /\ req'[p].at = "thawed" => req'[p].inc = req[p].inc
          /\ req[p] # NoRequest
      BY <3>1 DEF ThawOutcome
    <3>3. \A j \in Inc : proc[j] # "none" => proc'[j] # "none" BY <3>1 DEF ThawOutcome
    <3>4. req[p].at = "thaw" /\ req[p].inc \in Inc /\ proc[req[p].inc] # "none"
          /\ UNCHANGED <<tail, incs, tokenOf, killed, st>>
      BY <3>1 DEF ThawOutcome
    <3>5. \A q \in Requesters : req'[q].at \in {"register", "launch"} =>
               q # p /\ req'[q] = req[q]
      BY <3>2
    <3>6. \A q \in Requesters : req'[q].at \in {"thaw", "thawed", "wake"} =>
               req[q].at \in {"thaw", "thawed", "wake"} /\ req'[q].inc = req[q].inc
      BY <3>2, <3>4
    <3> QED BY <3>3, <3>4, <3>5, <3>6
  <2>5. CASE Thawed(p) BY <2>5 DEF Thawed, sessions
  <2>6. CASE Wake(p) BY <2>6 DEF Wake, registry
  <2>7. CASE TerminateToken(p) BY <2>7 DEF TerminateToken, registry, sessions
  <2>8. CASE Replace(p) BY <2>8 DEF Replace, registry, sessions
  <2> QED BY <1>7, <2>1, <2>2, <2>3, <2>4, <2>5, <2>6, <2>7, <2>8 DEF ResumeStep
<1>8. CASE UNCHANGED lifecycleVars BY <1>8 DEF lifecycleVars
<1> QED BY <1>1, <1>2, <1>3, <1>4, <1>5, <1>6, <1>7, <1>8 DEF LifecycleNext

\* Every step that undoes Done leaves somebody to write it again.
LEMMA DoneStep == LifecycleInv /\ [LifecycleNext]_lifecycleVars => DoneIsComing'
<1> SUFFICES ASSUME LifecycleInv, [LifecycleNext]_lifecycleVars PROVE DoneIsComing'
  OBVIOUS
<1> menu' = menu BY DEF LifecycleNext, lifecycleVars
<1> USE LifecycleAssumption DEF LifecycleTypeOK, LifecycleInv, Created, DoneIsComing, Unfinished, Holds, PastRecord, Inc, Tails, NoRequest, entry
<1>1. CASE RunWorker BY <1>1 DEF RunWorker
<1>2. CASE WorktreeFailed BY <1>2 DEF WorktreeFailed, registry
<1>3. CASE Promote BY <1>3 DEF Promote, sessions
<1>4. ASSUME NEW i \in Inc, SessionStep(i) PROVE DoneIsComing'
  <2>1. CASE Launch(i) BY <2>1 DEF Launch, registry
  <2>2. CASE SpawnFailed(i) BY <2>2 DEF SpawnFailed, registry
  <2>3. CASE Exit(i) BY <2>3 DEF Exit, registry
  <2>4. CASE Reap(i) BY <2>4 DEF Reap, registry
  <2> QED BY <1>4, <2>1, <2>2, <2>3, <2>4 DEF SessionStep
<1>5. ASSUME NEW i \in Inc, TailStep(i) PROVE DoneIsComing'
  <2>1. CASE TailPids(i) BY <2>1 DEF TailPids
  <2>2. CASE TailRecord(i) BY <2>2 DEF TailRecord, registry
  <2>3. CASE TailDone(i) BY <2>3 DEF TailDone
  <2>4. CASE TailIndex(i) BY <2>4 DEF TailIndex
  <2>5. CASE TailToken(i) BY <2>5 DEF TailToken, registry
  <2>6. CASE TailAnnounce(i) BY <2>6 DEF TailAnnounce, registry
  <2> QED BY <1>5, <2>1, <2>2, <2>3, <2>4, <2>5, <2>6 DEF TailStep
<1>6. ASSUME NEW p \in Requesters, RequestStep(p) PROVE DoneIsComing'
  <2>1. CASE PauseCancel(p) BY <2>1 DEF PauseCancel, Serve, sessions
  <2>2. CASE PauseFreeze(p) BY <2>2 DEF PauseFreeze, PidLive, Serve
  <2>3. CASE ContinuePaused(p) BY <2>3 DEF ContinuePaused, Serve, registry, sessions
  <2>4. CASE ContinueFrozen(p) BY <2>4 DEF ContinueFrozen, PidLive, Serve, registry, sessions
  <2>5. CASE Reprompt(p) BY <2>5 DEF Reprompt, Serve, registry, sessions
  <2>6. CASE Cancel(p)
    <3>1. CancelOutcome(p) BY <2>6, CancelCases
    <3>2. /\ \A q \in Requesters \ {p} : req'[q] = req[q]
          /\ req'[p].at \in {"wake", "kill"} /\ req[p].at = "idle" /\ p \in menu.who
          /\ req'[p].at = "wake" => req'[p].inc \in Inc /\ proc[req'[p].inc] # "none"
          /\ UNCHANGED <<st, tokenOf, doneBy, killed, proc, tail, records, incs>>
      BY <3>1 DEF CancelOutcome
    <3>3. \A q \in Requesters : req'[q].at \in {"thaw", "thawed"} => req[q].at \in {"thaw", "thawed"}
      BY <3>2
    <3>4. \A q \in Requesters : req[q].at = "launch" => req'[q].at = "launch"
      BY <3>2
    <3> QED BY <3>2, <3>3, <3>4
  <2>7. CASE CancelRun(p) BY <2>7 DEF CancelRun, PidLive, CancelRunPid, Serve, registry
  <2> QED BY <1>6, <2>1, <2>2, <2>3, <2>4, <2>5, <2>6, <2>7 DEF RequestStep
<1>7. ASSUME NEW p \in Requesters, ResumeStep(p) PROVE DoneIsComing'
  <2>1. CASE ResumeToken(p) BY <2>1 DEF ResumeToken
  <2>2. CASE ResumeRunning(p) BY <2>2 DEF ResumeRunning, sessions
  <2>3. CASE ResumeLaunch(p) BY <2>3 DEF ResumeLaunch
  <2>4. CASE Thaw(p)
    <3>1. ThawOutcome(p) BY <2>4, ThawCases
    <3> QED BY <3>1 DEF ThawOutcome
  <2>5. CASE Thawed(p) BY <2>5 DEF Thawed, sessions
  <2>6. CASE Wake(p) BY <2>6 DEF Wake, registry
  <2>7. CASE TerminateToken(p) BY <2>7 DEF TerminateToken, registry, sessions
  <2>8. CASE Replace(p) BY <2>8 DEF Replace, registry, sessions
  <2> QED BY <1>7, <2>1, <2>2, <2>3, <2>4, <2>5, <2>6, <2>7, <2>8 DEF ResumeStep
<1>8. CASE UNCHANGED lifecycleVars BY <1>8 DEF lifecycleVars
<1> QED BY <1>1, <1>2, <1>3, <1>4, <1>5, <1>6, <1>7, <1>8 DEF LifecycleNext

\* With one requester every step kills a token before it replaces it.
LEMMA OneStep == LifecycleInv /\ [LifecycleNext]_lifecycleVars => OneAtATime'
<1> SUFFICES ASSUME LifecycleInv, [LifecycleNext]_lifecycleVars PROVE OneAtATime'
  OBVIOUS
<1> menu' = menu BY DEF LifecycleNext, lifecycleVars
<1> USE LifecycleAssumption DEF LifecycleTypeOK, LifecycleInv, Created, OneAtATime, Inc, NoRequest, entry
<1>1. CASE RunWorker BY <1>1 DEF RunWorker
<1>2. CASE WorktreeFailed BY <1>2 DEF WorktreeFailed, registry
<1>3. CASE Promote BY <1>3 DEF Promote, sessions
<1>4. ASSUME NEW i \in Inc, SessionStep(i) PROVE OneAtATime'
  <2>1. CASE Launch(i) BY <2>1 DEF Launch, registry
  <2>2. CASE SpawnFailed(i) BY <2>2 DEF SpawnFailed, registry
  <2>3. CASE Exit(i) BY <2>3 DEF Exit, registry
  <2>4. CASE Reap(i) BY <2>4 DEF Reap, registry
  <2> QED BY <1>4, <2>1, <2>2, <2>3, <2>4 DEF SessionStep
<1>5. ASSUME NEW i \in Inc, TailStep(i) PROVE OneAtATime'
  <2>1. CASE TailPids(i) BY <2>1 DEF TailPids
  <2>2. CASE TailRecord(i) BY <2>2 DEF TailRecord, registry
  <2>3. CASE TailDone(i) BY <2>3 DEF TailDone
  <2>4. CASE TailIndex(i) BY <2>4 DEF TailIndex
  <2>5. CASE TailToken(i) BY <2>5 DEF TailToken, registry
  <2>6. CASE TailAnnounce(i) BY <2>6 DEF TailAnnounce, registry
  <2> QED BY <1>5, <2>1, <2>2, <2>3, <2>4, <2>5, <2>6 DEF TailStep
<1>6. ASSUME NEW p \in Requesters, RequestStep(p) PROVE OneAtATime'
  <2>1. CASE PauseCancel(p) BY <2>1 DEF PauseCancel, Serve, sessions
  <2>2. CASE PauseFreeze(p) BY <2>2 DEF PauseFreeze, PidLive, Serve
  <2>3. CASE ContinuePaused(p) BY <2>3, OneRequester DEF ContinuePaused, Serve, registry, sessions
  <2>4. CASE ContinueFrozen(p) BY <2>4 DEF ContinueFrozen, PidLive, Serve, registry, sessions
  <2>5. CASE Reprompt(p) BY <2>5, OneRequester DEF Reprompt, Serve, registry, sessions
  <2>6. CASE Cancel(p)
    <3>1. CancelOutcome(p) BY <2>6, CancelCases
    <3>2. /\ \A q \in Requesters \ {p} : req'[q] = req[q]
          /\ req'[p].at \in {"wake", "kill"} /\ req[p].at = "idle" /\ p \in menu.who
          /\ req'[p].at = "wake" => req'[p].inc \in Inc /\ proc[req'[p].inc] # "none"
          /\ UNCHANGED <<st, tokenOf, doneBy, killed, proc, tail, records, incs>>
      BY <3>1 DEF CancelOutcome
    <3>3. \A q \in Requesters : req'[q] # NoRequest => q = p \/ req[q] # NoRequest BY <3>2
    <3>4. \A q \in Requesters : req'[q].at = "resume" => req[q].at = "resume" BY <3>2
    <3>5. \A q \in Requesters : req[q].at = "register" => req'[q].at = "register" BY <3>2
    <3> QED BY <3>2, <3>3, <3>4, <3>5
  <2>7. CASE CancelRun(p) BY <2>7 DEF CancelRun, PidLive, CancelRunPid, Serve, registry
  <2> QED BY <1>6, <2>1, <2>2, <2>3, <2>4, <2>5, <2>6, <2>7 DEF RequestStep
<1>7. ASSUME NEW p \in Requesters, ResumeStep(p) PROVE OneAtATime'
  <2>1. CASE ResumeToken(p)
    <3>1. p \in menu.who /\ incs \in Nat /\ \A q \in Requesters \ {p} : req'[q] = req[q]
      BY <2>1 DEF ResumeToken
    <3>2. \A q \in Requesters : req'[q] # NoRequest => q \in menu'.who
      BY <2>1, <3>1 DEF ResumeToken
    <3>3. ASSUME Cardinality(menu.who) = 1 PROVE tokenOf \in killed /\ \A i \in 1..incs : i \in killed
      BY <2>1, <3>3 DEF ResumeToken
    <3>4. ASSUME Cardinality(menu.who) = 1
          PROVE  \A q \in Requesters : req'[q].at # "resume"
      BY <2>1, <3>1, <3>4, OneRequester DEF ResumeToken
    <3>5. req'[p].at = "register" BY <2>1 DEF ResumeToken
    <3>6. \A i \in 1..incs' : i \in 1..incs \/ i = tokenOf' BY <2>1, <3>1 DEF ResumeToken
    <3> QED BY <2>1, <3>2, <3>3, <3>4, <3>5, <3>6 DEF ResumeToken
  <2>2. CASE ResumeRunning(p) BY <2>2 DEF ResumeRunning, sessions
  <2>3. CASE ResumeLaunch(p) BY <2>3 DEF ResumeLaunch
  <2>4. CASE Thaw(p)
    <3>1. ThawOutcome(p) BY <2>4, ThawCases
    <3>2. /\ \A q \in Requesters \ {p} : req'[q] = req[q]
          /\ req'[p].at \in {"idle", "thawed"}
          /\ req'[p].at = "thawed" => req'[p].inc = req[p].inc
          /\ req[p] # NoRequest
      BY <3>1 DEF ThawOutcome
    <3>3. \A j \in Inc : proc[j] # "none" => proc'[j] # "none" BY <3>1 DEF ThawOutcome
    <3>4. req[p].at = "thaw" /\ req[p].inc \in Inc /\ proc[req[p].inc] # "none"
          /\ UNCHANGED <<tail, incs, tokenOf, killed, st>>
      BY <3>1 DEF ThawOutcome
    <3>5. \A q \in Requesters : req'[q] # NoRequest => q \in menu'.who BY <3>2
    <3>6. \A q \in Requesters : req'[q].at = "resume" => req[q].at = "resume" BY <3>2
    <3>7. \A q \in Requesters : req[q].at = "register" => req'[q].at = "register" BY <3>2, <3>4
    <3> QED BY <3>4, <3>5, <3>6, <3>7
  <2>5. CASE Thawed(p) BY <2>5 DEF Thawed, sessions
  <2>6. CASE Wake(p) BY <2>6 DEF Wake, registry
  <2>7. CASE TerminateToken(p) BY <2>7 DEF TerminateToken, registry, sessions
  <2>8. CASE Replace(p) BY <2>8 DEF Replace, registry, sessions
  <2> QED BY <1>7, <2>1, <2>2, <2>3, <2>4, <2>5, <2>6, <2>7, <2>8 DEF ResumeStep
<1>8. CASE UNCHANGED lifecycleVars BY <1>8 DEF lifecycleVars
<1> QED BY <1>1, <1>2, <1>3, <1>4, <1>5, <1>6, <1>7, <1>8 DEF LifecycleNext

\* The inductive invariant holds initially.
LEMMA LifecycleInvInit == LifecycleInit => LifecycleInv
<1> SUFFICES ASSUME LifecycleInit PROVE LifecycleInv
  OBVIOUS
<1> USE LifecycleAssumption DEF LifecycleInit, Inc, NoRequest
<1>1. LifecycleTypeOK
  <2>1. /\ tokenOf \in Inc /\ pidOf \in Inc \cup {0} /\ incs \in Inc /\ ops \in 0..MaxOps
        /\ doneBy \in Inc \cup {0} /\ menu \in Menus
    OBVIOUS
  <2>4. held \in BOOLEAN /\ index \in BOOLEAN OBVIOUS
  <2>2. req \in [Requesters -> [at : Reqs, inc : Inc \cup {0}]] BY DEF Reqs
  <2>3. /\ st \in States /\ proc \in [Inc -> ProcStates] /\ tail \in [Inc -> Tails]
        /\ killed \subseteq Inc /\ slot \subseteq Inc /\ auth \subseteq Inc /\ records \subseteq Inc
        /\ announced \in [{"layer", "root"} -> SUBSET Inc]
    BY DEF States, ProcStates, Tails
  <2> HIDE DEF LifecycleInit, Inc, NoRequest
  <2> QED BY <2>1, <2>2, <2>3, <2>4 DEF LifecycleTypeOK
<1>2. \A i \in Inc : Holds(i) BY DEF Holds, LiveChild, Ended, PastRecord
<1>3. Created BY DEF Created
<1>4. DoneIsComing BY DEF DoneIsComing, Unfinished
<1>5. OneAtATime BY DEF OneAtATime
<1> QED BY <1>1, <1>2, <1>3, <1>4, <1>5 DEF LifecycleInv

\* The inductive invariant holds in every reachable state.
THEOREM LifecycleInvariant == LifecycleSpec => []LifecycleInv
<1>1. LifecycleInv /\ [LifecycleNext]_lifecycleVars => LifecycleInv'
  <2> SUFFICES ASSUME LifecycleInv, [LifecycleNext]_lifecycleVars PROVE LifecycleInv'
    OBVIOUS
  <2>1. LifecycleTypeOK /\ Created BY DEF LifecycleInv
  <2>2. LifecycleTypeOK' BY <2>1, LifecycleTypeStep
  <2>3. (\A i \in Inc : Holds(i))' BY HoldsStep
  <2>4. Created' BY CreatedStep
  <2>5. DoneIsComing' BY DoneStep
  <2>6. OneAtATime' BY OneStep
  <2> QED BY <2>2, <2>3, <2>4, <2>5, <2>6 DEF LifecycleInv
<1> QED BY <1>1, LifecycleInvInit, PTL DEF LifecycleSpec

\* Done is true for any number of requesters and incarnations: the record is
\* handed over and the child gone before Done or an announcement says so, only a
\* replaced session's late Done hides a session, what announced has released
\* child, pid slot and auth token, and a settled worker nobody paused is Done.
THEOREM DoneStaysTrue == LifecycleSpec => []DoneIsTrue
<1>1. LifecycleInv => DoneIsTrue
  <2> SUFFICES ASSUME LifecycleInv PROVE DoneIsTrue
    OBVIOUS
  <2> USE DEF LifecycleInv
  <2>1. DoneHasRecord
    BY DEF DoneHasRecord, LiveSessions, DoneIsComing, Holds, PastRecord, Ended, LiveChild,
           LifecycleTypeOK
  <2>4. DoneHidesOnlyReplaced
    <3> SUFFICES ASSUME Cardinality(menu.who) = 1, st = "done", NEW i \in Inc, proc[i] \in LiveChild
                 PROVE  i \in killed \/ doneBy \in killed
      BY DEF DoneHidesOnlyReplaced, LiveSessions, LiveChild
    <3>1. i \in 1..incs
      BY LifecycleAssumption DEF Created, Holds, LiveChild, LifecycleTypeOK, Inc
    <3>2. doneBy \in 1..incs /\ doneBy # i
      BY LifecycleAssumption DEF DoneIsComing, Created, Holds, Ended, PastRecord, LiveChild,
         LifecycleTypeOK, Inc
    <3> QED BY <3>1, <3>2 DEF OneAtATime
  <2>2. AnnouncedIsCleanedUp
    BY DEF AnnouncedIsCleanedUp, LiveSessions, Holds, PastRecord, Ended, LiveChild, LifecycleTypeOK
  <2>3. SettledIsDone
    <3> SUFFICES ASSUME Settled, "freeze" \notin menu.ops, ~ held, st # "done" PROVE FALSE
      BY DEF SettledIsDone
    <3>1. \A p \in Requesters : req[p].at # "launch" BY DEF Settled, NoRequest
    <3>2. PICK i \in Inc : tail[i] \in Unfinished BY <3>1 DEF DoneIsComing
    <3>3. i \in 1..incs
      BY <3>2, LifecycleAssumption DEF Created, Unfinished, LifecycleTypeOK, Inc
    <3> QED BY <3>2, <3>3 DEF Settled, Unfinished
  <2> QED BY <2>1, <2>2, <2>3, <2>4 DEF DoneIsTrue
<1> QED BY <1>1, LifecycleInvariant, PTL

\* No resume of a single requester orphans the session it replaces, however
\* the ends of the old sessions fall.
THEOREM SessionsStayCancellable == LifecycleSpec => []EveryLiveSessionIsCancellable
<1>1. LifecycleInv => EveryLiveSessionIsCancellable
  <2> SUFFICES ASSUME LifecycleInv, Cardinality(menu.who) = 1,
                      NEW i \in Inc, proc[i] \in LiveChild
               PROVE  i \in killed \/ i = tokenOf
    BY DEF EveryLiveSessionIsCancellable, LiveSessions, LiveChild
  <2>1. i \in 1..incs
    BY LifecycleAssumption DEF LifecycleInv, Created, Holds, LiveChild, LifecycleTypeOK, Inc
  <2> QED BY <2>1 DEF LifecycleInv, OneAtATime
<1> QED BY <1>1, LifecycleInvariant, PTL

-----------------------------------------------------------------------------
(* Admission *)

WorkerStates == {"none", "checked", "pending", "running", "done"}
ProcessStates == {"none", "next", "live", "exited", "recorded", "over"}

\* What a worker's state says of its two processes: p of the first, q of the one a
\* reprompt started; a reason is there once the last has exited.
Life(state, p, q, why) ==
    /\ state \in WorkerStates /\ p \in ProcessStates /\ q \in ProcessStates /\ p # "next"
    /\ p = "none" => state \in {"none", "checked", "pending"}
    /\ state \in {"none", "checked", "pending"} => p = "none"
    /\ p \in {"none", "live"} => q = "none"
    /\ why # "" => p \notin {"none", "live"} /\ q \notin {"next", "live"}
    /\ state = "done" /\ q = "none" => p = "over"

WorkerFields == {"st", "layer", "type", "want", "session", "pr", "reason", "at"}
Entry(x, inSub, time) ==
    /\ WorkerFields \subseteq DOMAIN x /\ DOMAIN x.pr = 1 .. 2
    /\ Life(x.st, x.pr[1], x.pr[2], x.reason)
    /\ x.layer \in SpawnLayers
    /\ x.at \in Nat /\ x.at <= time
    /\ x.layer # "root" => inSub[x.layer].st \in {"live", "gone"}
WorkerInv(w) == Entry(wk[w], sub, now)

SubFields == {"st", "type", "max_workers", "budget", "timeout", "want", "session"}
SubStates == {"none", "checked", "live", "orphan", "gone"}
SubInv(s) ==
    /\ SubFields \subseteq DOMAIN sub[s]
    /\ sub[s].st \in SubStates
    /\ sub[s].max_workers \subseteq Nat

LoadedInv ==
    /\ phase \in {"file", "run", "refused"}
    /\ phase # "run" => (\A w \in WorkerIds : wk[w].st = "none") /\ (\A s \in Subs : sub[s].st = "none")
    /\ phase = "run" =>
          /\ r.max_workers \subseteq Nat
          /\ r.lead # {} => /\ RootLead.max_subleads \subseteq Nat
                            /\ \A d \in RootLead.sublead_defaults : d.max_workers \subseteq Nat

AdmissionOK ==
    /\ scenario \in AdmissionScenarios /\ now \in Nat
    /\ DOMAIN wk = WorkerIds /\ DOMAIN sub = Subs
    /\ peak \in [SpawnLayers \cup {"subleads"} -> Nat]
    /\ \A s \in Subs : SubInv(s)
    /\ \A w \in WorkerIds : WorkerInv(w)
    /\ LoadedInv

\* Who takes a place under the cap of its layer, or is about to: a worker that was reprompted
\* does not.
Placed(l) == {w \in WorkerIds : /\ wk[w].layer = l
                                /\ \/ wk[w].st = "checked"
                                   \/ wk[w].st \in {"pending", "running"} /\ wk[w].pr[2] = "none"}
PlacedSubs == {s \in Subs : sub[s].st \in {"checked", "live", "orphan"} /\ sub[s].budget # {}}

CapInv == phase = "run" =>
    /\ \A l \in SpawnLayers : \A cap \in MaxWorkers(l) :
          Cardinality(Placed(l)) <= cap + Max({peak[l] - 1, 0})
    /\ r.lead # {} => \A cap \in RootLead.max_subleads :
          Cardinality(PlacedSubs) <= cap + Max({peak["subleads"] - 1, 0})

\* What has been told of a failure is in the health record, unless a later one replaced it.
GateInv ==
    /\ {"auth", "rate"} \subseteq DOMAIN health /\ health.auth \subseteq Nat
    /\ \A w \in WorkerIds : wk[w].pr[1] \in {"recorded", "over"} /\ wk[w].pr[2] = "none" =>
          /\ wk[w].reason = "auth" => health.auth # {} /\ \A t \in health.auth : wk[w].at <= t
          /\ wk[w].reason = "rate_until" =>
                \/ \E h \in health.rate : h.resets_at = {MaxNow}
                \/ \E v \in WorkerIds \ {w} : wk[v].reason \in {"rate", "rate_until"}

\* Who is asking is alive, and the index finds the layer of a first incarnation.
IndexInv(w) ==
    /\ layerIndex[w] \subseteq {wk[w].layer}
    /\ wk[w].st \in {"none", "checked"} => layerIndex[w] = {}
    /\ wk[w].st \in {"pending", "running"} /\ wk[w].pr[1] # "over" /\ wk[w].pr[2] = "none"
          => layerIndex[w] = {wk[w].layer}
AskInv ==
    /\ DOMAIN ask = Actors /\ DOMAIN layerIndex = WorkerIds
    /\ \A w \in WorkerIds : IndexInv(w)
    /\ \A a \in Actors : ask[a] # {} => Running /\ Alive(a) /\ \A t \in ask[a] : Admitted(r.mcp_servers, t)
    /\ phase # "run" => said = {}
    /\ \A d \in said : /\ d.who \in Actors
                       /\ d.who \in WorkerIds => wk[d.who].pr[1] # "none"
                       /\ d.who \in Subs => sub[d.who].st \in {"live", "gone"}
-----------------------------------------------------------------------------
\* The picks a member.
LEMMA TheIsIn == ASSUME NEW S, S # {} PROVE The(S) \in S
BY DEF The

\* The larger of two numbers.
LEMMA MaxOfTwo ==
    ASSUME NEW a \in Int, NEW b \in Int
    PROVE  Max({a, b}) \in {a, b} /\ a <= Max({a, b}) /\ b <= Max({a, b})
<1>1. \E x \in {a, b} : \A y \in {a, b} : x >= y
  <2>1. CASE a >= b BY <2>1
  <2>2. CASE ~ (a >= b) BY <2>2
  <2> QED BY <2>1, <2>2
<1>2. PICK x \in {a, b} : \A y \in {a, b} : x >= y BY <1>1
<1>3. Max({a, b}) \in {a, b} /\ \A y \in {a, b} : Max({a, b}) >= y BY <1>2 DEF Max
<1>4. Max({a, b}) \in Int BY <1>3
<1> QED BY <1>3, <1>4

\* The larger of two counts is a count.
LEMMA MaxIsNat == ASSUME NEW a \in Nat, NEW b \in Nat PROVE Max({a, b}) \in Nat /\ a <= Max({a, b}) /\ b <= Max({a, b})
BY MaxOfTwo

\* What overlapping calls may add to a cap is a count, and no less than all of them but one.
LEMMA Slack == ASSUME NEW n \in Nat PROVE Max({n - 1, 0}) \in Nat /\ n - 1 <= Max({n - 1, 0})
<1> DEFINE a == n - 1
<1>1. a \in Int OBVIOUS
<1> HIDE DEF a
<1>2. Max({a, 0}) \in {a, 0} /\ a <= Max({a, 0}) /\ 0 <= Max({a, 0}) BY <1>1, MaxOfTwo
<1>3. Max({a, 0}) \in Nat BY <1>1, <1>2
<1> QED BY <1>2, <1>3 DEF a

\* It grows with the calls.
LEMMA SlackGrows ==
    ASSUME NEW m \in Nat, NEW n \in Nat, m <= n PROVE Max({m - 1, 0}) <= Max({n - 1, 0})
<1> DEFINE a == m - 1
<1>1. a \in Int /\ a <= n - 1 OBVIOUS
<1> HIDE DEF a
<1>5. a \in Int BY <1>1
<1>2. Max({a, 0}) \in {a, 0} BY <1>5, MaxOfTwo
<1>3. Max({n - 1, 0}) \in Nat /\ n - 1 <= Max({n - 1, 0}) BY Slack
<1> DEFINE k == Max({n - 1, 0})
<1> HIDE DEF k
<1>4. Max({a, 0}) <= k BY <1>1, <1>2, <1>3 DEF k
<1> QED BY <1>4 DEF a, k

\* resolve keeps the limits of the file, which are numbers.
LEMMA ResolvedLimits ==
    ASSUME NEW sc \in AdmissionScenarios, NEW m \in sc.files, NEW R, R = Resolve(m)
    PROVE  /\ R.max_workers \subseteq Nat
           /\ R.lead # {} => /\ The(R.lead).max_subleads \subseteq Nat
                             /\ \A d \in The(R.lead).sublead_defaults : d.max_workers \subseteq Nat
<1>1. R.max_workers = IF m.lead # {} THEN The(m.lead).max_workers ELSE {}
  BY DEF Resolve, ResolvedManifest
<1>2. R.lead = {ResolveLead(m, l) : l \in m.lead}
  BY DEF Resolve, ResolvedManifest
<1>3. R.max_workers \subseteq Nat BY <1>1, TheIsIn, AdmissionScenariosAssumption
<1>4. ASSUME R.lead # {}
      PROVE  /\ The(R.lead).max_subleads \subseteq Nat
             /\ \A d \in The(R.lead).sublead_defaults : d.max_workers \subseteq Nat
  <2>1. PICK l \in m.lead : The(R.lead) = ResolveLead(m, l) BY <1>2, <1>4, TheIsIn
  <2>2. ResolveLead(m, l).max_subleads = l.max_subleads /\ ResolveLead(m, l).sublead_defaults = m.sublead_defaults
    BY DEF ResolveLead
  <2> QED BY <2>1, <2>2, AdmissionScenariosAssumption
<1> QED BY <1>3, <1>4

\* What an id that no spawn drew stands for.
LEMMA NoWorkerIs ==
    /\ WorkerFields \subseteq DOMAIN NoWorker
    /\ NoWorker.st = "none" /\ NoWorker.layer = "root" /\ NoWorker.reason = "" /\ NoWorker.at = 0
    /\ NoWorker.pr[1] = "none" /\ NoWorker.pr[2] = "none" /\ DOMAIN NoWorker.pr = 1 .. 2
<1> DEFINE p == <<"none", "none">>
<1>1. p[1] = "none" /\ p[2] = "none" /\ DOMAIN p = 1 .. 2 OBVIOUS
<1>2. NoWorker.pr = p BY DEF NoWorker
<1>3. WorkerFields \subseteq DOMAIN NoWorker BY DEF NoWorker, WorkerFields
<1>4. NoWorker.st = "none" /\ NoWorker.layer = "root" /\ NoWorker.reason = "" /\ NoWorker.at = 0 BY DEF NoWorker
<1> HIDE DEF p
<1> QED BY <1>1, <1>2, <1>3, <1>4

\* A step of one worker, in a run.
LEMMA OneWorker ==
    ASSUME AdmissionOK, NEW w \in WorkerIds, NEW v, wk' = [wk EXCEPT ![w] = v], phase = "run",
           UNCHANGED <<scenario, phase, r, sub, now>>,
           peak' \in [SpawnLayers \cup {"subleads"} -> Nat], Entry(v, sub, now)
    PROVE  AdmissionOK'
<1>1. DOMAIN wk' = WorkerIds /\ \A x \in WorkerIds : x # w => wk'[x] = wk[x] BY DEF AdmissionOK
<1>2. ASSUME NEW x \in WorkerIds PROVE WorkerInv(x)'
  <2>1. CASE x = w
    <3>1. wk'[x] = v BY <2>1 DEF AdmissionOK
    <3> QED BY <3>1 DEF WorkerInv
  <2>2. CASE x # w BY <2>2, <1>1 DEF AdmissionOK, WorkerInv
  <2> QED BY <2>1, <2>2
<1>3. ASSUME NEW s \in Subs PROVE SubInv(s)' BY DEF AdmissionOK, SubInv
<1>4. LoadedInv' BY DEF AdmissionOK, LoadedInv, RootLead
<1> QED BY <1>1, <1>2, <1>3, <1>4 DEF AdmissionOK

\* Before the manifest is loaded nothing has been spawned.
LEMMA AdmissionInitOK == ASSUME AdmissionInit PROVE AdmissionOK
<1>1. DOMAIN wk = WorkerIds /\ DOMAIN sub = Subs /\ (\A w \in WorkerIds : wk[w] = NoWorker) /\ \A s \in Subs : sub[s] = NoSub
  BY DEF AdmissionInit
<1>2. ASSUME NEW w \in WorkerIds PROVE WorkerInv(w)
  <2>3. now = 0 /\ wk[w] = NoWorker BY <1>1 DEF AdmissionInit
  <2>1. Life("none", "none", "none", "") BY DEF Life, WorkerStates, ProcessStates
  <2>2. Life(wk[w].st, wk[w].pr[1], wk[w].pr[2], wk[w].reason) BY <2>1, <2>3, NoWorkerIs, Zenon
  <2>4. WorkerFields \subseteq DOMAIN wk[w] /\ DOMAIN wk[w].pr = 1 .. 2 BY <2>3, NoWorkerIs
  <2>5. wk[w].layer = "root" /\ wk[w].at = 0 BY <2>3, NoWorkerIs
  <2> QED BY <2>2, <2>3, <2>4, <2>5 DEF WorkerInv, Entry, SpawnLayers
<1>3. ASSUME NEW s \in Subs PROVE SubInv(s) BY <1>1 DEF SubInv, NoSub, SubFields, SubStates
<1>4. LoadedInv BY <1>1 DEF AdmissionInit, LoadedInv, NoWorker, NoSub
<1> QED BY <1>1, <1>2, <1>3, <1>4 DEF AdmissionInit, AdmissionOK

\* spawn_worker past its gates.
LEMMA CheckWorkerOK ==
    ASSUME AdmissionOK, NEW w \in scenario.workers, NEW l \in SpawnLayers, NEW args, SpawnWorkerCheck(w, l, args)
    PROVE  AdmissionOK' /\ w \in WorkerIds
<1> DEFINE v == [NoWorker EXCEPT !.st = "checked", !.layer = l, !.type = args.type,
                                 !.want = WantedSession(l, args, TypeNamed(r.worker_types, args.type))]
<1>1. w \in WorkerIds BY AdmissionScenariosAssumption DEF AdmissionOK
<1>2. wk' = [wk EXCEPT ![w] = v] /\ phase = "run" /\ UNCHANGED <<scenario, phase, r, sub, now>>
      /\ (l # "root" => sub[l].st = "live") /\ peak' = [peak EXCEPT ![l] = Max({@, Calls(l) + 1})]
  BY DEF SpawnWorkerCheck, Running
<1>3. WorkerFields \subseteq DOMAIN v /\ v.st = "checked" /\ v.layer = l
      /\ v.pr = NoWorker.pr /\ v.reason = "" /\ v.at = 0
  BY NoWorkerIs DEF WorkerFields
<1> HIDE DEF v
<1>11. v.pr[1] = "none" /\ v.pr[2] = "none" /\ DOMAIN v.pr = 1 .. 2 BY <1>3, NoWorkerIs
<1>12. now \in Nat BY DEF AdmissionOK
<1>15. Life("checked", "none", "none", "") BY DEF Life, WorkerStates, ProcessStates
<1>16. Life(v.st, v.pr[1], v.pr[2], v.reason) BY <1>3, <1>11, <1>15, Zenon
<1>17. WorkerFields \subseteq DOMAIN v /\ DOMAIN v.pr = 1 .. 2 BY <1>3, <1>11
<1>18. v.layer \in SpawnLayers BY <1>3
<1>4. v.at = 0 BY <1>3
<1>19. v.at \in Nat /\ v.at <= now BY <1>4, <1>12
<1>20. v.layer # "root" => sub[v.layer].st \in {"live", "gone"} BY <1>2, <1>3
<1>5. Entry(v, sub, now) BY <1>16, <1>17, <1>18, <1>19, <1>20 DEF Entry
<1>6. IsFiniteSet({x \in WorkerIds : wk[x].layer = l /\ wk[x].st = "checked"})
  BY IdsAssumption, FS_Subset
<1>7. Calls(l) \in Nat BY <1>6, FS_CardinalityType DEF Calls
<1>8. peak[l] \in Nat BY DEF AdmissionOK
<1>13. Calls(l) + 1 \in Nat BY <1>7
<1>9. Max({peak[l], Calls(l) + 1}) \in Nat BY <1>13, <1>8, MaxIsNat
<1>10. peak' \in [SpawnLayers \cup {"subleads"} -> Nat] BY <1>2, <1>9 DEF AdmissionOK
<1> QED BY <1>1, <1>2, <1>5, <1>10, OneWorker

\* What a step makes of a worker's entry; its layer and type stay.
Becomes(w, state, p, q, why, at) ==
    /\ wk'[w].st = state /\ wk'[w].pr[1] = p /\ wk'[w].pr[2] = q /\ wk'[w].reason = why /\ wk'[w].at = at
    /\ wk'[w].layer = wk[w].layer /\ wk'[w].type = wk[w].type
    /\ \A x \in WorkerIds : x # w => wk'[x] = wk[x]

\* The entry of one worker.
LEMMA EntryOf == ASSUME AdmissionOK, NEW w \in WorkerIds PROVE Entry(wk[w], sub, now)
BY DEF AdmissionOK, WorkerInv

\* A worker's entry stays well formed when its layer does and its state is a possible one.
LEMMA EntryStays ==
    ASSUME NEW x, NEW v, NEW inSub, NEW t \in Nat, Entry(x, inSub, t), WorkerFields \subseteq DOMAIN v,
           DOMAIN v.pr = 1 .. 2, v.layer = x.layer, v.at \in {x.at, t}, Life(v.st, v.pr[1], v.pr[2], v.reason)
    PROVE  Entry(v, inSub, t)
<1>1. v.at \in Nat /\ v.at <= t BY DEF Entry
<1>2. v.layer \in SpawnLayers /\ (v.layer # "root" => inSub[v.layer].st \in {"live", "gone"}) BY DEF Entry
<1> QED BY <1>1, <1>2 DEF Entry

\* A step that changes a worker's entry and nothing it depends on.
LEMMA Moved ==
    ASSUME AdmissionOK, NEW w \in WorkerIds, NEW v, wk' = [wk EXCEPT ![w] = v], phase = "run",
           UNCHANGED <<scenario, phase, r, sub, now, peak>>,
           WorkerFields \subseteq DOMAIN v, DOMAIN v.pr = 1 .. 2, v.layer = wk[w].layer, v.type = wk[w].type,
           v.at \in {wk[w].at, now}, Life(v.st, v.pr[1], v.pr[2], v.reason)
    PROVE  AdmissionOK' /\ Becomes(w, v.st, v.pr[1], v.pr[2], v.reason, v.at)
<1>1. now \in Nat /\ peak' \in [SpawnLayers \cup {"subleads"} -> Nat] BY DEF AdmissionOK
<1>2. Entry(v, sub, now) BY <1>1, EntryOf, EntryStays
<1>3. AdmissionOK' BY <1>1, <1>2, OneWorker
<1>4. wk'[w] = v /\ \A x \in WorkerIds : x # w => wk'[x] = wk[x] BY DEF AdmissionOK
<1> QED BY <1>3, <1>4 DEF Becomes

\* The worker enters the maps of its layer.
LEMMA InsertMoves ==
    ASSUME AdmissionOK, NEW w \in WorkerIds, SpawnWorkerInsert(w)
    PROVE  /\ AdmissionOK' /\ wk[w].st = "checked" /\ wk[w].pr[1] = "none" /\ wk[w].pr[2] = "none" /\ wk[w].reason = ""
           /\ Becomes(w, "pending", "none", "none", "", wk[w].at)
<1> DEFINE x == wk[w]
           v == [x EXCEPT !.st = "pending"]
<1>1. wk' = [wk EXCEPT ![w] = v] /\ phase = "run" /\ UNCHANGED <<scenario, phase, r, sub, now, peak>>
      /\ x.st = "checked"
  BY DEF SpawnWorkerInsert, Running
<1>2. Entry(x, sub, now) BY EntryOf
<1>3. WorkerFields \subseteq DOMAIN x /\ DOMAIN x.pr = 1 .. 2 /\ Life(x.st, x.pr[1], x.pr[2], x.reason)
  BY <1>2 DEF Entry
<1> HIDE DEF x
<1>4. WorkerFields \subseteq DOMAIN v /\ v.st = "pending" /\ v.layer = x.layer /\ v.type = x.type /\ v.pr = x.pr
      /\ v.reason = x.reason /\ v.at = x.at
  BY <1>3 DEF WorkerFields
<1>5. x.pr[1] = "none" /\ x.pr[2] = "none" /\ x.reason = "" BY <1>1, <1>3 DEF Life
<1>6. Life("pending", "none", "none", "") BY DEF Life, WorkerStates, ProcessStates
<1> HIDE DEF v
<1>7. v.pr[1] = "none" /\ v.pr[2] = "none" /\ v.reason = "" BY <1>4, <1>5
<1>8. Life(v.st, v.pr[1], v.pr[2], v.reason) BY <1>4, <1>6, <1>7, Zenon
<1>9. AdmissionOK' /\ Becomes(w, v.st, v.pr[1], v.pr[2], v.reason, v.at)
  BY <1>1, <1>3, <1>4, <1>8, Moved DEF x
<1>10. Becomes(w, "pending", "none", "none", "", x.at) BY <1>4, <1>7, <1>9, Zenon
<1> QED BY <1>1, <1>5, <1>9, <1>10 DEF x

\* Its first process starts.
LEMMA LaunchMoves ==
    ASSUME AdmissionOK, NEW w \in WorkerIds, NEW config, LaunchWorker(w, config)
    PROVE  /\ AdmissionOK' /\ wk[w].st = "pending" /\ wk[w].pr[1] = "none" /\ wk[w].pr[2] = "none" /\ wk[w].reason = ""
           /\ Becomes(w, "running", "live", wk[w].pr[2], wk[w].reason, wk[w].at)
<1> DEFINE x == wk[w]
           u == [x.pr EXCEPT ![1] = "live"]
           v == [x EXCEPT !.st = "running", !.pr = u,
                           !.session = WorkerSession(x.want, x.type, config)]
<1>1. wk' = [wk EXCEPT ![w] = v] /\ phase = "run" /\ UNCHANGED <<scenario, phase, r, sub, now, peak>>
      /\ x.st = "pending"
  BY DEF LaunchWorker, Process, Running
<1>2. Entry(x, sub, now) BY EntryOf
<1>3. WorkerFields \subseteq DOMAIN x /\ DOMAIN x.pr = 1 .. 2 /\ Life(x.st, x.pr[1], x.pr[2], x.reason)
  BY <1>2 DEF Entry
<1> HIDE DEF x
<1>11. u[1] = "live" /\ u[2] = x.pr[2] /\ DOMAIN u = 1 .. 2 BY <1>3
<1> HIDE DEF u
<1>4. WorkerFields \subseteq DOMAIN v /\ v.st = "running" /\ v.layer = x.layer /\ v.type = x.type /\ v.pr = u
      /\ v.reason = x.reason /\ v.at = x.at
  BY <1>3 DEF WorkerFields
<1>5. x.st = "pending" /\ x.pr[1] = "none" /\ x.pr[2] = "none" /\ x.reason = "" BY <1>1, <1>3 DEF Life, WorkerStates, ProcessStates
<1>6. Life("running", "live", x.pr[2], x.reason) BY <1>1, <1>3, <1>5 DEF Life, WorkerStates, ProcessStates
<1> HIDE DEF v
<1>7. v.pr[1] = "live" /\ v.pr[2] = x.pr[2] /\ v.reason = x.reason /\ DOMAIN v.pr = 1 .. 2 BY <1>4, <1>5, <1>11
<1>8. Life(v.st, v.pr[1], v.pr[2], v.reason) BY <1>4, <1>6, <1>7, Zenon
<1>9. AdmissionOK' /\ Becomes(w, v.st, v.pr[1], v.pr[2], v.reason, v.at)
  BY <1>1, <1>3, <1>4, <1>7, <1>8, Moved DEF x
<1>10. Becomes(w, "running", "live", x.pr[2], x.reason, x.at) BY <1>4, <1>7, <1>9, Zenon
<1> QED BY <1>1, <1>5, <1>9, <1>10 DEF x

\* A reprompt ends the first process and owes a second.
LEMMA RepromptMoves ==
    ASSUME AdmissionOK, NEW w \in WorkerIds, RepromptWorker(w)
    PROVE  /\ AdmissionOK' /\ wk[w].st = "running" /\ wk[w].pr[1] = "live" /\ wk[w].pr[2] = "none" /\ wk[w].reason = ""
           /\ Becomes(w, wk[w].st, "exited", "next", wk[w].reason, wk[w].at)
<1> DEFINE x == wk[w]
           u == <<"exited", "next">>
           v == [x EXCEPT !.pr = u]
<1>1. wk' = [wk EXCEPT ![w] = v] /\ phase = "run" /\ UNCHANGED <<scenario, phase, r, sub, now, peak>>
      /\ x.st = "running" /\ x.pr[1] = "live" /\ x.pr[2] = "none"
  BY DEF RepromptWorker, Process, Running
<1>2. Entry(x, sub, now) BY EntryOf
<1>3. WorkerFields \subseteq DOMAIN x /\ DOMAIN x.pr = 1 .. 2 /\ Life(x.st, x.pr[1], x.pr[2], x.reason)
  BY <1>2 DEF Entry
<1> HIDE DEF x
<1>11. u[1] = "exited" /\ u[2] = "next" /\ DOMAIN u = 1 .. 2 BY <1>3
<1> HIDE DEF u
<1>4. WorkerFields \subseteq DOMAIN v /\ v.st = x.st /\ v.layer = x.layer /\ v.type = x.type /\ v.pr = u
      /\ v.reason = x.reason /\ v.at = x.at
  BY <1>3 DEF WorkerFields
<1>5. x.st = "running" /\ x.pr[1] = "live" /\ x.pr[2] = "none" /\ x.reason = "" BY <1>1, <1>3 DEF Life, WorkerStates, ProcessStates
<1>6. Life(x.st, "exited", "next", x.reason) BY <1>1, <1>3, <1>5 DEF Life, WorkerStates, ProcessStates
<1> HIDE DEF v
<1>7. v.pr[1] = "exited" /\ v.pr[2] = "next" /\ v.reason = x.reason /\ DOMAIN v.pr = 1 .. 2 BY <1>4, <1>5, <1>11
<1>8. Life(v.st, v.pr[1], v.pr[2], v.reason) BY <1>4, <1>6, <1>7, Zenon
<1>9. AdmissionOK' /\ Becomes(w, v.st, v.pr[1], v.pr[2], v.reason, v.at)
  BY <1>1, <1>3, <1>4, <1>7, <1>8, Moved DEF x
<1>10. Becomes(w, x.st, "exited", "next", x.reason, x.at) BY <1>4, <1>7, <1>9, Zenon
<1> QED BY <1>1, <1>5, <1>9, <1>10 DEF x

\* The second process starts.
LEMMA ResumeMoves ==
    ASSUME AdmissionOK, NEW w \in WorkerIds, NEW config, ResumeWorker(w, config)
    PROVE  /\ AdmissionOK' /\ wk[w].pr[2] = "next" /\ wk[w].reason = "" /\ wk[w].pr[1] \notin {"none", "live"}
           /\ Becomes(w, "running", wk[w].pr[1], "live", wk[w].reason, wk[w].at)
<1> DEFINE x == wk[w]
           u == [x.pr EXCEPT ![2] = "live"]
           v == [x EXCEPT !.st = "running", !.pr = u,
                           !.session = WorkerSession([x.want EXCEPT !.tools = RootLead.tools,
                               !.timeout = RootLead.timeout_secs], x.type, config)]
<1>1. wk' = [wk EXCEPT ![w] = v] /\ phase = "run" /\ UNCHANGED <<scenario, phase, r, sub, now, peak>>
      /\ x.pr[2] = "next"
  BY DEF ResumeWorker, Process, Running
<1>2. Entry(x, sub, now) BY EntryOf
<1>3. WorkerFields \subseteq DOMAIN x /\ DOMAIN x.pr = 1 .. 2 /\ Life(x.st, x.pr[1], x.pr[2], x.reason)
  BY <1>2 DEF Entry
<1> HIDE DEF x
<1>11. u[1] = x.pr[1] /\ u[2] = "live" /\ DOMAIN u = 1 .. 2 BY <1>3
<1> HIDE DEF u
<1>4. WorkerFields \subseteq DOMAIN v /\ v.st = "running" /\ v.layer = x.layer /\ v.type = x.type /\ v.pr = u
      /\ v.reason = x.reason /\ v.at = x.at
  BY <1>3 DEF WorkerFields
<1>5. x.pr[2] = "next" /\ x.reason = "" /\ x.pr[1] \notin {"none", "live"} BY <1>1, <1>3 DEF Life, WorkerStates, ProcessStates
<1>6. Life("running", x.pr[1], "live", x.reason) BY <1>1, <1>3, <1>5 DEF Life, WorkerStates, ProcessStates
<1> HIDE DEF v
<1>7. v.pr[1] = x.pr[1] /\ v.pr[2] = "live" /\ v.reason = x.reason /\ DOMAIN v.pr = 1 .. 2 BY <1>4, <1>5, <1>11
<1>8. Life(v.st, v.pr[1], v.pr[2], v.reason) BY <1>4, <1>6, <1>7, Zenon
<1>9. AdmissionOK' /\ Becomes(w, v.st, v.pr[1], v.pr[2], v.reason, v.at)
  BY <1>1, <1>3, <1>4, <1>7, <1>8, Moved DEF x
<1>10. Becomes(w, "running", x.pr[1], "live", x.reason, x.at) BY <1>4, <1>7, <1>9, Zenon
<1> QED BY <1>1, <1>5, <1>9, <1>10 DEF x

\* The second process does not start, its layer gone.
LEMMA ResumeFailsMoves ==
    ASSUME AdmissionOK, NEW w \in WorkerIds, ResumeFails(w)
    PROVE  /\ AdmissionOK' /\ wk[w].pr[2] = "next" /\ wk[w].reason = "" /\ wk[w].pr[1] \notin {"none", "live"}
           /\ Becomes(w, wk[w].st, wk[w].pr[1], "over", wk[w].reason, wk[w].at)
<1> DEFINE x == wk[w]
           u == [x.pr EXCEPT ![2] = "over"]
           v == [x EXCEPT !.pr = u]
<1>1. wk' = [wk EXCEPT ![w] = v] /\ phase = "run" /\ UNCHANGED <<scenario, phase, r, sub, now, peak>>
      /\ x.pr[2] = "next"
  BY DEF ResumeFails, Process, Running
<1>2. Entry(x, sub, now) BY EntryOf
<1>3. WorkerFields \subseteq DOMAIN x /\ DOMAIN x.pr = 1 .. 2 /\ Life(x.st, x.pr[1], x.pr[2], x.reason)
  BY <1>2 DEF Entry
<1> HIDE DEF x
<1>11. u[1] = x.pr[1] /\ u[2] = "over" /\ DOMAIN u = 1 .. 2 BY <1>3
<1> HIDE DEF u
<1>4. WorkerFields \subseteq DOMAIN v /\ v.st = x.st /\ v.layer = x.layer /\ v.type = x.type /\ v.pr = u
      /\ v.reason = x.reason /\ v.at = x.at
  BY <1>3 DEF WorkerFields
<1>5. x.pr[2] = "next" /\ x.reason = "" /\ x.pr[1] \notin {"none", "live"} BY <1>1, <1>3 DEF Life, WorkerStates, ProcessStates
<1>6. Life(x.st, x.pr[1], "over", x.reason) BY <1>1, <1>3, <1>5 DEF Life, WorkerStates, ProcessStates
<1> HIDE DEF v
<1>7. v.pr[1] = x.pr[1] /\ v.pr[2] = "over" /\ v.reason = x.reason /\ DOMAIN v.pr = 1 .. 2 BY <1>4, <1>5, <1>11
<1>8. Life(v.st, v.pr[1], v.pr[2], v.reason) BY <1>4, <1>6, <1>7, Zenon
<1>9. AdmissionOK' /\ Becomes(w, v.st, v.pr[1], v.pr[2], v.reason, v.at)
  BY <1>1, <1>3, <1>4, <1>7, <1>8, Moved DEF x
<1>10. Becomes(w, x.st, x.pr[1], "over", x.reason, x.at) BY <1>4, <1>7, <1>9, Zenon
<1> QED BY <1>1, <1>5, <1>9, <1>10 DEF x

\* The first process ends, with a reason.
LEMMA FirstExits ==
    ASSUME AdmissionOK, NEW w \in WorkerIds, NEW why, WorkerExits(w, why), wk[w].pr[2] = "none"
    PROVE  /\ AdmissionOK' /\ wk[w].pr[1] = "live" /\ wk[w].reason = ""
           /\ Becomes(w, wk[w].st, "exited", wk[w].pr[2], why, now)
<1> DEFINE x == wk[w]
           u == [x.pr EXCEPT ![1] = "exited"]
           v == [x EXCEPT !.pr = u, !.reason = why, !.at = now]
<1>1. wk' = [wk EXCEPT ![w] = v] /\ phase = "run" /\ UNCHANGED <<scenario, phase, r, sub, now, peak>>
      /\ x.pr[1] = "live"
  BY DEF WorkerExits, Live, Incarnation, Process, Running
<1>2. Entry(x, sub, now) BY EntryOf
<1>3. WorkerFields \subseteq DOMAIN x /\ DOMAIN x.pr = 1 .. 2 /\ Life(x.st, x.pr[1], x.pr[2], x.reason)
  BY <1>2 DEF Entry
<1> HIDE DEF x
<1>11. u[1] = "exited" /\ u[2] = x.pr[2] /\ DOMAIN u = 1 .. 2 BY <1>3
<1> HIDE DEF u
<1>4. WorkerFields \subseteq DOMAIN v /\ v.st = x.st /\ v.layer = x.layer /\ v.type = x.type /\ v.pr = u
      /\ v.reason = why /\ v.at = now
  BY <1>3 DEF WorkerFields
<1>5. x.pr[1] = "live" /\ x.reason = "" BY <1>1, <1>3 DEF Life, WorkerStates, ProcessStates
<1>6. Life(x.st, "exited", x.pr[2], why) BY <1>1, <1>3, <1>5 DEF Life, WorkerStates, ProcessStates
<1> HIDE DEF v
<1>7. v.pr[1] = "exited" /\ v.pr[2] = x.pr[2] /\ v.reason = why /\ DOMAIN v.pr = 1 .. 2 BY <1>4, <1>5, <1>11
<1>8. Life(v.st, v.pr[1], v.pr[2], v.reason) BY <1>4, <1>6, <1>7, Zenon
<1>9. AdmissionOK' /\ Becomes(w, v.st, v.pr[1], v.pr[2], v.reason, v.at)
  BY <1>1, <1>3, <1>4, <1>7, <1>8, Moved DEF x
<1>10. Becomes(w, x.st, "exited", x.pr[2], why, now) BY <1>4, <1>7, <1>9, Zenon
<1> QED BY <1>1, <1>5, <1>9, <1>10 DEF x

\* So does the second.
LEMMA SecondExits ==
    ASSUME AdmissionOK, NEW w \in WorkerIds, NEW why, WorkerExits(w, why), wk[w].pr[2] # "none"
    PROVE  /\ AdmissionOK' /\ wk[w].pr[2] = "live" /\ wk[w].reason = ""
           /\ Becomes(w, wk[w].st, wk[w].pr[1], "exited", why, now)
<1> DEFINE x == wk[w]
           u == [x.pr EXCEPT ![2] = "exited"]
           v == [x EXCEPT !.pr = u, !.reason = why, !.at = now]
<1>1. wk' = [wk EXCEPT ![w] = v] /\ phase = "run" /\ UNCHANGED <<scenario, phase, r, sub, now, peak>>
      /\ x.pr[2] = "live"
  BY DEF WorkerExits, Live, Incarnation, Process, Running
<1>2. Entry(x, sub, now) BY EntryOf
<1>3. WorkerFields \subseteq DOMAIN x /\ DOMAIN x.pr = 1 .. 2 /\ Life(x.st, x.pr[1], x.pr[2], x.reason)
  BY <1>2 DEF Entry
<1> HIDE DEF x
<1>11. u[1] = x.pr[1] /\ u[2] = "exited" /\ DOMAIN u = 1 .. 2 BY <1>3
<1> HIDE DEF u
<1>4. WorkerFields \subseteq DOMAIN v /\ v.st = x.st /\ v.layer = x.layer /\ v.type = x.type /\ v.pr = u
      /\ v.reason = why /\ v.at = now
  BY <1>3 DEF WorkerFields
<1>5. x.pr[2] = "live" /\ x.reason = "" BY <1>1, <1>3 DEF Life, WorkerStates, ProcessStates
<1>6. Life(x.st, x.pr[1], "exited", why) BY <1>1, <1>3, <1>5 DEF Life, WorkerStates, ProcessStates
<1> HIDE DEF v
<1>7. v.pr[1] = x.pr[1] /\ v.pr[2] = "exited" /\ v.reason = why /\ DOMAIN v.pr = 1 .. 2 BY <1>4, <1>5, <1>11
<1>8. Life(v.st, v.pr[1], v.pr[2], v.reason) BY <1>4, <1>6, <1>7, Zenon
<1>9. AdmissionOK' /\ Becomes(w, v.st, v.pr[1], v.pr[2], v.reason, v.at)
  BY <1>1, <1>3, <1>4, <1>7, <1>8, Moved DEF x
<1>10. Becomes(w, x.st, x.pr[1], "exited", why, now) BY <1>4, <1>7, <1>9, Zenon
<1> QED BY <1>1, <1>5, <1>9, <1>10 DEF x

\* The tail of the first process records the failure.
LEMMA FirstIsRecorded ==
    ASSUME AdmissionOK, NEW w \in WorkerIds, RecordFailure(w, 1)
    PROVE  /\ AdmissionOK' /\ wk[w].pr[1] = "exited"
           /\ Becomes(w, wk[w].st, "recorded", wk[w].pr[2], wk[w].reason, wk[w].at)
<1> DEFINE x == wk[w]
           u == [x.pr EXCEPT ![1] = "recorded"]
           v == [x EXCEPT !.pr = u]
<1>1. wk' = [wk EXCEPT ![w] = v] /\ phase = "run" /\ UNCHANGED <<scenario, phase, r, sub, now, peak>>
      /\ x.pr[1] = "exited"
  BY DEF RecordFailure, Process, Running
<1>2. Entry(x, sub, now) BY EntryOf
<1>3. WorkerFields \subseteq DOMAIN x /\ DOMAIN x.pr = 1 .. 2 /\ Life(x.st, x.pr[1], x.pr[2], x.reason)
  BY <1>2 DEF Entry
<1> HIDE DEF x
<1>11. u[1] = "recorded" /\ u[2] = x.pr[2] /\ DOMAIN u = 1 .. 2 BY <1>3
<1> HIDE DEF u
<1>4. WorkerFields \subseteq DOMAIN v /\ v.st = x.st /\ v.layer = x.layer /\ v.type = x.type /\ v.pr = u
      /\ v.reason = x.reason /\ v.at = x.at
  BY <1>3 DEF WorkerFields
<1>5. x.pr[1] = "exited" BY <1>1, <1>3 DEF Life, WorkerStates, ProcessStates
<1>6. Life(x.st, "recorded", x.pr[2], x.reason) BY <1>1, <1>3, <1>5 DEF Life, WorkerStates, ProcessStates
<1> HIDE DEF v
<1>7. v.pr[1] = "recorded" /\ v.pr[2] = x.pr[2] /\ v.reason = x.reason /\ DOMAIN v.pr = 1 .. 2 BY <1>4, <1>5, <1>11
<1>8. Life(v.st, v.pr[1], v.pr[2], v.reason) BY <1>4, <1>6, <1>7, Zenon
<1>9. AdmissionOK' /\ Becomes(w, v.st, v.pr[1], v.pr[2], v.reason, v.at)
  BY <1>1, <1>3, <1>4, <1>7, <1>8, Moved DEF x
<1>10. Becomes(w, x.st, "recorded", x.pr[2], x.reason, x.at) BY <1>4, <1>7, <1>9, Zenon
<1> QED BY <1>1, <1>5, <1>9, <1>10 DEF x

\* The tail of the second does.
LEMMA SecondIsRecorded ==
    ASSUME AdmissionOK, NEW w \in WorkerIds, RecordFailure(w, 2)
    PROVE  /\ AdmissionOK' /\ wk[w].pr[2] = "exited" /\ wk[w].pr[1] \notin {"none", "live"}
           /\ Becomes(w, wk[w].st, wk[w].pr[1], "recorded", wk[w].reason, wk[w].at)
<1> DEFINE x == wk[w]
           u == [x.pr EXCEPT ![2] = "recorded"]
           v == [x EXCEPT !.pr = u]
<1>1. wk' = [wk EXCEPT ![w] = v] /\ phase = "run" /\ UNCHANGED <<scenario, phase, r, sub, now, peak>>
      /\ x.pr[2] = "exited"
  BY DEF RecordFailure, Process, Running
<1>2. Entry(x, sub, now) BY EntryOf
<1>3. WorkerFields \subseteq DOMAIN x /\ DOMAIN x.pr = 1 .. 2 /\ Life(x.st, x.pr[1], x.pr[2], x.reason)
  BY <1>2 DEF Entry
<1> HIDE DEF x
<1>11. u[1] = x.pr[1] /\ u[2] = "recorded" /\ DOMAIN u = 1 .. 2 BY <1>3
<1> HIDE DEF u
<1>4. WorkerFields \subseteq DOMAIN v /\ v.st = x.st /\ v.layer = x.layer /\ v.type = x.type /\ v.pr = u
      /\ v.reason = x.reason /\ v.at = x.at
  BY <1>3 DEF WorkerFields
<1>5. x.pr[2] = "exited" /\ x.pr[1] \notin {"none", "live"} BY <1>1, <1>3 DEF Life, WorkerStates, ProcessStates
<1>6. Life(x.st, x.pr[1], "recorded", x.reason) BY <1>1, <1>3, <1>5 DEF Life, WorkerStates, ProcessStates
<1> HIDE DEF v
<1>7. v.pr[1] = x.pr[1] /\ v.pr[2] = "recorded" /\ v.reason = x.reason /\ DOMAIN v.pr = 1 .. 2 BY <1>4, <1>5, <1>11
<1>8. Life(v.st, v.pr[1], v.pr[2], v.reason) BY <1>4, <1>6, <1>7, Zenon
<1>9. AdmissionOK' /\ Becomes(w, v.st, v.pr[1], v.pr[2], v.reason, v.at)
  BY <1>1, <1>3, <1>4, <1>7, <1>8, Moved DEF x
<1>10. Becomes(w, x.st, x.pr[1], "recorded", x.reason, x.at) BY <1>4, <1>7, <1>9, Zenon
<1> QED BY <1>1, <1>5, <1>9, <1>10 DEF x

\* The tail of the first process ends.
LEMMA FirstIsDone ==
    ASSUME AdmissionOK, NEW w \in WorkerIds, FinishWorker(w, 1)
    PROVE  /\ AdmissionOK' /\ wk[w].pr[1] = "recorded"
           /\ Becomes(w, "done", "over", wk[w].pr[2], wk[w].reason, wk[w].at)
<1> DEFINE x == wk[w]
           u == [x.pr EXCEPT ![1] = "over"]
           v == [x EXCEPT !.pr = u, !.st = "done"]
<1>1. wk' = [wk EXCEPT ![w] = v] /\ phase = "run" /\ UNCHANGED <<scenario, phase, r, sub, now, peak>>
      /\ x.pr[1] = "recorded"
  BY DEF FinishWorker, Process, Running
<1>2. Entry(x, sub, now) BY EntryOf
<1>3. WorkerFields \subseteq DOMAIN x /\ DOMAIN x.pr = 1 .. 2 /\ Life(x.st, x.pr[1], x.pr[2], x.reason)
  BY <1>2 DEF Entry
<1> HIDE DEF x
<1>11. u[1] = "over" /\ u[2] = x.pr[2] /\ DOMAIN u = 1 .. 2 BY <1>3
<1> HIDE DEF u
<1>4. WorkerFields \subseteq DOMAIN v /\ v.st = "done" /\ v.layer = x.layer /\ v.type = x.type /\ v.pr = u
      /\ v.reason = x.reason /\ v.at = x.at
  BY <1>3 DEF WorkerFields
<1>5. x.pr[1] = "recorded" BY <1>1, <1>3 DEF Life, WorkerStates, ProcessStates
<1>6. Life("done", "over", x.pr[2], x.reason) BY <1>1, <1>3, <1>5 DEF Life, WorkerStates, ProcessStates
<1> HIDE DEF v
<1>7. v.pr[1] = "over" /\ v.pr[2] = x.pr[2] /\ v.reason = x.reason /\ DOMAIN v.pr = 1 .. 2 BY <1>4, <1>5, <1>11
<1>8. Life(v.st, v.pr[1], v.pr[2], v.reason) BY <1>4, <1>6, <1>7, Zenon
<1>9. AdmissionOK' /\ Becomes(w, v.st, v.pr[1], v.pr[2], v.reason, v.at)
  BY <1>1, <1>3, <1>4, <1>7, <1>8, Moved DEF x
<1>10. Becomes(w, "done", "over", x.pr[2], x.reason, x.at) BY <1>4, <1>7, <1>9, Zenon
<1> QED BY <1>1, <1>5, <1>9, <1>10 DEF x

\* The tail of the second ends.
LEMMA SecondIsDone ==
    ASSUME AdmissionOK, NEW w \in WorkerIds, FinishWorker(w, 2)
    PROVE  /\ AdmissionOK' /\ wk[w].pr[2] = "recorded" /\ wk[w].pr[1] \notin {"none", "live"}
           /\ Becomes(w, "done", wk[w].pr[1], "over", wk[w].reason, wk[w].at)
<1> DEFINE x == wk[w]
           u == [x.pr EXCEPT ![2] = "over"]
           v == [x EXCEPT !.pr = u, !.st = "done"]
<1>1. wk' = [wk EXCEPT ![w] = v] /\ phase = "run" /\ UNCHANGED <<scenario, phase, r, sub, now, peak>>
      /\ x.pr[2] = "recorded"
  BY DEF FinishWorker, Process, Running
<1>2. Entry(x, sub, now) BY EntryOf
<1>3. WorkerFields \subseteq DOMAIN x /\ DOMAIN x.pr = 1 .. 2 /\ Life(x.st, x.pr[1], x.pr[2], x.reason)
  BY <1>2 DEF Entry
<1> HIDE DEF x
<1>11. u[1] = x.pr[1] /\ u[2] = "over" /\ DOMAIN u = 1 .. 2 BY <1>3
<1> HIDE DEF u
<1>4. WorkerFields \subseteq DOMAIN v /\ v.st = "done" /\ v.layer = x.layer /\ v.type = x.type /\ v.pr = u
      /\ v.reason = x.reason /\ v.at = x.at
  BY <1>3 DEF WorkerFields
<1>5. x.pr[2] = "recorded" /\ x.pr[1] \notin {"none", "live"} BY <1>1, <1>3 DEF Life, WorkerStates, ProcessStates
<1>6. Life("done", x.pr[1], "over", x.reason) BY <1>1, <1>3, <1>5 DEF Life, WorkerStates, ProcessStates
<1> HIDE DEF v
<1>7. v.pr[1] = x.pr[1] /\ v.pr[2] = "over" /\ v.reason = x.reason /\ DOMAIN v.pr = 1 .. 2 BY <1>4, <1>5, <1>11
<1>8. Life(v.st, v.pr[1], v.pr[2], v.reason) BY <1>4, <1>6, <1>7, Zenon
<1>9. AdmissionOK' /\ Becomes(w, v.st, v.pr[1], v.pr[2], v.reason, v.at)
  BY <1>1, <1>3, <1>4, <1>7, <1>8, Moved DEF x
<1>10. Becomes(w, "done", x.pr[1], "over", x.reason, x.at) BY <1>4, <1>7, <1>9, Zenon
<1> QED BY <1>1, <1>5, <1>9, <1>10 DEF x

\* The budget refuses a worker, whose id is as if never drawn.
LEMMA RefusedMoves ==
    ASSUME AdmissionOK, NEW w \in WorkerIds, SpawnWorkerRefused(w)
    PROVE  /\ AdmissionOK' /\ wk[w].st = "checked" /\ wk'[w] = NoWorker
           /\ \A x \in WorkerIds : x # w => wk'[x] = wk[x]
<1>1. wk' = [wk EXCEPT ![w] = NoWorker] /\ phase = "run" /\ UNCHANGED <<scenario, phase, r, sub, now, peak>>
      /\ wk[w].st = "checked"
  BY DEF SpawnWorkerRefused, Running
<1>2. Life("none", "none", "none", "") BY DEF Life, WorkerStates, ProcessStates
<1>3. Life(NoWorker.st, NoWorker.pr[1], NoWorker.pr[2], NoWorker.reason) BY <1>2, NoWorkerIs, Zenon
<1>4. NoWorker.at = 0 /\ now \in Nat /\ peak' \in [SpawnLayers \cup {"subleads"} -> Nat]
  BY <1>1, NoWorkerIs DEF AdmissionOK
<1>5. NoWorker.at \in Nat /\ NoWorker.at <= now BY <1>4
<1>6. WorkerFields \subseteq DOMAIN NoWorker /\ DOMAIN NoWorker.pr = 1 .. 2 /\ NoWorker.layer = "root" BY NoWorkerIs
<1>7. Entry(NoWorker, sub, now) BY <1>3, <1>5, <1>6 DEF Entry, SpawnLayers
<1>8. AdmissionOK' BY <1>1, <1>4, <1>7, OneWorker
<1>9. wk'[w] = NoWorker /\ \A x \in WorkerIds : x # w => wk'[x] = wk[x] BY <1>1 DEF AdmissionOK
<1> QED BY <1>1, <1>8, <1>9

\* A step of one sub-lead: those its workers' layers name stay live or gone.
LEMMA OneSub ==
    ASSUME AdmissionOK, NEW s \in Subs, NEW v, sub' = [sub EXCEPT ![s] = v], phase = "run",
           UNCHANGED <<scenario, phase, r, wk, now>>,
           peak' \in [SpawnLayers \cup {"subleads"} -> Nat],
           SubFields \subseteq DOMAIN v, v.st \in SubStates, v.max_workers \subseteq Nat,
           sub[s].st \in {"live", "gone"} => v.st \in {"live", "gone"}
    PROVE  AdmissionOK' /\ sub'[s] = v /\ \A t \in Subs : t # s => sub'[t] = sub[t]
<1>1. DOMAIN sub' = Subs /\ sub'[s] = v /\ \A t \in Subs : t # s => sub'[t] = sub[t] BY DEF AdmissionOK
<1>2. ASSUME NEW t \in Subs PROVE SubInv(t)'
  <2>1. CASE t = s BY <2>1, <1>1 DEF SubInv, SubFields, SubStates
  <2>2. CASE t # s BY <2>2, <1>1 DEF AdmissionOK, SubInv
  <2> QED BY <2>1, <2>2
<1>3. ASSUME NEW w \in WorkerIds PROVE WorkerInv(w)'
  <2> DEFINE l == wk[w].layer
  <2>1. Entry(wk[w], sub, now) BY EntryOf
  <2>2. l \in SpawnLayers /\ (l # "root" => sub[l].st \in {"live", "gone"}) BY <2>1 DEF Entry
  <2> HIDE DEF l
  <2>3. l # "root" => sub'[l].st \in {"live", "gone"} BY <2>2, <1>1 DEF SpawnLayers
  <2>4. Entry(wk[w], sub', now) BY <2>1, <2>3 DEF Entry, l
  <2> QED BY <2>4 DEF WorkerInv
<1>4. LoadedInv' BY DEF AdmissionOK, LoadedInv, RootLead
<1>5. scenario' \in AdmissionScenarios /\ now' \in Nat /\ DOMAIN wk' = WorkerIds BY DEF AdmissionOK
<1> QED BY <1>1, <1>2, <1>3, <1>4, <1>5 DEF AdmissionOK

\* The fields of a sub-lead that was not spawned.
LEMMA NoSubIs == SubFields \subseteq DOMAIN NoSub
BY DEF NoSub, SubFields

\* An envelope limits workers by a number, and one of its own has a budget.
LEMMA EnvelopeIs ==
    ASSUME AdmissionOK, Running, NEW args \in scenario.subspawns, NEW type, NEW e \in Envelope(args, type)
    PROVE  e.max_workers \subseteq Nat /\ (~ e.shared => e.budget # {})
<1> DEFINE budget == Or(TypedBudget(type, args.budget), SubDefault("budget_usd"))
           max == Or(args.max_workers, SubDefault("max_workers"))
           timeout == Or(TypedTimeout(type, args.timeout), SubDefault("lead_timeout_secs"))
           a == [shared |-> TRUE, budget |-> r.budget_usd, max_workers |-> r.max_workers,
                 timeout |-> The(Or(r.lead_timeout_secs, {DEFAULT_LEAD_TIMEOUT}))]
           b(x, n) == [shared |-> FALSE, budget |-> {x}, max_workers |-> {n},
                       timeout |-> The(Or(timeout, {DEFAULT_LEAD_TIMEOUT}))]
<1>1. r.max_workers \subseteq Nat /\ \A d \in RootLead.sublead_defaults : d.max_workers \subseteq Nat
  BY DEF AdmissionOK, LoadedInv, Running
<1>2. args.max_workers \subseteq Nat BY AdmissionScenariosAssumption DEF AdmissionOK
<1>3. max \subseteq Nat BY <1>1, <1>2 DEF Or, SubDefault
<1>4. e = a \/ \E x \in budget, n \in max : e = b(x, n) BY DEF Envelope
<1>5. CASE e = a BY <1>5, <1>1
<1>6. CASE \E x \in budget, n \in max : e = b(x, n)
  <2>1. PICK x \in budget, n \in max : e = b(x, n) BY <1>6
  <2>2. e.max_workers = {n} /\ e.budget = {x} BY <2>1
  <2> QED BY <2>2, <1>3
<1> QED BY <1>4, <1>5, <1>6

\* spawn_sublead past its gates: with a budget of its own it was counted against the cap.
LEMMA SubCheckMoves ==
    ASSUME AdmissionOK, NEW s \in scenario.subs, NEW args \in scenario.subspawns, SpawnSubleadCheck(s, args)
    PROVE  /\ s \in Subs /\ AdmissionOK' /\ sub[s].st = "none" /\ sub'[s].st = "checked"
           /\ sub'[s].budget # {} =>
                 \A cap \in RootLead.max_subleads : Cardinality(Registered) + 1 <= cap
           /\ peak' = [peak EXCEPT !["subleads"] = Max({@, SubCalls + 1})] /\ SubCalls \in Nat
           /\ \A t \in Subs : t # s => sub'[t] = sub[t]
<1> DEFINE type == TypeNamed(r.sublead_types, args.type)
           V(e) == [NoSub EXCEPT !.st = "checked", !.type = args.type, !.max_workers = e.max_workers,
                          !.budget = IF e.shared THEN {} ELSE e.budget, !.timeout = e.timeout,
                          !.want = [NoSession EXCEPT
                              !.tools = IF args.tools = {} THEN UNION {t.tools : t \in type} ELSE args.tools,
                              !.model = args.model, !.timeout = e.timeout, !.env = args.env]]
<1>1. s \in Subs BY AdmissionScenariosAssumption DEF AdmissionOK
<1>2. phase = "run" /\ UNCHANGED <<scenario, phase, r, wk, now>> /\ sub[s].st = "none" /\ Running
      /\ peak' = [peak EXCEPT !["subleads"] = Max({@, SubCalls + 1})]
  BY DEF SpawnSubleadCheck, Running
<1>3. PICK e \in Envelope(args, type) : (e.shared \/ EnvelopeFits(e)) /\ sub' = [sub EXCEPT ![s] = V(e)]
  BY DEF SpawnSubleadCheck
<1>4. e.max_workers \subseteq Nat /\ (~ e.shared => e.budget # {}) BY <1>2, EnvelopeIs
<1> DEFINE v == V(e)
<1>5. SubFields \subseteq DOMAIN v /\ v.st = "checked" /\ v.max_workers = e.max_workers
      /\ v.budget = (IF e.shared THEN {} ELSE e.budget)
  BY NoSubIs DEF SubFields
<1>6. sub' = [sub EXCEPT ![s] = v] BY <1>3
<1> HIDE DEF v, V
<1>7. IsFiniteSet({t \in Subs : sub[t].st = "checked"}) BY IdsAssumption, FS_Subset
<1>8. SubCalls \in Nat BY <1>7, FS_CardinalityType DEF SubCalls
<1>9. peak["subleads"] \in Nat /\ SubCalls + 1 \in Nat BY <1>8 DEF AdmissionOK
<1>10. Max({peak["subleads"], SubCalls + 1}) \in Nat BY <1>9, MaxIsNat
<1>11. peak' \in [SpawnLayers \cup {"subleads"} -> Nat] BY <1>2, <1>10 DEF AdmissionOK
<1>12. v.st \in SubStates /\ v.max_workers \subseteq Nat BY <1>4, <1>5 DEF SubStates
<1>13. AdmissionOK' /\ sub'[s] = v /\ \A t \in Subs : t # s => sub'[t] = sub[t]
  BY <1>1, <1>2, <1>5, <1>6, <1>11, <1>12, OneSub
<1>14. ASSUME v.budget # {} PROVE \A cap \in RootLead.max_subleads : Cardinality(Registered) + 1 <= cap
  BY <1>3, <1>5, <1>14 DEF EnvelopeFits
<1> QED BY <1>1, <1>2, <1>5, <1>8, <1>13, <1>14

\* The later steps of a sub-lead change its state, and the session it is given.
SubBecomes(s, state) ==
    /\ sub'[s].st = state /\ sub'[s].type = sub[s].type /\ sub'[s].budget = sub[s].budget
    /\ sub'[s].max_workers = sub[s].max_workers
    /\ \A t \in Subs : t # s => sub'[t] = sub[t]

\* A step that leaves a sub-lead its type and its envelope.
LEMMA SubMoved ==
    ASSUME AdmissionOK, NEW s \in Subs, NEW v, sub' = [sub EXCEPT ![s] = v], phase = "run",
           UNCHANGED <<scenario, phase, r, wk, now, peak>>,
           SubFields \subseteq DOMAIN v, v.st \in SubStates, v.max_workers = sub[s].max_workers,
           v.type = sub[s].type, v.budget = sub[s].budget,
           sub[s].st \in {"live", "gone"} => v.st \in {"live", "gone"}
    PROVE  AdmissionOK' /\ SubBecomes(s, v.st)
<1>1. peak' \in [SpawnLayers \cup {"subleads"} -> Nat] /\ v.max_workers \subseteq Nat BY DEF AdmissionOK, SubInv
<1>2. AdmissionOK' /\ sub'[s] = v /\ \A t \in Subs : t # s => sub'[t] = sub[t] BY <1>1, OneSub
<1> QED BY <1>2 DEF SubBecomes

\* The sub-lead is registered and launched.
LEMMA SubInsertMoves ==
    ASSUME AdmissionOK, NEW s \in Subs, SpawnSubleadInsert(s)
    PROVE  AdmissionOK' /\ sub[s].st = "checked" /\ SubBecomes(s, "live")
<1> DEFINE v == [sub[s] EXCEPT !.st = "live", !.session = SubleadSession(sub[s].want, sub[s].type)]
<1>1. sub' = [sub EXCEPT ![s] = v] /\ phase = "run" /\ UNCHANGED <<scenario, phase, r, wk, now, peak>>
      /\ sub[s].st = "checked"
  BY DEF SpawnSubleadInsert, Running
<1>2. SubFields \subseteq DOMAIN sub[s] BY DEF AdmissionOK, SubInv, SubFields
<1>3. SubFields \subseteq DOMAIN v /\ v.st = "live" /\ v.type = sub[s].type /\ v.budget = sub[s].budget
      /\ v.max_workers = sub[s].max_workers
  BY <1>2 DEF SubFields
<1> HIDE DEF v
<1>4. v.st \in SubStates BY <1>3 DEF SubStates
<1>5. AdmissionOK' /\ SubBecomes(s, v.st) BY <1>1, <1>3, <1>4, SubMoved
<1> QED BY <1>1, <1>3, <1>5

\* Its configuration cannot be written.
LEMMA SubFailsMoves ==
    ASSUME AdmissionOK, NEW s \in Subs, SpawnSubleadFails(s)
    PROVE  AdmissionOK' /\ sub[s].st = "checked" /\ SubBecomes(s, "orphan")
<1> DEFINE v == [sub[s] EXCEPT !.st = "orphan"]
<1>1. sub' = [sub EXCEPT ![s] = v] /\ phase = "run" /\ UNCHANGED <<scenario, phase, r, wk, now, peak>>
      /\ sub[s].st = "checked"
  BY DEF SpawnSubleadFails, Running
<1>2. SubFields \subseteq DOMAIN sub[s] BY DEF AdmissionOK, SubInv, SubFields
<1>3. SubFields \subseteq DOMAIN v /\ v.st = "orphan" /\ v.type = sub[s].type /\ v.budget = sub[s].budget
      /\ v.max_workers = sub[s].max_workers
  BY <1>2 DEF SubFields
<1> HIDE DEF v
<1>4. v.st \in SubStates BY <1>3 DEF SubStates
<1>5. AdmissionOK' /\ SubBecomes(s, v.st) BY <1>1, <1>3, <1>4, SubMoved
<1> QED BY <1>1, <1>3, <1>5

\* The sub-lead ends.
LEMMA SubEndsMoves ==
    ASSUME AdmissionOK, NEW s \in Subs, SubleadEnds(s)
    PROVE  AdmissionOK' /\ sub[s].st = "live" /\ SubBecomes(s, "gone")
<1> DEFINE v == [sub[s] EXCEPT !.st = "gone"]
<1>1. sub' = [sub EXCEPT ![s] = v] /\ phase = "run" /\ UNCHANGED <<scenario, phase, r, wk, now, peak>>
      /\ sub[s].st = "live"
  BY DEF SubleadEnds, Running
<1>2. SubFields \subseteq DOMAIN sub[s] BY DEF AdmissionOK, SubInv, SubFields
<1>3. SubFields \subseteq DOMAIN v /\ v.st = "gone" /\ v.type = sub[s].type /\ v.budget = sub[s].budget
      /\ v.max_workers = sub[s].max_workers
  BY <1>2 DEF SubFields
<1> HIDE DEF v
<1>4. v.st \in SubStates BY <1>3 DEF SubStates
<1>5. AdmissionOK' /\ SubBecomes(s, v.st) BY <1>1, <1>3, <1>4, SubMoved
<1> QED BY <1>1, <1>3, <1>5

\* The manifest is loaded, or refused.
LEMMA LoadMoves ==
    ASSUME AdmissionOK, Load
    PROVE  AdmissionOK' /\ phase = "file" /\ UNCHANGED <<wk, sub, layerIndex, health, now, ask, said, peak>>
<1>1. /\ phase = "file" /\ UNCHANGED <<wk, sub, layerIndex, health, now, ask, said, peak>> /\ UNCHANGED scenario
      /\ \E m \in scenario.files : (phase' = "run" /\ r' = Resolve(m)) \/ (phase' = "refused" /\ r' = r)
  BY DEF Load
<1>2. PICK m \in scenario.files : (phase' = "run" /\ r' = Resolve(m)) \/ (phase' = "refused" /\ r' = r)
  BY <1>1
<1>3. ASSUME phase' = "run"
      PROVE  /\ r'.max_workers \subseteq Nat
             /\ r'.lead # {} => /\ The(r'.lead).max_subleads \subseteq Nat
                                /\ \A d \in The(r'.lead).sublead_defaults : d.max_workers \subseteq Nat
  <2>1. r' = Resolve(m) BY <1>2, <1>3
  <2>2. scenario \in AdmissionScenarios BY DEF AdmissionOK
  <2> QED BY <2>1, <2>2, ResolvedLimits
<1>4. LoadedInv' BY <1>1, <1>2, <1>3 DEF AdmissionOK, LoadedInv, RootLead
<1>5. ASSUME NEW w \in WorkerIds PROVE WorkerInv(w)' BY <1>1 DEF AdmissionOK, WorkerInv
<1>6. ASSUME NEW s \in Subs PROVE SubInv(s)' BY <1>1 DEF AdmissionOK, SubInv
<1> QED BY <1>1, <1>4, <1>5, <1>6 DEF AdmissionOK

\* Time passes.
LEMMA TickMoves == ASSUME AdmissionOK, Tick PROVE AdmissionOK'
<1>1. now' = now + 1 /\ UNCHANGED <<scenario, phase, r, wk, sub, peak>> /\ now \in Nat BY DEF Tick, AdmissionOK
<1>2. ASSUME NEW w \in WorkerIds PROVE WorkerInv(w)'
  <2>1. Entry(wk[w], sub, now) BY EntryOf
  <2> DEFINE n == wk[w].at
  <2>2. n \in Nat /\ n <= now BY <2>1 DEF Entry
  <2> HIDE DEF n
  <2>3. n <= now + 1 BY <2>2, <1>1
  <2>4. Entry(wk[w], sub, now + 1) BY <2>1, <2>3 DEF Entry, n
  <2> QED BY <2>4, <1>1 DEF WorkerInv
<1>3. ASSUME NEW s \in Subs PROVE SubInv(s)' BY <1>1 DEF AdmissionOK, SubInv
<1>4. LoadedInv' BY <1>1 DEF AdmissionOK, LoadedInv, RootLead
<1> QED BY <1>1, <1>2, <1>3, <1>4 DEF AdmissionOK

\* Steps that change no actor.
LEMMA QuietMoves ==
    ASSUME AdmissionOK, UNCHANGED <<scenario, phase, r, wk, sub, now, peak>> PROVE AdmissionOK'
<1>1. ASSUME NEW w \in WorkerIds PROVE WorkerInv(w)' BY DEF AdmissionOK, WorkerInv
<1>2. ASSUME NEW s \in Subs PROVE SubInv(s)' BY DEF AdmissionOK, SubInv
<1>3. LoadedInv' BY DEF AdmissionOK, LoadedInv, RootLead
<1> QED BY <1>1, <1>2, <1>3 DEF AdmissionOK

-----------------------------------------------------------------------------
(* The caps *)

\* A part of a finite set has no more members.
LEMMA Smaller ==
    ASSUME NEW A, NEW B, IsFiniteSet(B), A \subseteq B
    PROVE  Cardinality(A) \in Nat /\ Cardinality(B) \in Nat /\ Cardinality(A) <= Cardinality(B) /\ IsFiniteSet(A)
BY FS_Subset, FS_CardinalityType

\* Nobody takes a place, and no limit changes.
LEMMA CapsKept ==
    ASSUME AdmissionOK, CapInv, phase = "run", UNCHANGED <<phase, r>>,
           \A l \in SpawnLayers : MaxWorkers(l)' = MaxWorkers(l) /\ Placed(l)' \subseteq Placed(l) /\ peak'[l] = peak[l],
           PlacedSubs' \subseteq PlacedSubs, peak'["subleads"] = peak["subleads"]
    PROVE  CapInv'
<1>1. ASSUME NEW l \in SpawnLayers, NEW cap \in MaxWorkers(l)
      PROVE  Cardinality(Placed(l)') <= cap + Max({peak'[l] - 1, 0})
  <2> DEFINE a == Cardinality(Placed(l)')
             b == Cardinality(Placed(l))
             m == Max({peak[l] - 1, 0})
  <2>1. IsFiniteSet(Placed(l)) BY IdsAssumption, FS_Subset DEF Placed
  <2>2. a \in Nat /\ b \in Nat /\ a <= b BY <2>1, Smaller
  <2>3. b <= cap + m BY DEF CapInv
  <2>4. cap \in Nat BY DEF MaxWorkers, AdmissionOK, LoadedInv, SubInv, SpawnLayers
  <2>5. peak[l] \in Nat BY DEF AdmissionOK
  <2>6. m \in Nat BY <2>5, Slack
  <2>7. peak'[l] = peak[l] OBVIOUS
  <2> HIDE DEF a, b, m
  <2>8. a <= cap + m BY <2>2, <2>3, <2>4, <2>6
  <2> QED BY <2>8, <2>7 DEF a, m
<1>2. ASSUME r.lead # {}, NEW cap \in RootLead.max_subleads
      PROVE  Cardinality(PlacedSubs') <= cap + Max({peak'["subleads"] - 1, 0})
  <2> DEFINE a == Cardinality(PlacedSubs')
             b == Cardinality(PlacedSubs)
             m == Max({peak["subleads"] - 1, 0})
  <2>1. IsFiniteSet(PlacedSubs) BY IdsAssumption, FS_Subset DEF PlacedSubs
  <2>2. a \in Nat /\ b \in Nat /\ a <= b BY <2>1, Smaller
  <2>3. b <= cap + m BY <1>2 DEF CapInv
  <2>4. cap \in Nat BY <1>2 DEF AdmissionOK, LoadedInv
  <2>5. peak["subleads"] \in Nat BY DEF AdmissionOK
  <2>6. m \in Nat BY <2>5, Slack
  <2> HIDE DEF a, b, m
  <2>8. a <= cap + m BY <2>2, <2>3, <2>4, <2>6
  <2> QED BY <2>8 DEF a, m
<1> QED BY <1>1, <1>2 DEF CapInv, RootLead

\* A step of a worker that has its place already, or gives it up.
LEMMA WorkerCaps ==
    ASSUME AdmissionOK, CapInv, phase = "run", UNCHANGED <<phase, r, sub, peak>>, NEW w \in WorkerIds,
           NEW state, NEW p, NEW q, NEW why, NEW at, Becomes(w, state, p, q, why, at), state # "checked",
           state \in {"pending", "running"} /\ q = "none" =>
              \/ wk[w].st = "checked"
              \/ wk[w].st \in {"pending", "running"} /\ wk[w].pr[2] = "none"
    PROVE  CapInv'
<1>1. ASSUME NEW l \in SpawnLayers
      PROVE  MaxWorkers(l)' = MaxWorkers(l) /\ Placed(l)' \subseteq Placed(l) /\ peak'[l] = peak[l]
  BY DEF Becomes, Placed, MaxWorkers
<1>2. PlacedSubs' = PlacedSubs BY DEF PlacedSubs
<1> QED BY <1>1, <1>2, CapsKept

\* Cardinalities of a union, and of a set with one more.
LEMMA Together ==
    ASSUME NEW A, NEW B, IsFiniteSet(A), IsFiniteSet(B), NEW C, C \subseteq A \cup B, NEW x
    PROVE  /\ Cardinality(A) \in Nat /\ Cardinality(B) \in Nat
           /\ Cardinality(C) \in Nat /\ Cardinality(C) <= Cardinality(A) + Cardinality(B)
           /\ Cardinality(C \cup {x}) \in Nat /\ Cardinality(C \cup {x}) <= Cardinality(C) + 1
<1> DEFINE a == Cardinality(A)
           b == Cardinality(B)
           c == Cardinality(C)
           u == Cardinality(A \cup B)
           i == Cardinality(A \cap B)
<1>1. IsFiniteSet(A \cup B) /\ u = a + b - i BY FS_Union
<1>2. a \in Nat /\ b \in Nat BY FS_CardinalityType
<1>3. IsFiniteSet(A \cap B) BY FS_Subset
<1>4. i \in Nat BY <1>3, FS_CardinalityType
<1>5. c \in Nat /\ u \in Nat /\ c <= u /\ IsFiniteSet(C) BY <1>1, Smaller
<1>6. IsFiniteSet(C \cup {x}) /\ Cardinality(C \cup {x}) = (IF x \in C THEN c ELSE c + 1) BY <1>5, FS_AddElement
<1> HIDE DEF a, b, c, u, i
<1>7. c <= a + b BY <1>1, <1>2, <1>4, <1>5
<1>8. Cardinality(C \cup {x}) \in Nat /\ Cardinality(C \cup {x}) <= c + 1 BY <1>5, <1>6
<1> QED BY <1>2, <1>5, <1>7, <1>8 DEF a, b, c

\* A call that passed the cap is one of those between gate and insert: it and the others
\* of them are all that can be over.
LEMMA CheckCaps ==
    ASSUME AdmissionOK, CapInv, NEW w \in scenario.workers, NEW l \in SpawnLayers, NEW args,
           SpawnWorkerCheck(w, l, args)
    PROVE  CapInv'
<1>1. w \in WorkerIds /\ AdmissionOK' BY CheckWorkerOK
<1>2. /\ phase = "run" /\ UNCHANGED <<phase, r, sub>> /\ BelowCap(l) /\ wk[w].st = "none"
      /\ peak' = [peak EXCEPT ![l] = Max({@, Calls(l) + 1})]
  BY DEF SpawnWorkerCheck, Running
<1> DEFINE v == [NoWorker EXCEPT !.st = "checked", !.layer = l, !.type = args.type,
                                 !.want = WantedSession(l, args, TypeNamed(r.worker_types, args.type))]
<1>3. wk' = [wk EXCEPT ![w] = v] BY DEF SpawnWorkerCheck
<1>4. v.layer = l /\ v.st = "checked" BY NoWorkerIs DEF WorkerFields
<1> HIDE DEF v
<1>5. DOMAIN wk = WorkerIds BY DEF AdmissionOK
<1>6. wk'[w] = v /\ \A x \in WorkerIds : x # w => wk'[x] = wk[x] BY <1>1, <1>3, <1>5
<1>7. Placed(l)' = Placed(l) \cup {w} BY <1>1, <1>2, <1>4, <1>6 DEF Placed
<1>8. \A k \in SpawnLayers : k # l => Placed(k)' = Placed(k) BY <1>1, <1>2, <1>4, <1>6 DEF Placed
<1>9. \A k \in SpawnLayers : MaxWorkers(k)' = MaxWorkers(k) BY <1>2 DEF MaxWorkers
<1> DEFINE A == {x \in WorkerIds : wk[x].layer = l /\ wk[x].st \in {"pending", "running"}}
           B == {x \in WorkerIds : wk[x].layer = l /\ wk[x].st = "checked"}
<1>10. IsFiniteSet(A) /\ IsFiniteSet(B) BY IdsAssumption, FS_Subset
<1>11. Placed(l) \subseteq A \cup B BY DEF Placed
<1>12. Active(l) = Cardinality(A) /\ Calls(l) = Cardinality(B) BY DEF Active, Calls
<1> DEFINE a == Active(l)
           b == Calls(l)
           c == Cardinality(Placed(l))
           d == Cardinality(Placed(l) \cup {w})
<1>13. a \in Nat /\ b \in Nat /\ c \in Nat /\ d \in Nat /\ c <= a + b /\ d <= c + 1
  BY <1>10, <1>11, <1>12, Together
<1>14. peak[l] \in Nat /\ l \in DOMAIN peak BY DEF AdmissionOK
<1> HIDE DEF A, B
<1> DEFINE n == Max({peak[l], b + 1})
<1>15. n \in Nat /\ b + 1 <= n
  <2>1. b + 1 \in Nat BY <1>13
  <2> QED BY <2>1, <1>14, MaxIsNat
<1>16. peak'[l] = n /\ \A k \in SpawnLayers \cup {"subleads"} : k # l => peak'[k] = peak[k]
  BY <1>2, <1>14 DEF AdmissionOK
<1>17. \A cap \in MaxWorkers(l) : a < cap BY <1>2 DEF BelowCap
<1>18. "subleads" # l BY IdsAssumption DEF SpawnLayers
<1> HIDE DEF a, b, c, d, n
<1>19. ASSUME NEW cap \in MaxWorkers(l) PROVE d <= cap + Max({n - 1, 0})
  <2>1. cap \in Nat BY <1>2 DEF MaxWorkers, AdmissionOK, LoadedInv, SubInv, SpawnLayers
  <2>2. a < cap BY <1>17
  <2> DEFINE m == Max({n - 1, 0})
  <2>3. m \in Nat /\ n - 1 <= m BY <1>15, Slack
  <2> HIDE DEF m
  <2>4. d <= cap + m BY <2>1, <2>2, <2>3, <1>13, <1>15
  <2> QED BY <2>4 DEF m
<1>20. ASSUME NEW k \in SpawnLayers, NEW cap \in MaxWorkers(k)
       PROVE  Cardinality(Placed(k)') <= cap + Max({peak'[k] - 1, 0})
  <2>1. CASE k = l BY <2>1, <1>7, <1>16, <1>19 DEF d
  <2>2. CASE k # l BY <2>2, <1>2, <1>8, <1>16 DEF CapInv
  <2> QED BY <2>1, <2>2
<1>21. PlacedSubs' = PlacedSubs /\ peak'["subleads"] = peak["subleads"] BY <1>2, <1>16, <1>18 DEF PlacedSubs
<1>22. ASSUME r.lead # {}, NEW cap \in RootLead.max_subleads
       PROVE  Cardinality(PlacedSubs') <= cap + Max({peak'["subleads"] - 1, 0})
  BY <1>2, <1>21, <1>22 DEF CapInv
<1> QED BY <1>2, <1>9, <1>20, <1>22 DEF CapInv, RootLead

\* The same of spawn_sublead, where a shared envelope passes the cap by and takes no place.
LEMMA SubCheckCaps ==
    ASSUME AdmissionOK, CapInv, NEW s \in scenario.subs, NEW args \in scenario.subspawns, SpawnSubleadCheck(s, args)
    PROVE  CapInv'
<1>1. /\ s \in Subs /\ AdmissionOK' /\ sub[s].st = "none" /\ sub'[s].st = "checked"
      /\ sub'[s].budget # {} => \A cap \in RootLead.max_subleads : Cardinality(Registered) + 1 <= cap
      /\ peak' = [peak EXCEPT !["subleads"] = Max({@, SubCalls + 1})] /\ SubCalls \in Nat
      /\ \A t \in Subs : t # s => sub'[t] = sub[t]
  BY SubCheckMoves
<1>2. phase = "run" /\ Running /\ UNCHANGED <<phase, r, wk>> BY DEF SpawnSubleadCheck, Running
<1>3. "subleads" \notin SpawnLayers /\ "root" # s BY <1>1, IdsAssumption DEF SpawnLayers
<1>4. \A l \in SpawnLayers : peak'[l] = peak[l] BY <1>1, <1>3 DEF AdmissionOK
<1>5. \A l \in SpawnLayers : Placed(l)' = Placed(l) BY <1>2 DEF Placed
<1>6. ASSUME NEW l \in SpawnLayers, NEW cap \in MaxWorkers(l)'
      PROVE  Cardinality(Placed(l)') <= cap + Max({peak'[l] - 1, 0})
  <2>1. CASE l # s
    <3>1. MaxWorkers(l)' = MaxWorkers(l) BY <2>1, <1>1, <1>2 DEF MaxWorkers, SpawnLayers
    <3> QED BY <3>1, <1>2, <1>4, <1>5 DEF CapInv
  <2>2. CASE l = s
    <3>1. ASSUME NEW w \in WorkerIds PROVE wk[w].layer # s
      BY EntryOf, <1>1, <1>3 DEF Entry
    <3>2. Placed(s) = {} BY <3>1 DEF Placed
    <3>3. Cardinality(Placed(l)') = 0 BY <2>2, <3>2, <1>5, FS_EmptySet
    <3>4. cap \in Nat
      <4>1. MaxWorkers(l)' = sub'[s].max_workers BY <2>2, <1>3 DEF MaxWorkers
      <4>2. sub'[s].max_workers \subseteq Nat BY <1>1 DEF AdmissionOK, SubInv
      <4> QED BY <4>1, <4>2
    <3>5. peak'[l] \in Nat BY <1>1 DEF AdmissionOK
    <3>6. Max({peak'[l] - 1, 0}) \in Nat BY <3>5, Slack
    <3> QED BY <3>3, <3>4, <3>6
  <2> QED BY <2>1, <2>2
<1> DEFINE m == peak["subleads"]
           b == SubCalls
           n == Max({m, b + 1})
<1>7. m \in Nat /\ b \in Nat /\ peak'["subleads"] = n BY <1>1 DEF AdmissionOK
<1>8. n \in Nat /\ m <= n /\ b + 1 <= n
  <2>1. b + 1 \in Nat BY <1>7
  <2> QED BY <2>1, <1>7, MaxIsNat
<1> DEFINE A == Registered
           B == {t \in Subs : sub[t].st = "checked"}
<1>9. IsFiniteSet(A) /\ IsFiniteSet(B) /\ b = Cardinality(B) BY IdsAssumption, FS_Subset DEF Registered, SubCalls
<1>10. PlacedSubs \subseteq A \cup B BY DEF PlacedSubs, Registered
<1> DEFINE a == Cardinality(Registered)
           c == Cardinality(PlacedSubs)
           d == Cardinality(PlacedSubs \cup {s})
<1>11. a \in Nat /\ c \in Nat /\ d \in Nat /\ c <= a + b /\ d <= c + 1 BY <1>9, <1>10, Together
<1>12. sub'[s].budget # {} => PlacedSubs' = PlacedSubs \cup {s} BY <1>1 DEF PlacedSubs
<1>13. sub'[s].budget = {} => PlacedSubs' = PlacedSubs BY <1>1 DEF PlacedSubs
<1> DEFINE k == Max({n - 1, 0})
<1>14. k \in Nat /\ n - 1 <= k BY <1>8, Slack
<1> DEFINE k0 == Max({m - 1, 0})
<1>15. k0 \in Nat /\ k0 <= k
  BY <1>7, <1>8, Slack, SlackGrows
<1> HIDE DEF A, B, a, b, c, d, m, n, k, k0
<1>16. ASSUME r.lead # {}, NEW cap \in RootLead.max_subleads PROVE Cardinality(PlacedSubs') <= cap + k
  <2>1. cap \in Nat BY <1>2, <1>16 DEF AdmissionOK, LoadedInv
  <2>2. CASE sub'[s].budget # {}
    <3>1. a + 1 <= cap BY <2>2, <1>1 DEF a
    <3>2. d <= cap + k BY <3>1, <2>1, <1>7, <1>8, <1>11, <1>14
    <3> QED BY <3>2, <2>2, <1>12 DEF d
  <2>3. CASE sub'[s].budget = {}
    <3>1. c <= cap + k0 BY <1>2, <1>16 DEF CapInv, c, k0, m
    <3>2. c <= cap + k BY <3>1, <2>1, <1>11, <1>14, <1>15
    <3> QED BY <3>2, <2>3, <1>13 DEF c
  <2> QED BY <2>2, <2>3
<1>17. \A cap \in RootLead.max_subleads : r.lead # {} => Cardinality(PlacedSubs') <= cap + Max({peak'["subleads"] - 1, 0})
  BY <1>7, <1>16 DEF k
<1> QED BY <1>2, <1>6, <1>17 DEF CapInv, RootLead

\* A step of a sub-lead that has its place already, or gives it up.
LEMMA SubCaps ==
    ASSUME AdmissionOK, CapInv, phase = "run", UNCHANGED <<phase, r, wk, peak>>, NEW s \in Subs, NEW state,
           SubBecomes(s, state), state \in {"checked", "live", "orphan"} => sub[s].st \in {"checked", "live", "orphan"}
    PROVE  CapInv'
<1>1. ASSUME NEW l \in SpawnLayers
      PROVE  MaxWorkers(l)' = MaxWorkers(l) /\ Placed(l)' \subseteq Placed(l) /\ peak'[l] = peak[l]
  BY DEF SubBecomes, Placed, MaxWorkers, SpawnLayers
<1>2. PlacedSubs' \subseteq PlacedSubs BY DEF SubBecomes, PlacedSubs
<1> QED BY <1>1, <1>2, CapsKept

\* Nothing the caps depend on changes.
LEMMA QuietCaps == ASSUME CapInv, UNCHANGED <<phase, r, wk, sub, peak>> PROVE CapInv'
<1>1. \A l \in SpawnLayers : MaxWorkers(l)' = MaxWorkers(l) /\ Placed(l)' = Placed(l) BY DEF MaxWorkers, Placed
<1>2. PlacedSubs' = PlacedSubs BY DEF PlacedSubs
<1> QED BY <1>1, <1>2 DEF CapInv, RootLead

\* A run begins with nobody in a place.
LEMMA LoadCaps == ASSUME AdmissionOK, Load PROVE CapInv'
<1>1. AdmissionOK' /\ phase = "file" /\ UNCHANGED <<wk, sub>> BY LoadMoves
<1>2. (\A w \in WorkerIds : wk'[w].st = "none") /\ \A s \in Subs : sub'[s].st = "none"
  BY <1>1 DEF AdmissionOK, LoadedInv
<1>3. \A l \in SpawnLayers : Placed(l)' = {} BY <1>2 DEF Placed
<1>4. PlacedSubs' = {} BY <1>2 DEF PlacedSubs
<1>5. Cardinality({}) = 0 BY FS_EmptySet
<1>6. ASSUME phase' = "run", NEW l \in SpawnLayers, NEW cap \in MaxWorkers(l)'
      PROVE  Cardinality(Placed(l)') <= cap + Max({peak'[l] - 1, 0})
  <2>1. cap \in Nat BY <1>1, <1>6 DEF MaxWorkers, AdmissionOK, LoadedInv, SubInv, SpawnLayers
  <2>2. peak'[l] \in Nat BY <1>1 DEF AdmissionOK
  <2>3. Max({peak'[l] - 1, 0}) \in Nat BY <2>2, Slack
  <2>4. Cardinality(Placed(l)') = 0 BY <1>3, <1>5
  <2> QED BY <2>1, <2>3, <2>4
<1>7. ASSUME phase' = "run", r'.lead # {}, NEW cap \in RootLead'.max_subleads
      PROVE  Cardinality(PlacedSubs') <= cap + Max({peak'["subleads"] - 1, 0})
  <2>1. cap \in Nat BY <1>1, <1>7 DEF AdmissionOK, LoadedInv
  <2>2. peak'["subleads"] \in Nat BY <1>1 DEF AdmissionOK
  <2>3. Max({peak'["subleads"] - 1, 0}) \in Nat BY <2>2, Slack
  <2>4. Cardinality(PlacedSubs') = 0 BY <1>4, <1>5
  <2> QED BY <2>1, <2>3, <2>4
<1> QED BY <1>6, <1>7 DEF CapInv

\* Those under the cap hold no more places than that, and the rest were reprompted.
LEMMA CapsFollow == ASSUME AdmissionOK, CapInv PROVE CapsHoldUnlessRaced
<1> SUFFICES ASSUME Running PROVE CapsHoldUnlessRaced BY DEF CapsHoldUnlessRaced
<1>1. phase = "run" /\ r.lead # {} BY DEF Running
<1>2. ASSUME NEW l \in SpawnLayers, NEW cap \in MaxWorkers(l)
      PROVE  Active(l) <= cap + Max({peak[l] - 1, 0})
                     + Cardinality({w \in WorkerIds : wk[w].layer = l /\ wk[w].pr[2] # "none"})
  <2> DEFINE A == Placed(l)
             B == {w \in WorkerIds : wk[w].layer = l /\ wk[w].pr[2] # "none"}
             C == {w \in WorkerIds : wk[w].layer = l /\ wk[w].st \in {"pending", "running"}}
             a == Cardinality(A)
             b == Cardinality(B)
             c == Cardinality(C)
             m == Max({peak[l] - 1, 0})
  <2>1. IsFiniteSet(A) /\ IsFiniteSet(B) BY IdsAssumption, FS_Subset DEF Placed
  <2>2. C \subseteq A \cup B BY DEF Placed
  <2>3. a \in Nat /\ b \in Nat /\ c \in Nat /\ c <= a + b BY <2>1, <2>2, Together
  <2>4. a <= cap + m BY <1>1 DEF CapInv
  <2>5. cap \in Nat BY <1>1 DEF MaxWorkers, AdmissionOK, LoadedInv, SubInv, SpawnLayers
  <2>6. peak[l] \in Nat BY DEF AdmissionOK
  <2>7. m \in Nat BY <2>6, Slack
  <2>8. Active(l) = c BY DEF Active
  <2> HIDE DEF a, b, c, m
  <2>9. c <= cap + m + b BY <2>3, <2>4, <2>5, <2>7
  <2> QED BY <2>8, <2>9 DEF b, m
<1>3. ASSUME NEW cap \in RootLead.max_subleads, \A s \in Registered : sub[s].budget # {}
      PROVE  Cardinality(Registered) <= cap + Max({peak["subleads"] - 1, 0})
  <2> DEFINE a == Cardinality(Registered)
             b == Cardinality(PlacedSubs)
             m == Max({peak["subleads"] - 1, 0})
  <2>1. IsFiniteSet(PlacedSubs) BY IdsAssumption, FS_Subset DEF PlacedSubs
  <2>2. Registered \subseteq PlacedSubs BY <1>3 DEF PlacedSubs, Registered
  <2>3. a \in Nat /\ b \in Nat /\ a <= b BY <2>1, <2>2, Smaller
  <2>4. b <= cap + m BY <1>1 DEF CapInv
  <2>5. cap \in Nat BY <1>1 DEF AdmissionOK, LoadedInv
  <2>6. peak["subleads"] \in Nat BY DEF AdmissionOK
  <2>7. m \in Nat BY <2>6, Slack
  <2> HIDE DEF a, b, m
  <2>8. a <= cap + m BY <2>3, <2>4, <2>5, <2>7
  <2> QED BY <2>8 DEF a, m
<1> QED BY <1>2, <1>3 DEF CapsHoldUnlessRaced

-----------------------------------------------------------------------------
(* The gate for spawns *)


\* The record stays, and so does a reason once there is one.
LEMMA GateKept ==
    ASSUME GateInv, UNCHANGED health, NEW w \in WorkerIds,
           NEW state, NEW p, NEW q, NEW why, NEW at, Becomes(w, state, p, q, why, at),
           wk[w].reason # "" => why = wk[w].reason,
           p \in {"recorded", "over"} /\ q = "none" =>
              /\ wk[w].pr[1] \in {"recorded", "over"} /\ wk[w].pr[2] = "none"
              /\ why = wk[w].reason /\ at = wk[w].at
    PROVE  GateInv'
<1>1. \A v \in WorkerIds : wk[v].reason \in {"rate", "rate_until"} => wk'[v].reason \in {"rate", "rate_until"}
  BY DEF Becomes
<1>2. ASSUME NEW x \in WorkerIds, wk'[x].pr[1] \in {"recorded", "over"}, wk'[x].pr[2] = "none"
      PROVE  /\ wk[x].pr[1] \in {"recorded", "over"} /\ wk[x].pr[2] = "none"
             /\ wk'[x].reason = wk[x].reason /\ wk'[x].at = wk[x].at
  <2>1. CASE x = w BY <2>1, <1>2 DEF Becomes
  <2>2. CASE x # w BY <2>2, <1>2 DEF Becomes
  <2> QED BY <2>1, <2>2
<1>3. ASSUME NEW x \in WorkerIds, wk'[x].pr[1] \in {"recorded", "over"}, wk'[x].pr[2] = "none"
      PROVE  /\ wk'[x].reason = "auth" => health'.auth # {} /\ \A t \in health'.auth : wk'[x].at <= t
             /\ wk'[x].reason = "rate_until" =>
                   \/ \E h \in health'.rate : h.resets_at = {MaxNow}
                   \/ \E v \in WorkerIds \ {x} : wk'[v].reason \in {"rate", "rate_until"}
  BY <1>1, <1>2, <1>3 DEF GateInv
<1>4. {"auth", "rate"} \subseteq DOMAIN health' /\ health'.auth \subseteq Nat BY DEF GateInv
<1> QED BY <1>3, <1>4 DEF GateInv

\* A worker without a process has been told of nothing.
LEMMA GateFresh ==
    ASSUME GateInv, UNCHANGED health, NEW w \in WorkerIds, wk'[w].pr[1] = "none", wk[w].reason = "",
           \A x \in WorkerIds : x # w => wk'[x] = wk[x]
    PROVE  GateInv'
<1>1. \A v \in WorkerIds : wk[v].reason \in {"rate", "rate_until"} => wk'[v] = wk[v] OBVIOUS
<1>2. ASSUME NEW x \in WorkerIds, wk'[x].pr[1] \in {"recorded", "over"}, wk'[x].pr[2] = "none"
      PROVE  wk'[x] = wk[x]
  BY <1>2
<1>3. ASSUME NEW x \in WorkerIds, wk'[x].pr[1] \in {"recorded", "over"}, wk'[x].pr[2] = "none"
      PROVE  /\ wk'[x].reason = "auth" => health'.auth # {} /\ \A t \in health'.auth : wk'[x].at <= t
             /\ wk'[x].reason = "rate_until" =>
                   \/ \E h \in health'.rate : h.resets_at = {MaxNow}
                   \/ \E v \in WorkerIds \ {x} : wk'[v].reason \in {"rate", "rate_until"}
  BY <1>1, <1>2, <1>3 DEF GateInv
<1>4. {"auth", "rate"} \subseteq DOMAIN health' /\ health'.auth \subseteq Nat BY DEF GateInv
<1> QED BY <1>3, <1>4 DEF GateInv

\* record replaces the last failure of a kind, with one no older.
LEMMA RecordedIs ==
    ASSUME NEW why, {"auth", "rate"} \subseteq DOMAIN health, NEW h, h = Recorded(why)
    PROVE  /\ {"auth", "rate"} \subseteq DOMAIN h
           /\ h.auth = health.auth \/ h.auth = {now}
           /\ why = "auth" => h.auth = {now}
           /\ h.rate = health.rate \/ why \in {"rate", "rate_until"}
           /\ why = "rate_until" => \E x \in h.rate : x.resets_at = {MaxNow}
<1>1. CASE why = "auth"
  <2>1. h = [health EXCEPT !.auth = {now}] BY <1>1 DEF Recorded
  <2> QED BY <2>1, <1>1
<1>2. CASE why = "rate"
  <2>1. h = [health EXCEPT !.rate = {[hit_at |-> now, resets_at |-> {}]}] BY <1>2 DEF Recorded
  <2> QED BY <2>1, <1>2
<1>3. CASE why = "rate_until"
  <2> DEFINE y == [hit_at |-> now, resets_at |-> {MaxNow}]
  <2>1. h = [health EXCEPT !.rate = {y}] BY <1>3 DEF Recorded
  <2>2. y.resets_at = {MaxNow} OBVIOUS
  <2> HIDE DEF y
  <2>3. h.auth = health.auth /\ h.rate = {y} /\ DOMAIN h = DOMAIN health BY <2>1
  <2> QED BY <2>2, <2>3, <1>3
<1>4. CASE why \notin {"auth", "rate", "rate_until"}
  <2>1. h = health BY <1>4 DEF Recorded
  <2> QED BY <2>1, <1>4
<1> QED BY <1>1, <1>2, <1>3, <1>4

\* A failure is recorded: its own worker finds it there, and a worker whose limit it replaced
\* has another that hit one.
LEMMA GateRecorded ==
    ASSUME AdmissionOK, GateInv, NEW w \in WorkerIds, health' = Recorded(wk[w].reason),
           NEW state, NEW p, NEW q, Becomes(w, state, p, q, wk[w].reason, wk[w].at)
    PROVE  GateInv'
<1>1. {"auth", "rate"} \subseteq DOMAIN health /\ health.auth \subseteq Nat BY DEF GateInv
<1>2. /\ {"auth", "rate"} \subseteq DOMAIN health'
      /\ health'.auth = health.auth \/ health'.auth = {now}
      /\ wk[w].reason = "auth" => health'.auth = {now}
      /\ health'.rate = health.rate \/ wk[w].reason \in {"rate", "rate_until"}
      /\ wk[w].reason = "rate_until" => \E x \in health'.rate : x.resets_at = {MaxNow}
  BY <1>1, RecordedIs
<1>3. now \in Nat /\ \A x \in WorkerIds : wk[x].at <= now BY EntryOf DEF AdmissionOK, Entry
<1>4. health'.auth \subseteq Nat BY <1>1, <1>2, <1>3
<1>5. \A v \in WorkerIds : wk'[v].reason = wk[v].reason /\ wk'[v].at = wk[v].at BY DEF Becomes
<1>6. ASSUME NEW x \in WorkerIds, wk'[x].pr[1] \in {"recorded", "over"}, wk'[x].pr[2] = "none"
      PROVE  /\ wk[x].reason = "auth" => health'.auth # {} /\ \A t \in health'.auth : wk[x].at <= t
             /\ wk[x].reason = "rate_until" =>
                   \/ \E h \in health'.rate : h.resets_at = {MaxNow}
                   \/ \E v \in WorkerIds \ {x} : wk[v].reason \in {"rate", "rate_until"}
  <2>1. CASE x = w BY <2>1, <1>2, <1>3
  <2>2. CASE x # w
    <3>1. wk'[x] = wk[x] BY <2>2 DEF Becomes
    <3>2. /\ wk[x].reason = "auth" => health.auth # {} /\ \A t \in health.auth : wk[x].at <= t
          /\ wk[x].reason = "rate_until" =>
                \/ \E h \in health.rate : h.resets_at = {MaxNow}
                \/ \E v \in WorkerIds \ {x} : wk[v].reason \in {"rate", "rate_until"}
      BY <3>1, <1>6 DEF GateInv
    <3>3. wk[x].reason = "auth" => health'.auth # {} /\ \A t \in health'.auth : wk[x].at <= t
      BY <3>2, <1>2, <1>3
    <3>4. wk[x].reason = "rate_until" =>
                \/ \E h \in health'.rate : h.resets_at = {MaxNow}
                \/ \E v \in WorkerIds \ {x} : wk[v].reason \in {"rate", "rate_until"}
      <4>1. CASE health'.rate = health.rate BY <4>1, <3>2
      <4>2. CASE wk[w].reason \in {"rate", "rate_until"} BY <4>2, <2>2
      <4> QED BY <4>1, <4>2, <1>2
    <3> QED BY <3>3, <3>4
  <2> QED BY <2>1, <2>2
<1>7. ASSUME NEW x \in WorkerIds, wk'[x].pr[1] \in {"recorded", "over"}, wk'[x].pr[2] = "none"
      PROVE  /\ wk'[x].reason = "auth" => health'.auth # {} /\ \A t \in health'.auth : wk'[x].at <= t
             /\ wk'[x].reason = "rate_until" =>
                   \/ \E h \in health'.rate : h.resets_at = {MaxNow}
                   \/ \E v \in WorkerIds \ {x} : wk'[v].reason \in {"rate", "rate_until"}
  BY <1>5, <1>6, <1>7
<1> QED BY <1>2, <1>4, <1>7 DEF GateInv

\* Whoever is told passes the record on the way to the gate.
LEMMA GateFollows == ASSUME AdmissionOK, GateInv PROVE ToldIsGated
<1> SUFFICES ASSUME CanSpawn, NEW w \in WorkerIds, wk[w].st = "done", wk[w].pr[2] = "none"
             PROVE  /\ wk[w].reason = "auth" => now >= wk[w].at + AUTH_FAILURE_BACKOFF_SECS
                    /\ wk[w].reason = "rate_until" => now >= MaxNow
                          \/ \E v \in WorkerIds \ {w} : wk[v].reason \in {"rate", "rate_until"}
  BY DEF ToldIsGated
<1>1. Entry(wk[w], sub, now) BY EntryOf
<1>2. wk[w].at \in Nat /\ Life(wk[w].st, wk[w].pr[1], wk[w].pr[2], wk[w].reason) BY <1>1 DEF Entry
<1>3. wk[w].pr[1] = "over" BY <1>2 DEF Life
<1>4. ASSUME wk[w].reason = "auth" PROVE now >= wk[w].at + AUTH_FAILURE_BACKOFF_SECS
  <2>1. health.auth # {} /\ \A t \in health.auth : wk[w].at <= t BY <1>3, <1>4 DEF GateInv
  <2>2. PICK t \in health.auth : wk[w].at <= t BY <2>1
  <2>3. t \in Nat BY DEF GateInv
  <2>4. now >= t + AUTH_FAILURE_BACKOFF_SECS BY DEF CanSpawn
  <2>5. now \in Nat /\ AUTH_FAILURE_BACKOFF_SECS \in Nat BY BackoffAssumption DEF AdmissionOK
  <2> DEFINE n == wk[w].at
  <2>6. n \in Nat /\ n <= t BY <1>2, <2>2
  <2> HIDE DEF n
  <2>7. now >= n + AUTH_FAILURE_BACKOFF_SECS BY <2>3, <2>4, <2>5, <2>6
  <2> QED BY <2>7 DEF n
<1>5. ASSUME wk[w].reason = "rate_until", \A v \in WorkerIds \ {w} : wk[v].reason \notin {"rate", "rate_until"}
      PROVE  now >= MaxNow
  <2>1. PICK h \in health.rate : h.resets_at = {MaxNow} BY <1>3, <1>5 DEF GateInv
  <2>2. now >= The(Or(h.resets_at, {h.hit_at + RATE_LIMIT_DEFAULT_BACKOFF_SECS})) BY DEF CanSpawn
  <2>3. Or(h.resets_at, {h.hit_at + RATE_LIMIT_DEFAULT_BACKOFF_SECS}) = {MaxNow} BY <2>1 DEF Or
  <2>4. The({MaxNow}) = MaxNow BY TheIsIn
  <2> QED BY <2>2, <2>3, <2>4
<1> QED BY <1>4, <1>5

-----------------------------------------------------------------------------
(* Permission prompts *)

\* An actor is of one kind, before a step and after it.
LEMMA Kinds ==
    /\ \A a \in WorkerIds : (Alive(a) <=> Live(a)) /\ (Alive(a)' <=> Live(a)')
    /\ \A a \in Subs : (Alive(a) <=> sub[a].st = "live") /\ (Alive(a)' <=> sub'[a].st = "live")
    /\ (Alive("lead") <=> Running) /\ (Alive("lead")' <=> Running')
    /\ \A a \in WorkerIds : TypeOf(a) = wk[a].type /\ TypeOf(a)' = wk'[a].type
    /\ \A a \in Subs : TypeOf(a) = sub[a].type /\ TypeOf(a)' = sub'[a].type
    /\ TypeOf("lead") = {} /\ TypeOf("lead")' = {}
    /\ "lead" \notin WorkerIds \cup Subs /\ WorkerIds \cap Subs = {}
<1>1. "lead" \notin WorkerIds \cup Subs /\ WorkerIds \cap Subs = {} BY IdsAssumption
<1>2. \A a \in WorkerIds : (Alive(a) <=> Live(a)) /\ (Alive(a)' <=> Live(a)') BY <1>1 DEF Alive
<1>3. \A a \in Subs : (Alive(a) <=> sub[a].st = "live") /\ (Alive(a)' <=> sub'[a].st = "live") BY <1>1 DEF Alive
<1>4. (Alive("lead") <=> Running) /\ (Alive("lead")' <=> Running') BY <1>1 DEF Alive
<1>5. \A a \in WorkerIds : TypeOf(a) = wk[a].type /\ TypeOf(a)' = wk'[a].type BY <1>1 DEF TypeOf
<1>6. \A a \in Subs : TypeOf(a) = sub[a].type /\ TypeOf(a)' = sub'[a].type BY <1>1 DEF TypeOf
<1>7. TypeOf("lead") = {} /\ TypeOf("lead")' = {} BY <1>1 DEF TypeOf
<1> QED BY <1>1, <1>2, <1>3, <1>4, <1>5, <1>6, <1>7

\* What an answer has to meet: PromptsHonourTypes asks it of all that were given.
Honours(d) ==
    /\ d.ok => Admitted(r.mcp_servers, d.tool)
    /\ d.by = "operator" => r.run.untyped_actor_policy # "block" \/ d.who = "lead"
    /\ d.by = "operator" /\ TypeOf(d.who) # {} => d.again \/ d.orphan
    /\ d.by = "profile" /\ d.ok =>
          d.tool \in (IF d.who \in Subs THEN SType(The(TypeOf(d.who))) ELSE WType(The(TypeOf(d.who)))).tools

\* Answers that meet it keep meeting it while types do not change.
LEMMA HonoursStays ==
    ASSUME UNCHANGED r, \A e \in said' : Honours(e) /\ TypeOf(e.who)' = TypeOf(e.who)
    PROVE  PromptsHonourTypes'
<1>1. ASSUME NEW e \in said'
      PROVE  /\ e.ok => Admitted(r'.mcp_servers, e.tool)
             /\ e.by = "operator" => r'.run.untyped_actor_policy # "block" \/ e.who = "lead"
             /\ e.by = "operator" /\ TypeOf(e.who)' # {} => e.again \/ e.orphan
             /\ e.by = "profile" /\ e.ok =>
                   e.tool \in (IF e.who \in Subs THEN SType(The(TypeOf(e.who)))' ELSE WType(The(TypeOf(e.who)))').tools
  <2>1. TypeOf(e.who)' = TypeOf(e.who) BY <1>1
  <2> DEFINE T == TypeOf(e.who)
  <2>2. SType(The(TypeOf(e.who)))' = SType(The(T)) /\ WType(The(TypeOf(e.who)))' = WType(The(T))
    BY <2>1 DEF SType, WType
  <2>3. Honours(e) BY <1>1
  <2> QED BY <2>1, <2>2, <2>3 DEF Honours
<1> QED BY <1>1 DEF PromptsHonourTypes

\* Whoever goes on asking is alive still, and whoever was answered keeps its type.
LEMMA AskKept ==
    ASSUME AskInv, UNCHANGED <<phase, r, said>>, DOMAIN ask' = Actors, DOMAIN layerIndex' = WorkerIds,
           \A w \in WorkerIds : IndexInv(w)',
           \A a \in Actors : ask'[a] = {} \/ (ask'[a] = ask[a] /\ (Alive(a) => Alive(a)')),
           \A w \in WorkerIds : wk[w].pr[1] # "none" => wk'[w].pr[1] # "none" /\ wk'[w].type = wk[w].type,
           \A s \in Subs : sub[s].st \in {"live", "gone"} => sub'[s].st \in {"live", "gone"} /\ sub'[s].type = sub[s].type
    PROVE  AskInv' /\ (PromptsHonourTypes => PromptsHonourTypes')
<1>1. Running' = Running BY DEF Running
<1>2. ASSUME NEW a \in Actors, ask'[a] # {}
      PROVE  Running' /\ Alive(a)' /\ \A t \in ask'[a] : Admitted(r'.mcp_servers, t)
  BY <1>1, <1>2 DEF AskInv
<1>3. ASSUME NEW d \in said
      PROVE  /\ d.who \in Actors
             /\ d.who \in WorkerIds => wk'[d.who].pr[1] # "none"
             /\ d.who \in Subs => sub'[d.who].st \in {"live", "gone"}
  BY DEF AskInv
<1>4. phase' # "run" => said' = {} BY DEF AskInv
<1>5. AskInv' BY <1>2, <1>3, <1>4 DEF AskInv, Actors
<1>6. ASSUME NEW d \in said PROVE TypeOf(d.who)' = TypeOf(d.who)
  <2> DEFINE a == d.who
  <2>1. /\ a \in Actors /\ (a \in WorkerIds => wk[a].pr[1] # "none")
        /\ (a \in Subs => sub[a].st \in {"live", "gone"})
    BY DEF AskInv
  <2> HIDE DEF a
  <2>2. CASE a \in WorkerIds BY <2>1, <2>2, Kinds DEF a
  <2>3. CASE a \in Subs BY <2>1, <2>3, Kinds DEF a
  <2>4. CASE a = "lead" BY <2>4, Kinds DEF a
  <2> QED BY <2>1, <2>2, <2>3, <2>4 DEF Actors
<1>7. ASSUME PromptsHonourTypes PROVE PromptsHonourTypes'
  <2>1. CASE Running
    <3>1. \A d \in said : Honours(d) BY <2>1, <1>7 DEF PromptsHonourTypes, Honours
    <3> QED BY <3>1, <1>6, HonoursStays
  <2>2. CASE ~ Running BY <2>2, <1>1 DEF PromptsHonourTypes
  <2> QED BY <2>1, <2>2
<1> QED BY <1>5, <1>7

\* A step of one worker that is not asking, or stops, or lives on.
LEMMA WorkerAsks ==
    ASSUME AskInv, UNCHANGED <<phase, r, sub, said>>, NEW w \in WorkerIds, DOMAIN layerIndex' = WorkerIds,
           NEW state, NEW p, NEW q, NEW why, NEW at, Becomes(w, state, p, q, why, at),
           (ask' = ask /\ (Live(w) => (IF q = "none" THEN p ELSE q) = "live")) \/ ask' = [ask EXCEPT ![w] = {}],
           \A x \in WorkerIds : x # w => layerIndex'[x] = layerIndex[x],
           layerIndex'[w] \subseteq {wk[w].layer}, state \in {"none", "checked"} => layerIndex'[w] = {},
           state \in {"pending", "running"} /\ p # "over" /\ q = "none" => layerIndex'[w] = {wk[w].layer},
           wk[w].pr[1] # "none" => p # "none"
    PROVE  AskInv' /\ (PromptsHonourTypes => PromptsHonourTypes')
<1>1. DOMAIN ask = Actors /\ DOMAIN ask' = Actors BY DEF AskInv
<1>2. ASSUME NEW x \in WorkerIds PROVE IndexInv(x)'
  <2>1. CASE x = w BY <2>1 DEF IndexInv, Becomes
  <2>2. CASE x # w BY <2>2 DEF AskInv, IndexInv, Becomes
  <2> QED BY <2>1, <2>2
<1>3. ASSUME NEW x \in WorkerIds PROVE wk[x].pr[1] # "none" => wk'[x].pr[1] # "none" /\ wk'[x].type = wk[x].type
  BY DEF Becomes
<1>4. \A x \in WorkerIds : x # w => (Live(x)' <=> Live(x)) BY DEF Becomes, Live, Incarnation
<1>5. Live(w)' <=> (IF q = "none" THEN p ELSE q) = "live"
  <2>1. wk'[w].pr[1] = p /\ wk'[w].pr[2] = q BY DEF Becomes
  <2>2. CASE q = "none" BY <2>1, <2>2 DEF Live, Incarnation
  <2>3. CASE q # "none" BY <2>1, <2>3 DEF Live, Incarnation
  <2> QED BY <2>2, <2>3
<1>6. Running' <=> Running BY DEF Running
<1>7. ASSUME NEW a \in Actors PROVE ask'[a] = {} \/ (ask'[a] = ask[a] /\ (Alive(a) => Alive(a)'))
  <2>1. a # w => (Alive(a) => Alive(a)') BY <1>4, <1>6, Kinds DEF Actors
  <2>2. CASE ask' = ask /\ (Live(w) => (IF q = "none" THEN p ELSE q) = "live")
    <3>1. Alive(w) => Alive(w)' BY <2>2, <1>5, Kinds
    <3> QED BY <3>1, <2>1, <2>2
  <2>3. CASE ask' = [ask EXCEPT ![w] = {}]
    <3>1. ask'[w] = {} BY <2>3, <1>1 DEF Actors
    <3>2. a # w => ask'[a] = ask[a] BY <2>3, <1>1
    <3> QED BY <2>1, <3>1, <3>2
  <2> QED BY <2>2, <2>3
<1> QED BY <1>1, <1>2, <1>3, <1>7, AskKept

\* A worker that has not been launched has said nothing.
LEMMA FreshAsks ==
    ASSUME AskInv, UNCHANGED <<phase, r, sub, said, ask, layerIndex>>, NEW w \in WorkerIds,
           wk[w].st \in {"none", "checked"}, wk[w].pr[1] = "none", wk[w].pr[2] = "none",
           wk'[w].st \in {"none", "checked"}, \A x \in WorkerIds : x # w => wk'[x] = wk[x]
    PROVE  AskInv' /\ (PromptsHonourTypes => PromptsHonourTypes')
<1>1. DOMAIN ask' = Actors /\ DOMAIN layerIndex' = WorkerIds BY DEF AskInv
<1>2. ASSUME NEW x \in WorkerIds PROVE IndexInv(x)'
  <2>1. CASE x = w
    <3>1. layerIndex'[w] = {} BY DEF AskInv, IndexInv
    <3> QED BY <2>1, <3>1 DEF IndexInv
  <2>2. CASE x # w BY <2>2 DEF AskInv, IndexInv
  <2> QED BY <2>1, <2>2
<1>3. ASSUME NEW x \in WorkerIds PROVE wk[x].pr[1] # "none" => wk'[x].pr[1] # "none" /\ wk'[x].type = wk[x].type
  OBVIOUS
<1>4. ASSUME NEW x \in WorkerIds PROVE Live(x) => Live(x)'
  <2>1. ~ Live(w) BY DEF Live, Incarnation
  <2>2. x # w => (Live(x)' <=> Live(x)) BY DEF Live, Incarnation
  <2> QED BY <2>1, <2>2
<1>5. Running' <=> Running BY DEF Running
<1>6. ASSUME NEW a \in Actors PROVE ask'[a] = ask[a] /\ (Alive(a) => Alive(a)')
  BY <1>4, <1>5, Kinds DEF Actors
<1> QED BY <1>1, <1>2, <1>3, <1>6, AskKept

\* A step of one sub-lead that is not asking, or stops.
LEMMA SubAsks ==
    ASSUME AskInv, UNCHANGED <<phase, r, wk, layerIndex, said>>, NEW s \in Subs,
           (ask' = ask /\ sub[s].st # "live") \/ ask' = [ask EXCEPT ![s] = {}],
           sub[s].st \in {"live", "gone"} => sub'[s].st \in {"live", "gone"} /\ sub'[s].type = sub[s].type,
           \A t \in Subs : t # s => sub'[t] = sub[t]
    PROVE  AskInv' /\ (PromptsHonourTypes => PromptsHonourTypes')
<1>1. DOMAIN ask = Actors /\ DOMAIN ask' = Actors /\ DOMAIN layerIndex' = WorkerIds BY DEF AskInv
<1>2. ASSUME NEW x \in WorkerIds PROVE IndexInv(x)' BY DEF AskInv, IndexInv
<1>3. \A t \in Subs : sub[t].st \in {"live", "gone"} => sub'[t].st \in {"live", "gone"} /\ sub'[t].type = sub[t].type
  OBVIOUS
<1>4. \A x \in WorkerIds : Live(x)' <=> Live(x) BY DEF Live, Incarnation
<1>5. Running' <=> Running BY DEF Running
<1>6. ASSUME NEW a \in Actors PROVE ask'[a] = {} \/ (ask'[a] = ask[a] /\ (Alive(a) => Alive(a)'))
  <2>1. a # s => (Alive(a) => Alive(a)') BY <1>4, <1>5, Kinds DEF Actors
  <2>2. CASE ask' = ask /\ sub[s].st # "live"
    <3>1. Alive(s) => Alive(s)' BY <2>2, Kinds
    <3> QED BY <3>1, <2>1, <2>2
  <2>3. CASE ask' = [ask EXCEPT ![s] = {}]
    <3>1. ask'[s] = {} BY <2>3, <1>1 DEF Actors
    <3>2. a # s => ask'[a] = ask[a] BY <2>3, <1>1
    <3> QED BY <2>1, <3>1, <3>2
  <2> QED BY <2>2, <2>3
<1> QED BY <1>1, <1>2, <1>3, <1>6, AskKept

\* Nothing a prompt depends on changes.
LEMMA QuietAsks ==
    ASSUME AskInv, UNCHANGED <<phase, r, wk, sub, layerIndex, ask, said>>
    PROVE  AskInv' /\ (PromptsHonourTypes => PromptsHonourTypes')
<1>1. DOMAIN ask' = Actors /\ DOMAIN layerIndex' = WorkerIds BY DEF AskInv
<1>2. ASSUME NEW x \in WorkerIds PROVE IndexInv(x)' BY DEF AskInv, IndexInv
<1>4. \A x \in WorkerIds : Live(x)' <=> Live(x) BY DEF Live, Incarnation
<1>5. Running' <=> Running BY DEF Running
<1>6. ASSUME NEW a \in Actors PROVE ask'[a] = ask[a] /\ (Alive(a) => Alive(a)')
  BY <1>4, <1>5, Kinds DEF Actors
<1> QED BY <1>1, <1>2, <1>6, AskKept

\* Nobody asks before the manifest is loaded.
LEMMA LoadAsks == ASSUME AskInv, Load PROVE AskInv' /\ PromptsHonourTypes'
<1>1. phase = "file" /\ UNCHANGED <<wk, sub, layerIndex, ask, said>> BY DEF Load
<1>2. said' = {} /\ \A a \in Actors : ask'[a] = {} BY <1>1 DEF AskInv, Running
<1>3. ASSUME NEW x \in WorkerIds PROVE IndexInv(x)' BY <1>1 DEF AskInv, IndexInv
<1>4. DOMAIN ask' = Actors /\ DOMAIN layerIndex' = WorkerIds BY <1>1 DEF AskInv
<1>5. AskInv' BY <1>2, <1>3, <1>4 DEF AskInv, Actors
<1> QED BY <1>2, <1>5 DEF PromptsHonourTypes

\* Those alive have been launched.
LEMMA AliveIsLaunched ==
    ASSUME AdmissionOK, NEW a \in Actors, Alive(a)
    PROVE  /\ a \in WorkerIds => wk[a].pr[1] # "none" /\ (wk[a].pr[2] = "none" => wk[a].st = "running" /\ wk[a].pr[1] = "live")
           /\ a \in Subs => sub[a].st = "live"
<1>1. ASSUME a \in WorkerIds
      PROVE  wk[a].pr[1] # "none" /\ (wk[a].pr[2] = "none" => wk[a].st = "running" /\ wk[a].pr[1] = "live")
  <2>1. Entry(wk[a], sub, now) BY <1>1, EntryOf
  <2>2. Life(wk[a].st, wk[a].pr[1], wk[a].pr[2], wk[a].reason) BY <2>1 DEF Entry
  <2>3. Live(a) BY <1>1, Kinds
  <2>4. IF wk[a].pr[2] = "none" THEN wk[a].pr[1] = "live" ELSE wk[a].pr[2] = "live" BY <2>3 DEF Live, Incarnation
  <2> QED BY <2>2, <2>4 DEF Life, WorkerStates
<1> QED BY <1>1, Kinds

\* One more answer, that honours what it must.
LEMMA AnswerIsSaid ==
    ASSUME AdmissionOK, AskInv, PromptsHonourTypes, Running, UNCHANGED <<phase, r, wk, sub, layerIndex>>,
           NEW a \in Actors, Alive(a), NEW d, said' = said \cup {d}, d.who = a, Honours(d),
           ask' = ask \/ ask' = [ask EXCEPT ![a] = {}]
    PROVE  AskInv' /\ PromptsHonourTypes'
<1>1. DOMAIN ask = Actors /\ DOMAIN ask' = Actors /\ DOMAIN layerIndex' = WorkerIds BY DEF AskInv
<1>2. ASSUME NEW x \in WorkerIds PROVE IndexInv(x)' BY DEF AskInv, IndexInv
<1>3. \A x \in WorkerIds : Live(x)' <=> Live(x) BY DEF Live, Incarnation
<1>4. (Running' <=> Running) /\ phase' = "run" BY DEF Running
<1>5. ASSUME NEW x \in Actors PROVE (Alive(x) => Alive(x)') /\ TypeOf(x)' = TypeOf(x)
  BY <1>3, <1>4, Kinds DEF Actors
<1>6. ASSUME NEW x \in Actors, ask'[x] # {}
      PROVE  Running' /\ Alive(x)' /\ \A t \in ask'[x] : Admitted(r'.mcp_servers, t)
  <2>1. ask'[x] = ask[x] BY <1>1, <1>6
  <2>2. Running /\ Alive(x) /\ \A t \in ask[x] : Admitted(r.mcp_servers, t) BY <1>6, <2>1 DEF AskInv
  <2> QED BY <2>1, <2>2, <1>4, <1>5
<1>7. ASSUME NEW e \in said'
      PROVE  /\ e.who \in Actors
             /\ e.who \in WorkerIds => wk'[e.who].pr[1] # "none"
             /\ e.who \in Subs => sub'[e.who].st \in {"live", "gone"}
  <2>1. CASE e \in said BY <2>1 DEF AskInv
  <2>2. CASE e = d BY <2>2, AliveIsLaunched
  <2> QED BY <2>1, <2>2
<1>8. AskInv' BY <1>1, <1>2, <1>4, <1>6, <1>7 DEF AskInv, Actors
<1>9. ASSUME NEW e \in said' PROVE Honours(e)
  BY DEF PromptsHonourTypes, Honours
<1>10. \A e \in said' : TypeOf(e.who)' = TypeOf(e.who) BY <1>5, <1>7
<1>11. PromptsHonourTypes' BY <1>9, <1>10, HonoursStays
<1> QED BY <1>8, <1>11

\* A prompt is answered by a server's list or by a rule, or waits.
LEMMA PromptAsks ==
    ASSUME AdmissionOK, AskInv, PromptsHonourTypes, NEW a \in Actors, NEW t, Prompt(a, t)
    PROVE  AskInv' /\ PromptsHonourTypes'
<1>1. Running /\ Alive(a) /\ ask[a] = {} /\ UNCHANGED <<phase, r, wk, sub, layerIndex>> BY DEF Prompt
<1> DEFINE D(by, ok) == [who |-> a, tool |-> t, by |-> by, ok |-> ok, again |-> a \in WorkerIds /\ Incarnation(a) = 2,
                         orphan |-> a \in WorkerIds /\ wk[a].layer \in Subs /\ sub[wk[a].layer].st # "live"]
<1>2. ASSUME NEW by \in {"server", "rule"}, NEW ok \in BOOLEAN, Answer(a, t, by, ok), UNCHANGED ask,
             ok => Admitted(r.mcp_servers, t)
      PROVE  AskInv' /\ PromptsHonourTypes'
  <2> DEFINE d == D(by, ok)
  <2>1. said' = said \cup {d} BY <1>2 DEF Answer
  <2>2. d.who = a /\ d.ok = ok /\ d.by = by /\ d.tool = t OBVIOUS
  <2> HIDE DEF d
  <2>3. Honours(d) BY <2>2, <1>2 DEF Honours
  <2> QED BY <1>1, <1>2, <2>1, <2>2, <2>3, AnswerIsSaid
<1>3. ASSUME Admitted(r.mcp_servers, t), ask' = [ask EXCEPT ![a] = {t}], UNCHANGED said
      PROVE  AskInv' /\ PromptsHonourTypes'
  <2>1. DOMAIN ask = Actors /\ DOMAIN ask' = Actors /\ DOMAIN layerIndex' = WorkerIds BY <1>1, <1>3 DEF AskInv
  <2>2. ASSUME NEW x \in WorkerIds PROVE IndexInv(x)' BY <1>1 DEF AskInv, IndexInv
  <2>3. \A x \in WorkerIds : Live(x)' <=> Live(x) BY <1>1 DEF Live, Incarnation
  <2>4. (Running' <=> Running) /\ phase' = "run" BY <1>1 DEF Running
  <2>5. ASSUME NEW x \in Actors PROVE (Alive(x) => Alive(x)') /\ TypeOf(x)' = TypeOf(x)
    BY <1>1, <2>3, <2>4, Kinds DEF Actors
  <2>6. ASSUME NEW x \in Actors, ask'[x] # {}
        PROVE  Running' /\ Alive(x)' /\ \A u \in ask'[x] : Admitted(r'.mcp_servers, u)
    <3>1. CASE x = a
      <4>1. ask'[x] = {t} BY <3>1, <1>3, <2>1
      <4> QED BY <3>1, <4>1, <1>1, <1>3, <2>4, <2>5
    <3>2. CASE x # a
      <4>1. ask'[x] = ask[x] BY <3>2, <1>3, <2>1
      <4>2. Alive(x) /\ \A u \in ask[x] : Admitted(r.mcp_servers, u) BY <2>6, <4>1 DEF AskInv
      <4> QED BY <4>1, <4>2, <1>1, <2>4, <2>5
    <3> QED BY <3>1, <3>2
  <2>7. AskInv' BY <1>1, <1>3, <2>1, <2>2, <2>4, <2>6 DEF AskInv, Actors
  <2>8. ASSUME NEW e \in said' PROVE Honours(e) /\ TypeOf(e.who)' = TypeOf(e.who)
    <3>1. e \in said /\ e.who \in Actors BY <1>3 DEF AskInv
    <3>2. Honours(e) BY <3>1, <1>1 DEF Honours, PromptsHonourTypes
    <3> QED BY <3>1, <3>2, <2>5
  <2>9. PromptsHonourTypes' BY <1>1, <2>8, HonoursStays
  <2> QED BY <2>7, <2>9
<1>4. \/ Answer(a, t, "server", FALSE) /\ UNCHANGED ask
      \/ Admitted(r.mcp_servers, t) /\ Answer(a, t, "rule", TRUE) /\ UNCHANGED ask
      \/ Answer(a, t, "rule", FALSE) /\ UNCHANGED ask
      \/ Admitted(r.mcp_servers, t) /\ ask' = [ask EXCEPT ![a] = {t}] /\ UNCHANGED said
  BY DEF Prompt
<1> QED BY <1>2, <1>3, <1>4

\* The type that is found is the actor's; it is not found only of a worker in a sub-lead's
\* layer that was resumed, or whose sub-lead has gone.
LEMMA FoundIsTrue ==
    ASSUME AdmissionOK, AskInv, NEW a \in WorkerIds \cup Subs, Alive(a)
    PROVE  /\ TypeFound(a) # {} => TypeFound(a) = TypeOf(a)
           /\ TypeFound(a) = {} /\ TypeOf(a) # {} =>
                 a \in WorkerIds /\ (wk[a].pr[2] # "none" \/ (wk[a].layer \in Subs /\ sub[wk[a].layer].st # "live"))
<1>1. WorkerIds \cap Subs = {} /\ "root" \notin Subs BY IdsAssumption
<1>2. CASE a \in Subs
  <2>1. TypeFound(a) = TypeOf(a) BY <1>1, <1>2, Kinds DEF TypeFound
  <2> QED BY <2>1
<1>3. CASE a \in WorkerIds
  <2>1. TypeOf(a) = wk[a].type BY <1>3, Kinds
  <2> DEFINE l == wk[a].layer
  <2>2. l \in SpawnLayers BY <1>3, EntryOf DEF Entry
  <2>3. layerIndex[a] \subseteq {l} BY <1>3 DEF AskInv, IndexInv
  <2>4. wk[a].pr[2] = "none" => layerIndex[a] = {l}
    <3>1. a \in Actors BY <1>3 DEF Actors
    <3>2. wk[a].pr[2] = "none" => wk[a].st = "running" /\ wk[a].pr[1] = "live" BY <1>3, <3>1, AliveIsLaunched
    <3> QED BY <3>2, <1>3 DEF AskInv, IndexInv
  <2> HIDE DEF l
  <2>5. CASE layerIndex[a] \cap Subs = {}
    <3>1. TypeFound(a) = IF l = "root" THEN wk[a].type ELSE {} BY <1>1, <1>3, <2>5 DEF TypeFound, l
    <3>2. l # "root" => wk[a].pr[2] # "none" BY <2>2, <2>4, <2>5 DEF SpawnLayers
    <3> QED BY <3>1, <3>2, <2>1, <1>3
  <2>6. CASE layerIndex[a] \cap Subs # {}
    <3>1. layerIndex[a] = {l} /\ l \in Subs BY <2>3, <2>6
    <3>2. The(layerIndex[a]) = l BY <3>1, TheIsIn
    <3>3. TypeFound(a) = IF sub[The(layerIndex[a])].st \in {"live", "orphan"} THEN wk[a].type ELSE {}
      BY <1>1, <1>3, <2>6 DEF TypeFound
    <3>4. TypeFound(a) = {} /\ wk[a].type # {} => sub[l].st # "live" BY <3>2, <3>3
    <3> QED BY <3>1, <3>3, <3>4, <2>1, <1>3 DEF l
  <2> QED BY <2>5, <2>6
<1> QED BY <1>2, <1>3

\* A type answers.
LEMMA ProfileAnswers ==
    ASSUME AdmissionOK, AskInv, PromptsHonourTypes, NEW a \in Actors, PromptProfile(a)
    PROVE  AskInv' /\ PromptsHonourTypes'
<1>1. /\ Running /\ ask[a] # {} /\ Profile(a) # {} /\ UNCHANGED <<phase, r, wk, sub, layerIndex>>
      /\ ask' = [ask EXCEPT ![a] = {}]
  BY DEF PromptProfile
<1> DEFINE t == The(ask[a])
           ok == t \in The(Profile(a))
           d == [who |-> a, tool |-> t, by |-> "profile", ok |-> ok, again |-> a \in WorkerIds /\ Incarnation(a) = 2,
                 orphan |-> a \in WorkerIds /\ wk[a].layer \in Subs /\ sub[wk[a].layer].st # "live"]
<1>2. said' = said \cup {d} BY DEF PromptProfile, Answer
<1>3. d.who = a /\ (d.ok <=> ok) /\ d.by = "profile" /\ d.tool = t OBVIOUS
<1>4. Alive(a) /\ Admitted(r.mcp_servers, t) BY <1>1, TheIsIn DEF AskInv
<1>5. a # "lead" /\ a \in WorkerIds \cup Subs BY <1>1 DEF Profile, Actors
<1> DEFINE T == TypeOf(a)
<1>6. ASSUME ok PROVE t \in (IF a \in Subs THEN SType(The(T)) ELSE WType(The(T))).tools
  <2>1. TypeFound(a) # {} => TypeFound(a) = T BY <1>4, <1>5, FoundIsTrue
  <2>2. CASE TypeFound(a) # {}
    <3>1. Profile(a) = {ById(IF a \in Subs THEN r.sublead_types ELSE r.worker_types, The(T)).tools}
      BY <2>1, <2>2, <1>5 DEF Profile
    <3>2. The(Profile(a)) = ById(IF a \in Subs THEN r.sublead_types ELSE r.worker_types, The(T)).tools
      BY <3>1, TheIsIn
    <3> QED BY <3>2, <1>6 DEF SType, WType
  <2>3. CASE TypeFound(a) = {}
    <3>1. Profile(a) = {{}} BY <2>3, <1>1, <1>5 DEF Profile
    <3>2. The(Profile(a)) = {} BY <3>1, TheIsIn
    <3> QED BY <3>2, <1>6
  <2> QED BY <2>2, <2>3
<1> HIDE DEF d, t, ok
<1>7. Honours(d) BY <1>3, <1>4, <1>6 DEF Honours
<1> QED BY <1>1, <1>2, <1>3, <1>4, <1>7, AnswerIsSaid

\* An operator answers.
LEMMA OperatorAnswers ==
    ASSUME AdmissionOK, AskInv, PromptsHonourTypes, NEW a \in Actors, NEW ok \in BOOLEAN, PromptOperator(a, ok)
    PROVE  AskInv' /\ PromptsHonourTypes'
<1>1. /\ Running /\ ask[a] # {} /\ Profile(a) = {} /\ UNCHANGED <<phase, r, wk, sub, layerIndex>>
      /\ ask' = [ask EXCEPT ![a] = {}]
  BY DEF PromptOperator
<1> DEFINE t == The(ask[a])
           again == a \in WorkerIds /\ Incarnation(a) = 2
           orphan == a \in WorkerIds /\ wk[a].layer \in Subs /\ sub[wk[a].layer].st # "live"
           d == [who |-> a, tool |-> t, by |-> "operator", ok |-> ok, again |-> again, orphan |-> orphan]
<1>2. said' = said \cup {d} BY DEF PromptOperator, Answer
<1>3. d.who = a /\ d.ok = ok /\ d.by = "operator" /\ d.tool = t /\ (d.again <=> again) /\ (d.orphan <=> orphan) OBVIOUS
<1>4. Alive(a) /\ Admitted(r.mcp_servers, t) BY <1>1, TheIsIn DEF AskInv
<1>5. a = "lead" \/ (TypeFound(a) = {} /\ r.run.untyped_actor_policy # "block") BY <1>1 DEF Profile
<1>6. ASSUME TypeOf(a) # {} PROVE again \/ orphan
  <2>1. a # "lead" BY <1>6, Kinds
  <2>2. a \in WorkerIds \cup Subs /\ TypeFound(a) = {} BY <2>1, <1>5 DEF Actors
  <2>3. a \in WorkerIds /\ (wk[a].pr[2] # "none" \/ (wk[a].layer \in Subs /\ sub[wk[a].layer].st # "live"))
    BY <2>2, <1>4, <1>6, FoundIsTrue
  <2> QED BY <2>3 DEF Incarnation
<1> HIDE DEF d, t, again, orphan
<1>7. Honours(d) BY <1>3, <1>4, <1>5, <1>6 DEF Honours
<1> QED BY <1>1, <1>2, <1>3, <1>4, <1>7, AnswerIsSaid

-----------------------------------------------------------------------------
(* The inductive invariant, action by action *)

AdmissionInv == AdmissionOK /\ CapInv /\ GateInv /\ AskInv /\ PromptsHonourTypes

\* The invariant holds at the start.
LEMMA AdmissionStarts == ASSUME AdmissionInit PROVE AdmissionInv
<1>1. AdmissionOK BY AdmissionInitOK
<1>2. CapInv BY DEF AdmissionInit, CapInv
<1>3. \A w \in WorkerIds : wk[w] = NoWorker /\ layerIndex[w] = {} BY DEF AdmissionInit
<1>4. GateInv BY <1>3, NoWorkerIs DEF AdmissionInit, GateInv
<1>5. \A w \in WorkerIds : IndexInv(w) BY <1>3, NoWorkerIs DEF IndexInv
<1>6. DOMAIN ask = Actors /\ DOMAIN layerIndex = WorkerIds /\ said = {} /\ \A a \in Actors : ask[a] = {}
  BY DEF AdmissionInit, Actors
<1>7. AskInv BY <1>5, <1>6 DEF AskInv
<1>8. PromptsHonourTypes BY <1>6 DEF PromptsHonourTypes
<1> QED BY <1>1, <1>2, <1>4, <1>7, <1>8 DEF AdmissionInv

\* spawn_worker past its gates.
LEMMA CheckKeeps ==
    ASSUME AdmissionInv, NEW w \in scenario.workers, NEW l \in SpawnLayers, NEW args, SpawnWorkerCheck(w, l, args)
    PROVE  AdmissionInv'
<1> USE DEF AdmissionInv
<1> DEFINE v == [NoWorker EXCEPT !.st = "checked", !.layer = l, !.type = args.type,
                                 !.want = WantedSession(l, args, TypeNamed(r.worker_types, args.type))]
<1>1. w \in WorkerIds /\ AdmissionOK' /\ CapInv' BY CheckWorkerOK, CheckCaps
<1>2. /\ UNCHANGED <<phase, r, sub, said, ask, layerIndex, health>> /\ wk[w].st = "none" /\ wk' = [wk EXCEPT ![w] = v]
  BY DEF SpawnWorkerCheck
<1>3. v.st = "checked" /\ v.pr = NoWorker.pr BY NoWorkerIs DEF WorkerFields
<1> HIDE DEF v
<1>4. wk'[w] = v /\ \A x \in WorkerIds : x # w => wk'[x] = wk[x] BY <1>1, <1>2 DEF AdmissionOK
<1>5. Life(wk[w].st, wk[w].pr[1], wk[w].pr[2], wk[w].reason) BY <1>1, EntryOf DEF Entry
<1>6. wk[w].pr[1] = "none" /\ wk[w].pr[2] = "none" /\ wk[w].reason = "" BY <1>2, <1>5 DEF Life
<1>7. wk'[w].pr[1] = "none" /\ wk'[w].st = "checked" BY <1>3, <1>4, NoWorkerIs
<1>8. GateInv' BY <1>1, <1>2, <1>4, <1>6, <1>7, GateFresh
<1>9. AskInv' /\ PromptsHonourTypes' BY <1>1, <1>2, <1>4, <1>6, <1>7, FreshAsks
<1> QED BY <1>1, <1>8, <1>9

\* spawn_worker refused by the budget.
LEMMA RefusedKeeps == ASSUME AdmissionInv, NEW w \in WorkerIds, SpawnWorkerRefused(w) PROVE AdmissionInv'
<1> USE DEF AdmissionInv
<1>1. /\ AdmissionOK' /\ wk[w].st = "checked" /\ wk'[w] = NoWorker
      /\ \A x \in WorkerIds : x # w => wk'[x] = wk[x]
  BY RefusedMoves
<1>2. UNCHANGED <<phase, r, sub, said, ask, layerIndex, health, peak>> /\ phase = "run" BY DEF SpawnWorkerRefused, Running
<1>3. wk'[w].pr[1] = "none" /\ wk'[w].st = "none" BY <1>1, NoWorkerIs
<1>4. Life(wk[w].st, wk[w].pr[1], wk[w].pr[2], wk[w].reason) BY EntryOf DEF Entry
<1>5. wk[w].pr[1] = "none" /\ wk[w].pr[2] = "none" /\ wk[w].reason = "" BY <1>1, <1>4 DEF Life
<1>6. GateInv' BY <1>1, <1>2, <1>3, <1>5, GateFresh
<1>7. AskInv' /\ PromptsHonourTypes' BY <1>1, <1>2, <1>3, <1>5, FreshAsks
<1>8. ASSUME NEW l \in SpawnLayers
      PROVE  MaxWorkers(l)' = MaxWorkers(l) /\ Placed(l)' \subseteq Placed(l) /\ peak'[l] = peak[l]
  BY <1>1, <1>2, <1>3 DEF Placed, MaxWorkers
<1>9. PlacedSubs' = PlacedSubs /\ peak'["subleads"] = peak["subleads"] BY <1>2 DEF PlacedSubs
<1>10. CapInv' BY <1>2, <1>8, <1>9, CapsKept
<1> QED BY <1>1, <1>6, <1>7, <1>10

\* The worker enters its layer's maps, and the index.
LEMMA InsertKeeps == ASSUME AdmissionInv, NEW w \in WorkerIds, SpawnWorkerInsert(w) PROVE AdmissionInv'
<1> USE DEF AdmissionInv
<1>1. /\ AdmissionOK' /\ wk[w].st = "checked" /\ wk[w].pr[1] = "none" /\ wk[w].pr[2] = "none" /\ wk[w].reason = ""
      /\ Becomes(w, "pending", "none", "none", "", wk[w].at)
  BY InsertMoves
<1>2. /\ phase = "run" /\ UNCHANGED <<phase, r, sub, said, ask, health, peak>>
      /\ layerIndex' = [layerIndex EXCEPT ![w] = {wk[w].layer}]
  BY DEF SpawnWorkerInsert, Running
<1>3. CapInv' BY <1>1, <1>2, WorkerCaps
<1>4. GateInv' BY <1>1, <1>2, GateKept
<1>5. DOMAIN layerIndex' = WorkerIds /\ layerIndex'[w] = {wk[w].layer} /\ \A x \in WorkerIds : x # w => layerIndex'[x] = layerIndex[x]
  BY <1>2 DEF AskInv
<1>6. ~ Live(w) BY <1>1 DEF Live, Incarnation
<1>7. AskInv' /\ PromptsHonourTypes' BY <1>1, <1>2, <1>5, <1>6, WorkerAsks
<1> QED BY <1>1, <1>3, <1>4, <1>7

\* A worker is launched.
LEMMA LaunchKeeps == ASSUME AdmissionInv, NEW w \in WorkerIds, NEW config, LaunchWorker(w, config) PROVE AdmissionInv'
<1> USE DEF AdmissionInv
<1>1. /\ AdmissionOK' /\ wk[w].st = "pending" /\ wk[w].pr[1] = "none" /\ wk[w].pr[2] = "none" /\ wk[w].reason = ""
      /\ Becomes(w, "running", "live", wk[w].pr[2], wk[w].reason, wk[w].at)
  BY LaunchMoves
<1>2. phase = "run" /\ UNCHANGED <<phase, r, sub, said, ask, health, peak, layerIndex>> BY DEF LaunchWorker, Running
<1>3. CapInv' BY <1>1, <1>2, WorkerCaps
<1>4. GateInv' BY <1>1, <1>2, GateKept
<1>5. DOMAIN layerIndex' = WorkerIds /\ IndexInv(w) BY <1>2 DEF AskInv
<1>6. layerIndex'[w] = {wk[w].layer} BY <1>1, <1>2, <1>5 DEF IndexInv
<1>7. ~ Live(w) BY <1>1 DEF Live, Incarnation
<1>8. AskInv' /\ PromptsHonourTypes' BY <1>1, <1>2, <1>5, <1>6, <1>7, WorkerAsks
<1> QED BY <1>1, <1>3, <1>4, <1>8

\* A worker is reprompted.
LEMMA RepromptKeeps == ASSUME AdmissionInv, NEW w \in WorkerIds, RepromptWorker(w) PROVE AdmissionInv'
<1> USE DEF AdmissionInv
<1>1. /\ AdmissionOK' /\ wk[w].st = "running" /\ wk[w].pr[1] = "live" /\ wk[w].pr[2] = "none" /\ wk[w].reason = ""
      /\ Becomes(w, wk[w].st, "exited", "next", wk[w].reason, wk[w].at)
  BY RepromptMoves
<1>2. /\ phase = "run" /\ UNCHANGED <<phase, r, sub, said, health, peak, layerIndex>> /\ ask' = [ask EXCEPT ![w] = {}]
  BY DEF RepromptWorker, Running
<1>3. CapInv' BY <1>1, <1>2, WorkerCaps
<1>4. GateInv' BY <1>1, <1>2, GateKept
<1>5. DOMAIN layerIndex' = WorkerIds /\ IndexInv(w) BY <1>2 DEF AskInv
<1>6. layerIndex'[w] \subseteq {wk[w].layer} BY <1>2, <1>5 DEF IndexInv
<1>7. AskInv' /\ PromptsHonourTypes' BY <1>1, <1>2, <1>5, <1>6, WorkerAsks
<1> QED BY <1>1, <1>3, <1>4, <1>7

\* A reprompted worker is launched again.
LEMMA ResumeKeeps == ASSUME AdmissionInv, NEW w \in WorkerIds, NEW config, ResumeWorker(w, config) PROVE AdmissionInv'
<1> USE DEF AdmissionInv
<1>1. /\ AdmissionOK' /\ wk[w].pr[2] = "next" /\ wk[w].reason = "" /\ wk[w].pr[1] \notin {"none", "live"}
      /\ Becomes(w, "running", wk[w].pr[1], "live", wk[w].reason, wk[w].at)
  BY ResumeMoves
<1>2. phase = "run" /\ UNCHANGED <<phase, r, sub, said, ask, health, peak, layerIndex>> BY DEF ResumeWorker, Running
<1>3. CapInv' BY <1>1, <1>2, WorkerCaps
<1>4. GateInv' BY <1>1, <1>2, GateKept
<1>5. DOMAIN layerIndex' = WorkerIds /\ IndexInv(w) BY <1>2 DEF AskInv
<1>6. layerIndex'[w] \subseteq {wk[w].layer} BY <1>2, <1>5 DEF IndexInv
<1>7. AskInv' /\ PromptsHonourTypes' BY <1>1, <1>2, <1>5, <1>6, WorkerAsks
<1> QED BY <1>1, <1>3, <1>4, <1>7

\* A reprompted worker is not launched again.
LEMMA ResumeFailsKeeps == ASSUME AdmissionInv, NEW w \in WorkerIds, ResumeFails(w) PROVE AdmissionInv'
<1> USE DEF AdmissionInv
<1>1. /\ AdmissionOK' /\ wk[w].pr[2] = "next" /\ wk[w].reason = "" /\ wk[w].pr[1] \notin {"none", "live"}
      /\ Becomes(w, wk[w].st, wk[w].pr[1], "over", wk[w].reason, wk[w].at)
  BY ResumeFailsMoves
<1>2. phase = "run" /\ UNCHANGED <<phase, r, sub, said, ask, health, peak, layerIndex>> BY DEF ResumeFails, Running
<1>3. Life(wk[w].st, wk[w].pr[1], wk[w].pr[2], wk[w].reason) BY EntryOf DEF Entry
<1>4. wk[w].st \notin {"none", "checked"} BY <1>1, <1>3 DEF Life
<1>5. CapInv' BY <1>1, <1>2, <1>4, WorkerCaps
<1>6. GateInv' BY <1>1, <1>2, GateKept
<1>7. DOMAIN layerIndex' = WorkerIds /\ IndexInv(w) BY <1>2 DEF AskInv
<1>8. layerIndex'[w] \subseteq {wk[w].layer} BY <1>2, <1>7 DEF IndexInv
<1>9. ~ Live(w) BY <1>1 DEF Live, Incarnation
<1>10. AskInv' /\ PromptsHonourTypes' BY <1>1, <1>2, <1>4, <1>7, <1>8, <1>9, WorkerAsks
<1> QED BY <1>1, <1>5, <1>6, <1>10

\* A worker's process ends.
LEMMA ExitKeeps == ASSUME AdmissionInv, NEW w \in WorkerIds, NEW why, WorkerExits(w, why) PROVE AdmissionInv'
<1> USE DEF AdmissionInv
<1>1. /\ phase = "run" /\ UNCHANGED <<phase, r, sub, said, health, peak, layerIndex>> /\ ask' = [ask EXCEPT ![w] = {}]
  BY DEF WorkerExits, Running
<1>2. Life(wk[w].st, wk[w].pr[1], wk[w].pr[2], wk[w].reason) BY EntryOf DEF Entry
<1>3. DOMAIN layerIndex' = WorkerIds /\ IndexInv(w) BY <1>1 DEF AskInv
<1>4. layerIndex'[w] \subseteq {wk[w].layer} BY <1>1, <1>3 DEF IndexInv
<1>5. CASE wk[w].pr[2] = "none"
  <2>1. /\ AdmissionOK' /\ wk[w].pr[1] = "live" /\ wk[w].reason = ""
        /\ Becomes(w, wk[w].st, "exited", wk[w].pr[2], why, now)
    BY <1>5, FirstExits
  <2>2. wk[w].st = "running" BY <2>1, <1>2, <1>5 DEF Life, WorkerStates
  <2>3. CapInv' BY <2>1, <2>2, <1>1, <1>5, WorkerCaps
  <2>4. GateInv' BY <2>1, <1>1, GateKept
  <2>5. layerIndex'[w] = {wk[w].layer} BY <2>1, <2>2, <1>1, <1>3, <1>5 DEF IndexInv
  <2>6. AskInv' /\ PromptsHonourTypes' BY <2>1, <2>2, <2>5, <1>1, <1>3, WorkerAsks
  <2> QED BY <2>1, <2>3, <2>4, <2>6
<1>6. CASE wk[w].pr[2] # "none"
  <2>1. /\ AdmissionOK' /\ wk[w].pr[2] = "live" /\ wk[w].reason = ""
        /\ Becomes(w, wk[w].st, wk[w].pr[1], "exited", why, now)
    BY <1>6, SecondExits
  <2>2. wk[w].st \notin {"none", "checked"} /\ wk[w].pr[1] # "none" BY <2>1, <1>2 DEF Life
  <2>3. CapInv' BY <2>1, <2>2, <1>1, WorkerCaps
  <2>4. GateInv' BY <2>1, <1>1, GateKept
  <2>5. AskInv' /\ PromptsHonourTypes' BY <2>1, <2>2, <1>1, <1>3, <1>4, WorkerAsks
  <2> QED BY <2>1, <2>3, <2>4, <2>5
<1> QED BY <1>5, <1>6

\* A tail records the failure, when it is the last process's.
LEMMA RecordKeeps == ASSUME AdmissionInv, NEW w \in WorkerIds, NEW i \in 1 .. 2, RecordFailure(w, i) PROVE AdmissionInv'
<1> USE DEF AdmissionInv
<1>1. /\ phase = "run" /\ UNCHANGED <<phase, r, sub, said, ask, peak, layerIndex>>
      /\ health' = Recorded(IF i = Incarnation(w) THEN wk[w].reason ELSE "")
  BY DEF RecordFailure, Running
<1>2. Life(wk[w].st, wk[w].pr[1], wk[w].pr[2], wk[w].reason) BY EntryOf DEF Entry
<1>3. DOMAIN layerIndex' = WorkerIds /\ IndexInv(w) BY <1>1 DEF AskInv
<1>4. layerIndex'[w] \subseteq {wk[w].layer} BY <1>1, <1>3 DEF IndexInv
<1>5. CASE i = 1
  <2>1. /\ AdmissionOK' /\ wk[w].pr[1] = "exited"
        /\ Becomes(w, wk[w].st, "recorded", wk[w].pr[2], wk[w].reason, wk[w].at)
    BY <1>5, FirstIsRecorded
  <2>2. wk[w].st \notin {"none", "checked"} BY <2>1, <1>2 DEF Life
  <2>3. CapInv' BY <2>1, <2>2, <1>1, WorkerCaps
  <2>4. GateInv'
    <3>1. CASE wk[w].pr[2] = "none"
      <4>1. health' = Recorded(wk[w].reason) BY <3>1, <1>1, <1>5 DEF Incarnation
      <4> QED BY <4>1, <2>1, GateRecorded
    <3>2. CASE wk[w].pr[2] # "none"
      <4>1. health' = health BY <3>2, <1>1, <1>5 DEF Incarnation, Recorded
      <4> QED BY <4>1, <3>2, <2>1, GateKept
    <3> QED BY <3>1, <3>2
  <2>5. wk[w].st \in {"pending", "running"} /\ wk[w].pr[2] = "none" => layerIndex'[w] = {wk[w].layer}
    BY <2>1, <1>1, <1>3 DEF IndexInv
  <2>6. Live(w) => (IF wk[w].pr[2] = "none" THEN "recorded" ELSE wk[w].pr[2]) = "live"
    BY <2>1 DEF Live, Incarnation
  <2>7. AskInv' /\ PromptsHonourTypes' BY <2>1, <2>2, <2>5, <2>6, <1>1, <1>3, <1>4, WorkerAsks
  <2> QED BY <2>1, <2>3, <2>4, <2>7
<1>6. CASE i = 2
  <2>1. /\ AdmissionOK' /\ wk[w].pr[2] = "exited" /\ wk[w].pr[1] \notin {"none", "live"}
        /\ Becomes(w, wk[w].st, wk[w].pr[1], "recorded", wk[w].reason, wk[w].at)
    BY <1>6, SecondIsRecorded
  <2>2. wk[w].st \notin {"none", "checked"} BY <2>1, <1>2 DEF Life
  <2>3. CapInv' BY <2>1, <2>2, <1>1, WorkerCaps
  <2>4. health' = Recorded(wk[w].reason) BY <2>1, <1>1, <1>6 DEF Incarnation
  <2>5. GateInv' BY <2>1, <2>4, GateRecorded
  <2>6. ~ Live(w) BY <2>1 DEF Live, Incarnation
  <2>7. AskInv' /\ PromptsHonourTypes' BY <2>1, <2>2, <2>6, <1>1, <1>3, <1>4, WorkerAsks
  <2> QED BY <2>1, <2>3, <2>5, <2>7
<1> QED BY <1>5, <1>6

\* A tail ends.
LEMMA FinishKeeps == ASSUME AdmissionInv, NEW w \in WorkerIds, NEW i \in 1 .. 2, FinishWorker(w, i) PROVE AdmissionInv'
<1> USE DEF AdmissionInv
<1>1. /\ phase = "run" /\ UNCHANGED <<phase, r, sub, said, ask, health, peak>>
      /\ layerIndex' = [layerIndex EXCEPT ![w] = {}]
  BY DEF FinishWorker, Running
<1>2. DOMAIN layerIndex' = WorkerIds /\ layerIndex'[w] = {} /\ \A x \in WorkerIds : x # w => layerIndex'[x] = layerIndex[x]
  BY <1>1 DEF AskInv
<1>3. CASE i = 1
  <2>1. /\ AdmissionOK' /\ wk[w].pr[1] = "recorded"
        /\ Becomes(w, "done", "over", wk[w].pr[2], wk[w].reason, wk[w].at)
    BY <1>3, FirstIsDone
  <2>2. CapInv' BY <2>1, <1>1, WorkerCaps
  <2>3. GateInv' BY <2>1, <1>1, GateKept
  <2>4. Live(w) => (IF wk[w].pr[2] = "none" THEN "over" ELSE wk[w].pr[2]) = "live"
    BY <2>1 DEF Live, Incarnation
  <2>5. AskInv' /\ PromptsHonourTypes' BY <2>1, <2>4, <1>1, <1>2, WorkerAsks
  <2> QED BY <2>1, <2>2, <2>3, <2>5
<1>4. CASE i = 2
  <2>1. /\ AdmissionOK' /\ wk[w].pr[2] = "recorded" /\ wk[w].pr[1] \notin {"none", "live"}
        /\ Becomes(w, "done", wk[w].pr[1], "over", wk[w].reason, wk[w].at)
    BY <1>4, SecondIsDone
  <2>2. CapInv' BY <2>1, <1>1, WorkerCaps
  <2>3. GateInv' BY <2>1, <1>1, GateKept
  <2>4. ~ Live(w) BY <2>1 DEF Live, Incarnation
  <2>5. AskInv' /\ PromptsHonourTypes' BY <2>1, <2>4, <1>1, <1>2, WorkerAsks
  <2> QED BY <2>1, <2>2, <2>3, <2>5
<1> QED BY <1>3, <1>4

\* The gate does not depend on the sub-leads.
LEMMA QuietGate == ASSUME GateInv, UNCHANGED <<wk, health>> PROVE GateInv'
BY DEF GateInv

\* spawn_sublead past its gates.
LEMMA SubCheckKeeps ==
    ASSUME AdmissionInv, NEW s \in scenario.subs, NEW args \in scenario.subspawns, SpawnSubleadCheck(s, args)
    PROVE  AdmissionInv'
<1> USE DEF AdmissionInv
<1>1. UNCHANGED <<phase, r, wk, layerIndex, health, ask, said>> BY DEF SpawnSubleadCheck
<1>2. s \in Subs /\ AdmissionOK' /\ sub[s].st = "none" /\ \A t \in Subs : t # s => sub'[t] = sub[t] BY SubCheckMoves
<1>3. CapInv' BY SubCheckCaps
<1>4. GateInv' BY <1>1, QuietGate
<1>5. AskInv' /\ PromptsHonourTypes' BY <1>1, <1>2, SubAsks
<1> QED BY <1>2, <1>3, <1>4, <1>5

\* A sub-lead is registered, fails, or ends.
LEMMA SubKeeps ==
    ASSUME AdmissionInv, NEW s \in Subs, SpawnSubleadInsert(s) \/ SpawnSubleadFails(s) \/ SubleadEnds(s)
    PROVE  AdmissionInv'
<1> USE DEF AdmissionInv
<1>1. phase = "run" /\ UNCHANGED <<phase, r, wk, layerIndex, health, said, peak>>
  BY DEF SpawnSubleadInsert, SpawnSubleadFails, SubleadEnds, Running
<1>2. GateInv' BY <1>1, QuietGate
<1>3. CASE SpawnSubleadInsert(s)
  <2>1. AdmissionOK' /\ sub[s].st = "checked" /\ SubBecomes(s, "live") BY <1>3, SubInsertMoves
  <2>2. CapInv' BY <2>1, <1>1, SubCaps
  <2>3. UNCHANGED ask BY <1>3 DEF SpawnSubleadInsert
  <2>4. AskInv' /\ PromptsHonourTypes' BY <2>1, <2>3, <1>1, SubAsks DEF SubBecomes
  <2> QED BY <2>1, <2>2, <2>4, <1>2
<1>4. CASE SpawnSubleadFails(s)
  <2>1. AdmissionOK' /\ sub[s].st = "checked" /\ SubBecomes(s, "orphan") BY <1>4, SubFailsMoves
  <2>2. CapInv' BY <2>1, <1>1, SubCaps
  <2>3. UNCHANGED ask BY <1>4 DEF SpawnSubleadFails
  <2>4. AskInv' /\ PromptsHonourTypes' BY <2>1, <2>3, <1>1, SubAsks DEF SubBecomes
  <2> QED BY <2>1, <2>2, <2>4, <1>2
<1>5. CASE SubleadEnds(s)
  <2>1. AdmissionOK' /\ sub[s].st = "live" /\ SubBecomes(s, "gone") BY <1>5, SubEndsMoves
  <2>2. CapInv' BY <2>1, <1>1, SubCaps
  <2>3. ask' = [ask EXCEPT ![s] = {}] BY <1>5 DEF SubleadEnds
  <2>4. AskInv' /\ PromptsHonourTypes' BY <2>1, <2>3, <1>1, SubAsks DEF SubBecomes
  <2> QED BY <2>1, <2>2, <2>4, <1>2
<1> QED BY <1>3, <1>4, <1>5

\* A step of permission_prompt.
LEMMA PromptKeeps == ASSUME AdmissionInv, PromptStep PROVE AdmissionInv'
<1> USE DEF AdmissionInv
<1>1. PICK a \in Actors : \/ \E t \in scenario.prompts : Prompt(a, t)
                          \/ PromptProfile(a)
                          \/ \E ok \in BOOLEAN : PromptOperator(a, ok)
  BY DEF PromptStep
<1>2. UNCHANGED <<scenario, phase, r, wk, sub, layerIndex, health, now, peak>>
  BY <1>1 DEF Prompt, PromptProfile, PromptOperator
<1>3. AdmissionOK' /\ CapInv' /\ GateInv' BY <1>2, QuietMoves, QuietCaps, QuietGate
<1>4. AskInv' /\ PromptsHonourTypes' BY <1>1, PromptAsks, ProfileAnswers, OperatorAnswers
<1> QED BY <1>3, <1>4

\* Load, the clock, and what is no worker's or sub-lead's step.
LEMMA OtherKeeps ==
    ASSUME AdmissionInv,
           Load \/ Tick \/ Drain \/ UpdatePolicy \/ (\E l \in SpawnLayers : ApprovePlan(l)) \/ UNCHANGED admissionVars
    PROVE  AdmissionInv'
<1> USE DEF AdmissionInv
<1>1. CASE Load
  <2>1. AdmissionOK' /\ UNCHANGED <<wk, health>> BY <1>1, LoadMoves
  <2> QED BY <2>1, <1>1, LoadCaps, QuietGate, LoadAsks
<1>2. CASE Tick
  <2>1. UNCHANGED <<phase, r, wk, sub, layerIndex, health, ask, said, peak>> BY <1>2 DEF Tick
  <2> QED BY <2>1, <1>2, TickMoves, QuietCaps, QuietGate, QuietAsks
<1>3. CASE Drain \/ UpdatePolicy \/ (\E l \in SpawnLayers : ApprovePlan(l)) \/ UNCHANGED admissionVars
  <2>1. UNCHANGED <<scenario, phase, r, wk, sub, layerIndex, health, now, ask, said, peak>>
    BY <1>3 DEF Drain, UpdatePolicy, ApprovePlan, admissionVars
  <2> QED BY <2>1, QuietMoves, QuietCaps, QuietGate, QuietAsks
<1> QED BY <1>1, <1>2, <1>3

\* Every step keeps the invariant.
LEMMA AdmissionStep == ASSUME AdmissionInv, [AdmissionNext]_admissionVars PROVE AdmissionInv'
<1>1. CASE SpawnStep BY <1>1, CheckKeeps, RefusedKeeps, InsertKeeps, LaunchKeeps, ResumeKeeps, SubCheckKeeps, SubKeeps
  DEF SpawnStep
<1>2. CASE EndStep BY <1>2, RepromptKeeps, ResumeFailsKeeps, ExitKeeps, RecordKeeps, FinishKeeps, SubKeeps DEF EndStep
<1>3. CASE PromptStep BY <1>3, PromptKeeps
<1>4. CASE Load \/ Tick \/ Drain \/ UpdatePolicy \/ (\E l \in SpawnLayers : ApprovePlan(l)) \/ UNCHANGED admissionVars
  BY <1>4, OtherKeeps
<1> QED BY <1>1, <1>2, <1>3, <1>4 DEF AdmissionNext

\* The records of workers and sub-leads, the loaded limits, the places taken and the record
\* of failures hold together through every step of admission.
THEOREM AdmissionInvariant == AdmissionSpec => []AdmissionInv
<1>1. AdmissionInit => AdmissionInv BY AdmissionStarts
<1>2. AdmissionInv /\ [AdmissionNext]_admissionVars => AdmissionInv' BY AdmissionStep
<1> QED BY <1>1, <1>2, PTL DEF AdmissionSpec

\* The caps of spawn_worker and spawn_sublead: with any number of calls, workers and
\* sub-leads, a cap is passed by no more than the calls that were between gate and insert
\* together, less one, and the workers that were reprompted.
THEOREM CapsStayHeld == AdmissionSpec => []CapsHoldUnlessRaced
<1>1. AdmissionInv => CapsHoldUnlessRaced BY CapsFollow DEF AdmissionInv
<1> QED BY <1>1, AdmissionInvariant, PTL

\* The tail of a worker records its failure before anyone can see the worker done, so
\* whoever sees it finds check_can_spawn shut, whatever was recorded in between.
THEOREM ToldStaysGated == AdmissionSpec => []ToldIsGated
<1>1. AdmissionInv => ToldIsGated BY GateFollows DEF AdmissionInv
<1> QED BY <1>1, AdmissionInvariant, PTL

\* permission_prompt never passes the list of a server, answers by the type the actor was
\* admitted under, and asks an operator about a typed actor only when its layer is no longer
\* found.
THEOREM PromptsStayInType == AdmissionSpec => []PromptsHonourTypes
<1>1. AdmissionInv => PromptsHonourTypes BY DEF AdmissionInv
<1> QED BY <1>1, AdmissionInvariant, PTL
=============================================================================
