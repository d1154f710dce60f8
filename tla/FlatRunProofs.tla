---------------------------- MODULE FlatRunProofs ----------------------------
(***************************************************************************)
(* A flat run for every list of tasks, number of permits, child and        *)
(* pattern of Ctrl-Cs: after a drain at most one more task starts, the     *)
(* summary, the worktrees, the notifications and the memory banner say     *)
(* what is so.                                                             *)
(*                                                                         *)
(* Inductive invariant: FlatInv.  That the loop stops rests on the         *)
(* semaphore's books (LoopInv): every permit is free, with the loop or     *)
(* with a task that has not ended, so with one permit no task can fail     *)
(* between the loop's last look at the token and its launch.  That the     *)
(* worktrees are what the policy says rests on an outcome that nobody      *)
(* changes once it has been read (TreeInv).                                *)
(***************************************************************************)
EXTENDS FlatRun, FiniteSetTheorems, FunctionTheorems, SequenceTheorems, TLAPS

Waiting == {"idle", "prepare", "scan", "add", "refused"}
Ended == {"newline", "push", "halt", "release", "done"}
PCs == Waiting \cup {"session", "append"} \cup Ended
Runs_ == {"init", "setup", "dispatched", "control", "harness", "check", "acquire", "recheck", "launch",
          "join", "finalize", "finished", "exit", "exited", "killed"}

IsSeq(s) == Len(s) \in Nat /\ s = [i \in 1..Len(s) |-> s[i]]

FlatOK ==
    /\ menu \in Menus /\ cancel \in {"none", "drain", "terminate"} /\ run \in Runs_
    /\ next \in Nat \ {0} /\ permits \in Nat /\ pc \in [Tasks -> PCs] /\ late \subseteq Tasks
    /\ watch \in {"off", "idle", "window", "escalating", "gone"} /\ presses \in Nat
    /\ halted \in BOOLEAN

\* Tasks that hold a permit, and what the loop holds.
Holders == {t \in Tasks : pc[t] \notin {"idle", "done"}}
LoopHolds == IF run \in {"recheck", "launch"} THEN 1 ELSE 0

LoopInv ==
    /\ permits + Cardinality(Holders) + LoopHolds = menu.parallel
    /\ run \in {"acquire", "recheck", "launch"} => next <= Len(Order)
    /\ \A i \in 1..Len(Order) : pc[Order[i]] = "idle" <=> next <= i
    /\ cancel # "none" /\ ~halted => presses > 0
    /\ watch \in {"window", "escalating", "gone"} => presses > 0
    /\ watch = "off" => run \in {"init", "setup", "exited", "killed"}

LateInv ==
    /\ late = {} \/ \E t \in Tasks : late = {t}
    /\ late # {} => cancel # "none" /\ run \notin {"acquire", "recheck", "launch"}
    /\ menu.parallel = 1 /\ presses = 0 => late = {} /\ (run = "launch" => cancel = "none")

\* Tasks whose record is in.
Recorded == {t \in Tasks : pc[t] \in {"halt", "release", "done"}}
Failure(s) == \E i \in 1..Len(s) : s[i].status # "Success"

RecordInv ==
    /\ IsSeq(records)
    /\ {records[i].task : i \in 1..Len(records)} = Recorded /\ Len(records) = Cardinality(Recorded)
    /\ halted \/ (\E t \in Tasks : pc[t] = "halt") => Failure(records)

EndInv ==
    /\ run \in {"finalize", "finished", "exit"} \/ summary # <<>> => \A t \in Tasks : pc[t] \in {"idle", "done"}
    /\ run \in {"join", "finalize"} => next > Len(Order) \/ cancel # "none"
    /\ run # "exited" => rc = -1
    /\ run = "finished" \/ run = "exit" => summary # <<>>
    /\ summary # <<>> =>
         /\ run \in {"finished", "exit", "exited", "killed"}
         /\ summary[1].tasks = records /\ summary[1].failed = NotSuccess(records)
         /\ summary[1].was_interrupted => presses > 0
         /\ ~summary[1].was_interrupted => next > Len(Order) \/ Failure(records)
         /\ rc = 0 => ~Failure(records)

HasTree(t) == \E w \in trees : w.name = TreeName(t) /\ ~w.stale

\* A task's worktree, from before its session to after its end.
TreeTask(t) ==
    /\ pc[t] \in Waiting => sess[t] = "none" /\ ~HasTree(t)
    /\ pc[t] = "session" /\ menu.worktree[t] => HasTree(t)
    /\ pc[t] = "append" => sess[t] = "ended"
    /\ pc[t] \in Ended => sess[t] \in {"none", "ended"}
    /\ pc[t] \in {"append"} \cup Ended /\ sess[t] = "ended" /\ menu.worktree[t] =>
         (HasTree(t) <=> ~Removes(menu.cleanup, TaskStatus(t) = "Success"))
TreeInv ==
    /\ sess = [t \in Tasks |-> sess[t]] /\ outcome = [t \in Tasks |-> outcome[t]]
    /\ \A v, w \in trees : v.branch = w.branch => v = w
    /\ \A t \in Tasks : TreeTask(t)

\* Emits are numbered without gaps and each number is one job's at most; what
\* is given up and not yet counted is with a job that is about to count it.
Counting == {j \in jobs : j.st = "count"}
NotifyInv ==
    /\ Len(sinks) \in Nat /\ asked \in Nat /\ failed \in Nat
    /\ jobs \subseteq [no : Nat, sink : Nat, attempt : Nat, st : {"emit", "record", "count"}]
    /\ IsFiniteSet(jobs) /\ IsFiniteSet(GivenUp)
    /\ \A j, k \in jobs : j.no = k.no => j = k
    /\ 1..asked = {j.no : j \in jobs} \cup sent \cup GivenUp
    /\ \A j \in jobs : (j.st = "count" => j.no \in GivenUp) /\ (j.st # "count" => j.no \notin GivenUp)
    /\ failed + Cardinality(Counting) = Cardinality(GivenUp)

\* After the last loud sample: how the debounce stands.
Starting == {"init", "setup", "dispatched", "control"}
LastKnown(i) == i \in Known /\ \A m \in Known : m <= i
Quiet(i) == i \in Known /\ Frac(i) < ClearFrac /\ \A k \in Known : Frac(k) >= WarnFrac => k < i
BannerInv ==
    /\ IsSeq(hist) /\ level \in {"clear", "warn", "error"} /\ clears \in {0, 1}
    /\ run \in Starting => sampler = "off"
    /\ sampler \in {"off", "on", "done"} /\ (sampler = "on" => banner = level)
    /\ sampler = "off" => hist = <<>> /\ level = "clear" /\ banner = "clear"
    /\ level # "clear" /\ clears = 1 => \E i \in Known : LastKnown(i) /\ Quiet(i)
    /\ level = "clear" =>
         \A k \in Known : Frac(k) >= WarnFrac =>
            \E i, j \in Known : /\ k < i /\ i < j /\ \A m \in Known : m <= i \/ j <= m
                               /\ Frac(i) < ClearFrac /\ Frac(j) < ClearFrac

FlatInv == FlatOK /\ LoopInv /\ LateInv /\ RecordInv /\ EndInv /\ TreeInv /\ NotifyInv /\ BannerInv
-----------------------------------------------------------------------------
(* The loop and its permits. *)

loopVars == <<menu, cancel, run, next, permits, pc, presses, late, watch, halted>>
Core == FlatOK /\ LoopInv /\ LateInv

LEMMA TasksFinite ==
    ASSUME menu \in Menus
    PROVE  /\ IsFiniteSet(Tasks) /\ Len(Order) \in Nat /\ \A i \in 1..Len(Order) : Order[i] \in Tasks
           /\ \A t \in Tasks : \E i \in 1..Len(Order) : Order[i] = t
           /\ \A i, j \in 1..Len(Order) : Order[i] = Order[j] => i = j
           /\ menu.parallel \in Nat \ {0} /\ Tasks = DOMAIN menu.script
<1>1. Order \in Seq(Tasks) /\ Tasks = DOMAIN menu.script BY MenusAssumption DEF Order, Tasks
<1>2. /\ \A t \in Tasks : \E i \in 1..Len(Order) : Order[i] = t
      /\ \A i, j \in 1..Len(Order) : Order[i] = Order[j] => i = j
      /\ menu.parallel \in Nat \ {0}
  BY MenusAssumption DEF Order, Tasks
<1>3. Len(Order) \in Nat /\ DOMAIN Order = 1..Len(Order) /\ Order \in [1..Len(Order) -> Tasks]
  BY <1>1, LenProperties
<1>4. Order \in Surjection(1..Len(Order), Tasks) BY <1>2, <1>3 DEF Surjection
<1>5. IsFiniteSet(1..Len(Order)) BY <1>3, FS_Interval
<1>6. IsFiniteSet(Tasks) BY <1>4, <1>5, FS_Surjection
<1> QED BY <1>1, <1>2, <1>3, <1>6

LEMMA HoldersFinite ==
    ASSUME menu \in Menus
    PROVE  IsFiniteSet(Holders) /\ Cardinality(Holders) \in Nat
<1>1. IsFiniteSet(Holders) BY TasksFinite, FS_Subset DEF Holders
<1> QED BY <1>1, FS_CardinalityType

LEMMA LoopFrame == ASSUME Core, UNCHANGED loopVars PROVE Core'
BY DEF Core, FlatOK, LoopInv, LateInv, Holders, LoopHolds, Order, Tasks, loopVars

\* A task that goes on keeps its permit.
LEMMA TaskGoesOn ==
    ASSUME Core, NEW t \in Tasks, pc[t] \notin {"idle", "done"},
           NEW x \in PCs \ {"idle", "done"}, pc' = [pc EXCEPT ![t] = x],
           UNCHANGED <<menu, cancel, run, next, permits, presses, late, watch, halted>>
    PROVE  Core'
<1> USE DEF Core
<1>0. Tasks' = Tasks /\ Order' = Order BY DEF Tasks, Order
<1>1. pc \in [Tasks -> PCs] BY DEF FlatOK
<1>2. pc' \in [Tasks -> PCs] /\ \A u \in Tasks : pc'[u] = IF u = t THEN x ELSE pc[u] BY <1>1
<1>3. FlatOK' BY <1>0, <1>2 DEF FlatOK
<1>4. Holders' = Holders BY <1>0, <1>2 DEF Holders
<1>5. \A i \in 1..Len(Order) : Order[i] \in Tasks BY TasksFinite DEF FlatOK
<1>6. \A i \in 1..Len(Order) : pc'[Order[i]] = "idle" <=> pc[Order[i]] = "idle" BY <1>2, <1>5
<1>7. LoopInv' BY <1>0, <1>4, <1>6 DEF LoopInv, LoopHolds
<1>8. LateInv' BY <1>0 DEF LateInv
<1> QED BY <1>3, <1>7, <1>8

\* halt_on_failure: the failing task has a permit, so with a single one the loop has none.
LEMMA CoreHalt == ASSUME Core, NEW t \in Tasks, Halt(t) PROVE Core'
<1> USE DEF Core
<1>0. Tasks' = Tasks /\ Order' = Order /\ UNCHANGED <<menu, run, next, permits, presses, late, watch>>
  BY DEF Halt, Tasks, Order, taskRest
<1>1. /\ pc \in [Tasks -> PCs] /\ pc[t] = "halt" /\ pc' = [pc EXCEPT ![t] = "release"]
      /\ cancel' # "none" /\ cancel' \in {"none", "drain", "terminate"} /\ halted' = TRUE
  BY DEF FlatOK, Halt, Go
<1>2. pc' \in [Tasks -> PCs] /\ \A u \in Tasks : pc'[u] = IF u = t THEN "release" ELSE pc[u]
  BY <1>1 DEF PCs, Ended
<1>3. FlatOK' BY <1>0, <1>1, <1>2 DEF FlatOK
<1>4. Holders' = Holders /\ t \in Holders BY <1>0, <1>1, <1>2 DEF Holders
<1>5. \A i \in 1..Len(Order) : Order[i] \in Tasks BY TasksFinite DEF FlatOK
<1>6. \A i \in 1..Len(Order) : pc'[Order[i]] = "idle" <=> pc[Order[i]] = "idle" BY <1>1, <1>2, <1>5
<1>7. LoopInv' BY <1>0, <1>1, <1>4, <1>6 DEF LoopInv, LoopHolds
<1>8. menu.parallel = 1 => run # "launch"
  <2> SUFFICES ASSUME menu.parallel = 1, run = "launch" PROVE FALSE OBVIOUS
  <2>1. IsFiniteSet(Holders) /\ Cardinality(Holders) \in Nat BY HoldersFinite DEF FlatOK
  <2>2. Cardinality(Holders) # 0 BY <1>4, <2>1, FS_EmptySet
  <2>3. permits + Cardinality(Holders) + 1 = 1 /\ permits \in Nat BY DEF LoopInv, LoopHolds, FlatOK
  <2> DEFINE n == Cardinality(Holders)
  <2> HIDE DEF n
  <2> QED BY <2>1, <2>2, <2>3 DEF n
<1>9. LateInv' BY <1>0, <1>1, <1>8 DEF LateInv
<1> QED BY <1>3, <1>7, <1>9

LEMMA CoreRelease == ASSUME Core, NEW t \in Tasks, Release(t) PROVE Core'
<1> USE DEF Core
<1>0. /\ Tasks' = Tasks /\ Order' = Order
      /\ UNCHANGED <<menu, cancel, run, next, presses, late, watch, halted>>
  BY DEF Release, Tasks, Order, taskRest
<1>1. /\ pc \in [Tasks -> PCs] /\ pc[t] = "release" /\ pc' = [pc EXCEPT ![t] = "done"]
      /\ permits' = permits + 1 /\ permits \in Nat
  BY DEF FlatOK, Release, Go
<1>2. pc' \in [Tasks -> PCs] /\ \A u \in Tasks : pc'[u] = IF u = t THEN "done" ELSE pc[u]
  BY <1>1 DEF PCs, Ended
<1>3. FlatOK' BY <1>0, <1>1, <1>2 DEF FlatOK
<1>4. Holders' = Holders \ {t} /\ t \in Holders BY <1>0, <1>1, <1>2 DEF Holders
<1>5. \A i \in 1..Len(Order) : Order[i] \in Tasks BY TasksFinite DEF FlatOK
<1>6. \A i \in 1..Len(Order) : pc'[Order[i]] = "idle" <=> pc[Order[i]] = "idle" BY <1>1, <1>2, <1>5
<1>7. permits' + Cardinality(Holders') + LoopHolds' = menu.parallel
  <2>1. IsFiniteSet(Holders) /\ Cardinality(Holders) \in Nat BY HoldersFinite DEF FlatOK
  <2>2. Cardinality(Holders') = Cardinality(Holders) - 1 BY <1>4, <2>1, FS_RemoveElement
  <2>3. LoopHolds' = LoopHolds /\ LoopHolds \in Nat BY <1>0 DEF LoopHolds
  <2>4. permits + Cardinality(Holders) + LoopHolds = menu.parallel BY DEF LoopInv
  <2> DEFINE n == Cardinality(Holders)
             l == LoopHolds
  <2> HIDE DEF n, l
  <2>5. permits + n + l = (permits + 1) + (n - 1) + l BY <1>1, <2>1, <2>3 DEF n, l
  <2> QED BY <1>1, <2>2, <2>3, <2>4, <2>5 DEF n, l
<1>8. LoopInv' BY <1>0, <1>6, <1>7 DEF LoopInv
<1>9. LateInv' BY <1>0 DEF LateInv
<1> QED BY <1>3, <1>8, <1>9

\* The steps of a task's future.
LEMMA CoreTask == ASSUME Core, NEW t \in Tasks, TaskStep(t) PROVE Core'
<1> USE DEF PCs, Waiting, Ended
<1>1. ASSUME PrepareBranch(t) PROVE Core'
  <2>1. PICK x \in {"refused", "scan"} : pc' = [pc EXCEPT ![t] = x] BY <1>1 DEF PrepareBranch, Go
  <2> QED BY <1>1, <2>1, TaskGoesOn DEF PrepareBranch, taskRest
<1>2. ASSUME PrepareScan(t) PROVE Core'
  <2>1. PICK x \in {"refused", "add"} : pc' = [pc EXCEPT ![t] = x] BY <1>2 DEF PrepareScan, Go
  <2> QED BY <1>2, <2>1, TaskGoesOn DEF PrepareScan, taskRest
<1>3. ASSUME PrepareAdd(t) PROVE Core'
  <2>1. PICK x \in {"refused", "session"} : pc' = [pc EXCEPT ![t] = x]
    BY <1>3 DEF PrepareAdd, Go, git_worktree_add
  <2> QED BY <1>3, <2>1, TaskGoesOn DEF PrepareAdd, taskRest
<1>4. ASSUME StartSession(t) PROVE Core'
  BY <1>4, LoopFrame DEF StartSession, taskRest, loopVars
<1>5. ASSUME SessionEnds(t) PROVE Core'
  <2>1. pc' = [pc EXCEPT ![t] = "append"] BY <1>5 DEF SessionEnds, Go
  <2> QED BY <1>5, <2>1, TaskGoesOn DEF SessionEnds, taskRest
<1>6. ASSUME AppendLine(t) PROVE Core'
  <2>1. pc' = [pc EXCEPT ![t] = "newline"] BY <1>6 DEF AppendLine, Go
  <2> QED BY <1>6, <2>1, TaskGoesOn DEF AppendLine, taskRest
<1>7. ASSUME AppendNewline(t) PROVE Core'
  <2>1. pc' = [pc EXCEPT ![t] = "push"] BY <1>7 DEF AppendNewline, Go
  <2> QED BY <1>7, <2>1, TaskGoesOn DEF AppendNewline, taskRest
<1>8. ASSUME PushRecord(t) PROVE Core'
  <2>1. PICK x \in {"halt", "release"} : pc' = [pc EXCEPT ![t] = x] BY <1>8 DEF PushRecord, Go
  <2> QED BY <1>8, <2>1, TaskGoesOn DEF PushRecord, taskRest
<1> QED BY <1>1, <1>2, <1>3, <1>4, <1>5, <1>6, <1>7, <1>8, CoreHalt, CoreRelease DEF TaskStep

\* Where run moves outside of the loop, nothing of the loop changes.
LEMMA CoreRunMoves ==
    ASSUME Core, UNCHANGED <<menu, cancel, next, permits, pc, presses, late, halted>>,
           run \notin {"recheck", "launch"}, run' \in Runs_ \ {"acquire", "recheck", "launch"},
           \/ watch' = watch /\ (watch = "off" => run' \in {"init", "setup", "exited", "killed"})
           \/ watch' = "idle"
    PROVE  Core'
<1> USE DEF Core
<1>0. Tasks' = Tasks /\ Order' = Order /\ Holders' = Holders BY DEF Tasks, Order, Holders
<1>1. FlatOK' BY <1>0 DEF FlatOK
<1>2. LoopHolds' = LoopHolds BY DEF LoopHolds
<1>3. LoopInv' BY <1>0, <1>2 DEF LoopInv
<1>4. LateInv' BY <1>0 DEF LateInv
<1> QED BY <1>1, <1>3, <1>4

LEMMA CoreStart == ASSUME Core, Start PROVE Core'
<1> USE DEF Runs_
<1>0. watch = "off" => run \in {"init", "setup", "exited", "killed"} BY DEF Core, LoopInv
<1>1. ASSUME init_run_state PROVE Core' BY <1>1, CoreRunMoves DEF init_run_state, Exit
<1>2. ASSUME InstallWatchers PROVE Core' BY <1>2, CoreRunMoves DEF InstallWatchers
<1>3. ASSUME EmitDispatched PROVE Core' BY <1>0, <1>3, CoreRunMoves DEF EmitDispatched
<1>4. ASSUME StartServers PROVE Core' BY <1>0, <1>4, CoreRunMoves DEF StartServers, Exit
<1>5. ASSUME LeaveSetup PROVE Core' BY <1>0, <1>5, CoreRunMoves DEF LeaveSetup
<1> QED BY <1>1, <1>2, <1>3, <1>4, <1>5 DEF Start

LEMMA CoreEnd == ASSUME Core, End PROVE Core'
<1> USE DEF Runs_
<1>0. watch = "off" => run \in {"init", "setup", "exited", "killed"} BY DEF Core, LoopInv
<1>1. ASSUME finalize_run PROVE Core' BY <1>0, <1>1, CoreRunMoves DEF finalize_run, Exit
<1>2. ASSUME EmitFinished PROVE Core' BY <1>0, <1>2, CoreRunMoves DEF EmitFinished
<1>3. ASSUME ExitRun PROVE Core' BY <1>0, <1>3, CoreRunMoves DEF ExitRun, Exit
<1> QED BY <1>1, <1>2, <1>3 DEF End

LEMMA CoreCheck == ASSUME Core, LoopCheck \/ Join PROVE Core'
<1> USE DEF Core, Runs_
<1>0. watch = "off" => run \in {"init", "setup", "exited", "killed"} BY DEF LoopInv
<1>1. UNCHANGED <<menu, cancel, next, permits, pc, presses, late, halted, watch>>
  BY DEF LoopCheck, Join, loopRest
<1>2. ASSUME run' # "acquire" PROVE Core'
  BY <1>0, <1>1, <1>2, CoreRunMoves DEF LoopCheck, Join
<1>3. ASSUME run' = "acquire" PROVE Core'
  <2>1. run = "check" /\ cancel = "none" /\ ~(next > Len(Order)) BY <1>3 DEF LoopCheck, Join
  <2>2. Tasks' = Tasks /\ Order' = Order /\ Holders' = Holders BY <1>1 DEF Tasks, Order, Holders
  <2>3. FlatOK' BY <1>1, <1>3, <2>2 DEF FlatOK
  <2>4. LoopHolds' = LoopHolds BY <1>3, <2>1 DEF LoopHolds
  <2>5. Len(Order) \in Nat /\ next \in Nat BY TasksFinite DEF FlatOK
  <2>6. LoopInv' BY <1>0, <1>1, <1>3, <2>1, <2>2, <2>4, <2>5 DEF LoopInv
  <2>7. LateInv' BY <1>1, <1>3, <2>1, <2>2 DEF LateInv
  <2> QED BY <2>3, <2>6, <2>7
<1> QED BY <1>2, <1>3

\* Taking the permit and giving it back: what the loop holds.
LEMMA CoreAcquire == ASSUME Core, Acquire \/ LoopRecheck PROVE Core'
<1> USE DEF Core
<1>0. watch = "off" => run \in {"init", "setup", "exited", "killed"} BY DEF LoopInv
<1>1. UNCHANGED <<menu, cancel, next, pc, presses, late, halted, watch>>
  BY DEF Acquire, LoopRecheck, loopRest
<1>2. Tasks' = Tasks /\ Order' = Order /\ Holders' = Holders BY <1>1 DEF Tasks, Order, Holders
<1>3. permits \in Nat BY DEF FlatOK
<1>4. /\ permits' \in Nat /\ run' \in {"recheck", "launch", "join"} /\ run \in {"acquire", "recheck"}
      /\ permits' + LoopHolds' = permits + LoopHolds
      /\ (run' = "launch" => cancel = "none")
  BY <1>3 DEF Acquire, LoopRecheck, LoopHolds
<1>5. LoopHolds \in Nat /\ LoopHolds' \in Nat /\ Cardinality(Holders) \in Nat
  BY HoldersFinite DEF LoopHolds, FlatOK
<1>6. permits' + Cardinality(Holders') + LoopHolds' = menu.parallel'
  <2> DEFINE n == Cardinality(Holders)
             l == LoopHolds
             m == LoopHolds'
             p == permits'
  <2>1. n \in Nat /\ l \in Nat /\ m \in Nat /\ p \in Nat /\ p + m = permits + l BY <1>4, <1>5
  <2>2. permits + n + l = menu.parallel BY DEF LoopInv
  <2>3. Cardinality(Holders') = n BY <1>2
  <2> HIDE DEF n, l, m, p
  <2>4. p + n + m = permits + n + l BY <1>3, <2>1
  <2>5. p + n + m = menu.parallel' BY <1>1, <2>2, <2>4
  <2> QED BY <2>3, <2>5 DEF m, p
<1>7. FlatOK' BY <1>1, <1>2, <1>4 DEF FlatOK, Runs_
<1>8. LoopInv' BY <1>0, <1>1, <1>2, <1>4, <1>6 DEF LoopInv
<1>9. LateInv' BY <1>1, <1>2, <1>4 DEF LateInv
<1> QED BY <1>7, <1>8, <1>9

\* The loop's permit goes to the task it starts, which is idle.
LEMMA CoreLaunch == ASSUME Core, Launch PROVE Core'
<1> USE DEF Core
<1>1. UNCHANGED <<menu, cancel, permits, presses, halted, watch>> /\ run = "launch" /\ run' = "check" /\ next' = next + 1
  BY DEF Launch, loopRest
<1>2. Tasks' = Tasks /\ Order' = Order BY <1>1 DEF Tasks, Order
<1>3. /\ next \in Nat \ {0} /\ Len(Order) \in Nat /\ next <= Len(Order) /\ pc \in [Tasks -> PCs]
      /\ \A i \in 1..Len(Order) : Order[i] \in Tasks
      /\ \A i, j \in 1..Len(Order) : Order[i] = Order[j] => i = j
  BY <1>1, TasksFinite DEF FlatOK, LoopInv
<1>4. next \in 1..Len(Order) /\ Task \in Tasks /\ pc[Task] = "idle"
  <2>1. next \in 1..Len(Order) BY <1>3
  <2> QED BY <1>3, <2>1 DEF LoopInv, Task
<1>5. PICK x \in {"prepare", "session"} : pc' = [pc EXCEPT ![Task] = x] BY DEF Launch
<1>6. pc' \in [Tasks -> PCs] /\ \A u \in Tasks : pc'[u] = IF u = Task THEN x ELSE pc[u]
  BY <1>3, <1>4, <1>5 DEF PCs, Waiting
<1>7. late' = late \/ late' = {Task} BY <1>1 DEF Launch, LateInv
<1>8. FlatOK'
  <2>1. late' \subseteq Tasks BY <1>4, <1>7 DEF FlatOK
  <2> QED BY <1>1, <1>2, <1>3, <1>6, <2>1 DEF FlatOK, Runs_
<1>9. permits' + Cardinality(Holders') + LoopHolds' = menu.parallel'
  <2>1. Holders' = Holders \cup {Task} /\ Task \notin Holders BY <1>2, <1>4, <1>6 DEF Holders
  <2>2. IsFiniteSet(Holders) /\ Cardinality(Holders) \in Nat BY HoldersFinite DEF FlatOK
  <2>3. Cardinality(Holders') = Cardinality(Holders) + 1 BY <2>1, <2>2, FS_AddElement
  <2>4. LoopHolds' = 0 /\ LoopHolds = 1 BY <1>1 DEF LoopHolds
  <2>5. permits + Cardinality(Holders) + 1 = menu.parallel /\ permits \in Nat BY <2>4 DEF LoopInv, FlatOK
  <2> DEFINE n == Cardinality(Holders)
  <2> HIDE DEF n
  <2>6. permits + (n + 1) + 0 = permits + n + 1 BY <2>2, <2>5 DEF n
  <2> QED BY <1>1, <2>3, <2>4, <2>5, <2>6 DEF n
<1>10. \A i \in 1..Len(Order) : pc'[Order[i]] = "idle" <=> next' <= i
  <2> SUFFICES ASSUME NEW i \in 1..Len(Order) PROVE pc'[Order[i]] = "idle" <=> next' <= i OBVIOUS
  <2>1. pc[Order[i]] = "idle" <=> next <= i BY DEF LoopInv
  <2>2. ASSUME i = next PROVE pc'[Order[i]] = "idle" <=> next' <= i
    BY <1>1, <1>3, <1>4, <1>6, <2>2 DEF Task
  <2>3. ASSUME i # next PROVE pc'[Order[i]] = "idle" <=> next' <= i
    <3>1. Order[i] # Task /\ Order[i] \in Tasks BY <1>3, <1>4, <2>3 DEF Task
    <3>2. pc'[Order[i]] = pc[Order[i]] BY <1>6, <3>1
    <3>3. next' <= i <=> next <= i BY <1>1, <1>3, <2>3
    <3> QED BY <2>1, <3>2, <3>3
  <2> QED BY <2>2, <2>3
<1>11. LoopInv' BY <1>1, <1>2, <1>9, <1>10 DEF LoopInv
<1>12. LateInv'
  <2>1. late = {} BY <1>1 DEF LateInv
  <2>2. late' = {} \/ (late' = {Task} /\ cancel # "none") BY <2>1 DEF Launch
  <2>3. menu.parallel = 1 /\ presses = 0 => cancel = "none" BY <1>1 DEF LateInv
  <2> QED BY <1>1, <1>2, <1>4, <2>2, <2>3 DEF LateInv
<1> QED BY <1>8, <1>11, <1>12

LEMMA CoreSignals == ASSUME Core, Signals PROVE Core'
<1> USE DEF Core
<1>0. presses \in Nat /\ cancel \in {"none", "drain", "terminate"} /\ run \in Runs_
      /\ watch \in {"off", "idle", "window", "escalating", "gone"}
  BY DEF FlatOK
<1>1. UNCHANGED <<menu, next, permits, pc, late, halted>>
  BY DEF Signals, CtrlC, WindowExpires, Escalate, signalRest
<1>2. Tasks' = Tasks /\ Order' = Order /\ Holders' = Holders BY <1>1 DEF Tasks, Order, Holders
<1>a. watch = "off" => run \in {"init", "setup", "exited", "killed"} BY DEF LoopInv
<1>b. watch \in {"window", "escalating", "gone"} => presses > 0 BY DEF LoopInv
<1>3. /\ presses' \in Nat /\ presses <= presses'
      /\ cancel' \in {"none", "drain", "terminate"} /\ (cancel # "none" => cancel' # "none")
      /\ (cancel' = cancel \/ presses' > 0)
      /\ (run' = run \/ (run' = "killed" /\ run \in {"init", "setup"}))
      /\ watch' \in {"off", "idle", "window", "escalating", "gone"}
      /\ (watch' \in {"window", "escalating", "gone"} => presses' > 0)
      /\ (watch' = "off" => run' \in {"init", "setup", "exited", "killed"})
  <2>1. ASSUME CtrlC PROVE <1>3!:
    <3>1. presses' = presses + 1 /\ run \notin {"exited", "killed"} BY <2>1 DEF CtrlC
    <3>2. CASE watch = "off" 
      <4>1. run' = "killed" /\ UNCHANGED <<cancel, watch>> BY <2>1, <3>2 DEF CtrlC
      <4> QED BY <1>0, <1>a, <3>1, <3>2, <4>1
    <3>3. CASE watch = "idle"
      <4>1. cancel' = (IF cancel = "none" THEN "drain" ELSE cancel) /\ watch' = "window" /\ run' = run
        BY <2>1, <3>3 DEF CtrlC
      <4> QED BY <1>0, <3>1, <4>1
    <3>4. CASE watch \in {"window", "escalating"}
      <4>1. cancel' = "terminate" /\ watch' = "gone" /\ run' = run BY <2>1, <3>4 DEF CtrlC
      <4> QED BY <1>0, <3>1, <4>1
    <3>5. CASE watch = "gone"
      <4>1. UNCHANGED <<cancel, watch, run>> BY <2>1, <3>5 DEF CtrlC
      <4> QED BY <1>0, <3>1, <3>5, <4>1
    <3> QED BY <1>0, <3>2, <3>3, <3>4, <3>5
  <2>2. ASSUME WindowExpires PROVE <1>3!:
    <3>1. watch = "window" /\ watch' \in {"idle", "escalating"} /\ UNCHANGED <<cancel, presses, run>>
      BY <2>2 DEF WindowExpires
    <3> QED BY <1>0, <1>b, <3>1
  <2>3. ASSUME Escalate PROVE <1>3!:
    <3>1. watch = "escalating" /\ cancel' = "terminate" /\ watch' = "gone" /\ UNCHANGED <<presses, run>>
      BY <2>3 DEF Escalate
    <3> QED BY <1>0, <1>b, <3>1
  <2> QED BY <2>1, <2>2, <2>3 DEF Signals
<1>4. FlatOK' BY <1>1, <1>2, <1>3 DEF FlatOK, Runs_
<1>5. LoopHolds' = LoopHolds BY <1>3 DEF LoopHolds
<1>6. LoopInv' BY <1>0, <1>1, <1>2, <1>3, <1>5 DEF LoopInv
<1>7. LateInv' BY <1>0, <1>1, <1>2, <1>3 DEF LateInv
<1> QED BY <1>4, <1>6, <1>7

LEMMA CoreStep == ASSUME Core, [Next]_vars PROVE Core'
<1>1. ASSUME UNCHANGED vars PROVE Core' BY <1>1, LoopFrame DEF vars, runVars, loopVars
<1>2. ASSUME Sessions_ \/ Notifications \/ Sample \/ SamplerEnds PROVE Core'
  BY <1>2, LoopFrame DEF Sessions_, Notifications, Sample, SamplerEnds, componentRest, runVars, loopVars
<1>3. ASSUME OthersEmit PROVE Core' BY <1>3, LoopFrame DEF OthersEmit, loopVars
<1>4. ASSUME Loop PROVE Core' BY <1>4, CoreCheck, CoreAcquire, CoreLaunch DEF Loop
<1>5. ASSUME TasksRun PROVE Core' BY <1>5, CoreTask DEF TasksRun
<1> QED BY <1>1, <1>2, <1>3, <1>4, <1>5, CoreStart, CoreEnd, CoreSignals DEF Next
-----------------------------------------------------------------------------
(* The records. *)

LEMMA AppendSeq ==
    ASSUME NEW s, IsSeq(s), NEW e
    PROVE  /\ IsSeq(Append(s, e)) /\ Len(Append(s, e)) = Len(s) + 1
           /\ \A i \in 1..Len(s) : Append(s, e)[i] = s[i]
           /\ Append(s, e)[Len(s) + 1] = e
<1> DEFINE S == {s[i] : i \in 1..Len(s)} \cup {e}
<1>1. Len(s) \in Nat /\ s = [i \in 1..Len(s) |-> s[i]] BY DEF IsSeq
<1>2. s \in [1..Len(s) -> S] BY <1>1
<1>3. s \in Seq(S) BY <1>1, <1>2, SeqDef
<1>4. /\ Append(s, e) \in Seq(S) /\ Len(Append(s, e)) = Len(s) + 1
      /\ \A i \in 1..Len(s) : Append(s, e)[i] = s[i]
      /\ Append(s, e)[Len(s) + 1] = e
  BY <1>3, AppendProperties
<1>5. IsSeq(Append(s, e))
  <2>1. Append(s, e) \in [1..Len(Append(s, e)) -> S] /\ Len(Append(s, e)) \in Nat BY <1>4, LenProperties
  <2> QED BY <2>1 DEF IsSeq
<1> QED BY <1>4, <1>5

LEMMA RecordedFinite == ASSUME menu \in Menus PROVE IsFiniteSet(Recorded) /\ Cardinality(Recorded) \in Nat
<1>1. IsFiniteSet(Recorded) BY TasksFinite, FS_Subset DEF Recorded
<1> QED BY <1>1, FS_CardinalityType

LEMMA RecordFrame == ASSUME RecordInv, UNCHANGED <<menu, pc, records, halted>> PROVE RecordInv'
BY DEF RecordInv, Recorded, Tasks

\* A task that moves without pushing its record.
LEMMA RecordMoves ==
    ASSUME RecordInv, FlatOK, NEW t \in Tasks, NEW x, x # "halt", pc' = [pc EXCEPT ![t] = x],
           pc[t] \in {"halt", "release", "done"} <=> x \in {"halt", "release", "done"},
           UNCHANGED <<menu, records>>, halted' => halted \/ pc[t] = "halt"
    PROVE  RecordInv'
<1>0. Tasks' = Tasks BY DEF Tasks
<1>1. pc \in [Tasks -> PCs] BY DEF FlatOK
<1>2. \A u \in Tasks : pc'[u] = IF u = t THEN x ELSE pc[u] BY <1>1
<1>3. Recorded' = Recorded BY <1>0, <1>2 DEF Recorded
<1>4. halted' \/ (\E u \in Tasks : pc'[u] = "halt") => halted \/ \E u \in Tasks : pc[u] = "halt" BY <1>2
<1> QED BY <1>0, <1>3, <1>4 DEF RecordInv

\* A record pushed: one more, and with halt_on_failure a failure.
LEMMA RecordPush == ASSUME RecordInv, FlatOK, NEW t \in Tasks, PushRecord(t) PROVE RecordInv'
<1> DEFINE r == TaskRecord(t)
           s == records
           n == Len(records)
<1>0. Tasks' = Tasks /\ halted' = halted BY DEF PushRecord, taskRest, Tasks
<1>1. records' = Append(s, r) /\ pc[t] = "push" BY DEF PushRecord
<1>2. PICK x \in {"halt", "release"} : pc' = [pc EXCEPT ![t] = x] /\ (x = "halt" => TaskStatus(t) # "Success")
  BY DEF PushRecord, Go
<1>3. r.task = t /\ r.status = TaskStatus(t) BY DEF TaskRecord
<1>4. pc \in [Tasks -> PCs] BY DEF FlatOK
<1>5. \A u \in Tasks : pc'[u] = IF u = t THEN x ELSE pc[u] BY <1>2, <1>4
<1>6. IsSeq(s) /\ n \in Nat BY DEF RecordInv, IsSeq
<1> HIDE DEF r, s, n
<1>7. /\ IsSeq(records') /\ Len(records') = n + 1 /\ \A i \in 1..n : records'[i] = s[i]
      /\ records'[n + 1] = r
  BY <1>1, <1>6, AppendSeq DEF n, s
<1>8. 1..(n + 1) = (1..n) \cup {n + 1} BY <1>6
<1>9. Recorded' = Recorded \cup {t} /\ t \notin Recorded BY <1>0, <1>1, <1>5 DEF Recorded
<1>10. {records'[i].task : i \in 1..Len(records')} = Recorded'
  <2>1. {s[i].task : i \in 1..n} = Recorded BY DEF RecordInv, s, n
  <2>2. {records'[i].task : i \in 1..(n + 1)} = {s[i].task : i \in 1..n} \cup {t}
    BY <1>3, <1>7, <1>8 
  <2> QED BY <1>7, <1>9, <2>1, <2>2
<1>11. Len(records') = Cardinality(Recorded')
  <2>1. IsFiniteSet(Recorded) BY RecordedFinite DEF FlatOK
  <2>2. Cardinality(Recorded') = Cardinality(Recorded) + 1 BY <1>9, <2>1, FS_AddElement
  <2>3. n = Cardinality(Recorded) BY DEF RecordInv, n
  <2> QED BY <1>7, <2>2, <2>3
<1>12. halted' \/ (\E u \in Tasks' : pc'[u] = "halt") => Failure(records')
  <2>1. ASSUME Failure(s) PROVE Failure(records')
    <3>1. PICK i \in 1..n : s[i].status # "Success" BY <2>1 DEF Failure, n, s
    <3>2. i \in 1..Len(records') /\ records'[i] = s[i] BY <1>6, <1>7
    <3> QED BY <3>1, <3>2 DEF Failure
  <2>2. ASSUME x = "halt" PROVE Failure(records')
    <3>1. n + 1 \in 1..Len(records') /\ records'[n + 1].status # "Success" BY <1>2, <1>3, <1>6, <1>7, <2>2
    <3> QED BY <3>1 DEF Failure
  <2>3. halted \/ (\E u \in Tasks : pc[u] = "halt") => Failure(s) BY DEF RecordInv, s
  <2>4. halted' \/ (\E u \in Tasks' : pc'[u] = "halt") => x = "halt" \/ halted \/ \E u \in Tasks : pc[u] = "halt"
    BY <1>0, <1>5
  <2> QED BY <2>1, <2>2, <2>3, <2>4
<1> QED BY <1>7, <1>10, <1>11, <1>12 DEF RecordInv

LEMMA RecordTask == ASSUME RecordInv, FlatOK, NEW t \in Tasks, TaskStep(t) PROVE RecordInv'
<1>1. ASSUME PrepareBranch(t) PROVE RecordInv'
  <2>1. PICK x \in {"refused", "scan"} : pc' = [pc EXCEPT ![t] = x] BY <1>1 DEF PrepareBranch, Go
  <2> QED BY <1>1, <2>1, RecordMoves DEF PrepareBranch, taskRest
<1>2. ASSUME PrepareScan(t) PROVE RecordInv'
  <2>1. PICK x \in {"refused", "add"} : pc' = [pc EXCEPT ![t] = x] BY <1>2 DEF PrepareScan, Go
  <2> QED BY <1>2, <2>1, RecordMoves DEF PrepareScan, taskRest
<1>3. ASSUME PrepareAdd(t) PROVE RecordInv'
  <2>1. PICK x \in {"refused", "session"} : pc' = [pc EXCEPT ![t] = x]
    BY <1>3 DEF PrepareAdd, Go, git_worktree_add
  <2> QED BY <1>3, <2>1, RecordMoves DEF PrepareAdd, taskRest
<1>4. ASSUME StartSession(t) PROVE RecordInv' BY <1>4, RecordFrame DEF StartSession, taskRest
<1>5. ASSUME SessionEnds(t) PROVE RecordInv'
  <2>1. pc' = [pc EXCEPT ![t] = "append"] BY <1>5 DEF SessionEnds, Go
  <2> QED BY <1>5, <2>1, RecordMoves DEF SessionEnds, taskRest
<1>6. ASSUME AppendLine(t) PROVE RecordInv'
  <2>1. pc' = [pc EXCEPT ![t] = "newline"] BY <1>6 DEF AppendLine, Go
  <2> QED BY <1>6, <2>1, RecordMoves DEF AppendLine, taskRest
<1>7. ASSUME AppendNewline(t) PROVE RecordInv'
  <2>1. pc' = [pc EXCEPT ![t] = "push"] BY <1>7 DEF AppendNewline, Go
  <2> QED BY <1>7, <2>1, RecordMoves DEF AppendNewline, taskRest
<1>8. ASSUME Halt(t) PROVE RecordInv'
  <2>1. pc' = [pc EXCEPT ![t] = "release"] BY <1>8 DEF Halt, Go
  <2> QED BY <1>8, <2>1, RecordMoves DEF Halt, taskRest
<1>9. ASSUME Release(t) PROVE RecordInv'
  <2>1. pc' = [pc EXCEPT ![t] = "done"] BY <1>9 DEF Release, Go
  <2> QED BY <1>9, <2>1, RecordMoves DEF Release, taskRest
<1> QED BY <1>1, <1>2, <1>3, <1>4, <1>5, <1>6, <1>7, <1>8, <1>9, RecordPush DEF TaskStep

LEMMA LaunchesIdle ==
    ASSUME Core, Launch
    PROVE  /\ Task \in Tasks /\ pc[Task] = "idle" /\ next \in 1..Len(Order)
           /\ \E x \in {"prepare", "session"} : /\ pc' = [pc EXCEPT ![Task] = x]
                                                /\ x = "session" => ~menu.worktree[Task]
<1>1. next \in Nat \ {0} /\ Len(Order) \in Nat /\ next <= Len(Order) /\ \A i \in 1..Len(Order) : Order[i] \in Tasks
  BY TasksFinite DEF Core, FlatOK, LoopInv, Launch
<1>2. next \in 1..Len(Order) BY <1>1
<1>3. Task \in Tasks /\ pc[Task] = "idle" BY <1>1, <1>2 DEF Core, LoopInv, Task
<1> QED BY <1>2, <1>3 DEF Launch

LEMMA RecordStep == ASSUME RecordInv, Core, [Next]_vars PROVE RecordInv'
<1>0. FlatOK BY DEF Core
<1>1. ASSUME UNCHANGED vars PROVE RecordInv' BY <1>1, RecordFrame DEF vars, runVars
<1>2. ASSUME Sessions_ \/ Notifications \/ Sample \/ SamplerEnds PROVE RecordInv'
  BY <1>2, RecordFrame DEF Sessions_, Notifications, Sample, SamplerEnds, componentRest, runVars
<1>3. ASSUME OthersEmit PROVE RecordInv' BY <1>3, RecordFrame DEF OthersEmit, files
<1>4. ASSUME LoopCheck \/ Acquire \/ LoopRecheck \/ Join PROVE RecordInv'
  BY <1>4, RecordFrame DEF LoopCheck, Acquire, LoopRecheck, Join, loopRest, files
<1>5. ASSUME Launch PROVE RecordInv'
  <2>1. PICK x \in {"prepare", "session"} : pc' = [pc EXCEPT ![Task] = x] BY <1>5, LaunchesIdle
  <2>2. Task \in Tasks /\ pc[Task] = "idle" BY <1>5, LaunchesIdle
  <2>3. UNCHANGED <<menu, records, halted>> BY <1>5 DEF Launch, loopRest, files
  <2> QED BY <1>0, <2>1, <2>2, <2>3, RecordMoves
<1>6. ASSUME TasksRun PROVE RecordInv' BY <1>0, <1>6, RecordTask DEF TasksRun
<1>7. ASSUME Start PROVE RecordInv'
  BY <1>7, RecordFrame DEF Start, init_run_state, InstallWatchers, EmitDispatched, StartServers, LeaveSetup, files
<1>8. ASSUME Signals PROVE RecordInv'
  BY <1>8, RecordFrame DEF Signals, CtrlC, WindowExpires, Escalate, signalRest, files
<1>9. ASSUME End PROVE RecordInv'
  BY <1>9, RecordFrame DEF End, finalize_run, EmitFinished, ExitRun, files
<1> QED BY <1>1, <1>2, <1>3, <1>4, <1>5, <1>6, <1>7, <1>8, <1>9 DEF Next, Loop
-----------------------------------------------------------------------------
(* The summary and the exit code. *)

\* The count of failures is positive exactly when there is one.
LEMMA FailuresCounted == ASSUME NEW s, Len(s) \in Nat PROVE NotSuccess(s) > 0 <=> Failure(s)
<1> DEFINE F == {i \in 1..Len(s) : s[i].status # "Success"}
<1>1. IsFiniteSet(1..Len(s)) BY FS_Interval
<1>2. IsFiniteSet(F) /\ Cardinality(F) \in Nat
  <2>1. IsFiniteSet(F) BY <1>1, FS_Subset
  <2> QED BY <2>1, FS_CardinalityType
<1>3. Cardinality(F) = 0 <=> F = {} BY <1>2, FS_EmptySet
<1>4. F = {} <=> ~Failure(s) BY DEF Failure
<1> QED BY <1>2, <1>3, <1>4 DEF NotSuccess

LEMMA EndFrame ==
    ASSUME EndInv, UNCHANGED <<menu, run, next, summary, pc, records, rc>>,
           presses \in Nat, presses' \in Nat, presses <= presses', cancel' = cancel \/ cancel' # "none"
    PROVE  EndInv'
BY DEF EndInv, Tasks, Order

\* A task that takes a step is at neither end of its future, so no summary is written yet.
LEMMA TaskIsAtWork ==
    ASSUME NEW t \in Tasks, TaskStep(t)
    PROVE  pc[t] \notin {"idle", "done"} /\ UNCHANGED taskRest /\ (cancel' = cancel \/ cancel' # "none")
BY DEF TaskStep, PrepareBranch, PrepareScan, PrepareAdd, StartSession, SessionEnds, AppendLine, AppendNewline,
       PushRecord, Halt, Release

LEMMA EndTask == ASSUME EndInv, NEW t \in Tasks, TaskStep(t) PROVE EndInv'
<1>1. pc[t] \notin {"idle", "done"} /\ UNCHANGED <<menu, run, next, summary, rc, presses>>
      /\ (cancel' = cancel \/ cancel' # "none")
  BY TaskIsAtWork DEF taskRest
<1>2. run \notin {"finalize", "finished", "exit"} /\ summary = <<>> BY <1>1 DEF EndInv
<1> QED BY <1>1, <1>2 DEF EndInv, Order

LEMMA EndFinalize == ASSUME EndInv, Core, RecordInv, finalize_run PROVE EndInv'
<1>1. UNCHANGED <<menu, cancel, next, pc, records, presses, halted>> /\ run = "finalize" BY DEF finalize_run
<1>2. /\ \A t \in Tasks : pc[t] \in {"idle", "done"}
      /\ summary = <<>> /\ rc = -1 /\ (next > Len(Order) \/ cancel # "none")
  BY <1>1 DEF EndInv
<1>3. Tasks' = Tasks /\ Order' = Order BY <1>1 DEF Tasks, Order
<1>4. CASE run' = "exited"
  <2>1. summary' = <<>> /\ rc' = 1 BY <1>2, <1>4 DEF finalize_run, Exit
  <2> QED BY <1>4, <2>1 DEF EndInv
<1>5. CASE run' # "exited"
  <2>1. summary' = <<Summary>> /\ run' = "finished" /\ rc' = -1 BY <1>2, <1>5 DEF finalize_run, Exit
  <2>2. /\ summary'[1].tasks = records /\ summary'[1].failed = NotSuccess(records)
        /\ summary'[1].was_interrupted = Interrupted
    BY <2>1 DEF Summary
  <2>3. Interrupted => presses > 0 BY DEF Interrupted, Core, LoopInv
  <2>4. ~Interrupted => next > Len(Order) \/ Failure(records)
    BY <1>2 DEF Interrupted, RecordInv
  <2>5. \A t \in Tasks' : pc'[t] \in {"idle", "done"} BY <1>1, <1>2, <1>3
  <2>6. summary'[1].was_interrupted => presses' > 0 BY <1>1, <2>2, <2>3
  <2>7. ~summary'[1].was_interrupted => next' > Len(Order') \/ Failure(records')
    BY <1>1, <1>3, <2>2, <2>4
  <2> QED BY <1>1, <2>1, <2>2, <2>5, <2>6, <2>7 DEF EndInv
<1> QED BY <1>4, <1>5

\* Exit code 0 only if no failure was counted.
LEMMA EndExit == ASSUME EndInv, RecordInv, ExitRun PROVE EndInv'
<1>1. UNCHANGED <<menu, cancel, next, pc, records, presses, summary>> /\ run = "exit" /\ run' = "exited"
  BY DEF ExitRun, Exit
<1>2. Tasks' = Tasks /\ Order' = Order BY <1>1 DEF Tasks, Order
<1>3. summary # <<>> /\ summary[1].failed = NotSuccess(records) BY <1>1 DEF EndInv
<1>4. rc' = 0 => ~(NotSuccess(records) > 0) BY <1>3 DEF ExitRun, Exit
<1>5. rc' = 0 => ~Failure(records) BY <1>4, FailuresCounted DEF RecordInv, IsSeq
<1> QED BY <1>1, <1>2, <1>5 DEF EndInv

LEMMA EndStep == ASSUME EndInv, Core, RecordInv, [Next]_vars PROVE EndInv'
<1>0. presses \in Nat /\ presses' \in Nat BY CoreStep DEF Core, FlatOK
<1>a. next \in Nat /\ Len(Order) \in Nat BY TasksFinite DEF Core, FlatOK
<1>1. ASSUME UNCHANGED vars PROVE EndInv' BY <1>0, <1>1, EndFrame DEF vars, runVars
<1>2. ASSUME Sessions_ \/ Notifications \/ Sample \/ SamplerEnds PROVE EndInv'
  BY <1>0, <1>2, EndFrame DEF Sessions_, Notifications, Sample, SamplerEnds, componentRest, runVars
<1>3. ASSUME OthersEmit PROVE EndInv' BY <1>0, <1>3, EndFrame DEF OthersEmit, files
<1>4. ASSUME LoopCheck PROVE EndInv'
  BY <1>4 DEF EndInv, LoopCheck, loopRest, files, Tasks, Order
<1>5. ASSUME Acquire \/ LoopRecheck PROVE EndInv'
  BY <1>5 DEF EndInv, Acquire, LoopRecheck, loopRest, files, Tasks, Order
<1>6. ASSUME Join PROVE EndInv'
  BY <1>6 DEF EndInv, Join, loopRest, files, Tasks, Order
<1>7. ASSUME Launch PROVE EndInv'
  <2>1. run = "launch" /\ run' = "check" /\ UNCHANGED <<summary, rc>> BY <1>7 DEF Launch, loopRest, files
  <2>2. summary = <<>> BY <2>1 DEF EndInv
  <2> QED BY <2>1, <2>2 DEF EndInv
<1>8. ASSUME TasksRun PROVE EndInv' BY <1>8, EndTask DEF TasksRun
<1>9. ASSUME Start PROVE EndInv'
  <2>1. /\ run \in {"init", "setup", "dispatched", "control", "harness"}
        /\ run' \in {"setup", "dispatched", "control", "harness", "check", "exited"}
        /\ summary' = summary /\ (run' # "exited" => rc' = rc)
    BY <1>9 DEF Start, init_run_state, InstallWatchers, EmitDispatched, StartServers, LeaveSetup, Exit, files
  <2>2. summary = <<>> /\ rc = -1 BY <2>1 DEF EndInv
  <2> QED BY <2>1, <2>2 DEF EndInv
<1>10. ASSUME Signals PROVE EndInv'
  <2>1. UNCHANGED <<menu, next, summary, pc, records, rc>> 
    BY <1>10 DEF Signals, CtrlC, WindowExpires, Escalate, signalRest, files
  <2>2. /\ presses <= presses' /\ (cancel' = cancel \/ cancel' # "none")
        /\ (run' = run \/ (run' = "killed" /\ run \in {"init", "setup"}))
    <3>1. ASSUME CtrlC PROVE <2>2!:
      <4>1. presses' = presses + 1 /\ run \notin {"exited", "killed"} BY <3>1 DEF CtrlC
      <4>2. watch \in {"off", "idle", "window", "escalating", "gone"} BY DEF Core, FlatOK
      <4>3. watch = "off" => run \in {"init", "setup", "exited", "killed"} BY DEF Core, LoopInv
      <4>4. CASE watch = "off" 
        <5>1. run' = "killed" /\ UNCHANGED cancel BY <3>1, <4>4 DEF CtrlC
        <5> QED BY <1>0, <4>1, <4>3, <4>4, <5>1
      <4>5. CASE watch = "idle"
        <5>1. cancel' = (IF cancel = "none" THEN "drain" ELSE cancel) /\ run' = run BY <3>1, <4>5 DEF CtrlC
        <5> QED BY <1>0, <4>1, <5>1
      <4>6. CASE watch \in {"window", "escalating"}
        <5>1. cancel' = "terminate" /\ run' = run BY <3>1, <4>6 DEF CtrlC
        <5> QED BY <1>0, <4>1, <5>1
      <4>7. CASE watch = "gone"
        <5>1. UNCHANGED <<cancel, run>> BY <3>1, <4>7 DEF CtrlC
        <5> QED BY <1>0, <4>1, <5>1
      <4> QED BY <4>2, <4>4, <4>5, <4>6, <4>7
    <3>2. ASSUME WindowExpires \/ Escalate PROVE <2>2!:
      BY <1>0, <3>2 DEF WindowExpires, Escalate
    <3> QED BY <1>10, <3>1, <3>2 DEF Signals
  <2>3. CASE run' = run BY <1>0, <2>1, <2>2, <2>3, EndFrame
  <2>4. CASE run' = "killed" /\ run \in {"init", "setup"}
    <3>1. summary = <<>> /\ rc = -1 BY <2>4 DEF EndInv
    <3> QED BY <2>1, <2>4, <3>1 DEF EndInv
  <2> QED BY <2>2, <2>3, <2>4
<1>11. ASSUME EmitFinished PROVE EndInv'
  BY <1>11 DEF EndInv, EmitFinished, files, Tasks, Order
<1> QED BY <1>1, <1>2, <1>3, <1>4, <1>5, <1>6, <1>7, <1>8, <1>9, <1>10, <1>11, EndFinalize, EndExit
       DEF Next, Loop, End
-----------------------------------------------------------------------------
(* The worktrees. *)

\* A session's steps are its own, and none comes before its start or after its end.
LEMMA SessionMoves ==
    ASSUME NEW t \in Tasks, SessionStep(t)
    PROVE  \/ UNCHANGED <<sess, outcome>>
           \/ /\ sess[t] \notin {"none", "ended"}
              /\ \E x : sess' = [sess EXCEPT ![t] = x]
              /\ outcome' = outcome \/ \E o : outcome' = [outcome EXCEPT ![t] = o]
<1>1. ASSUME stream_loop(t) \/ ChildWrites(t) \/ ChildExits(t) \/ ChildTakesTerm(t) \/ HeirLeaves(t)
      PROVE  UNCHANGED <<sess, outcome>>
  BY <1>1 DEF stream_loop, ChildWrites, ChildExits, ChildTakesTerm, HeirLeaves
<1>2. ASSUME Spawn(t)
      PROVE  /\ sess[t] \notin {"none", "ended"} /\ \E x : sess' = [sess EXCEPT ![t] = x]
             /\ outcome' = outcome \/ \E o : outcome' = [outcome EXCEPT ![t] = o]
  BY <1>2 DEF Spawn
<1>3. ASSUME try_wait(t) \/ EndExited(t) \/ EndTerminated(t) \/ EndTimedOut(t) \/ GraceEnds(t) \/ GraceExpires(t)
      PROVE  sess[t] \notin {"none", "ended"} /\ (\E x : sess' = [sess EXCEPT ![t] = x]) /\ outcome' = outcome
  BY <1>3 DEF try_wait, EndExited, EndTerminated, EndTimedOut, GraceEnds, GraceExpires, terminate
<1>4. ASSUME DrainEnds(t) \/ DrainExpires(t)
      PROVE  /\ sess[t] \notin {"none", "ended"} /\ \E x : sess' = [sess EXCEPT ![t] = x]
             /\ \E o : outcome' = [outcome EXCEPT ![t] = o]
  BY <1>4 DEF DrainEnds, DrainExpires, EndsWith
<1> QED BY <1>1, <1>2, <1>3, <1>4 DEF SessionStep

\* A task nothing happened to.
LEMMA TreeOther ==
    ASSUME NEW u, TreeTask(u), menu' = menu, pc'[u] = pc[u], sess'[u] = sess[u], outcome'[u] = outcome[u],
           HasTree(u)' <=> HasTree(u)
    PROVE  TreeTask(u)'
BY DEF TreeTask, TaskStatus

LEMMA TreeFrame == ASSUME TreeInv, UNCHANGED <<menu, pc, sess, outcome, trees>> PROVE TreeInv'
<1>1. Tasks' = Tasks BY DEF Tasks
<1>2. ASSUME NEW t \in Tasks PROVE TreeTask(t)' BY TreeOther DEF TreeInv, HasTree, TreeName
<1> QED BY <1>1, <1>2 DEF TreeInv

LEMMA TreeSession ==
    ASSUME TreeInv, FlatOK, NEW t \in Tasks, SessionStep(t), UNCHANGED <<menu, pc, trees>>
    PROVE  TreeInv'
<1>0. Tasks' = Tasks BY DEF Tasks
<1>1. CASE UNCHANGED <<sess, outcome>> BY <1>1, TreeFrame
<1>2. CASE ~UNCHANGED <<sess, outcome>>
  <2>1. /\ sess[t] \notin {"none", "ended"} /\ \E x : sess' = [sess EXCEPT ![t] = x]
        /\ outcome' = outcome \/ \E o : outcome' = [outcome EXCEPT ![t] = o]
    BY <1>2, SessionMoves
  <2>2. PICK x : sess' = [sess EXCEPT ![t] = x] BY <2>1
  <2>3. sess = [u \in Tasks |-> sess[u]] /\ outcome = [u \in Tasks |-> outcome[u]] BY DEF TreeInv
  <2>4. sess' = [u \in Tasks |-> sess'[u]] /\ outcome' = [u \in Tasks |-> outcome'[u]] BY <2>1, <2>2, <2>3
  <2>5. \A u \in Tasks : u # t => sess'[u] = sess[u] /\ outcome'[u] = outcome[u] BY <2>1, <2>2, <2>3
  <2>6. pc[t] = "session" BY <2>1 DEF TreeInv, TreeTask, FlatOK, PCs
  <2>7. \A u \in Tasks : TreeTask(u)'
    <3> SUFFICES ASSUME NEW u \in Tasks PROVE TreeTask(u)' OBVIOUS
    <3>1. HasTree(u)' <=> HasTree(u) BY DEF HasTree, TreeName
    <3>2. TreeTask(u) BY DEF TreeInv
    <3>3. CASE u # t BY <2>5, <3>1, <3>2, <3>3, TreeOther
    <3>4. CASE u = t BY <2>6, <3>1, <3>2, <3>4 DEF TreeTask, Waiting, Ended
    <3> QED BY <3>3, <3>4
  <2> QED BY <1>0, <2>4, <2>7 DEF TreeInv
<1> QED BY <1>1, <1>2

\* A task's step touches no other task's worktree.
LEMMA TreeTaskMoves ==
    ASSUME TreeInv, FlatOK, NEW t \in Tasks, NEW x, pc' = [pc EXCEPT ![t] = x], menu' = menu,
           UNCHANGED <<sess, outcome>>,
           \A w : w.name # TreeName(t) => (w \in trees' <=> w \in trees),
           \A v, w \in trees' : v.branch = w.branch => v = w, TreeTask(t)'
    PROVE  TreeInv'
<1>0. Tasks' = Tasks BY DEF Tasks
<1>1. \A u \in Tasks : u # t => pc'[u] = pc[u] BY DEF FlatOK
<1>2. ASSUME NEW u \in Tasks, u # t PROVE HasTree(u)' <=> HasTree(u)
  <2>1. TreeName(u) # TreeName(t) /\ TreeName(u)' = TreeName(u) BY <1>2 DEF TreeName
  <2> QED BY <2>1 DEF HasTree
<1>3. ASSUME NEW u \in Tasks, u # t PROVE TreeTask(u)'
  <2>1. TreeTask(u) BY DEF TreeInv
  <2> QED BY <1>1, <1>2, <1>3, <2>1, TreeOther
<1>4. \A u \in Tasks' : TreeTask(u)' BY <1>0, <1>3
<1> QED BY <1>0, <1>4 DEF TreeInv

\* A step that leaves the worktrees alone.
LEMMA TreeTaskPasses ==
    ASSUME TreeInv, FlatOK, NEW t \in Tasks, NEW x, pc' = [pc EXCEPT ![t] = x],
           UNCHANGED <<menu, sess, outcome, trees>>,
           \/ pc[t] \in Waiting /\ x \in Waiting
           \/ pc[t] \in {"refused", "append"} \cup Ended /\ x \in Ended
           \/ pc[t] \in Waiting /\ x = "session" /\ ~menu.worktree[t]
    PROVE  TreeInv'
<1>1. pc'[t] = x BY DEF FlatOK
<1>2. TreeTask(t) /\ \A v, w \in trees' : v.branch = w.branch => v = w BY DEF TreeInv
<1>3. HasTree(t)' <=> HasTree(t) BY DEF HasTree, TreeName
<1>4. (TaskStatus(t) = "Success")' <=> TaskStatus(t) = "Success" BY DEF TaskStatus
<1>5. TreeTask(t)' BY <1>1, <1>2, <1>3 DEF TreeTask, Waiting, Ended, TaskStatus
<1> QED BY <1>2, <1>5, TreeTaskMoves

LEMMA TreeAdd == ASSUME TreeInv, FlatOK, NEW t \in Tasks, PrepareAdd(t) PROVE TreeInv'
<1>0. UNCHANGED <<menu, sess, outcome>> /\ pc[t] = "add" BY DEF PrepareAdd, taskRest, sessionVars
<1>1. CASE CheckedOut(BranchOf(t))
  <2>1. pc' = [pc EXCEPT ![t] = "refused"] /\ trees' = trees BY <1>1 DEF PrepareAdd, git_worktree_add, Go
  <2> QED BY <1>0, <2>1, TreeTaskPasses DEF Waiting
<1>2. CASE ~CheckedOut(BranchOf(t))
  <2> DEFINE n == [name |-> TreeName(t), branch |-> BranchOf(t), stale |-> FALSE]
  <2>1. pc' = [pc EXCEPT ![t] = "session"] /\ trees' = trees \cup {n}
    BY <1>2 DEF PrepareAdd, git_worktree_add, Go
  <2>2. n.name = TreeName(t) /\ n.branch = BranchOf(t) /\ ~n.stale OBVIOUS
  <2>3. \A w \in trees : w.branch # BranchOf(t) BY <1>2 DEF CheckedOut
  <2> HIDE DEF n
  <2>4. \A w : w.name # TreeName(t) => (w \in trees' <=> w \in trees) BY <2>1, <2>2
  <2>5. \A v, w \in trees' : v.branch = w.branch => v = w BY <2>1, <2>2, <2>3 DEF TreeInv
  <2>6. HasTree(t)'
    <3>1. TreeName(t)' = TreeName(t) BY DEF TreeName
    <3> QED BY <2>1, <2>2, <3>1 DEF HasTree
  <2>7. pc'[t] = "session" BY <2>1 DEF FlatOK
  <2>8. TreeTask(t)' BY <2>6, <2>7 DEF TreeTask, Waiting, Ended
  <2> QED BY <1>0, <2>1, <2>4, <2>5, <2>8, TreeTaskMoves
<1> QED BY <1>1, <1>2

\* The worktree goes or stays by the outcome that the record will hold.
LEMMA TreeEnds == ASSUME TreeInv, FlatOK, NEW t \in Tasks, SessionEnds(t) PROVE TreeInv'
<1>1. /\ UNCHANGED <<menu, sess, outcome>> /\ pc[t] = "session" /\ sess[t] = "ended"
      /\ pc' = [pc EXCEPT ![t] = "append"]
  BY DEF SessionEnds, taskRest, sessionVars, Go
<1> DEFINE R == Removes(menu.cleanup, TaskStatus(t) = "Success")
           Own == {w \in trees : w.name = TreeName(t)}
<1>2. \/ ~R /\ trees' = trees
      \/ R /\ trees' = trees \ Own
      \/ R /\ trees' = (trees \ Own) \cup {Stale(w) : w \in Own}
  BY DEF SessionEnds, cleanup
<1>s. \A w : Stale(w).name = w.name /\ Stale(w).branch = w.branch /\ Stale(w).stale BY DEF Stale
<1>3. pc'[t] = "append" BY <1>1 DEF FlatOK
<1>4. Removes(menu.cleanup, TaskStatus(t) = "Success")' <=> R BY <1>1 DEF TaskStatus, Removes
<1>5. menu.worktree[t] => HasTree(t) BY <1>1 DEF TreeInv, TreeTask
<1>6. TreeName(t)' = TreeName(t) BY DEF TreeName
<1> HIDE DEF R
<1>7. menu.worktree[t] => (HasTree(t)' <=> ~R)
  <2>1. CASE ~R BY <1>2, <1>5, <1>6, <2>1 DEF HasTree
  <2>2. CASE R
    <3>1. \A w \in trees' : w.name = TreeName(t) => w.stale BY <1>2, <1>s, <2>2
    <3> QED BY <1>6, <2>2, <3>1 DEF HasTree
  <2> QED BY <2>1, <2>2
<1>8. TreeTask(t)' BY <1>1, <1>3, <1>4, <1>7 DEF TreeTask, Waiting, Ended
<1>9. \A w : w.name # TreeName(t) => (w \in trees' <=> w \in trees) BY <1>2, <1>s
<1>10. \A v, w \in trees' : v.branch = w.branch => v = w
  <2>1. \A v, w \in trees : v.branch = w.branch => v = w BY DEF TreeInv
  <2>2. CASE ~R BY <1>2, <2>1, <2>2
  <2>3. CASE R
    <3>1. \A v \in trees' : (v \in trees /\ v \notin Own) \/ (\E w \in Own : v = Stale(w)) BY <1>2, <2>3
    <3>2. \A w \in Own : w \in trees OBVIOUS
    <3> HIDE DEF Own
    <3> QED BY <1>s, <2>1, <3>1, <3>2
  <2> QED BY <2>2, <2>3
<1> QED BY <1>1, <1>8, <1>9, <1>10, TreeTaskMoves

LEMMA TreeTaskStep == ASSUME TreeInv, FlatOK, NEW t \in Tasks, TaskStep(t) PROVE TreeInv'
<1>1. ASSUME PrepareBranch(t) PROVE TreeInv'
  <2>1. PICK x \in {"refused", "scan"} : pc' = [pc EXCEPT ![t] = x] BY <1>1 DEF PrepareBranch, Go
  <2> QED BY <1>1, <2>1, TreeTaskPasses DEF PrepareBranch, taskRest, sessionVars, Waiting
<1>2. ASSUME PrepareScan(t) PROVE TreeInv'
  <2>1. PICK x \in {"refused", "add"} : pc' = [pc EXCEPT ![t] = x] BY <1>2 DEF PrepareScan, Go
  <2> QED BY <1>2, <2>1, TreeTaskPasses DEF PrepareScan, taskRest, sessionVars, Waiting
<1>3. ASSUME StartSession(t) PROVE TreeInv'
  <2>0. Tasks' = Tasks /\ UNCHANGED <<menu, pc, trees, outcome>> /\ pc[t] = "session"
        /\ sess' = [sess EXCEPT ![t] = "starting"]
    BY <1>3 DEF StartSession, taskRest, Tasks
  <2>1. sess = [u \in Tasks |-> sess[u]] BY DEF TreeInv
  <2>2. sess' = [u \in Tasks |-> sess'[u]] /\ \A u \in Tasks : u # t => sess'[u] = sess[u] BY <2>0, <2>1
  <2>3. \A u \in Tasks : TreeTask(u)'
    <3> SUFFICES ASSUME NEW u \in Tasks PROVE TreeTask(u)' OBVIOUS
    <3>1. HasTree(u)' <=> HasTree(u) BY <2>0 DEF HasTree, TreeName
    <3>2. TreeTask(u) BY DEF TreeInv
    <3>3. CASE u # t BY <2>0, <2>2, <3>1, <3>2, <3>3, TreeOther
    <3>4. CASE u = t BY <2>0, <3>1, <3>2, <3>4 DEF TreeTask, Waiting, Ended
    <3> QED BY <3>3, <3>4
  <2> QED BY <2>0, <2>2, <2>3 DEF TreeInv
<1>4. ASSUME AppendLine(t) PROVE TreeInv'
  <2>1. pc' = [pc EXCEPT ![t] = "newline"] BY <1>4 DEF AppendLine, Go
  <2> QED BY <1>4, <2>1, TreeTaskPasses DEF AppendLine, taskRest, sessionVars, Ended
<1>5. ASSUME AppendNewline(t) PROVE TreeInv'
  <2>1. pc' = [pc EXCEPT ![t] = "push"] BY <1>5 DEF AppendNewline, Go
  <2> QED BY <1>5, <2>1, TreeTaskPasses DEF AppendNewline, taskRest, sessionVars, Ended
<1>6. ASSUME PushRecord(t) PROVE TreeInv'
  <2>1. PICK x \in {"halt", "release"} : pc' = [pc EXCEPT ![t] = x] BY <1>6 DEF PushRecord, Go
  <2> QED BY <1>6, <2>1, TreeTaskPasses DEF PushRecord, taskRest, sessionVars, Ended
<1>7. ASSUME Halt(t) PROVE TreeInv'
  <2>1. pc' = [pc EXCEPT ![t] = "release"] BY <1>7 DEF Halt, Go
  <2> QED BY <1>7, <2>1, TreeTaskPasses DEF Halt, taskRest, sessionVars, Ended
<1>8. ASSUME Release(t) PROVE TreeInv'
  <2>1. pc' = [pc EXCEPT ![t] = "done"] BY <1>8 DEF Release, Go
  <2> QED BY <1>8, <2>1, TreeTaskPasses DEF Release, taskRest, sessionVars, Ended
<1> QED BY <1>1, <1>2, <1>3, <1>4, <1>5, <1>6, <1>7, <1>8, TreeAdd, TreeEnds DEF TaskStep

LEMMA TreeStep == ASSUME TreeInv, Core, [Next]_vars PROVE TreeInv'
<1>0. FlatOK BY DEF Core
<1>1. ASSUME UNCHANGED vars PROVE TreeInv' BY <1>1, TreeFrame DEF vars, runVars, sessionVars
<1>2. ASSUME Notifications \/ Sample \/ SamplerEnds PROVE TreeInv'
  BY <1>2, TreeFrame DEF Notifications, Sample, SamplerEnds, componentRest, runVars, sessionVars
<1>3. ASSUME OthersEmit PROVE TreeInv' BY <1>3, TreeFrame DEF OthersEmit, sessionVars
<1>4. ASSUME LoopCheck \/ Acquire \/ LoopRecheck \/ Join PROVE TreeInv'
  BY <1>4, TreeFrame DEF LoopCheck, Acquire, LoopRecheck, Join, loopRest, sessionVars
<1>5. ASSUME Launch PROVE TreeInv'
  <2>1. PICK x \in {"prepare", "session"} : pc' = [pc EXCEPT ![Task] = x] /\ (x = "session" => ~menu.worktree[Task])
    BY <1>5, LaunchesIdle
  <2>2. Task \in Tasks /\ pc[Task] = "idle" BY <1>5, LaunchesIdle
  <2>3. UNCHANGED <<menu, sess, outcome, trees>> BY <1>5 DEF Launch, loopRest, sessionVars
  <2> QED BY <1>0, <2>1, <2>2, <2>3, TreeTaskPasses DEF Waiting
<1>6. ASSUME TasksRun PROVE TreeInv' BY <1>0, <1>6, TreeTaskStep DEF TasksRun
<1>7. ASSUME Start PROVE TreeInv'
  BY <1>7, TreeFrame DEF Start, init_run_state, InstallWatchers, EmitDispatched, StartServers, LeaveSetup, sessionVars
<1>8. ASSUME Signals PROVE TreeInv'
  BY <1>8, TreeFrame DEF Signals, CtrlC, WindowExpires, Escalate, signalRest, sessionVars
<1>9. ASSUME End PROVE TreeInv' BY <1>9, TreeFrame DEF End, finalize_run, EmitFinished, ExitRun, sessionVars
<1>10. ASSUME Sessions_ PROVE TreeInv'
  <2>1. PICK t \in Tasks : SessionStep(t) BY <1>10 DEF Sessions_
  <2>2. UNCHANGED <<menu, pc, trees>> BY <1>10 DEF Sessions_, componentRest, runVars
  <2> QED BY <1>0, <2>1, <2>2, TreeSession
<1> QED BY <1>1, <1>2, <1>3, <1>4, <1>5, <1>6, <1>7, <1>8, <1>9, <1>10 DEF Next, Loop
-----------------------------------------------------------------------------
(* The notifications. *)

Jobs == [no : Nat, sink : Nat, attempt : Nat, st : {"emit", "record", "count"}]

\* Counting the elements up to each one numbers a set without gaps.
Rank(H, i) == Cardinality({k \in H : k <= i})

LEMMA Numbering ==
    ASSUME NEW m \in Nat, NEW H \in SUBSET (1..m)
    PROVE  /\ IsFiniteSet(H) /\ Cardinality(H) \in Nat
           /\ \A i \in H : Rank(H, i) \in 1..Cardinality(H)
           /\ \A i, j \in H : Rank(H, i) = Rank(H, j) => i = j
           /\ \A n \in 1..Cardinality(H) : \E i \in H : Rank(H, i) = n
<1>1. IsFiniteSet(H) /\ Cardinality(H) \in Nat
  <2>1. IsFiniteSet(1..m) BY FS_Interval
  <2>2. IsFiniteSet(H) BY <2>1, FS_Subset
  <2> QED BY <2>2, FS_CardinalityType
<1> DEFINE U(i) == {k \in H : k <= i}
           N == Cardinality(H)
           c == [i \in H |-> Rank(H, i)]
<1>2. \A i \in H : c[i] = Cardinality(U(i)) /\ c[i] = Rank(H, i) BY DEF Rank
<1>3. \A i \in H : U(i) \in SUBSET H /\ i \in U(i) /\ i \in Int OBVIOUS
<1>a. c \in [H -> {c[i] : i \in H}] OBVIOUS
<1> HIDE DEF c
<1>4. ASSUME NEW i \in H PROVE IsFiniteSet(U(i)) /\ c[i] \in Nat /\ c[i] <= N /\ c[i] # 0
  <2>1. IsFiniteSet(U(i)) /\ Cardinality(U(i)) <= Cardinality(H) BY <1>1, <1>3, FS_Subset
  <2>2. Cardinality(U(i)) \in Nat BY <2>1, FS_CardinalityType
  <2>3. Cardinality(U(i)) # 0 BY <1>3, <2>1, FS_EmptySet
  <2> QED BY <1>2, <2>1, <2>2, <2>3
<1>5. ASSUME NEW i \in H, NEW j \in H, i < j PROVE c[i] # c[j]
  <2>1. j \notin U(i) /\ \A k \in H : k <= i => k <= j BY <1>3, <1>5
  <2>2. U(i) \in SUBSET U(j) BY <2>1
  <2>3. IsFiniteSet(U(j)) BY <1>4
  <2>4. U(i) # U(j) BY <1>3, <2>1
  <2>5. Cardinality(U(j)) # Cardinality(U(i)) BY <2>2, <2>3, <2>4, FS_Subset
  <2> QED BY <1>2, <2>5
<1>6. \A i, j \in H : c[i] = c[j] => i = j
  <2> SUFFICES ASSUME NEW i \in H, NEW j \in H, c[i] = c[j], i # j PROVE FALSE OBVIOUS
  <2>1. i < j \/ j < i BY <1>3
  <2> QED BY <1>5, <2>1
<1>b. N \in Nat BY <1>1
<1>7. \A i \in H : c[i] \in 1..N
  <2> SUFFICES ASSUME NEW i \in H PROVE c[i] \in 1..N OBVIOUS
  <2>1. c[i] \in Nat /\ c[i] <= N /\ c[i] # 0 BY <1>4
  <2> HIDE DEF N
  <2> QED BY <1>b, <2>1
<1>8. c \in Injection(H, 1..N) BY <1>a, <1>6, <1>7 DEF Injection, IsInjective
<1>9. IsFiniteSet(1..N) /\ Cardinality(1..N) = N BY <1>1, FS_Interval
<1>10. c \in Surjection(H, 1..N) BY <1>8, <1>9, FS_Injection
<1>11. \A n \in 1..N : \E i \in H : c[i] = n BY <1>10 DEF Surjection
<1>12. \A i \in H : Rank(H, i) = c[i] BY <1>2
<1> HIDE DEF U
<1>13. \A i \in H : Rank(H, i) \in 1..Cardinality(H) BY <1>7, <1>12
<1>14. \A i, j \in H : Rank(H, i) = Rank(H, j) => i = j BY <1>6, <1>12
<1>15. \A n \in 1..Cardinality(H) : \E i \in H : Rank(H, i) = n BY <1>11, <1>12
<1> QED BY <1>1, <1>13, <1>14, <1>15

LEMMA RouterLength == ASSUME menu \in Menus PROVE Len(build_router_with(menu.notify, menu.parent)) \in Nat
<1> DEFINE f == [i \in 1..Len(menu.notify) |->
                   [id |-> menu.notify[i].id, min |-> menu.notify[i].min, events |-> menu.notify[i].events,
                    url |-> menu.notify[i].url, guarded |-> menu.notify[i].kind # "log"]]
           r == [id |-> "parent", min |-> "info", events |-> {}, url |-> "parent", guarded |-> FALSE]
           g == IF menu.parent = "url" THEN <<r>> ELSE <<>>
           S == {f[i] : i \in 1..Len(menu.notify)} \cup {r}
<1>1. Len(menu.notify) \in Nat BY MenusAssumption, LenProperties
<1>2. f \in [1..Len(menu.notify) -> S] OBVIOUS
<1>3. build_router_with(menu.notify, menu.parent) = f \o g BY DEF build_router_with
<1>a. r \in S OBVIOUS
<1> HIDE DEF f, r, S
<1>4. f \in Seq(S) BY <1>1, <1>2, SeqDef
<1>5. g \in Seq(S)
  <2>1. <<>> \in Seq(S) /\ <<r>> \in Seq(S) BY <1>a
  <2> QED BY <2>1
<1> HIDE DEF g
<1>6. f \o g \in Seq(S) BY <1>4, <1>5, ConcatProperties
<1>7. Len(f \o g) \in Nat BY <1>6, LenProperties
<1> QED BY <1>3, <1>7

LEMMA NotifyFrame == ASSUME NotifyInv, UNCHANGED notifyVars PROVE NotifyInv'
BY DEF NotifyInv, notifyVars, Counting, GivenUp

\* dispatch: the new emits take the numbers after those given out.
LEMMA NotifyDispatch == ASSUME NotifyInv, NEW env, dispatch(env) PROVE NotifyInv'
<1>1. CASE Contains(dedup, env.key) BY <1>1, NotifyFrame DEF dispatch
<1>2. CASE ~Contains(dedup, env.key)
  <2> DEFINE H == {i \in 1..Len(sinks) : Matches(sinks[i], env)}
             J(i) == [no |-> asked + Rank(H, i), sink |-> i, attempt |-> 1, st |-> "emit"]
             New == {J(i) : i \in H}
             N == Cardinality(H)
  <2>1. jobs' = jobs \cup New /\ asked' = asked + N /\ UNCHANGED <<sinks, sent, failed, GivenUp>>
    BY <1>2 DEF dispatch, Rank, GivenUp
  <2>2. H \in SUBSET (1..Len(sinks)) /\ Len(sinks) \in Nat /\ asked \in Nat BY DEF NotifyInv
  <2> HIDE DEF H
  <2>3. /\ IsFiniteSet(H) /\ N \in Nat /\ \A i \in H : Rank(H, i) \in 1..N
        /\ \A i, j \in H : Rank(H, i) = Rank(H, j) => i = j
        /\ \A n \in 1..N : \E i \in H : Rank(H, i) = n
    BY <2>2, Numbering
  <2> HIDE DEF N
  <2>4. \A i \in H : /\ J(i).no = asked + Rank(H, i) /\ J(i).st = "emit" /\ i \in Nat /\ Rank(H, i) \in Nat
                     /\ J(i).no \in Nat /\ J(i).no > asked
    BY <2>2, <2>3
  <2>5. \A i \in H : J(i) \in Jobs BY <2>2, <2>4 DEF Jobs
  <2>6. IsFiniteSet(New)
    <3> DEFINE g == [i \in H |-> J(i)]
    <3>1. g \in Surjection(H, New) BY DEF Surjection
    <3> HIDE DEF g
    <3> QED BY <2>3, <3>1, FS_Surjection
  <2>7. \A x \in New : \E i \in H : x = J(i) OBVIOUS
  <2>8. \A i \in H : J(i) \in New OBVIOUS
  <2> HIDE DEF J, New
  <2>9. \A j \in jobs : j.no \in 1..asked BY DEF NotifyInv
  <2>10. \A x \in New : x.no \in Nat /\ x.no > asked /\ x.st = "emit" BY <2>4, <2>7
  <2>11. \A x, y \in New : x.no = y.no => x = y
    <3> SUFFICES ASSUME NEW x \in New, NEW y \in New, x.no = y.no PROVE x = y OBVIOUS
    <3>1. PICK i \in H : x = J(i) BY <2>7
    <3>2. PICK k \in H : y = J(k) BY <2>7
    <3>3. asked + Rank(H, i) = asked + Rank(H, k) /\ Rank(H, i) \in Nat /\ Rank(H, k) \in Nat BY <2>4, <3>1, <3>2
    <3>4. Rank(H, i) = Rank(H, k) BY <2>2, <3>3
    <3> QED BY <2>3, <3>1, <3>2, <3>4
  <2>12. \A j, k \in jobs' : j.no = k.no => j = k
    <3>1. \A j, k \in jobs : j.no = k.no => j = k BY DEF NotifyInv
    <3>2. \A j \in jobs, x \in New : j.no # x.no BY <2>2, <2>9, <2>10
    <3> QED BY <2>1, <2>11, <3>1, <3>2
  <2>13. 1..asked' = {j.no : j \in jobs'} \cup sent' \cup GivenUp'
    <3>1. 1..asked = {j.no : j \in jobs} \cup sent \cup GivenUp BY DEF NotifyInv
    <3>2. {x.no : x \in New} = (asked + 1)..(asked + N)
      <4>1. ASSUME NEW x \in New PROVE x.no \in (asked + 1)..(asked + N)
        <5>1. PICK i \in H : x = J(i) BY <2>7
        <5>2. x.no = asked + Rank(H, i) /\ Rank(H, i) \in 1..N BY <2>3, <2>4, <5>1
        <5> QED BY <2>2, <2>3, <5>2
      <4>2. ASSUME NEW n \in (asked + 1)..(asked + N) PROVE \E x \in New : x.no = n
        <5>1. n - asked \in 1..N BY <2>2, <2>3
        <5>2. PICK i \in H : Rank(H, i) = n - asked BY <2>3, <5>1
        <5>3. asked + (n - asked) = n BY <2>2
        <5>4. J(i).no = n BY <2>4, <5>2, <5>3
        <5> QED BY <2>8, <5>4
      <4> QED BY <4>1, <4>2
    <3>3. 1..(asked + N) = 1..asked \cup (asked + 1)..(asked + N) BY <2>2, <2>3
    <3>4. {j.no : j \in jobs'} = {j.no : j \in jobs} \cup {x.no : x \in New} BY <2>1
    <3> QED BY <2>1, <3>1, <3>2, <3>3, <3>4
  <2>14. \A j \in jobs' : (j.st = "count" => j.no \in GivenUp') /\ (j.st # "count" => j.no \notin GivenUp')
    <3>1. \A j \in jobs : (j.st = "count" => j.no \in GivenUp) /\ (j.st # "count" => j.no \notin GivenUp) BY DEF NotifyInv
    <3>2. \A n \in GivenUp : n \in 1..asked BY DEF NotifyInv
    <3>3. \A x \in New : x.no \notin GivenUp BY <2>2, <2>10, <3>2
    <3> QED BY <2>1, <2>10, <3>1, <3>3
  <2>15. Counting' = Counting BY <2>1, <2>10 DEF Counting
  <2>16. IsFiniteSet(jobs') BY <2>1, <2>6, FS_Union DEF NotifyInv
  <2>17. jobs' \subseteq Jobs BY <2>1, <2>5, <2>7 DEF NotifyInv, Jobs
  <2>18. asked' \in Nat BY <2>1, <2>2, <2>3
  <2> QED BY <2>1, <2>12, <2>13, <2>14, <2>15, <2>16, <2>17, <2>18 DEF NotifyInv, Jobs
<1> QED BY <1>1, <1>2

\* A job that moves on keeps its number.
LEMMA JobMoves ==
    ASSUME NotifyInv, NEW j \in jobs, NEW k \in Jobs, k.no = j.no, Move(j, k)
    PROVE  /\ jobs' \subseteq Jobs /\ IsFiniteSet(jobs') /\ \A x, y \in jobs' : x.no = y.no => x = y
           /\ {x.no : x \in jobs'} = {x.no : x \in jobs}
           /\ \A x \in jobs' : x = k \/ (x \in jobs /\ x # j /\ x.no # j.no)
<1>1. jobs' = (jobs \ {j}) \cup {k} BY DEF Move
<1>2. \A x, y \in jobs : x.no = y.no => x = y BY DEF NotifyInv
<1>3. IsFiniteSet(jobs \ {j}) BY FS_RemoveElement DEF NotifyInv
<1>4. IsFiniteSet(jobs') BY <1>1, <1>3, FS_AddElement
<1>5. jobs' \subseteq Jobs BY <1>1 DEF NotifyInv, Jobs
<1>6. {x.no : x \in jobs'} = {x.no : x \in jobs} BY <1>1
<1>7. \A x \in jobs' : x = k \/ (x \in jobs /\ x # j /\ x.no # j.no) BY <1>1, <1>2
<1>8. \A x, y \in jobs' : x.no = y.no => x = y BY <1>2, <1>7
<1> QED BY <1>4, <1>5, <1>6, <1>7, <1>8

LEMMA NotifyEmit == ASSUME NotifyInv, NEW j \in jobs, NEW a, emit_with_retry(j, a) PROVE NotifyInv'
<1>1. UNCHANGED <<sinks, failed, GivenUp, asked>> /\ j.st = "emit" BY DEF emit_with_retry, GivenUp
<1>2. j \in Jobs BY DEF NotifyInv, Jobs
<1>3. j.no \notin GivenUp BY <1>1 DEF NotifyInv
<1>4. \/ jobs' = jobs \ {j} /\ sent' = sent \cup {j.no}
      \/ sent' = sent /\ Move(j, [j EXCEPT !.attempt = @ + 1])
      \/ sent' = sent /\ Move(j, [j EXCEPT !.st = "record"])
  BY DEF emit_with_retry
<1>5. CASE jobs' = jobs \ {j} /\ sent' = sent \cup {j.no}
  <2>1. IsFiniteSet(jobs') BY <1>5, FS_RemoveElement DEF NotifyInv
  <2>2. {x.no : x \in jobs'} \cup sent' \cup GivenUp' = {x.no : x \in jobs} \cup sent \cup GivenUp BY <1>1, <1>5
  <2>3. Counting' = Counting BY <1>1, <1>5 DEF Counting
  <2>4. \A x \in jobs' : x \in jobs BY <1>5
  <2> QED BY <1>1, <2>1, <2>2, <2>3, <2>4 DEF NotifyInv
<1>6. ASSUME NEW k \in Jobs, k.no = j.no, k.st # "count", Move(j, k), sent' = sent PROVE NotifyInv'
  <2>1. /\ jobs' \subseteq Jobs /\ IsFiniteSet(jobs') /\ \A x, y \in jobs' : x.no = y.no => x = y
        /\ {x.no : x \in jobs'} = {x.no : x \in jobs}
        /\ \A x \in jobs' : x = k \/ (x \in jobs /\ x # j /\ x.no # j.no)
    BY <1>6, JobMoves
  <2>2. Counting' = Counting BY <1>1, <1>6 DEF Counting, Move
  <2>3. \A x \in jobs : (x.st = "count" => x.no \in GivenUp) /\ (x.st # "count" => x.no \notin GivenUp) BY DEF NotifyInv
  <2>4. \A x \in jobs' : (x.st = "count" => x.no \in GivenUp) /\ (x.st # "count" => x.no \notin GivenUp)
    BY <1>3, <1>6, <2>1, <2>3
  <2>5. 1..asked = {x.no : x \in jobs} \cup sent \cup GivenUp BY DEF NotifyInv
  <2> QED BY <1>1, <1>6, <2>1, <2>2, <2>4, <2>5 DEF NotifyInv, Jobs
<1>7. CASE sent' = sent /\ Move(j, [j EXCEPT !.attempt = @ + 1])
  <2> DEFINE k == [j EXCEPT !.attempt = @ + 1]
  <2>1. k \in Jobs /\ k.no = j.no /\ k.st = j.st BY <1>2 DEF Jobs
  <2>2. Move(j, k) BY <1>7
  <2> HIDE DEF k
  <2> QED BY <1>1, <1>6, <1>7, <2>1, <2>2
<1>8. CASE sent' = sent /\ Move(j, [j EXCEPT !.st = "record"])
  <2> DEFINE k == [j EXCEPT !.st = "record"]
  <2>1. k \in Jobs /\ k.no = j.no /\ k.st = "record" BY <1>2 DEF Jobs
  <2>2. Move(j, k) BY <1>8
  <2> HIDE DEF k
  <2> QED BY <1>1, <1>6, <1>8, <2>1, <2>2
<1> QED BY <1>4, <1>5, <1>7, <1>8

\* On file first, and due to be counted.
LEMMA NotifyRecord == ASSUME NotifyInv, NEW j \in jobs, record_notification_failure(j) PROVE NotifyInv'
<1> DEFINE k == [j EXCEPT !.st = "count"]
<1>1. UNCHANGED <<sinks, sent, failed, asked>> /\ j.st = "record" /\ GivenUp' = GivenUp \cup {j.no} /\ Move(j, k)
  BY DEF record_notification_failure, GivenUp
<1>2. k \in Jobs /\ k.no = j.no /\ k.st = "count" BY DEF NotifyInv, Jobs
<1> HIDE DEF k
<1>3. /\ jobs' \subseteq Jobs /\ IsFiniteSet(jobs') /\ \A x, y \in jobs' : x.no = y.no => x = y
      /\ {x.no : x \in jobs'} = {x.no : x \in jobs}
      /\ \A x \in jobs' : x = k \/ (x \in jobs /\ x # j /\ x.no # j.no)
  BY <1>1, <1>2, JobMoves
<1>4. j.no \notin GivenUp BY <1>1 DEF NotifyInv
<1>5. Counting' = Counting \cup {k} /\ k \notin Counting
  <2>1. k \notin jobs BY <1>1, <1>2 DEF NotifyInv
  <2> QED BY <1>1, <1>2, <2>1 DEF Counting, Move
<1>6. IsFiniteSet(GivenUp') /\ Cardinality(GivenUp') = Cardinality(GivenUp) + 1
  BY <1>1, <1>4, FS_AddElement DEF NotifyInv
<1>7. IsFiniteSet(Counting) /\ Cardinality(Counting) \in Nat
  <2>1. IsFiniteSet(Counting) BY FS_Subset DEF NotifyInv, Counting
  <2> QED BY <2>1, FS_CardinalityType
<1>8. Cardinality(Counting') = Cardinality(Counting) + 1 BY <1>5, <1>7, FS_AddElement
<1>9. failed' + Cardinality(Counting') = Cardinality(GivenUp')
  <2> DEFINE p == Cardinality(Counting)
             q == Cardinality(GivenUp)
  <2>1. failed + p = q /\ p \in Nat /\ failed \in Nat BY <1>7 DEF NotifyInv
  <2>2. Cardinality(Counting') = p + 1 /\ Cardinality(GivenUp') = q + 1 /\ failed' = failed BY <1>1, <1>6, <1>8
  <2> HIDE DEF p, q
  <2> QED BY <2>1, <2>2
<1>10. \A x \in jobs' : (x.st = "count" => x.no \in GivenUp') /\ (x.st # "count" => x.no \notin GivenUp')
  <2>1. \A x \in jobs : (x.st = "count" => x.no \in GivenUp) /\ (x.st # "count" => x.no \notin GivenUp) BY DEF NotifyInv
  <2> QED BY <1>1, <1>2, <1>3, <2>1
<1>11. 1..asked = {x.no : x \in jobs} \cup sent \cup GivenUp /\ j.no \in {x.no : x \in jobs} BY DEF NotifyInv
<1>12. 1..asked' = {x.no : x \in jobs'} \cup sent' \cup GivenUp' BY <1>1, <1>3, <1>11
<1> QED BY <1>1, <1>3, <1>6, <1>9, <1>10, <1>12 DEF NotifyInv, Jobs

LEMMA NotifyCount == ASSUME NotifyInv, NEW j \in jobs, CountFailure(j) PROVE NotifyInv'
<1>1. UNCHANGED <<sinks, sent, GivenUp, asked>> /\ j.st = "count" /\ jobs' = jobs \ {j} /\ failed' = failed + 1
  BY DEF CountFailure, GivenUp
<1>2. IsFiniteSet(jobs') BY <1>1, FS_RemoveElement DEF NotifyInv
<1>3. j.no \in GivenUp BY <1>1 DEF NotifyInv
<1>4. {x.no : x \in jobs'} \cup GivenUp' = {x.no : x \in jobs} \cup GivenUp BY <1>1, <1>3
<1>5. 1..asked = {x.no : x \in jobs} \cup sent \cup GivenUp BY DEF NotifyInv
<1>6. 1..asked' = {x.no : x \in jobs'} \cup sent' \cup GivenUp' BY <1>1, <1>4, <1>5
<1>7. Counting' = Counting \ {j} /\ j \in Counting BY <1>1 DEF Counting
<1>8. IsFiniteSet(Counting) /\ Cardinality(Counting) \in Nat
  <2>1. IsFiniteSet(Counting) BY FS_Subset DEF NotifyInv, Counting
  <2> QED BY <2>1, FS_CardinalityType
<1>9. Cardinality(Counting') = Cardinality(Counting) - 1 BY <1>7, <1>8, FS_RemoveElement
<1>10. failed' + Cardinality(Counting') = Cardinality(GivenUp') /\ failed' \in Nat
  <2> DEFINE p == Cardinality(Counting)
             q == Cardinality(GivenUp)
  <2>1. failed + p = q /\ p \in Nat /\ failed \in Nat BY <1>8 DEF NotifyInv
  <2>2. Cardinality(Counting') = p - 1 /\ Cardinality(GivenUp') = q /\ failed' = failed + 1 BY <1>1, <1>9
  <2> HIDE DEF p, q
  <2> QED BY <2>1, <2>2
<1>11. \A x \in jobs' : x \in jobs BY <1>1
<1> QED BY <1>1, <1>2, <1>6, <1>10, <1>11 DEF NotifyInv

LEMMA NotifyInvStep == ASSUME NotifyInv, Core, [Next]_vars PROVE NotifyInv'
<1>1. ASSUME UNCHANGED vars PROVE NotifyInv' BY <1>1, NotifyFrame DEF vars
<1>2. ASSUME Sessions_ \/ Sample \/ SamplerEnds PROVE NotifyInv'
  BY <1>2, NotifyFrame DEF Sessions_, Sample, SamplerEnds
<1>3. ASSUME Notifications PROVE NotifyInv'
  <2>1. PICK j \in jobs : \/ \E a \in {"ok", "again", "fatal"} : emit_with_retry(j, a)
                          \/ record_notification_failure(j)
                          \/ CountFailure(j)
    BY <1>3 DEF Notifications, NotifyStep
  <2> QED BY <2>1, NotifyEmit, NotifyRecord, NotifyCount
<1>4. ASSUME OthersEmit PROVE NotifyInv'
  <2>1. PICK e : dispatch(e) BY <1>4 DEF OthersEmit
  <2> QED BY <2>1, NotifyDispatch
<1>5. ASSUME Loop PROVE NotifyInv'
  BY <1>5, NotifyFrame DEF Loop, LoopCheck, Acquire, LoopRecheck, Launch, Join, loopRest
<1>6. ASSUME TasksRun PROVE NotifyInv'
  <2>1. UNCHANGED notifyVars BY <1>6, TaskIsAtWork DEF TasksRun, taskRest
  <2> QED BY <2>1, NotifyFrame
<1>7. ASSUME EmitDispatched \/ EmitFinished PROVE NotifyInv'
  <2>1. PICK e : dispatch(e) BY <1>7 DEF EmitDispatched, EmitFinished
  <2> QED BY <2>1, NotifyDispatch
<1>8. ASSUME InstallWatchers PROVE NotifyInv'
  <2>1. sinks' = build_router_with(menu.notify, menu.parent) /\ UNCHANGED <<jobs, sent, failed, GivenUp, asked>>
    BY <1>8 DEF InstallWatchers, GivenUp
  <2>2. Len(sinks') \in Nat BY <2>1, RouterLength DEF Core, FlatOK
  <2>3. Counting' = Counting BY <2>1 DEF Counting
  <2> QED BY <2>1, <2>2, <2>3 DEF NotifyInv
<1>9. ASSUME init_run_state \/ StartServers \/ LeaveSetup PROVE NotifyInv'
  BY <1>9, NotifyFrame DEF init_run_state, StartServers, LeaveSetup
<1>10. ASSUME Signals PROVE NotifyInv'
  BY <1>10, NotifyFrame DEF Signals, CtrlC, WindowExpires, Escalate, signalRest
<1>11. ASSUME finalize_run \/ ExitRun PROVE NotifyInv' BY <1>11, NotifyFrame DEF finalize_run, ExitRun
<1> QED BY <1>1, <1>2, <1>3, <1>4, <1>5, <1>6, <1>7, <1>8, <1>9, <1>10, <1>11 DEF Next, Start, End
-----------------------------------------------------------------------------
(* The memory banner. *)

LEMMA BannerFrame ==
    ASSUME BannerInv, UNCHANGED resourceVars, run' \in Starting => run \in Starting
    PROVE  BannerInv'
BY DEF BannerInv, resourceVars, Known, Frac, LastKnown, Quiet

\* A sample without a limit is remembered and compared with nothing.
LEMMA BannerBlind ==
    ASSUME BannerInv, UNCHANGED <<run, sampler, level, clears, banner>>, IsSeq(hist'), Known' = Known,
           sampler = "on", \A i \in Known : Frac(i)' = Frac(i)
    PROVE  BannerInv'
<1>1. \A i : LastKnown(i)' <=> LastKnown(i) BY DEF LastKnown
<1>2. \A i : Quiet(i)' <=> Quiet(i) BY DEF Quiet
<1> QED BY <1>1, <1>2 DEF BannerInv

\* A sample with one: the debounce takes a level down only at the second quiet sample in a row.
LEMMA BannerSeen ==
    ASSUME BannerInv, UNCHANGED <<run, sampler>>, sampler = "on", IsSeq(hist'), NEW n \in Nat, NEW f,
           \A i \in Known : i \in Nat /\ i < n, Known' = Known \cup {n}, Frac(n)' = f,
           \A i \in Known : Frac(i)' = Frac(i),
           level' = Observed(f)[1], clears' = Observed(f)[2], banner' = level'
    PROVE  BannerInv'
<1>0. level \in {"clear", "warn", "error"} /\ clears \in {0, 1} BY DEF BannerInv
<1>a. /\ sampler' \in {"off", "on", "done"} /\ (sampler' = "on" => banner' = level') /\ sampler' # "off"
      /\ (run' \in Starting => sampler' = "off")
  BY DEF BannerInv
<1>1. CASE f >= ErrorFrac
  <2>1. level' = "error" /\ clears' = 0 BY <1>1 DEF Observed
  <2> QED BY <1>a, <2>1 DEF BannerInv
<1>2. CASE ~(f >= ErrorFrac) /\ f >= WarnFrac
  <2>1. level' = "warn" /\ clears' = 0 BY <1>2 DEF Observed
  <2> QED BY <1>a, <2>1 DEF BannerInv
<1>3. CASE ~(f >= ErrorFrac) /\ ~(f >= WarnFrac) /\ level = "clear"
  <2>1. level' = "clear" /\ clears' = 0 BY <1>3 DEF Observed
  <2>2. ASSUME NEW k \in Known', Frac(k)' >= WarnFrac
        PROVE  \E i, j \in Known' : /\ k < i /\ i < j /\ \A m \in Known' : m <= i \/ j <= m
                                    /\ Frac(i)' < ClearFrac /\ Frac(j)' < ClearFrac
    <3>1. k \in Known /\ Frac(k) >= WarnFrac BY <1>3, <2>2
    <3>2. PICK i \in Known, j \in Known : /\ k < i /\ i < j /\ \A m \in Known : m <= i \/ j <= m
                                          /\ Frac(i) < ClearFrac /\ Frac(j) < ClearFrac
      BY <1>3, <3>1 DEF BannerInv
    <3>3. j <= n OBVIOUS
    <3> QED BY <3>2, <3>3
  <2> QED BY <1>a, <2>1, <2>2 DEF BannerInv
<1>4. CASE ~(f >= ErrorFrac) /\ ~(f >= WarnFrac) /\ level # "clear" /\ ClearsAfter(f) >= ClearDebounce
  <2>1. level' = "clear" /\ clears' = 0 BY <1>4 DEF Observed
  <2>2. f < ClearFrac /\ clears = 1 BY <1>0, <1>4 DEF ClearsAfter, ClearDebounce
  <2>3. PICK i \in Known : LastKnown(i) /\ Quiet(i) BY <1>4, <2>2 DEF BannerInv
  <2>4. ASSUME NEW k \in Known', Frac(k)' >= WarnFrac
        PROVE  \E u, v \in Known' : /\ k < u /\ u < v /\ \A m \in Known' : m <= u \/ v <= m
                                    /\ Frac(u)' < ClearFrac /\ Frac(v)' < ClearFrac
    <3>1. k \in Known /\ Frac(k) >= WarnFrac BY <1>4, <2>4
    <3>2. k < i /\ Frac(i)' < ClearFrac BY <2>3, <3>1 DEF Quiet
    <3>3. i < n /\ \A m \in Known' : m <= i \/ n <= m BY <2>3 DEF LastKnown
    <3>4. Frac(n)' < ClearFrac /\ n \in Known' /\ i \in Known' BY <2>2
    <3> QED BY <3>2, <3>3, <3>4
  <2> QED BY <1>a, <2>1, <2>4 DEF BannerInv
<1>5. CASE ~(f >= ErrorFrac) /\ ~(f >= WarnFrac) /\ level # "clear" /\ ~(ClearsAfter(f) >= ClearDebounce)
  <2>1. level' = level /\ clears' = ClearsAfter(f) BY <1>5 DEF Observed
  <2>2. clears' \in {0, 1} /\ (clears' = 1 => f < ClearFrac) BY <1>0, <1>5, <2>1 DEF ClearsAfter, ClearDebounce
  <2>3. ASSUME clears' = 1 PROVE \E i \in Known' : LastKnown(i)' /\ Quiet(i)'
    <3>1. n \in Known' /\ \A m \in Known' : m <= n OBVIOUS
    <3>2. \A k \in Known' : Frac(k)' >= WarnFrac => k < n BY <1>5
    <3>3. LastKnown(n)' BY <3>1 DEF LastKnown
    <3>4. Quiet(n)' BY <2>2, <2>3, <3>1, <3>2 DEF Quiet
    <3> QED BY <3>1, <3>3, <3>4
  <2> QED BY <1>0, <1>5, <1>a, <2>1, <2>2, <2>3 DEF BannerInv
<1> QED BY <1>1, <1>2, <1>3, <1>4, <1>5

LEMMA BannerSample ==
    ASSUME BannerInv, NEW p, NEW m, run_sampler(p, m), run' = run
    PROVE  BannerInv'
<1> DEFINE total == TotalRss(collect_samples(p))
           denom == Denominator(m)
           f == (100 * total) \div denom
<1>1. /\ sampler = "on" /\ sampler' = sampler /\ hist' = Append(hist, <<total, denom>>)
      /\ denom > 0 => level' = Observed(f)[1] /\ clears' = Observed(f)[2] /\ banner' = Observed(f)[1]
      /\ ~(denom > 0) => UNCHANGED <<level, clears, banner>>
  BY DEF run_sampler
<1>2. IsSeq(hist) /\ Len(hist) \in Nat BY DEF BannerInv, IsSeq
<1>n. PICK n \in Nat : n = Len(hist) + 1 BY <1>2
<1>f. PICK g : g = f OBVIOUS
<1> HIDE DEF total, denom
<1>3. /\ IsSeq(hist') /\ Len(hist') = n /\ hist'[n] = <<total, denom>>
      /\ \A i \in 1..Len(hist) : hist'[i] = hist[i]
  BY <1>1, <1>2, <1>n, AppendSeq
<1>4. \A i \in Known : i \in 1..Len(hist) /\ i \in Nat /\ i < n BY <1>2, <1>n DEF Known
<1>5. \A i \in Known : Frac(i)' = Frac(i) BY <1>3, <1>4 DEF Frac
<1>6. 1..n = (1..Len(hist)) \cup {n} BY <1>2, <1>n
<1>7. CASE denom > 0
  <2>1. Known' = Known \cup {n} BY <1>3, <1>6, <1>7 DEF Known
  <2>2. Frac(n)' = g BY <1>3, <1>f DEF Frac
  <2>3. level' = Observed(g)[1] /\ clears' = Observed(g)[2] /\ banner' = level' BY <1>1, <1>7, <1>f
  <2> QED BY <1>1, <1>3, <1>4, <1>5, <2>1, <2>2, <2>3, BannerSeen
<1>8. CASE ~(denom > 0)
  <2>1. Known' = Known BY <1>3, <1>6, <1>8 DEF Known
  <2> QED BY <1>1, <1>3, <1>5, <1>8, <2>1, BannerBlind
<1> QED BY <1>7, <1>8

LEMMA BannerStep == ASSUME BannerInv, Core, [Next]_vars PROVE BannerInv'
<1> USE DEF Starting
<1>1. ASSUME UNCHANGED vars PROVE BannerInv' BY <1>1, BannerFrame DEF vars, runVars
<1>2. ASSUME Sessions_ \/ Notifications PROVE BannerInv'
  BY <1>2, BannerFrame DEF Sessions_, Notifications, componentRest, runVars
<1>3. ASSUME OthersEmit PROVE BannerInv' BY <1>3, BannerFrame DEF OthersEmit
<1>4. ASSUME Loop PROVE BannerInv'
  BY <1>4, BannerFrame DEF Loop, LoopCheck, Acquire, LoopRecheck, Launch, Join, loopRest
<1>5. ASSUME TasksRun PROVE BannerInv'
  <2>1. UNCHANGED <<resourceVars, run>> BY <1>5, TaskIsAtWork DEF TasksRun, taskRest
  <2> QED BY <2>1, BannerFrame
<1>6. ASSUME init_run_state \/ InstallWatchers \/ EmitDispatched \/ LeaveSetup PROVE BannerInv'
  BY <1>6, BannerFrame DEF init_run_state, InstallWatchers, EmitDispatched, LeaveSetup, Exit
<1>7. ASSUME StartServers PROVE BannerInv'
  <2>1. /\ run = "control" /\ run' \in {"exited", "harness"} /\ UNCHANGED <<level, clears, seen, banner, hist>>
        /\ sampler' \in {"off", "on"}
    BY <1>7 DEF StartServers, StartSampler, Exit
  <2>2. sampler = "off" BY <2>1 DEF BannerInv
  <2>3. hist = <<>> /\ level = "clear" /\ banner = "clear" BY <2>2 DEF BannerInv
  <2>4. Known' = Known /\ (\A i : Frac(i)' = Frac(i)) BY <2>1 DEF Known, Frac
  <2> QED BY <2>1, <2>3, <2>4 DEF BannerInv
<1>8. ASSUME Signals PROVE BannerInv'
  <2>1. UNCHANGED resourceVars BY <1>8 DEF Signals, CtrlC, WindowExpires, Escalate, signalRest
  <2>2. run' = run \/ run' = "killed"
    <3>1. watch \in {"off", "idle", "window", "escalating", "gone"} BY DEF Core, FlatOK
    <3> QED BY <1>8, <3>1 DEF Signals, CtrlC, WindowExpires, Escalate
  <2> QED BY <2>1, <2>2, BannerFrame
<1>9. ASSUME End PROVE BannerInv' BY <1>9, BannerFrame DEF End, finalize_run, EmitFinished, ExitRun, Exit
<1>10. ASSUME Sample PROVE BannerInv'
  <2>1. PICK p, m : run_sampler(p, m) BY <1>10 DEF Sample
  <2>2. run' = run BY <1>10 DEF Sample, componentRest, runVars
  <2> QED BY <2>1, <2>2, BannerSample
<1>11. ASSUME SamplerEnds PROVE BannerInv'
  <2>1. sampler = "on" /\ sampler' = "done" /\ UNCHANGED <<level, clears, hist, run>>
    BY <1>11 DEF SamplerEnds, synthesize_shutdown_clear, componentRest, runVars
  <2>2. Known' = Known /\ (\A i : Frac(i)' = Frac(i)) BY <2>1 DEF Known, Frac
  <2>3. run' \notin Starting BY <2>1 DEF BannerInv
  <2>4. \A i : (LastKnown(i)' <=> LastKnown(i)) /\ (Quiet(i)' <=> Quiet(i)) BY <2>2 DEF LastKnown, Quiet
  <2> QED BY <2>1, <2>2, <2>3, <2>4 DEF BannerInv
<1> QED BY <1>1, <1>2, <1>3, <1>4, <1>5, <1>6, <1>7, <1>8, <1>9, <1>10, <1>11 DEF Next, Start
-----------------------------------------------------------------------------
(* The invariant and what follows. *)

LEMMA FlatInit == Init => FlatInv
<1> SUFFICES ASSUME Init PROVE FlatInv OBVIOUS
<1>1. menu \in Menus BY DEF Init
<1>2. Len(<<>>) = 0 /\ IsSeq(<<>>) BY DEF IsSeq
<1>3. /\ Len(Order) \in Nat /\ \A i \in 1..Len(Order) : Order[i] \in Tasks
      /\ menu.parallel \in Nat \ {0} /\ Tasks = DOMAIN menu.script
  BY <1>1, TasksFinite
<1>4. pc = [t \in Tasks |-> "idle"] BY <1>3 DEF Init
<1>5. FlatOK
  <2>1. pc \in [Tasks -> PCs] BY <1>4 DEF PCs, Waiting
  <2>2. cancel \in {"none", "drain", "terminate"} /\ run \in Runs_ BY DEF Init, Runs_
  <2>3. watch \in {"off", "idle", "window", "escalating", "gone"} /\ late \subseteq Tasks BY DEF Init
  <2>4. halted \in BOOLEAN BY DEF Init
  <2>5. next \in Nat \ {0} /\ permits \in Nat /\ presses \in Nat
    <3>1. next = 1 /\ permits = menu.parallel /\ presses = 0 BY DEF Init
    <3> QED BY <1>3, <3>1
  <2> QED BY <1>1, <2>1, <2>2, <2>3, <2>4, <2>5 DEF FlatOK
<1>6. Holders = {} /\ Recorded = {} BY <1>4 DEF Holders, Recorded
<1>7. Cardinality({}) = 0 /\ IsFiniteSet({}) BY FS_EmptySet
<1>8. LoopInv
  <2>1. permits + Cardinality(Holders) + LoopHolds = menu.parallel
    <3>1. permits = menu.parallel /\ Cardinality(Holders) = 0 /\ LoopHolds = 0
      BY <1>6, <1>7 DEF Init, LoopHolds
    <3> QED BY <1>3, <3>1
  <2>2. \A i \in 1..Len(Order) : pc[Order[i]] = "idle" <=> next <= i BY <1>3, <1>4 DEF Init
  <2> QED BY <2>1, <2>2 DEF Init, LoopInv
<1>9. LateInv BY DEF Init, LateInv
<1>10. RecordInv BY <1>2, <1>4, <1>6, <1>7 DEF Init, RecordInv
<1>11. EndInv BY DEF Init, EndInv
<1>12. TreeInv
  <2>1. /\ \A v, w \in trees : v.branch = w.branch => v = w
        /\ \A v \in trees, t \in Tasks : v.name # TreeName(t)
    BY <1>1, <1>3, MenusAssumption DEF Init, TreeName
  <2>2. /\ sess = [t \in Tasks |-> "none"] /\ outcome = [t \in Tasks |-> NoOutcome]
    BY <1>3 DEF Init, InitSessions
  <2>3. \A t \in Tasks : TreeTask(t) BY <1>4, <2>1, <2>2 DEF TreeTask, HasTree, Ended
  <2> QED BY <2>1, <2>2, <2>3 DEF TreeInv
<1>13. NotifyInv
  <2>1. Counting = {} BY DEF Counting, Init
  <2>2. GivenUp = {} BY DEF GivenUp, Init
  <2> QED BY <1>2, <1>7, <2>1, <2>2 DEF NotifyInv, Init
<1>14. BannerInv
  <2>1. Known = {} BY <1>2 DEF Known, Init, InitResources
  <2> QED BY <1>2, <2>1 DEF BannerInv, Init, InitResources
<1> QED BY <1>5, <1>8, <1>9, <1>10, <1>11, <1>12, <1>13, <1>14 DEF FlatInv

\* The inductive invariant of a flat run: the books of its semaphore, its
\* records, its summary, its worktrees, its emits and its memory samples
\* agree at every step of the loop, the tasks, the sessions, the Ctrl-C
\* watcher, the router and the sampler.
THEOREM FlatInvariant == Spec => []FlatInv
<1>1. FlatInv /\ [Next]_vars => FlatInv'
  <2> SUFFICES ASSUME FlatInv, [Next]_vars PROVE FlatInv' OBVIOUS
  <2>1. Core BY DEF FlatInv, Core
  <2>2. Core' BY <2>1, CoreStep
  <2>3. RecordInv' BY <2>1, RecordStep DEF FlatInv
  <2>4. EndInv' BY <2>1, EndStep DEF FlatInv
  <2>5. TreeInv' BY <2>1, TreeStep DEF FlatInv
  <2>6. NotifyInv' BY <2>1, NotifyInvStep DEF FlatInv
  <2>7. BannerInv' BY <2>1, BannerStep DEF FlatInv
  <2> QED BY <2>2, <2>3, <2>4, <2>5, <2>6, <2>7 DEF FlatInv, Core
<1> QED BY <1>1, FlatInit, PTL DEF Spec

\* The loop of runner.rs stops at a drain: at most the one task past its last
\* look at the token still starts, and with max_parallel_tasks = 1 and no
\* Ctrl-C halt_on_failure lets none start, whatever the number of tasks.
THEOREM FlatRunHalts == Spec => []HaltHolds
<1>1. FlatInv => HaltHolds
  <2> SUFFICES ASSUME FlatInv PROVE HaltHolds OBVIOUS
  <2>1. late = {} \/ \E t \in Tasks : late = {t} BY DEF FlatInv, LateInv
  <2>2. Cardinality(late) = 0 \/ Cardinality(late) = 1 BY <2>1, FS_EmptySet, FS_Singleton
  <2> QED BY <2>2 DEF FlatInv, LateInv, HaltHolds
<1> QED BY <1>1, FlatInvariant, PTL

LEMMA SummaryFollows == FlatInv => SummaryIsTrue
<1> SUFFICES ASSUME FlatInv PROVE SummaryIsTrue OBVIOUS
<1> USE DEF FlatInv
<1>1. ASSUME summary # <<>>
      PROVE  /\ {summary[1].tasks[i].task : i \in 1..Len(summary[1].tasks)} = Started
             /\ Len(summary[1].tasks) = Cardinality(Started)
             /\ summary[1].was_interrupted => presses > 0
             /\ rc = 0 /\ ~summary[1].was_interrupted =>
                  /\ Started = Range_(Order)
                  /\ \A i \in 1..Len(summary[1].tasks) : summary[1].tasks[i].status = "Success"
  <2>1. /\ \A t \in Tasks : pc[t] \in {"idle", "done"}
        /\ summary[1].tasks = records
        /\ summary[1].was_interrupted => presses > 0
        /\ ~summary[1].was_interrupted => next > Len(Order) \/ Failure(records)
        /\ rc = 0 => ~Failure(records)
    BY <1>1 DEF EndInv
  <2>2. Started = Recorded BY <2>1 DEF Started, Recorded
  <2>3. {records[i].task : i \in 1..Len(records)} = Recorded /\ Len(records) = Cardinality(Recorded)
    BY DEF RecordInv
  <2>4. ASSUME next > Len(Order) PROVE Started = Range_(Order)
    <3>1. /\ Len(Order) \in Nat /\ next \in Nat /\ \A i \in 1..Len(Order) : Order[i] \in Tasks
          /\ \A t \in Tasks : \E i \in 1..Len(Order) : Order[i] = t
      BY TasksFinite DEF FlatOK
    <3>2. \A i \in 1..Len(Order) : pc[Order[i]] # "idle"
      <4>1. \A i \in 1..Len(Order) : ~(next <= i) BY <2>4, <3>1
      <4> QED BY <4>1 DEF LoopInv
    <3>3. Started = Tasks BY <3>1, <3>2 DEF Started
    <3> QED BY <3>1, <3>3 DEF Range_
  <2>5. ~Failure(records) => \A i \in 1..Len(records) : records[i].status = "Success" BY DEF Failure
  <2> QED BY <2>1, <2>2, <2>3, <2>4, <2>5
<1>2. \A v, w \in trees : v.branch = w.branch => v = w BY DEF TreeInv
<1>3. \A t \in Tasks : pc[t] = "done" /\ sess[t] = "ended" /\ menu.worktree[t] =>
        ((\E w \in trees : w.name = TreeName(t) /\ ~w.stale) <=> ~Removes(menu.cleanup, TaskStatus(t) = "Success"))
  BY DEF TreeInv, TreeTask, HasTree, Ended
<1> QED BY <1>1, <1>2, <1>3 DEF SummaryIsTrue

\* What a flat run leaves and tells is true for every manifest, child and
\* schedule: summary.json has one record per task that was started, says
\* interrupted only after a Ctrl-C, and exit code 0 means that every task ran
\* and succeeded; worktrees are kept and removed by the policy, apart from
\* those whose removal failed; every emit is under way, delivered or given up
\* and the failure counter has each one given up once, whether its line could
\* be written or not; the
\* memory banner comes down only after two quiet samples in a row.
THEOREM FlatRunTellsTheTruth == Spec => []FlatRunIsTrue
<1>1. FlatInv => EmitsAreAccounted
  <2> SUFFICES ASSUME FlatInv PROVE EmitsAreAccounted OBVIOUS
  <2> QED BY DEF FlatInv, NotifyInv, EmitsAreAccounted, Counting
<1>2. FlatInv => BannerIsHonest
  <2> SUFFICES ASSUME FlatInv, sampler = "on", banner = "clear" PROVE BannerIsHonest BY DEF BannerIsHonest
  <2>1. level = "clear" BY DEF FlatInv, BannerInv
  <2> QED BY <2>1 DEF FlatInv, BannerInv, BannerIsHonest
<1>3. FlatInv => FlatRunIsTrue BY <1>1, <1>2, SummaryFollows DEF FlatRunIsTrue
<1> QED BY <1>3, FlatInvariant, PTL
=============================================================================
