-------------------------- MODULE ApprovalsProofs --------------------------
(***************************************************************************)
(* Proofs about Approvals for any number of requests, consoles and rules:  *)
(* no caller loses its responder, what is told was decided, what is asked  *)
(* is shown, and the slot of the attached console is not taken away.       *)
(***************************************************************************)
EXTENDS Approvals, SequenceTheorems, WellFoundedInduction, TLAPS

(* Sequences *)

\* The least-number principle, by which a counterexample to an induction is refuted.
LEMMA LeastNumber ==
    ASSUME NEW T \in SUBSET Nat, T # {}
    PROVE  \E x \in T : \A y \in T : x <= y
<1>1. \E x \in T : \A y \in T : ~ (<<y, x>> \in OpToRel(<, Nat))
  BY NatLessThanWellFounded, WFMin
<1>2. PICK x \in T : \A y \in T : ~ (<<y, x>> \in OpToRel(<, Nat)) BY <1>1
<1>3. \A y \in T : ~ (y < x) BY <1>2 DEF OpToRel
<1> QED BY <1>3

\* What Append does to the elements.
LEMMA AppendElements ==
    ASSUME NEW S, NEW s \in Seq(S), NEW e \in S
    PROVE  /\ Append(s, e) \in Seq(S) /\ Len(Append(s, e)) = Len(s) + 1
           /\ ToSet(Append(s, e)) = ToSet(s) \cup {e}
           /\ IsInjective(s) /\ e \notin ToSet(s) => IsInjective(Append(s, e))
<1>1. /\ Append(s, e) \in Seq(S) /\ Len(Append(s, e)) = Len(s) + 1
      /\ \A i \in 1..Len(s) : Append(s, e)[i] = s[i]
      /\ Append(s, e)[Len(s) + 1] = e
  BY AppendProperties
<1>2. Len(s) \in Nat /\ DOMAIN s = 1..Len(s) BY LenProperties
<1>3. DOMAIN Append(s, e) = 1..(Len(s) + 1) BY <1>1, LenProperties
<1>4. ToSet(Append(s, e)) = ToSet(s) \cup {e} BY <1>1, <1>2, <1>3 DEF ToSet
<1>5. IsInjective(s) /\ e \notin ToSet(s) => IsInjective(Append(s, e))
  BY <1>1, <1>2, <1>3 DEF ToSet, IsInjective
<1> QED BY <1>1, <1>4, <1>5

\* Head and Tail split the elements.
LEMMA TailElements ==
    ASSUME NEW S, NEW s \in Seq(S), s # <<>>
    PROVE  /\ Head(s) \in S /\ Tail(s) \in Seq(S)
           /\ ToSet(s) = ToSet(Tail(s)) \cup {Head(s)}
           /\ IsInjective(s) => IsInjective(Tail(s)) /\ Head(s) \notin ToSet(Tail(s))
<1>1. /\ Head(s) \in S /\ Tail(s) \in Seq(S) /\ Len(Tail(s)) = Len(s) - 1
      /\ \A i \in 1..Len(Tail(s)) : Tail(s)[i] = s[i + 1]
  BY HeadTailProperties
<1>2. Len(s) \in Nat \ {0} /\ DOMAIN s = 1..Len(s) BY LenProperties, EmptySeq
<1>3. DOMAIN Tail(s) = 1..(Len(s) - 1) BY <1>1, LenProperties
<1>4. Head(s) = s[1] BY <1>2
<1>5. \A i \in 1..(Len(s) - 1) : Tail(s)[i] = s[i + 1] BY <1>1
<1>6. ToSet(s) = ToSet(Tail(s)) \cup {Head(s)}
  <2>1. ASSUME NEW x \in ToSet(s) PROVE x \in ToSet(Tail(s)) \cup {Head(s)}
    <3>1. PICK i \in 1..Len(s) : s[i] = x BY <2>1, <1>2 DEF ToSet
    <3>2. CASE i = 1 BY <3>1, <3>2, <1>4
    <3>3. CASE i # 1
      <4>1. i - 1 \in 1..(Len(s) - 1) /\ Tail(s)[i - 1] = x BY <3>1, <3>3, <1>2, <1>5
      <4> QED BY <4>1, <1>3 DEF ToSet
    <3> QED BY <3>2, <3>3
  <2>2. Head(s) \in ToSet(s) BY <1>2, <1>4 DEF ToSet
  <2>3. ASSUME NEW x \in ToSet(Tail(s)) PROVE x \in ToSet(s)
    <3>1. PICK i \in 1..(Len(s) - 1) : Tail(s)[i] = x BY <2>3, <1>3 DEF ToSet
    <3>2. i + 1 \in 1..Len(s) /\ s[i + 1] = x BY <3>1, <1>2, <1>5
    <3> QED BY <3>2, <1>2 DEF ToSet
  <2> QED BY <2>1, <2>2, <2>3
<1>7. ASSUME IsInjective(s) PROVE IsInjective(Tail(s)) /\ Head(s) \notin ToSet(Tail(s))
  BY <1>2, <1>3, <1>4, <1>5, <1>7 DEF ToSet, IsInjective
<1> QED BY <1>1, <1>6, <1>7

\* The body of the recursive function in Without.
KeepStep(q, gone, k, n) ==
    IF n = 0 THEN <<>> ELSE IF q[n] \in gone THEN k[n - 1] ELSE Append(k[n - 1], q[n])

\* There is such a function, so Without is what its recursion says.
LEMMA KeepExists ==
    ASSUME NEW S, NEW q \in Seq(S), NEW E
    PROVE  \E k : k = [n \in 0..Len(q) |-> KeepStep(q, E, k, n)]
<1> DEFINE Good(m) == \E k : k = [n \in 0..m |-> KeepStep(q, E, k, n)]
           T == {m \in Nat : m <= Len(q) /\ ~ Good(m)}
<1>0. Len(q) \in Nat BY LenProperties
<1>1. Good(0)
  <2> DEFINE k == [n \in 0..0 |-> <<>>]
  <2>1. k = [n \in 0..0 |-> KeepStep(q, E, k, n)] BY DEF KeepStep
  <2> QED BY <2>1
<1>2. ASSUME NEW m \in Nat, m + 1 <= Len(q), Good(m) PROVE Good(m + 1)
  <2>1. PICK k : k = [n \in 0..m |-> KeepStep(q, E, k, n)] BY <1>2
  <2> DEFINE j == [n \in 0..(m + 1) |-> IF n <= m THEN k[n] ELSE KeepStep(q, E, k, m + 1)]
  <2>2. \A n \in 0..m : j[n] = k[n] OBVIOUS
  <2>3. \A n \in 0..m : k[n] = KeepStep(q, E, k, n) BY <2>1
  <2>4. \A n \in 0..m : KeepStep(q, E, k, n) = KeepStep(q, E, j, n) BY <2>2 DEF KeepStep
  <2>5. KeepStep(q, E, k, m + 1) = KeepStep(q, E, j, m + 1) BY <2>2 DEF KeepStep
  <2>6. \A n \in 0..(m + 1) : j[n] = KeepStep(q, E, j, n) BY <2>2, <2>3, <2>4, <2>5
  <2>7. j = [n \in 0..(m + 1) |-> KeepStep(q, E, j, n)] BY <2>6
  <2> QED BY <2>7
<1> HIDE DEF Good
<1>3. T = {}
  <2> SUFFICES ASSUME T # {} PROVE FALSE OBVIOUS
  <2>1. PICK x \in T : \A y \in T : x <= y BY LeastNumber
  <2>2. x # 0 BY <1>1
  <2>3. x - 1 \in Nat /\ x - 1 <= Len(q) /\ x - 1 \notin T BY <1>0, <2>1, <2>2
  <2>4. Good(x - 1) BY <2>3
  <2>5. Good((x - 1) + 1) BY <1>0, <1>2, <2>3, <2>4
  <2> QED BY <2>1, <2>5
<1>4. Good(Len(q)) BY <1>0, <1>3
<1> QED BY <1>4 DEF Good

\* Without keeps exactly the elements that are not gone, and keeps them apart.
LEMMA WithoutElements ==
    ASSUME NEW S, NEW q \in Seq(S), NEW E, IsInjective(q)
    PROVE  /\ Without(q, E) \in Seq(S) /\ IsInjective(Without(q, E))
           /\ ToSet(Without(q, E)) = ToSet(q) \ E
<1> DEFINE k == CHOOSE k : k = [n \in 0..Len(q) |-> KeepStep(q, E, k, n)]
<1>1. k = [n \in 0..Len(q) |-> KeepStep(q, E, k, n)] BY KeepExists
<1>2. Without(q, E) = k[Len(q)] BY DEF Without, KeepStep
<1> HIDE DEF k
<1> DEFINE Good(m) == /\ k[m] \in Seq(S) /\ IsInjective(k[m])
                      /\ ToSet(k[m]) = {q[i] : i \in 1..m} \ E
           T == {m \in Nat : m <= Len(q) /\ ~ Good(m)}
<1>3. Len(q) \in Nat /\ DOMAIN q = 1..Len(q) BY LenProperties
<1>4. \A n \in 0..Len(q) : k[n] = KeepStep(q, E, k, n) BY <1>1
<1>5. Good(0)
  <2>1. k[0] = <<>> BY <1>3, <1>4 DEF KeepStep
  <2>2. DOMAIN <<>> = {} OBVIOUS
  <2>3. ToSet(<<>>) = {} /\ IsInjective(<<>>) BY <2>2, Zenon DEF ToSet, IsInjective
  <2>4. 1..0 = {} OBVIOUS
  <2> QED BY <2>1, <2>3, <2>4, EmptySeq
<1>6. ASSUME NEW m \in Nat, m + 1 <= Len(q), Good(m) PROVE Good(m + 1)
  <2>1. k[m + 1] = IF q[m + 1] \in E THEN k[m] ELSE Append(k[m], q[m + 1])
    BY <1>3, <1>4, <1>6 DEF KeepStep
  <2>2. m + 1 \in 1..Len(q) /\ q[m + 1] \in S BY <1>3, <1>6, ElementOfSeq
  <2>3. {q[i] : i \in 1..(m + 1)} = {q[i] : i \in 1..m} \cup {q[m + 1]} OBVIOUS
  <2>4. CASE q[m + 1] \in E BY <1>6, <2>1, <2>3, <2>4
  <2>5. CASE q[m + 1] \notin E
    <3>1. k[m + 1] = Append(k[m], q[m + 1]) BY <2>1, <2>5
    <3>2. q[m + 1] \notin {q[i] : i \in 1..m} BY <1>3, <2>2 DEF IsInjective
    <3>3. q[m + 1] \notin ToSet(k[m]) BY <1>6, <3>2
    <3>4. /\ k[m + 1] \in Seq(S) /\ IsInjective(k[m + 1])
          /\ ToSet(k[m + 1]) = ToSet(k[m]) \cup {q[m + 1]}
      BY <1>6, <2>2, <3>1, <3>3, AppendElements
    <3> QED BY <1>6, <2>3, <2>5, <3>4
  <2> QED BY <2>4, <2>5
<1> HIDE DEF Good
<1>7. T = {}
  <2> SUFFICES ASSUME T # {} PROVE FALSE OBVIOUS
  <2>1. PICK x \in T : \A y \in T : x <= y BY LeastNumber
  <2>2. x # 0 BY <1>5
  <2>3. x - 1 \in Nat /\ x - 1 <= Len(q) /\ x - 1 \notin T BY <1>3, <2>1, <2>2
  <2>4. Good(x - 1) BY <2>3
  <2>5. Good((x - 1) + 1) BY <1>3, <1>6, <2>3, <2>4
  <2> QED BY <2>1, <2>5
<1>8. Good(Len(q)) BY <1>3, <1>7
<1>9. {q[i] : i \in 1..Len(q)} = ToSet(q) BY <1>3 DEF ToSet
<1> QED BY <1>2, <1>8, <1>9 DEF Good

-----------------------------------------------------------------------------
(* The inductive invariant *)

InStore(r) == r \in ToSet(queue) \/ r \in bridge
NoTally(r) == \A c \in Conns : tally[c] # r

\* Nobody has decided r yet.
Fresh(r) == counted[r] = <<>> /\ NoTally(r) /\ r \notin yes /\ box[r] = "none"

\* Where the responder of r is, by the position of its caller.  An entry that
\* Drain moved while its caller was timing out may stay in the bridge, and one
\* the watcher took out may find its caller gone.
Held(r) ==
    /\ r \in watcher.hand =>
          /\ ~ InStore(r) /\ via[r] # "none" /\ pc[r] \in {"send", "await", "evict", "done"}
          /\ pc[r] = "done" => told[r] \in {"timeout", "full"}
          /\ told[r] # "full" => Fresh(r)
    /\ r \in ToSet(queue) => pc[r] \in {"await", "evict"} /\ via[r] = "queue"
    /\ r \in bridge => \/ pc[r] \in {"send", "await", "evict"}
                       \/ pc[r] = "done" /\ told[r] = "timeout"
    /\ InStore(r) \/ pc[r] \in {"idle", "route", "push"} => Fresh(r)
    /\ pc[r] \in {"send", "await"} /\ box[r] = "none" => InStore(r) \/ r \in watcher.hand
    /\ pc[r] = "send" => wlock = r /\ via[r] = "bridge"
    /\ pc[r] = "push" => via[r] = "queue"
    /\ pc[r] \in {"idle", "route"} => via[r] = "none"
    /\ via[r] = "none" => /\ pc[r] \in {"idle", "route", "done"}
                          /\ box[r] = "none" /\ told[r] # "timeout"

\* One decision per request, and what was told is that decision.
Decided(r) ==
    /\ told[r] # "none" <=> pc[r] = "done"
    /\ \A c, d \in Conns : tally[c] = r /\ tally[d] = r => c = d
    /\ box[r] = "approved" => r \in yes
    /\ box[r] \in {"ttl", "rejected"} => r \notin yes
    /\ told[r] # "full" =>
          /\ Len(counted[r]) <= 1
          /\ counted[r] # <<>> => NoTally(r)
          /\ r \in yes => "rejected" \notin ToSet(counted[r])
          /\ r \notin yes /\ via[r] # "none" => "approved" \notin ToSet(counted[r])
    /\ told[r] \in {"approved", "rejected", "ttl"} =>
          told[r] = box[r] \/ (via[r] = "none" /\ counted[r] = <<told[r]>>)

\* last_approval_response agrees with what the tool returned.
Latest(r) ==
    /\ pc[r] # "done" => last[r] \in {"none", "ttl"} /\ ended[r] = "none"
    /\ pc[r] = "done" => /\ last[r] = "rejected" => told[r] \in {"rejected", "full"}
                         /\ last[r] = "ttl" => told[r] \in {"ttl", "timeout", "full"}

HeldInv == \A r \in Requests : Held(r)
DecidedInv == \A r \in Requests : Decided(r)
LastInv == \A r \in Requests : Latest(r)

PlanInv == \A l \in Layers : planOk[l] =>
    \E r \in Requests : LayerOf[r] = l /\ Kind[r] = "plan" /\ told[r] = "approved"

\* The console that has the slot shows, or will replay, every request that
\* waits in the bridge.
Waits(r, c) ==
    /\ slot = c /\ conn[c] \in {"replay", "live"} /\ open[c]
    /\ pc[r] = "await" /\ box[r] = "none" /\ via[r] = "bridge" /\ r \notin watcher.hand
OnScreen(r, c) == r \in todo[c] \/ r \in seen[c] \/ r \in ToSet(chan[c])

WriterInv == wlock # None => pc[wlock] = "send" /\ slot # None
ReplayInv == \A c \in Conns : conn[c] = "live" => todo[c] = {}
ShownInv == \A r \in Requests, c \in Conns : Waits(r, c) => OnScreen(r, c)

ApprovalInv ==
    /\ TypeOK /\ HeldInv /\ DecidedInv /\ LastInv /\ PlanInv /\ ExitIsTold
    /\ WriterInv /\ ReplayInv /\ ShownInv

\* What the steps that touch the queue do to its elements.
LEMMA QueueSteps ==
    ASSUME TypeOK, HeldInv
    PROVE  /\ \A r \in Requests : Push(r) =>
                 /\ queue' \in Seq(Requests) /\ IsInjective(queue')
                 /\ r \notin ToSet(queue) /\ ToSet(queue') = ToSet(queue) \cup {r}
           /\ \A r \in Requests : Evict(r) =>
                 /\ queue' \in Seq(Requests) /\ IsInjective(queue')
                 /\ ToSet(queue') = ToSet(queue) \ {r}
           /\ \A c \in Conns : Drain(c) =>
                 /\ queue' \in Seq(Requests) /\ IsInjective(queue')
                 /\ Head(queue) \in Requests /\ Head(queue) \notin ToSet(queue')
                 /\ ToSet(queue) = ToSet(queue') \cup {Head(queue)}
           /\ ScanQueue =>
                 /\ queue' \in Seq(Requests) /\ IsInjective(queue')
                 /\ ToSet(queue') = ToSet(queue) \ aged
<1> USE DEF TypeOK
<1>1. ASSUME NEW r \in Requests, Push(r)
      PROVE  /\ queue' \in Seq(Requests) /\ IsInjective(queue')
             /\ r \notin ToSet(queue) /\ ToSet(queue') = ToSet(queue) \cup {r}
  <2>1. r \notin ToSet(queue) BY <1>1 DEF Push, HeldInv, Held, InStore, Fresh
  <2> QED BY <1>1, <2>1, AppendElements DEF Push
<1>2. ASSUME NEW r \in Requests, Evict(r)
      PROVE  /\ queue' \in Seq(Requests) /\ IsInjective(queue')
             /\ ToSet(queue') = ToSet(queue) \ {r}
  <2>1. queue' = Without(queue, {r}) BY <1>2 DEF Evict
  <2> QED BY <2>1, WithoutElements
<1>3. ASSUME NEW c \in Conns, Drain(c)
      PROVE  /\ queue' \in Seq(Requests) /\ IsInjective(queue')
             /\ Head(queue) \in Requests /\ Head(queue) \notin ToSet(queue')
             /\ ToSet(queue) = ToSet(queue') \cup {Head(queue)}
  <2>1. queue' = Tail(queue) /\ queue # <<>> BY <1>3 DEF Drain
  <2> QED BY <2>1, TailElements
<1>4. ASSUME ScanQueue
      PROVE  /\ queue' \in Seq(Requests) /\ IsInjective(queue')
             /\ ToSet(queue') = ToSet(queue) \ aged
  <2>1. queue' = Without(queue, ToSet(queue) \cap aged) BY <1>4 DEF ScanQueue
  <2>2. ToSet(queue') = ToSet(queue) \ (ToSet(queue) \cap aged) BY <2>1, WithoutElements
  <2> QED BY <2>1, <2>2, WithoutElements
<1> QED BY <1>1, <1>2, <1>3, <1>4

\* Every step keeps the types.
LEMMA TypeStep == TypeOK /\ HeldInv /\ [Next]_vars => TypeOK'
<1> SUFFICES ASSUME TypeOK /\ HeldInv, [Next]_vars PROVE TypeOK'
  OBVIOUS
<1> menu' = menu BY DEF Next, vars
<1> USE ApprovalAssumption DEF TypeOK, Steps, Phases, Decisions
<1>1. ASSUME NEW r \in Requests, DecideAtOnce(r) PROVE TypeOK'
  <2>1. Append(counted[r], Outcome(Verdict(r))) \in Seq({"approved", "rejected"})
    BY DEF Outcome
  <2>2. counted' \in [Requests -> Seq({"approved", "rejected"})] BY <1>1, <2>1 DEF DecideAtOnce
  <2> QED BY <1>1, <2>2 DEF DecideAtOnce, connVars, storeVars, Finish, Outcome
<1>2. ASSUME NEW r \in Requests, Ask(r) PROVE TypeOK' BY <1>2 DEF Ask, connVars, storeVars
<1>3. ASSUME NEW r \in Requests, Route(r) PROVE TypeOK'
  <2>1. r \notin ToSet(queue) BY <1>3 DEF Route, HeldInv, Held
  <2>2. CASE slot = None
    <3>1. /\ pc' = [pc EXCEPT ![r] = "push"] /\ via' = [via EXCEPT ![r] = "queue"]
          /\ UNCHANGED <<bridge, wlock>>
      BY <1>3, <2>2 DEF Route
    <3> QED BY <1>3, <3>1 DEF Route, connVars
  <2>3. CASE slot # None
    <3>1. /\ bridge' = bridge \cup {r} /\ wlock' = r
          /\ pc' = [pc EXCEPT ![r] = "send"] /\ via' = [via EXCEPT ![r] = "bridge"]
      BY <1>3, <2>3 DEF Route
    <3>2. ToSet(queue) \cap bridge' = {} /\ bridge' \subseteq Requests BY <2>1, <3>1
    <3> QED BY <1>3, <3>1, <3>2 DEF Route, connVars
  <2> QED BY <2>2, <2>3
<1>4. ASSUME NEW r \in Requests, Send(r) PROVE TypeOK'
  <2>1. ASSUME open[slot], ~ Full(slot), chan' = [chan EXCEPT ![slot] = Append(@, r)],
               pc' = [pc EXCEPT ![r] = "await"], UNCHANGED <<bridge, told, last, planOk, counted>>
        PROVE  TypeOK'
    <3>1. CASE slot \in Conns
      <4>1. Append(chan[slot], r) \in Seq(Requests) /\ Len(Append(chan[slot], r)) <= Cap
        BY <2>1, <3>1, AppendElements DEF Full
      <4>2. chan' \in [Conns -> Seq(Requests)] BY <2>1, <3>1, <4>1
      <4>3. \A c \in Conns : Len(chan'[c]) <= Cap BY <2>1, <3>1, <4>1
      <4> QED BY <1>4, <2>1, <4>2, <4>3 DEF Send
    <3>2. CASE slot \notin Conns
      <4>1. chan' = chan BY <2>1, <3>2
      <4>2. /\ wlock' = None /\ pc' = [pc EXCEPT ![r] = "await"]
            /\ UNCHANGED <<bridge, told, last, planOk, counted>>
            /\ UNCHANGED <<box, via, rules, yes, aged, queue, qlock, slot, conn, open, flood,
                           todo, seen, tally, watcher, ended>>
        BY <1>4, <2>1 DEF Send
      <4> QED BY <4>1, <4>2
    <3> QED BY <3>1, <3>2
  <2>2. ASSUME bridge' = bridge \ {r},
               pc' = [pc EXCEPT ![r] = "done"], told' = [told EXCEPT ![r] = "full"],
               last' = [last EXCEPT ![r] = "rejected"],
               counted' = [counted EXCEPT ![r] = Append(@, "rejected")],
               UNCHANGED <<chan, planOk>>
        PROVE  TypeOK'
    <3>1. Append(counted[r], "rejected") \in Seq({"approved", "rejected"}) OBVIOUS
    <3>2. counted' \in [Requests -> Seq({"approved", "rejected"})] BY <2>2, <3>1
    <3> QED BY <1>4, <2>2, <3>2 DEF Send
  <2> QED BY <1>4, <2>1, <2>2 DEF Send
<1>5. ASSUME NEW r \in Requests, Push(r) PROVE TypeOK'
  <2>1. queue' \in Seq(Requests) /\ IsInjective(queue') /\ ToSet(queue') = ToSet(queue) \cup {r}
    BY <1>5, QueueSteps
  <2>2. r \notin bridge BY <1>5 DEF Push, HeldInv, Held, InStore, Fresh
  <2> QED BY <1>5, <2>1, <2>2 DEF Push, connVars
<1>6. ASSUME NEW r \in Requests, Answer(r) PROVE TypeOK'
  BY <1>6 DEF Answer, connVars, storeVars, Finish
<1>7. ASSUME NEW r \in Requests, Evict(r) PROVE TypeOK'
  <2>1. queue' \in Seq(Requests) /\ IsInjective(queue') /\ ToSet(queue') = ToSet(queue) \ {r}
    BY <1>7, QueueSteps
  <2>2. pc' = [pc EXCEPT ![r] = "done"] /\ told' = [told EXCEPT ![r] = "timeout"]
    BY <1>7 DEF Evict
  <2>3. UNCHANGED <<box, via, rules, planOk, last, counted, yes, aged, qlock, bridge, slot,
                    wlock, connVars, watcher, ended>>
    BY <1>7 DEF Evict
  <2> QED BY <2>1, <2>2, <2>3 DEF connVars
<1>8. ASSUME NEW r \in Requests, Timeout(r) PROVE TypeOK' BY <1>8 DEF Timeout, connVars
<1>9. ASSUME NEW r \in Requests, Age(r) PROVE TypeOK' BY <1>9 DEF Age, connVars, storeVars
<1>10. ASSUME NEW r \in Requests, NEW soon \in BOOLEAN, Exit(r, soon) PROVE TypeOK'
  BY <1>10 DEF Exit, connVars, storeVars, Termination
<1>11. ASSUME NEW c \in Conns, Connect(c) PROVE TypeOK' BY <1>11 DEF Connect, callerVars
<1>12. ASSUME NEW c \in Conns, LockQueue(c) PROVE TypeOK' BY <1>12 DEF LockQueue, callerVars
<1>13. ASSUME NEW c \in Conns, Drain(c) PROVE TypeOK'
  <2>1. /\ queue' \in Seq(Requests) /\ IsInjective(queue') /\ Head(queue) \in Requests
        /\ Head(queue) \notin ToSet(queue') /\ ToSet(queue) = ToSet(queue') \cup {Head(queue)}
    BY <1>13, QueueSteps
  <2>2. ToSet(queue') \cap bridge' = {} BY <1>13, <2>1 DEF Drain
  <2>3. /\ Append(chan[c], Head(queue)) \in Seq(Requests)
        /\ Len(Append(chan[c], Head(queue))) <= Cap
    BY <1>13, <2>1, AppendElements DEF Drain, Full
  <2> QED BY <1>13, <2>1, <2>2, <2>3 DEF Drain, callerVars, Full
<1>14. ASSUME NEW c \in Conns, Snapshot(c) PROVE TypeOK'
  BY <1>14 DEF Snapshot, callerVars, Listening
<1>15. ASSUME NEW c \in Conns, Replay(c) PROVE TypeOK'
  <2>1. ASSUME NEW r \in todo[c], ~ Full(c), chan' = [chan EXCEPT ![c] = Append(@, r)],
               todo' = [todo EXCEPT ![c] = @ \ {r}], UNCHANGED conn
        PROVE  TypeOK'
    <3>1. Append(chan[c], r) \in Seq(Requests) /\ Len(Append(chan[c], r)) <= Cap
      BY <1>15, <2>1, AppendElements DEF Full
    <3> QED BY <1>15, <2>1, <3>1 DEF Replay, callerVars, storeVars
  <2>2. ASSUME conn' = [conn EXCEPT ![c] = "live"], UNCHANGED <<chan, todo>>
        PROVE  TypeOK'
    BY <1>15, <2>2 DEF Replay, callerVars, storeVars
  <2> QED BY <1>15, <2>1, <2>2 DEF Replay
<1>16. ASSUME NEW c \in Conns, Pump(c) PROVE TypeOK'
  <2>1. ToSet(chan[c]) \subseteq Requests BY LenProperties DEF ToSet
  <2> QED BY <1>16, <2>1 DEF Pump, callerVars, storeVars
<1>17. ASSUME NEW c \in Conns, CloseConn(c) PROVE TypeOK' BY <1>17 DEF CloseConn, callerVars
<1>18. ASSUME NEW c \in Conns, Tally(c) PROVE TypeOK' BY <1>18 DEF Tally, storeVars
<1>19. ASSUME NEW c \in Conns, Flood(c) PROVE TypeOK'
  BY <1>19 DEF Flood, callerVars, storeVars
<1>20. ASSUME NEW c \in Conns, PumpFails(c) PROVE TypeOK'
  BY <1>20 DEF PumpFails, callerVars, storeVars
<1>21. ASSUME NEW c \in Conns, HangUp(c) PROVE TypeOK'
  BY <1>21 DEF HangUp, callerVars, storeVars
<1>22. ASSUME NEW c \in Conns, NEW r \in Requests, NEW d \in {"approved", "rejected"}, Approve(c, r, d) PROVE TypeOK'
  BY <1>22 DEF Approve, Deliver, Listening
<1>23. CASE UpdatePolicy BY <1>23 DEF UpdatePolicy, connVars, storeVars
<1>24. CASE ScanQueue
  <2>1. queue' \in Seq(Requests) /\ IsInjective(queue') /\ ToSet(queue') = ToSet(queue) \ aged
    BY <1>24, QueueSteps
  <2>2. UNCHANGED <<callerVars, qlock, bridge, slot, wlock, connVars>> BY <1>24 DEF ScanQueue
  <2>3. watcher' = [at |-> "list", todo |-> aged, hand |-> ToSet(queue) \cap aged]
    BY <1>24 DEF ScanQueue
  <2> QED BY <2>1, <2>2, <2>3 DEF connVars, callerVars
<1>25. CASE ScanBridge
  <2>1. UNCHANGED <<callerVars, queue, qlock, slot, wlock, connVars>> BY <1>25 DEF ScanBridge
  <2>2. ASSUME NEW r \in watcher.todo, bridge' = bridge \ {r},
               watcher' = [watcher EXCEPT !.todo = @ \ {r}, !.hand = {r} \cap bridge]
        PROVE  TypeOK'
    <3>1. /\ watcher.at = "bridge" /\ watcher'.at = "bridge"
          /\ watcher' \in [at : {"queue", "list", "bridge", "stopped"},
                           todo : SUBSET Requests, hand : SUBSET Requests]
      BY <1>25, <2>2 DEF ScanBridge
    <3> QED BY <2>1, <2>2, <3>1 DEF connVars, callerVars
  <2>3. ASSUME watcher' = [watcher EXCEPT !.at = "queue"], UNCHANGED bridge
        PROVE  TypeOK'
    <3>1. /\ watcher'.hand = {}
          /\ watcher' \in [at : {"queue", "list", "bridge", "stopped"},
                           todo : SUBSET Requests, hand : SUBSET Requests]
      BY <1>25, <2>3 DEF ScanBridge
    <3> QED BY <2>1, <2>3, <3>1 DEF connVars, callerVars
  <2> QED BY <1>25, <2>2, <2>3 DEF ScanBridge
<1>28. CASE ListBridge
  <2>1. /\ watcher'.hand = {}
        /\ watcher' \in [at : {"queue", "list", "bridge", "stopped"},
                         todo : SUBSET Requests, hand : SUBSET Requests]
    BY <1>28 DEF ListBridge
  <2> QED BY <1>28, <2>1 DEF ListBridge, callerVars, storeVars, connVars
<1>29. ASSUME NEW r \in Requests, Expire(r) PROVE TypeOK'
  <2>1. Append(counted[r], "rejected") \in Seq({"approved", "rejected"}) OBVIOUS
  <2>2. /\ box' \in [Requests -> Decisions \cup {"none"}]
        /\ last' \in [Requests -> Decisions \cup {"none"}]
        /\ counted' \in [Requests -> Seq({"approved", "rejected"})]
    BY <1>29, <2>1 DEF Expire, Deliver
  <2>3. /\ watcher'.at \in {"queue", "stopped"} => watcher'.hand = {}
        /\ watcher' \in [at : {"queue", "list", "bridge", "stopped"},
                         todo : SUBSET Requests, hand : SUBSET Requests]
    BY <1>29 DEF Expire
  <2>4. UNCHANGED <<pc, told, via, rules, planOk, yes, aged, storeVars, connVars, ended>>
    BY <1>29 DEF Expire
  <2> QED BY <2>2, <2>3, <2>4 DEF connVars, storeVars
<1>26. CASE StopWatcher BY <1>26 DEF StopWatcher, callerVars, connVars, storeVars
<1>27. CASE UNCHANGED vars BY <1>27 DEF vars
<1> HIDE DEF TypeOK, Steps, Phases, Decisions
<1> QED BY <1>1, <1>2, <1>3, <1>4, <1>5, <1>6, <1>7, <1>8, <1>9, <1>10, <1>11,
    <1>12, <1>13, <1>14, <1>15, <1>16, <1>17, <1>18, <1>19, <1>20, <1>21, <1>22,
    <1>23, <1>24, <1>25, <1>26, <1>27, <1>28, <1>29 DEF Next, CallerStep,
    ConnStep, WatcherStep

\* A step that leaves alone what Held(q) speaks of keeps it.
LEMMA HeldFrame ==
    ASSUME NEW q \in Requests, Held(q), NoTally(q) => NoTally(q)',
           pc'[q] = pc[q], told'[q] = told[q], box'[q] = box[q], via'[q] = via[q],
           counted'[q] = counted[q], q \in yes' <=> q \in yes,
           q \in ToSet(queue') <=> q \in ToSet(queue), q \in bridge' <=> q \in bridge,
           q \in watcher'.hand <=> q \in watcher.hand, pc[q] = "send" => wlock' = wlock
    PROVE  Held(q)'
BY DEF Held, InStore, Fresh

\* Every step keeps the responder where its caller's position says.
LEMMA HeldStep == ApprovalInv /\ [Next]_vars => HeldInv'
<1> SUFFICES ASSUME ApprovalInv, [Next]_vars PROVE HeldInv'
  OBVIOUS
<1> menu' = menu BY DEF Next, vars
<1> None \notin Requests \cup Conns BY ApprovalAssumption
<1> USE DEF ApprovalInv, TypeOK, HeldInv
<1>1. ASSUME NEW r \in Requests, DecideAtOnce(r) PROVE HeldInv'
  <2>1. ASSUME NEW q \in Requests, q # r PROVE Held(q)'
    BY <1>1, <2>1, HeldFrame DEF DecideAtOnce, connVars, storeVars, Finish, Outcome, NoTally, Held
  <2>2. Held(r)' BY <1>1 DEF DecideAtOnce, connVars, storeVars, Finish, Outcome, Held, InStore, Fresh, NoTally
  <2> QED BY <2>1, <2>2
<1>2. ASSUME NEW r \in Requests, Ask(r) PROVE HeldInv'
  <2>1. ASSUME NEW q \in Requests, q # r PROVE Held(q)'
    BY <1>2, <2>1, HeldFrame DEF Ask, connVars, storeVars, NoTally, Held
  <2>2. Held(r)' BY <1>2 DEF Ask, connVars, storeVars, Held, InStore, Fresh, NoTally
  <2> QED BY <2>1, <2>2
<1>3. ASSUME NEW r \in Requests, Route(r) PROVE HeldInv'
  <2>1. ASSUME NEW q \in Requests, q # r PROVE Held(q)'
    BY <1>3, <2>1, HeldFrame DEF Route, connVars, NoTally, Held
  <2>2. Held(r)' BY <1>3 DEF Route, connVars, Held, InStore, Fresh, NoTally
  <2> QED BY <2>1, <2>2
<1>4. ASSUME NEW r \in Requests, Send(r) PROVE HeldInv'
  <2>1. ASSUME NEW q \in Requests, q # r PROVE Held(q)'
    BY <1>4, <2>1, HeldFrame DEF Send, Full, NoTally, Held
  <2>2. Held(r)' BY <1>4 DEF Send, Full, Held, InStore, Fresh, NoTally
  <2> QED BY <2>1, <2>2
<1>5. ASSUME NEW r \in Requests, Push(r) PROVE HeldInv'
  <2>1. r \notin ToSet(queue) /\ ToSet(queue') = ToSet(queue) \cup {r} BY <1>5, QueueSteps
  <2>2. /\ pc[r] = "push" /\ pc' = [pc EXCEPT ![r] = "await"]
        /\ UNCHANGED <<told, box, via, counted, yes, bridge, wlock, tally, watcher>>
    BY <1>5 DEF Push, connVars
  <2>3. ASSUME NEW q \in Requests, q # r PROVE Held(q)'
    BY <2>1, <2>2, <2>3, HeldFrame, ZenonT(60) DEF NoTally
  <2>4. Held(r)'
    <3>1. Fresh(r)' <=> Fresh(r) BY <2>2 DEF Fresh, NoTally
    <3> QED BY <2>1, <2>2, <3>1 DEF Held, InStore
  <2> QED BY <2>3, <2>4
<1>6. ASSUME NEW r \in Requests, Answer(r) PROVE HeldInv'
  <2>1. ASSUME NEW q \in Requests, q # r PROVE Held(q)'
    BY <1>6, <2>1, HeldFrame DEF Answer, connVars, storeVars, Finish, NoTally, Held
  <2>2. r \notin watcher.hand
    BY <1>6 DEF Answer, Held, Fresh, DecidedInv, Decided
  <2>3. Held(r)'
    BY <1>6, <2>2 DEF Answer, connVars, storeVars, Finish, Held, InStore, Fresh, NoTally
  <2> QED BY <2>1, <2>3
<1>7. ASSUME NEW r \in Requests, Evict(r) PROVE HeldInv'
  <2>1. ToSet(queue') = ToSet(queue) \ {r} BY <1>7, QueueSteps
  <2>2. /\ pc[r] = "evict" /\ pc' = [pc EXCEPT ![r] = "done"]
        /\ told' = [told EXCEPT ![r] = "timeout"]
        /\ UNCHANGED <<box, via, counted, yes, bridge, wlock, tally, watcher>>
    BY <1>7 DEF Evict, connVars
  <2>3. ASSUME NEW q \in Requests, q # r PROVE Held(q)'
    BY <2>1, <2>2, <2>3, HeldFrame, ZenonT(60) DEF NoTally
  <2>4. Held(r)'
    <3>1. Fresh(r)' <=> Fresh(r) BY <2>2 DEF Fresh, NoTally
    <3>2. told'[r] = "timeout" /\ pc'[r] = "done" BY <2>2
    <3>3. Decided(r) BY DEF DecidedInv
    <3>4. told[r] = "none" BY <2>2, <3>3 DEF Decided
    <3> QED BY <2>1, <2>2, <3>1, <3>2, <3>4 DEF Held, InStore
  <2> QED BY <2>3, <2>4
<1>8. ASSUME NEW r \in Requests, Timeout(r) PROVE HeldInv'
  <2>1. ASSUME NEW q \in Requests, q # r PROVE Held(q)'
    BY <1>8, <2>1, HeldFrame DEF Timeout, connVars, NoTally, Held
  <2>2. Held(r)' BY <1>8 DEF Timeout, connVars, Held, InStore, Fresh, NoTally
  <2> QED BY <2>1, <2>2
<1>9. ASSUME NEW r \in Requests, Age(r) PROVE HeldInv'
  <2> SUFFICES ASSUME NEW q \in Requests PROVE Held(q)'
    OBVIOUS
  <2> QED BY <1>9, HeldFrame DEF Age, connVars, storeVars, NoTally
<1>10. ASSUME NEW r \in Requests, NEW soon \in BOOLEAN, Exit(r, soon) PROVE HeldInv'
  <2> SUFFICES ASSUME NEW q \in Requests PROVE Held(q)'
    OBVIOUS
  <2> QED BY <1>10, HeldFrame DEF Exit, connVars, storeVars, Termination, NoTally
<1>11. ASSUME NEW c \in Conns, Connect(c) PROVE HeldInv'
  <2> SUFFICES ASSUME NEW q \in Requests PROVE Held(q)'
    OBVIOUS
  <2> QED BY <1>11, HeldFrame DEF Connect, callerVars, NoTally
<1>12. ASSUME NEW c \in Conns, LockQueue(c) PROVE HeldInv'
  <2> SUFFICES ASSUME NEW q \in Requests PROVE Held(q)'
    OBVIOUS
  <2> QED BY <1>12, HeldFrame DEF LockQueue, callerVars, NoTally
<1>13. ASSUME NEW c \in Conns, Drain(c) PROVE HeldInv'
  <2> SUFFICES ASSUME NEW q \in Requests PROVE Held(q)'
    OBVIOUS
  <2>1. /\ Head(queue) \in ToSet(queue) /\ Head(queue) \notin ToSet(queue')
        /\ ToSet(queue) = ToSet(queue') \cup {Head(queue)}
    BY <1>13, QueueSteps
  <2>2. CASE q = Head(queue)
    BY <1>13, <2>1, <2>2 DEF Drain, callerVars, Full, Held, InStore, Fresh, NoTally
  <2>3. CASE q # Head(queue)
    BY <1>13, <2>1, <2>3, HeldFrame DEF Drain, callerVars, Full, NoTally
  <2> QED BY <2>2, <2>3
<1>14. ASSUME NEW c \in Conns, Snapshot(c) PROVE HeldInv'
  <2> SUFFICES ASSUME NEW q \in Requests PROVE Held(q)'
    OBVIOUS
  <2> QED BY <1>14, HeldFrame DEF Snapshot, callerVars, Listening, NoTally
<1>15. ASSUME NEW c \in Conns, Replay(c) PROVE HeldInv'
  <2> SUFFICES ASSUME NEW q \in Requests PROVE Held(q)'
    OBVIOUS
  <2> QED BY <1>15, HeldFrame DEF Replay, callerVars, storeVars, Full, NoTally
<1>16. ASSUME NEW c \in Conns, Pump(c) PROVE HeldInv'
  <2> SUFFICES ASSUME NEW q \in Requests PROVE Held(q)'
    OBVIOUS
  <2> QED BY <1>16, HeldFrame DEF Pump, callerVars, storeVars, NoTally
<1>17. ASSUME NEW c \in Conns, CloseConn(c) PROVE HeldInv'
  <2> SUFFICES ASSUME NEW q \in Requests PROVE Held(q)'
    OBVIOUS
  <2> QED BY <1>17, HeldFrame DEF CloseConn, callerVars, NoTally
<1>18. ASSUME NEW c \in Conns, Tally(c) PROVE HeldInv'
  <2>1. tally[c] \in Requests BY <1>18 DEF Tally
  <2>2. ASSUME NEW q \in Requests, q # tally[c] PROVE Held(q)'
    BY <1>18, <2>2, HeldFrame DEF Tally, storeVars, NoTally
  <2>3. ASSUME NEW q \in Requests, q = tally[c] PROVE Held(q)'
    <3>1. ~ NoTally(q) BY <2>3 DEF NoTally
    <3>2. ~ InStore(q) /\ pc[q] \notin {"idle", "route", "push"} BY <3>1 DEF Held, Fresh
    <3>3. q \in watcher.hand => told[q] = "full" BY <3>1 DEF Held, Fresh
    <3>4. UNCHANGED <<pc, told, box, via, queue, bridge, wlock, watcher>>
      BY <1>18 DEF Tally, storeVars
    <3> QED BY <3>2, <3>3, <3>4 DEF Held, InStore
  <2> QED BY <2>2, <2>3
<1>19. ASSUME NEW c \in Conns, Flood(c) PROVE HeldInv'
  <2> SUFFICES ASSUME NEW q \in Requests PROVE Held(q)'
    OBVIOUS
  <2> QED BY <1>19, HeldFrame DEF Flood, callerVars, storeVars, NoTally
<1>20. ASSUME NEW c \in Conns, PumpFails(c) PROVE HeldInv'
  <2> SUFFICES ASSUME NEW q \in Requests PROVE Held(q)'
    OBVIOUS
  <2> QED BY <1>20, HeldFrame DEF PumpFails, callerVars, storeVars, NoTally
<1>21. ASSUME NEW c \in Conns, HangUp(c) PROVE HeldInv'
  <2> SUFFICES ASSUME NEW q \in Requests PROVE Held(q)'
    OBVIOUS
  <2> QED BY <1>21, HeldFrame DEF HangUp, callerVars, storeVars, NoTally
<1>22. ASSUME NEW c \in Conns, NEW r \in Requests, NEW d \in {"approved", "rejected"}, Approve(c, r, d) PROVE HeldInv'
  <2>1. ASSUME NEW q \in Requests, q # r PROVE Held(q)'
    BY <1>22, <2>1, HeldFrame DEF Approve, Deliver, Listening, NoTally
  <2>2. Held(r)'
    <3>1. r \in bridge /\ r \notin ToSet(queue) BY <1>22 DEF Approve
    <3>2. InStore(r)' = FALSE BY <1>22, <3>1 DEF Approve, InStore
    <3> QED BY <1>22, <3>1, <3>2 DEF Approve, Deliver, Listening, Held, InStore
  <2> QED BY <2>1, <2>2
<1>23. CASE UpdatePolicy
  <2> SUFFICES ASSUME NEW q \in Requests PROVE Held(q)'
    OBVIOUS
  <2> QED BY <1>23, HeldFrame DEF UpdatePolicy, connVars, storeVars, NoTally
<1>24. CASE ScanQueue
  <2> SUFFICES ASSUME NEW q \in Requests PROVE Held(q)'
    OBVIOUS
  <2>1. ToSet(queue') = ToSet(queue) \ aged BY <1>24, QueueSteps
  <2>2. watcher.hand = {} /\ watcher'.hand = ToSet(queue) \cap aged BY <1>24 DEF ScanQueue
  <2>3. UNCHANGED <<pc, told, via, box, counted, yes, bridge, wlock, tally>>
    BY <1>24 DEF ScanQueue, callerVars, connVars
  <2>4. CASE q \in ToSet(queue) \cap aged
    <3>1. q \notin bridge BY <2>4
    <3>2. Fresh(q)' <=> Fresh(q) BY <2>3 DEF Fresh, NoTally
    <3>3. Held(q) BY DEF HeldInv
    <3>4. /\ Fresh(q) /\ via[q] = "queue" /\ pc[q] \in {"await", "evict"}
          /\ told[q] # "full"
      BY <2>4, <3>3 DEF Held, InStore, DecidedInv, Decided
    <3> QED BY <2>1, <2>2, <2>3, <2>4, <3>1, <3>2, <3>4 DEF Held, InStore
  <2>5. CASE q \notin ToSet(queue) \cap aged
    BY <2>1, <2>2, <2>3, <2>5, HeldFrame DEF NoTally
  <2> QED BY <2>4, <2>5
<1>25. CASE ScanBridge
  <2> SUFFICES ASSUME NEW q \in Requests PROVE Held(q)'
    OBVIOUS
  <2>1. UNCHANGED <<pc, told, via, box, counted, yes, queue, wlock, tally>> /\ watcher.hand = {}
    BY <1>25 DEF ScanBridge, callerVars, connVars
  <2>2. ASSUME NEW r \in watcher.todo, bridge' = bridge \ {r},
               watcher' = [watcher EXCEPT !.todo = @ \ {r}, !.hand = {r} \cap bridge]
        PROVE  Held(q)'
    <3>1. watcher'.hand = {r} \cap bridge BY <2>2
    <3>2. CASE q \in {r} \cap bridge
      <4>1. q \notin ToSet(queue) BY <3>2
      <4>2. Fresh(q)' <=> Fresh(q) BY <2>1 DEF Fresh, NoTally
      <4>3. /\ Fresh(q) /\ (pc[q] = "done" => told[q] = "timeout") /\ via[q] # "none"
            /\ pc[q] \in {"send", "await", "evict", "done"} /\ told[q] # "full"
        BY <3>2 DEF Held, InStore, DecidedInv, Decided
      <4> QED BY <2>1, <2>2, <3>1, <3>2, <4>1, <4>2, <4>3 DEF Held, InStore
    <3>3. CASE q \notin {r} \cap bridge
      BY <2>1, <2>2, <3>1, <3>3, HeldFrame DEF NoTally
    <3> QED BY <3>2, <3>3
  <2>3. ASSUME watcher' = [watcher EXCEPT !.at = "queue"], UNCHANGED bridge
        PROVE  Held(q)'
    BY <2>1, <2>3, HeldFrame DEF NoTally
  <2> QED BY <1>25, <2>2, <2>3 DEF ScanBridge
<1>28. CASE ListBridge
  <2> SUFFICES ASSUME NEW q \in Requests PROVE Held(q)'
    OBVIOUS
  <2>1. watcher'.hand = watcher.hand BY <1>28 DEF ListBridge
  <2> QED BY <1>28, <2>1, HeldFrame DEF ListBridge, callerVars, connVars, storeVars, NoTally
<1>29. ASSUME NEW r \in Requests, Expire(r) PROVE HeldInv'
  <2>1. /\ r \in watcher.hand /\ watcher'.hand = watcher.hand \ {r}
        /\ UNCHANGED <<pc, told, via, yes, queue, bridge, wlock, tally>>
        /\ Listening(r) => box'[r] = "ttl"
    BY <1>29 DEF Expire, Deliver, storeVars, connVars
  <2>2. ASSUME NEW q \in Requests, q # r PROVE Held(q)'
    <3>1. box'[q] = box[q] /\ counted'[q] = counted[q] BY <1>29, <2>2 DEF Expire, Deliver
    <3> QED BY <2>1, <2>2, <3>1, HeldFrame DEF NoTally
  <2>3. Held(r)'
    <3>1. ~ InStore(r) /\ pc[r] \in {"send", "await", "evict", "done"} /\ via[r] # "none"
      BY <2>1 DEF Held
    <3>2. ~ InStore(r)' /\ r \notin watcher'.hand BY <2>1, <3>1 DEF InStore
    <3> QED BY <2>1, <3>1, <3>2 DEF Held, Listening, InStore
  <2> QED BY <2>2, <2>3
<1>26. CASE StopWatcher
  <2> SUFFICES ASSUME NEW q \in Requests PROVE Held(q)'
    OBVIOUS
  <2> QED BY <1>26, HeldFrame DEF StopWatcher, callerVars, connVars, storeVars, NoTally
<1>27. CASE UNCHANGED vars BY <1>27 DEF vars, Held, InStore, Fresh, NoTally
<1> HIDE DEF ApprovalInv, TypeOK, HeldInv
<1> QED BY <1>1, <1>2, <1>3, <1>4, <1>5, <1>6, <1>7, <1>8, <1>9, <1>10, <1>11,
    <1>12, <1>13, <1>14, <1>15, <1>16, <1>17, <1>18, <1>19, <1>20, <1>21, <1>22,
    <1>23, <1>24, <1>25, <1>26, <1>27, <1>28, <1>29 DEF Next, CallerStep,
    ConnStep, WatcherStep

\* The first element of a sequence.
LEMMA First ==
    ASSUME NEW x
    PROVE  /\ Append(<<>>, x) = <<x>> /\ Len(<<x>>) = 1 /\ <<x>> # <<>>
           /\ ToSet(<<x>>) = {x} /\ ToSet(<<>>) = {} /\ Len(<<>>) = 0
<1>1. Append(<<>>, x) = <<x>> /\ Len(<<x>>) = 1 /\ <<x>> # <<>> /\ Len(<<>>) = 0 OBVIOUS
<1>2. DOMAIN <<x>> = {1} /\ <<x>>[1] = x /\ DOMAIN <<>> = {} OBVIOUS
<1>3. ToSet(<<x>>) = {x} BY <1>2 DEF ToSet
<1>4. ToSet(<<>>) = {} BY <1>2, Zenon DEF ToSet
<1> QED BY <1>1, <1>3, <1>4

\* The first outcome that is counted.
LEMMA CountFirst ==
    ASSUME NEW q \in Requests, NEW x, counted[q] = <<>>, counted'[q] = Append(counted[q], x)
    PROVE  /\ counted'[q] = <<x>> /\ Len(counted'[q]) = 1 /\ counted'[q] # <<>>
           /\ ToSet(counted'[q]) = {x}
<1>1. counted'[q] = Append(<<>>, x) OBVIOUS
<1>2. Append(<<>>, x) = <<x>> BY First
<1>3. counted'[q] = <<x>> BY <1>1, <1>2
<1> QED BY <1>3, First

\* A step that leaves alone what Decided(q) speaks of keeps it.
LEMMA DecidedFrame ==
    ASSUME NEW q \in Requests, Decided(q), \A c \in Conns : tally'[c] = q => tally[c] = q,
           pc'[q] = pc[q], told'[q] = told[q], box'[q] = box[q], via'[q] = via[q],
           counted'[q] = counted[q], q \in yes' <=> q \in yes
    PROVE  Decided(q)'
BY DEF Decided, NoTally

\* What is in the store is undecided.
LEMMA StoredIsFresh ==
    ASSUME NEW q \in Requests, HeldInv, DecidedInv, InStore(q)
    PROVE  /\ counted[q] = <<>> /\ q \notin yes /\ box[q] = "none" /\ via[q] # "none"
           /\ \A c \in Conns : tally[c] # q
           /\ told[q] \in {"none", "timeout"} /\ pc[q] # "idle"
           /\ pc[q] = "done" => told[q] = "timeout"
BY DEF HeldInv, Held, Fresh, NoTally, InStore, DecidedInv, Decided

\* Every step keeps one decision per request.
LEMMA DecidedStep == ApprovalInv /\ [Next]_vars => DecidedInv'
<1> SUFFICES ASSUME ApprovalInv, [Next]_vars PROVE DecidedInv'
  OBVIOUS
<1> menu' = menu BY DEF Next, vars
<1> None \notin Requests \cup Conns BY ApprovalAssumption
<1> USE DEF ApprovalInv, TypeOK, DecidedInv
<1>1. ASSUME NEW r \in Requests, DecideAtOnce(r) PROVE DecidedInv'
  <2>1. ASSUME NEW q \in Requests, q # r PROVE Decided(q)'
    BY <1>1, <2>1, DecidedFrame DEF DecideAtOnce, connVars, storeVars, Finish, Outcome
  <2>2. Decided(r)'
    <3>1. counted[r] = <<>> /\ NoTally(r) /\ r \notin yes /\ box[r] = "none" /\ via[r] = "none"
      BY <1>1 DEF DecideAtOnce, HeldInv, Held, Fresh
    <3>2. told'[r] \in {"approved", "rejected"} /\ counted'[r] = <<told'[r]>>
      BY <1>1, <3>1, First DEF DecideAtOnce, Finish, Outcome
    <3>3. pc'[r] = "done" /\ UNCHANGED <<tally, box, via, yes>> BY <1>1 DEF DecideAtOnce, connVars, storeVars, Finish, Outcome
    <3> QED BY <3>1, <3>2, <3>3, First DEF Decided, NoTally
  <2> QED BY <2>1, <2>2
<1>2. ASSUME NEW r \in Requests, Ask(r) PROVE DecidedInv'
  <2>1. ASSUME NEW q \in Requests, q # r PROVE Decided(q)'
    BY <1>2, <2>1, DecidedFrame DEF Ask, connVars, storeVars
  <2>2. Decided(r)' BY <1>2 DEF Ask, connVars, storeVars, Decided, NoTally
  <2> QED BY <2>1, <2>2
<1>3. ASSUME NEW r \in Requests, Route(r) PROVE DecidedInv'
  <2>1. ASSUME NEW q \in Requests, q # r PROVE Decided(q)'
    BY <1>3, <2>1, DecidedFrame DEF Route, connVars
  <2>2. Decided(r)'
    <3>1. counted[r] = <<>> /\ box[r] = "none" /\ told[r] = "none"
      BY <1>3 DEF Route, HeldInv, Held, Fresh, Decided
    <3>2. pc'[r] # "done" /\ UNCHANGED <<told, box, counted, yes, tally>> BY <1>3 DEF Route, connVars
    <3>3. Len(<<>>) = 0 /\ ToSet(<<>>) = {} BY First
    <3> QED BY <3>1, <3>2, <3>3 DEF Decided, NoTally
  <2> QED BY <2>1, <2>2
<1>4. ASSUME NEW r \in Requests, Send(r) PROVE DecidedInv'
  <2>1. ASSUME NEW q \in Requests, q # r PROVE Decided(q)'
    BY <1>4, <2>1, DecidedFrame DEF Send, Full
  <2>2. Decided(r)' BY <1>4 DEF Send, Full, Decided, NoTally
  <2> QED BY <2>1, <2>2
<1>5. ASSUME NEW r \in Requests, Push(r) PROVE DecidedInv'
  <2>1. ASSUME NEW q \in Requests, q # r PROVE Decided(q)'
    BY <1>5, <2>1, DecidedFrame DEF Push, connVars
  <2>2. Decided(r)' BY <1>5 DEF Push, connVars, Decided, NoTally
  <2> QED BY <2>1, <2>2
<1>6. ASSUME NEW r \in Requests, Answer(r) PROVE DecidedInv'
  <2>1. ASSUME NEW q \in Requests, q # r PROVE Decided(q)'
    BY <1>6, <2>1, DecidedFrame DEF Answer, connVars, storeVars, Finish
  <2>2. Decided(r)'
    <3>1. told[r] = "none" BY <1>6 DEF Answer, Decided
    <3>2. /\ pc'[r] = "done" /\ told'[r] = box[r] /\ box[r] # "none"
          /\ UNCHANGED <<box, via, counted, yes, tally>>
      BY <1>6 DEF Answer, connVars, storeVars, Finish
    <3> QED BY <3>1, <3>2 DEF Decided, NoTally, Decisions
  <2> QED BY <2>1, <2>2
<1>7. ASSUME NEW r \in Requests, Evict(r) PROVE DecidedInv'
  <2>1. ASSUME NEW q \in Requests, q # r PROVE Decided(q)'
    BY <1>7, <2>1, DecidedFrame DEF Evict, connVars
  <2>2. Decided(r)'
    <3>1. told[r] = "none" BY <1>7 DEF Evict, Decided
    <3>2. /\ pc'[r] = "done" /\ told'[r] = "timeout"
          /\ UNCHANGED <<box, via, counted, yes, tally>>
      BY <1>7 DEF Evict, connVars
    <3> QED BY <3>1, <3>2 DEF Decided, NoTally
  <2> QED BY <2>1, <2>2
<1>8. ASSUME NEW r \in Requests, Timeout(r) PROVE DecidedInv'
  <2>1. ASSUME NEW q \in Requests, q # r PROVE Decided(q)'
    BY <1>8, <2>1, DecidedFrame DEF Timeout, connVars
  <2>2. Decided(r)' BY <1>8 DEF Timeout, connVars, Decided, NoTally
  <2> QED BY <2>1, <2>2
<1>9. ASSUME NEW r \in Requests, Age(r) PROVE DecidedInv'
  <2> SUFFICES ASSUME NEW q \in Requests PROVE Decided(q)'
    OBVIOUS
  <2> QED BY <1>9, DecidedFrame DEF Age, connVars, storeVars
<1>10. ASSUME NEW r \in Requests, NEW soon \in BOOLEAN, Exit(r, soon) PROVE DecidedInv'
  <2> SUFFICES ASSUME NEW q \in Requests PROVE Decided(q)'
    OBVIOUS
  <2> QED BY <1>10, DecidedFrame DEF Exit, connVars, storeVars, Termination
<1>11. ASSUME NEW c \in Conns, Connect(c) PROVE DecidedInv'
  <2> SUFFICES ASSUME NEW q \in Requests PROVE Decided(q)'
    OBVIOUS
  <2> QED BY <1>11, DecidedFrame DEF Connect, callerVars
<1>12. ASSUME NEW c \in Conns, LockQueue(c) PROVE DecidedInv'
  <2> SUFFICES ASSUME NEW q \in Requests PROVE Decided(q)'
    OBVIOUS
  <2> QED BY <1>12, DecidedFrame DEF LockQueue, callerVars
<1>13. ASSUME NEW c \in Conns, Drain(c) PROVE DecidedInv'
  <2> SUFFICES ASSUME NEW q \in Requests PROVE Decided(q)'
    OBVIOUS
  <2> QED BY <1>13, DecidedFrame DEF Drain, callerVars, Full
<1>14. ASSUME NEW c \in Conns, Snapshot(c) PROVE DecidedInv'
  <2> SUFFICES ASSUME NEW q \in Requests PROVE Decided(q)'
    OBVIOUS
  <2> QED BY <1>14, DecidedFrame DEF Snapshot, callerVars, Listening
<1>15. ASSUME NEW c \in Conns, Replay(c) PROVE DecidedInv'
  <2> SUFFICES ASSUME NEW q \in Requests PROVE Decided(q)'
    OBVIOUS
  <2> QED BY <1>15, DecidedFrame DEF Replay, callerVars, storeVars, Full
<1>16. ASSUME NEW c \in Conns, Pump(c) PROVE DecidedInv'
  <2> SUFFICES ASSUME NEW q \in Requests PROVE Decided(q)'
    OBVIOUS
  <2> QED BY <1>16, DecidedFrame DEF Pump, callerVars, storeVars
<1>17. ASSUME NEW c \in Conns, CloseConn(c) PROVE DecidedInv'
  <2> SUFFICES ASSUME NEW q \in Requests PROVE Decided(q)'
    OBVIOUS
  <2> QED BY <1>17, DecidedFrame DEF CloseConn, callerVars
<1>18. ASSUME NEW c \in Conns, Tally(c) PROVE DecidedInv'
  <2>1. tally[c] \in Requests BY <1>18 DEF Tally
  <2>2. /\ UNCHANGED <<pc, told, box, via, yes>> /\ tally' = [tally EXCEPT ![c] = None]
        /\ counted' = [counted EXCEPT ![tally[c]] =
                         Append(@, IF tally[c] \in yes THEN "approved" ELSE "rejected")]
    BY <1>18 DEF Tally
  <2>3. ASSUME NEW q \in Requests, q # tally[c] PROVE Decided(q)'
    BY <2>1, <2>2, <2>3, DecidedFrame
  <2>4. ASSUME NEW q \in Requests, q = tally[c] PROVE Decided(q)'
    <3>1. ~ NoTally(q) BY <2>4 DEF NoTally
    <3>2. NoTally(q)' BY <2>2, <2>4 DEF NoTally, Decided
    <3>3. CASE told[q] = "full" BY <2>2, <3>2, <3>3 DEF Decided, NoTally
    <3>4. CASE told[q] # "full"
      <4>1. counted[q] = <<>> BY <3>1, <3>4 DEF Decided
      <4> DEFINE x == IF q \in yes THEN "approved" ELSE "rejected"
      <4>2. counted'[q] = Append(counted[q], x) BY <2>2, <2>4
      <4>3. Len(counted'[q]) = 1 /\ ToSet(counted'[q]) = {x} BY <4>1, <4>2, CountFirst
      <4>4. Decided(q) BY DEF DecidedInv
      <4>5. <<told[q]>> # <<>> BY First
      <4>6. told[q] \in {"approved", "rejected", "ttl"} => told[q] = box[q]
        BY <4>1, <4>4, <4>5 DEF Decided
      <4>7. q \notin yes => "approved" \notin {x} BY DEF x
      <4>8. q \in yes => "rejected" \notin {x} BY DEF x
      <4> HIDE DEF x
      <4>9. UNCHANGED <<pc, told, box, via, yes>> /\ \A e \in Conns : tally'[e] # q
        BY <2>2, <3>2 DEF NoTally
      <4> QED BY <4>3, <4>4, <4>6, <4>7, <4>8, <4>9 DEF Decided, NoTally
    <3> QED BY <3>3, <3>4
  <2> QED BY <2>3, <2>4
<1>19. ASSUME NEW c \in Conns, Flood(c) PROVE DecidedInv'
  <2> SUFFICES ASSUME NEW q \in Requests PROVE Decided(q)'
    OBVIOUS
  <2> QED BY <1>19, DecidedFrame DEF Flood, callerVars, storeVars
<1>20. ASSUME NEW c \in Conns, PumpFails(c) PROVE DecidedInv'
  <2> SUFFICES ASSUME NEW q \in Requests PROVE Decided(q)'
    OBVIOUS
  <2> QED BY <1>20, DecidedFrame DEF PumpFails, callerVars, storeVars
<1>21. ASSUME NEW c \in Conns, HangUp(c) PROVE DecidedInv'
  <2> SUFFICES ASSUME NEW q \in Requests PROVE Decided(q)'
    OBVIOUS
  <2> QED BY <1>21, DecidedFrame DEF HangUp, callerVars, storeVars
<1>22. ASSUME NEW c \in Conns, NEW r \in Requests, NEW d \in {"approved", "rejected"}, Approve(c, r, d) PROVE DecidedInv'
  <2>1. ASSUME NEW q \in Requests, q # r PROVE Decided(q)'
    BY <1>22, <2>1, DecidedFrame DEF Approve, Deliver, Listening
  <2>2. Decided(r)'
    <3>1. InStore(r) BY <1>22 DEF Approve, InStore
    <3>2. /\ tally' = [tally EXCEPT ![c] = r] /\ UNCHANGED <<pc, told, via, counted>>
          /\ (r \in yes' <=> d = "approved") /\ box'[r] \in {d, "none"}
      BY <1>22, <3>1, StoredIsFresh DEF Approve, Deliver
    <3>3. /\ counted[r] = <<>> /\ told[r] \in {"none", "timeout"}
          /\ \A e \in Conns : tally[e] # r
      BY <3>1, StoredIsFresh
    <3>4. Len(<<>>) = 0 /\ ToSet(<<>>) = {} BY First
    <3> QED BY <1>22, <3>2, <3>3, <3>4 DEF Decided, NoTally
  <2> QED BY <2>1, <2>2
<1>23. CASE UpdatePolicy
  <2> SUFFICES ASSUME NEW q \in Requests PROVE Decided(q)'
    OBVIOUS
  <2> QED BY <1>23, DecidedFrame DEF UpdatePolicy, connVars, storeVars
<1>24. CASE ScanQueue
  <2> SUFFICES ASSUME NEW q \in Requests PROVE Decided(q)'
    OBVIOUS
  <2> QED BY <1>24, DecidedFrame DEF ScanQueue, callerVars, connVars
<1>25. CASE ScanBridge
  <2> SUFFICES ASSUME NEW q \in Requests PROVE Decided(q)'
    OBVIOUS
  <2> QED BY <1>25, DecidedFrame DEF ScanBridge, callerVars, connVars
<1>28. CASE ListBridge
  <2> SUFFICES ASSUME NEW q \in Requests PROVE Decided(q)'
    OBVIOUS
  <2> QED BY <1>28, DecidedFrame DEF ListBridge, callerVars, connVars
<1>29. ASSUME NEW r \in Requests, Expire(r) PROVE DecidedInv'
  <2>1. /\ r \in watcher.hand /\ UNCHANGED <<pc, told, via, yes, tally>>
        /\ counted'[r] = Append(counted[r], "rejected")
        /\ box'[r] = IF Listening(r) THEN "ttl" ELSE box[r]
    BY <1>29 DEF Expire, Deliver, connVars
  <2>2. ASSUME NEW q \in Requests, q # r PROVE Decided(q)'
    <3>1. box'[q] = box[q] /\ counted'[q] = counted[q] BY <1>29, <2>2 DEF Expire, Deliver
    <3> QED BY <2>1, <2>2, <3>1, DecidedFrame
  <2>3. Decided(r)'
    <3>1. Decided(r) /\ Held(r) BY DEF HeldInv
    <3>2. CASE told[r] = "full"
      <4>1. box'[r] = box[r] BY <2>1, <3>1, <3>2 DEF Decided, Listening
      <4> QED BY <2>1, <3>1, <3>2, <4>1 DEF Decided, NoTally
    <3>3. CASE told[r] # "full"
      <4>1. /\ counted[r] = <<>> /\ r \notin yes /\ box[r] = "none" /\ NoTally(r)
            /\ told[r] \in {"none", "timeout"}
        BY <2>1, <3>1, <3>3 DEF Held, Fresh, Decided
      <4>2. counted'[r] = Append(counted[r], "rejected") /\ box'[r] \in {"ttl", "none"}
        BY <2>1, <4>1
      <4>3. Len(counted'[r]) = 1 /\ ToSet(counted'[r]) = {"rejected"} BY <4>1, <4>2, CountFirst
      <4> QED BY <2>1, <3>1, <4>1, <4>2, <4>3 DEF Decided, NoTally
    <3> QED BY <3>2, <3>3
  <2> QED BY <2>2, <2>3
<1>26. CASE StopWatcher
  <2> SUFFICES ASSUME NEW q \in Requests PROVE Decided(q)'
    OBVIOUS
  <2> QED BY <1>26, DecidedFrame DEF StopWatcher, callerVars, connVars, storeVars
<1>27. CASE UNCHANGED vars BY <1>27 DEF vars, Decided, NoTally
<1> HIDE DEF ApprovalInv, TypeOK, DecidedInv
<1> QED BY <1>1, <1>2, <1>3, <1>4, <1>5, <1>6, <1>7, <1>8, <1>9, <1>10, <1>11,
    <1>12, <1>13, <1>14, <1>15, <1>16, <1>17, <1>18, <1>19, <1>20, <1>21, <1>22,
    <1>23, <1>24, <1>25, <1>26, <1>27, <1>28, <1>29 DEF Next, CallerStep,
    ConnStep, WatcherStep

\* A step that leaves alone what Latest(q) speaks of keeps it.
LEMMA LatestFrame ==
    ASSUME NEW q \in Requests, Latest(q),
           pc'[q] = pc[q], told'[q] = told[q], last'[q] = last[q], ended'[q] = ended[q]
    PROVE  Latest(q)'
BY DEF Latest

\* Every step keeps last_approval_response in line with what the tool returns.
LEMMA LastStep == ApprovalInv /\ [Next]_vars => LastInv'
<1> SUFFICES ASSUME ApprovalInv, [Next]_vars PROVE LastInv'
  OBVIOUS
<1> menu' = menu BY DEF Next, vars
<1> None \notin Requests \cup Conns BY ApprovalAssumption
<1> USE DEF ApprovalInv, TypeOK, LastInv
<1>1. ASSUME NEW r \in Requests, DecideAtOnce(r) PROVE LastInv'
  <2>1. ASSUME NEW q \in Requests, q # r PROVE Latest(q)'
    BY <1>1, <2>1, LatestFrame DEF DecideAtOnce, connVars, storeVars, Finish, Outcome
  <2>2. Latest(r)' BY <1>1 DEF DecideAtOnce, connVars, storeVars, Finish, Outcome, Latest
  <2> QED BY <2>1, <2>2
<1>2. ASSUME NEW r \in Requests, Ask(r) PROVE LastInv'
  <2>1. ASSUME NEW q \in Requests, q # r PROVE Latest(q)'
    BY <1>2, <2>1, LatestFrame DEF Ask, connVars, storeVars
  <2>2. Latest(r)' BY <1>2 DEF Ask, connVars, storeVars, Latest
  <2> QED BY <2>1, <2>2
<1>3. ASSUME NEW r \in Requests, Route(r) PROVE LastInv'
  <2>1. ASSUME NEW q \in Requests, q # r PROVE Latest(q)'
    BY <1>3, <2>1, LatestFrame DEF Route, connVars
  <2>2. Latest(r)' BY <1>3 DEF Route, connVars, Latest
  <2> QED BY <2>1, <2>2
<1>4. ASSUME NEW r \in Requests, Send(r) PROVE LastInv'
  <2>1. ASSUME NEW q \in Requests, q # r PROVE Latest(q)'
    BY <1>4, <2>1, LatestFrame DEF Send, Full
  <2>2. Latest(r)' BY <1>4 DEF Send, Full, Latest
  <2> QED BY <2>1, <2>2
<1>5. ASSUME NEW r \in Requests, Push(r) PROVE LastInv'
  <2>1. ASSUME NEW q \in Requests, q # r PROVE Latest(q)'
    BY <1>5, <2>1, LatestFrame DEF Push, connVars
  <2>2. Latest(r)' BY <1>5 DEF Push, connVars, Latest
  <2> QED BY <2>1, <2>2
<1>6. ASSUME NEW r \in Requests, Answer(r) PROVE LastInv'
  <2>1. ASSUME NEW q \in Requests, q # r PROVE Latest(q)'
    BY <1>6, <2>1, LatestFrame DEF Answer, connVars, storeVars, Finish
  <2>2. Latest(r)' BY <1>6 DEF Answer, connVars, storeVars, Finish, Latest
  <2> QED BY <2>1, <2>2
<1>7. ASSUME NEW r \in Requests, Evict(r) PROVE LastInv'
  <2>1. ASSUME NEW q \in Requests, q # r PROVE Latest(q)'
    BY <1>7, <2>1, LatestFrame DEF Evict, connVars
  <2>2. Latest(r)' BY <1>7, ZenonT(60) DEF Evict, connVars, Latest
  <2> QED BY <2>1, <2>2
<1>8. ASSUME NEW r \in Requests, Timeout(r) PROVE LastInv'
  <2>1. ASSUME NEW q \in Requests, q # r PROVE Latest(q)'
    BY <1>8, <2>1, LatestFrame DEF Timeout, connVars
  <2>2. Latest(r)' BY <1>8 DEF Timeout, connVars, Latest
  <2> QED BY <2>1, <2>2
<1>9. ASSUME NEW r \in Requests, Age(r) PROVE LastInv'
  <2> SUFFICES ASSUME NEW q \in Requests PROVE Latest(q)'
    OBVIOUS
  <2> QED BY <1>9, LatestFrame DEF Age, connVars, storeVars
<1>10. ASSUME NEW r \in Requests, NEW soon \in BOOLEAN, Exit(r, soon) PROVE LastInv'
  <2>1. ASSUME NEW q \in Requests, q # r PROVE Latest(q)'
    BY <1>10, <2>1, LatestFrame DEF Exit, connVars, storeVars, Termination
  <2>2. Latest(r)' BY <1>10 DEF Exit, connVars, storeVars, Termination, Latest
  <2> QED BY <2>1, <2>2
<1>11. ASSUME NEW c \in Conns, Connect(c) PROVE LastInv'
  <2> SUFFICES ASSUME NEW q \in Requests PROVE Latest(q)'
    OBVIOUS
  <2> QED BY <1>11, LatestFrame DEF Connect, callerVars
<1>12. ASSUME NEW c \in Conns, LockQueue(c) PROVE LastInv'
  <2> SUFFICES ASSUME NEW q \in Requests PROVE Latest(q)'
    OBVIOUS
  <2> QED BY <1>12, LatestFrame DEF LockQueue, callerVars
<1>13. ASSUME NEW c \in Conns, Drain(c) PROVE LastInv'
  <2> SUFFICES ASSUME NEW q \in Requests PROVE Latest(q)'
    OBVIOUS
  <2> QED BY <1>13, LatestFrame DEF Drain, callerVars, Full
<1>14. ASSUME NEW c \in Conns, Snapshot(c) PROVE LastInv'
  <2> SUFFICES ASSUME NEW q \in Requests PROVE Latest(q)'
    OBVIOUS
  <2> QED BY <1>14, LatestFrame DEF Snapshot, callerVars, Listening
<1>15. ASSUME NEW c \in Conns, Replay(c) PROVE LastInv'
  <2> SUFFICES ASSUME NEW q \in Requests PROVE Latest(q)'
    OBVIOUS
  <2> QED BY <1>15, LatestFrame DEF Replay, callerVars, storeVars, Full
<1>16. ASSUME NEW c \in Conns, Pump(c) PROVE LastInv'
  <2> SUFFICES ASSUME NEW q \in Requests PROVE Latest(q)'
    OBVIOUS
  <2> QED BY <1>16, LatestFrame DEF Pump, callerVars, storeVars
<1>17. ASSUME NEW c \in Conns, CloseConn(c) PROVE LastInv'
  <2> SUFFICES ASSUME NEW q \in Requests PROVE Latest(q)'
    OBVIOUS
  <2> QED BY <1>17, LatestFrame DEF CloseConn, callerVars
<1>18. ASSUME NEW c \in Conns, Tally(c) PROVE LastInv'
  <2> SUFFICES ASSUME NEW q \in Requests PROVE Latest(q)'
    OBVIOUS
  <2> QED BY <1>18, LatestFrame DEF Tally, storeVars
<1>19. ASSUME NEW c \in Conns, Flood(c) PROVE LastInv'
  <2> SUFFICES ASSUME NEW q \in Requests PROVE Latest(q)'
    OBVIOUS
  <2> QED BY <1>19, LatestFrame DEF Flood, callerVars, storeVars
<1>20. ASSUME NEW c \in Conns, PumpFails(c) PROVE LastInv'
  <2> SUFFICES ASSUME NEW q \in Requests PROVE Latest(q)'
    OBVIOUS
  <2> QED BY <1>20, LatestFrame DEF PumpFails, callerVars, storeVars
<1>21. ASSUME NEW c \in Conns, HangUp(c) PROVE LastInv'
  <2> SUFFICES ASSUME NEW q \in Requests PROVE Latest(q)'
    OBVIOUS
  <2> QED BY <1>21, LatestFrame DEF HangUp, callerVars, storeVars
<1>22. ASSUME NEW c \in Conns, NEW r \in Requests, NEW d \in {"approved", "rejected"}, Approve(c, r, d) PROVE LastInv'
  <2> SUFFICES ASSUME NEW q \in Requests PROVE Latest(q)'
    OBVIOUS
  <2> QED BY <1>22, LatestFrame DEF Approve, Deliver, Listening
<1>23. CASE UpdatePolicy
  <2> SUFFICES ASSUME NEW q \in Requests PROVE Latest(q)'
    OBVIOUS
  <2> QED BY <1>23, LatestFrame DEF UpdatePolicy, connVars, storeVars
<1>24. CASE ScanQueue
  <2> SUFFICES ASSUME NEW q \in Requests PROVE Latest(q)'
    OBVIOUS
  <2> QED BY <1>24, LatestFrame DEF ScanQueue, callerVars
<1>25. CASE ScanBridge
  <2> SUFFICES ASSUME NEW q \in Requests PROVE Latest(q)'
    OBVIOUS
  <2> QED BY <1>25, LatestFrame DEF ScanBridge, callerVars
<1>28. CASE ListBridge
  <2> SUFFICES ASSUME NEW q \in Requests PROVE Latest(q)'
    OBVIOUS
  <2> QED BY <1>28, LatestFrame DEF ListBridge, callerVars
<1>29. ASSUME NEW r \in Requests, Expire(r) PROVE LastInv'
  <2>1. /\ r \in watcher.hand /\ UNCHANGED <<pc, told, ended>>
        /\ last'[r] = "ttl" /\ \A q \in Requests : q # r => last'[q] = last[q]
    BY <1>29 DEF Expire
  <2>2. ASSUME NEW q \in Requests, q # r PROVE Latest(q)'
    BY <2>1, <2>2, LatestFrame
  <2>3. pc[r] = "done" => told[r] \in {"timeout", "full"} BY <2>1 DEF HeldInv, Held
  <2>4. Latest(r)' BY <2>1, <2>3 DEF Latest
  <2> QED BY <2>2, <2>4
<1>26. CASE StopWatcher
  <2> SUFFICES ASSUME NEW q \in Requests PROVE Latest(q)'
    OBVIOUS
  <2> QED BY <1>26, LatestFrame DEF StopWatcher, callerVars, connVars, storeVars
<1>27. CASE UNCHANGED vars BY <1>27 DEF vars, Latest
<1> HIDE DEF ApprovalInv, TypeOK, LastInv
<1> QED BY <1>1, <1>2, <1>3, <1>4, <1>5, <1>6, <1>7, <1>8, <1>9, <1>10, <1>11,
    <1>12, <1>13, <1>14, <1>15, <1>16, <1>17, <1>18, <1>19, <1>20, <1>21, <1>22,
    <1>23, <1>24, <1>25, <1>26, <1>27, <1>28, <1>29 DEF Next, CallerStep,
    ConnStep, WatcherStep

\* What was told is not told again, and approvals of plans open one layer's gate.
LEMMA PlanStep == ApprovalInv /\ [Next]_vars => PlanInv'
<1> SUFFICES ASSUME ApprovalInv, [Next]_vars PROVE PlanInv'
  OBVIOUS
<1> USE DEF ApprovalInv
<1>1. ASSUME NEW r \in Requests, NEW d, Finish(r, d), pc[r] # "done" PROVE PlanInv'
  <2>1. told[r] = "none" /\ \A q \in Requests \ {r} : told'[q] = told[q]
    BY <1>1 DEF DecidedInv, Decided, Finish, TypeOK
  <2>2. CASE d = "approved" /\ Kind[r] = "plan"
    <3>1. told'[r] = "approved" /\ planOk' = [planOk EXCEPT ![LayerOf[r]] = TRUE]
      BY <1>1, <2>2 DEF Finish, TypeOK
    <3>2. \A l \in Layers : planOk'[l] => planOk[l] \/ l = LayerOf[r] BY <3>1 DEF TypeOK
    <3> QED BY <2>1, <2>2, <3>1, <3>2 DEF PlanInv
  <2>3. CASE ~ (d = "approved" /\ Kind[r] = "plan")
    <3>1. planOk' = planOk BY <1>1, <2>3 DEF Finish
    <3> QED BY <2>1, <3>1 DEF PlanInv
  <2> QED BY <2>2, <2>3
<1>2. ASSUME planOk' = planOk,
             \A q \in Requests : told[q] = "approved" => told'[q] = "approved"
      PROVE  PlanInv'
  BY <1>2 DEF PlanInv
<1>3. ASSUME NEW r \in Requests, DecideAtOnce(r) \/ Answer(r) PROVE PlanInv'
  BY <1>1, <1>3 DEF DecideAtOnce, Answer
<1>4. ASSUME NEW r \in Requests, Send(r) \/ Evict(r) PROVE PlanInv'
  <2>1. planOk' = planOk /\ told[r] = "none" /\ \A q \in Requests \ {r} : told'[q] = told[q]
    BY <1>4 DEF Send, Evict, DecidedInv, Decided, TypeOK
  <2> QED BY <1>2, <2>1
<1>5. ASSUME UNCHANGED <<planOk, told>> PROVE PlanInv' BY <1>2, <1>5
<1>6. ASSUME NEW r \in Requests,
             \/ Ask(r) \/ Route(r) \/ Push(r) \/ Timeout(r) \/ Age(r)
             \/ \E soon \in BOOLEAN : Exit(r, soon)
      PROVE  PlanInv'
  BY <1>5, <1>6 DEF Ask, Route, Push, Timeout, Age, Exit
<1>7. ASSUME NEW c \in Conns,
             \/ Connect(c) \/ ConnStep(c) \/ Flood(c) \/ PumpFails(c) \/ HangUp(c)
             \/ \E r \in Requests, d \in {"approved", "rejected"} : Approve(c, r, d)
      PROVE  PlanInv'
  BY <1>5, <1>7 DEF Connect, ConnStep, LockQueue, Drain, Snapshot, Replay, Pump, CloseConn,
                    Tally, Flood, PumpFails, HangUp, Approve, callerVars
<1>8. ASSUME UpdatePolicy \/ WatcherStep \/ StopWatcher PROVE PlanInv'
  BY <1>5, <1>8 DEF UpdatePolicy, WatcherStep, ScanQueue, ListBridge, ScanBridge, Expire,
                    StopWatcher, callerVars
<1>9. CASE UNCHANGED vars BY <1>5, <1>9 DEF vars
<1> QED BY <1>3, <1>4, <1>6, <1>7, <1>8, <1>9 DEF Next, CallerStep

\* A session is recorded once its request is told, and what is told stays.
LEMMA ExitStep == ApprovalInv /\ [Next]_vars => ExitIsTold'
<1> SUFFICES ASSUME ApprovalInv, [Next]_vars PROVE ExitIsTold'
  OBVIOUS
<1> USE DEF ApprovalInv
<1>1. ASSUME UNCHANGED ended,
             \A q \in Requests : pc[q] = "done" => told'[q] = told[q]
      PROVE  ExitIsTold'
  <2>1. \A q \in Requests : ended[q] # "none" => pc[q] = "done" BY DEF LastInv, Latest
  <2> QED BY <1>1, <2>1 DEF ExitIsTold
<1>2. ASSUME NEW r \in Requests, NEW soon \in BOOLEAN, Exit(r, soon) PROVE ExitIsTold'
  <2>1. /\ pc[r] = "done" /\ UNCHANGED told /\ \A q \in Requests \ {r} : ended'[q] = ended[q]
        /\ ended'[r] = "success" \/ (ended'[r] = last[r] /\ last[r] \notin {"none", "approved"})
    BY <1>2 DEF Exit, Termination, TypeOK
  <2>2. Latest(r) /\ last[r] \in Decisions \cup {"none"} BY DEF LastInv, TypeOK
  <2> QED BY <2>1, <2>2 DEF ExitIsTold, Latest, Decisions
<1>3. ASSUME NEW r \in Requests,
             \/ DecideAtOnce(r) \/ Answer(r) \/ Send(r) \/ Evict(r)
             \/ Ask(r) \/ Route(r) \/ Push(r) \/ Timeout(r) \/ Age(r)
      PROVE  UNCHANGED ended /\ \A q \in Requests : pc[q] = "done" => told'[q] = told[q]
  BY <1>3 DEF DecideAtOnce, Answer, Send, Evict, Finish, Ask, Route, Push, Timeout, Age, TypeOK
<1>4. ASSUME NEW c \in Conns,
             \/ Connect(c) \/ ConnStep(c) \/ Flood(c) \/ PumpFails(c) \/ HangUp(c)
             \/ \E r \in Requests, d \in {"approved", "rejected"} : Approve(c, r, d)
      PROVE  UNCHANGED <<ended, told>>
  BY <1>4 DEF Connect, ConnStep, LockQueue, Drain, Snapshot, Replay, Pump, CloseConn,
              Tally, Flood, PumpFails, HangUp, Approve, callerVars
<1>5. ASSUME UpdatePolicy \/ WatcherStep \/ StopWatcher PROVE UNCHANGED <<ended, told>>
  BY <1>5 DEF UpdatePolicy, WatcherStep, ScanQueue, ListBridge, ScanBridge, Expire,
              StopWatcher, callerVars
<1>6. CASE UNCHANGED vars BY <1>1, <1>6 DEF vars
<1> QED BY <1>1, <1>2, <1>3, <1>4, <1>5, <1>6 DEF Next, CallerStep

\* Only the request that holds the writer's lock sends, and it keeps the slot taken.
LEMMA WriterStep == ApprovalInv /\ [Next]_vars => WriterInv'
<1> SUFFICES ASSUME ApprovalInv, [Next]_vars PROVE WriterInv'
  OBVIOUS
<1> menu' = menu BY DEF Next, vars
<1> None \notin Requests \cup Conns BY ApprovalAssumption
<1> USE DEF ApprovalInv, TypeOK, WriterInv
<1>1. ASSUME NEW r \in Requests, DecideAtOnce(r) PROVE WriterInv'
  BY <1>1 DEF DecideAtOnce, connVars, storeVars, Finish, Outcome
<1>2. ASSUME NEW r \in Requests, Ask(r) PROVE WriterInv'
  BY <1>2 DEF Ask, connVars, storeVars
<1>3. ASSUME NEW r \in Requests, Route(r) PROVE WriterInv'
  <2>1. CASE slot = None BY <1>3, <2>1 DEF Route
  <2>2. CASE slot # None
    <3>1. wlock' = r /\ pc'[r] = "send" /\ slot' = slot BY <1>3, <2>2 DEF Route
    <3> QED BY <2>2, <3>1
  <2> QED BY <2>1, <2>2
<1>4. ASSUME NEW r \in Requests, Send(r) PROVE WriterInv' BY <1>4 DEF Send, Full
<1>5. ASSUME NEW r \in Requests, Push(r) PROVE WriterInv' BY <1>5 DEF Push, connVars
<1>6. ASSUME NEW r \in Requests, Answer(r) PROVE WriterInv'
  BY <1>6 DEF Answer, connVars, storeVars, Finish
<1>7. ASSUME NEW r \in Requests, Evict(r) PROVE WriterInv' BY <1>7 DEF Evict, connVars
<1>8. ASSUME NEW r \in Requests, Timeout(r) PROVE WriterInv' BY <1>8 DEF Timeout, connVars
<1>9. ASSUME NEW r \in Requests, Age(r) PROVE WriterInv'
  BY <1>9 DEF Age, connVars, storeVars
<1>10. ASSUME NEW r \in Requests, NEW soon \in BOOLEAN, Exit(r, soon) PROVE WriterInv'
  BY <1>10 DEF Exit, connVars, storeVars, Termination
<1>11. ASSUME NEW c \in Conns, Connect(c) PROVE WriterInv' BY <1>11 DEF Connect, callerVars
<1>12. ASSUME NEW c \in Conns, LockQueue(c) PROVE WriterInv'
  BY <1>12 DEF LockQueue, callerVars
<1>13. ASSUME NEW c \in Conns, Drain(c) PROVE WriterInv'
  BY <1>13 DEF Drain, callerVars, Full
<1>14. ASSUME NEW c \in Conns, Snapshot(c) PROVE WriterInv'
  BY <1>14 DEF Snapshot, callerVars, Listening
<1>15. ASSUME NEW c \in Conns, Replay(c) PROVE WriterInv'
  BY <1>15 DEF Replay, callerVars, storeVars, Full
<1>16. ASSUME NEW c \in Conns, Pump(c) PROVE WriterInv'
  BY <1>16 DEF Pump, callerVars, storeVars
<1>17. ASSUME NEW c \in Conns, CloseConn(c) PROVE WriterInv'
  BY <1>17 DEF CloseConn, callerVars
<1>18. ASSUME NEW c \in Conns, Tally(c) PROVE WriterInv' BY <1>18 DEF Tally, storeVars
<1>19. ASSUME NEW c \in Conns, Flood(c) PROVE WriterInv'
  BY <1>19 DEF Flood, callerVars, storeVars
<1>20. ASSUME NEW c \in Conns, PumpFails(c) PROVE WriterInv'
  BY <1>20 DEF PumpFails, callerVars, storeVars
<1>21. ASSUME NEW c \in Conns, HangUp(c) PROVE WriterInv'
  BY <1>21 DEF HangUp, callerVars, storeVars
<1>22. ASSUME NEW c \in Conns, NEW r \in Requests, NEW d \in {"approved", "rejected"}, Approve(c, r, d) PROVE WriterInv'
  BY <1>22 DEF Approve, Deliver, Listening
<1>23. CASE UpdatePolicy BY <1>23 DEF UpdatePolicy, connVars, storeVars
<1>24. CASE ScanQueue BY <1>24 DEF ScanQueue, callerVars, connVars
<1>25. CASE ScanBridge BY <1>25 DEF ScanBridge, callerVars, connVars
<1>28. CASE ListBridge BY <1>28 DEF ListBridge, callerVars, connVars, storeVars
<1>29. ASSUME NEW r \in Requests, Expire(r) PROVE WriterInv'
  BY <1>29 DEF Expire, connVars, storeVars
<1>26. CASE StopWatcher BY <1>26 DEF StopWatcher, callerVars, connVars, storeVars
<1>27. CASE UNCHANGED vars BY <1>27 DEF vars
<1> HIDE DEF ApprovalInv, TypeOK, WriterInv
<1> QED BY <1>1, <1>2, <1>3, <1>4, <1>5, <1>6, <1>7, <1>8, <1>9, <1>10, <1>11,
    <1>12, <1>13, <1>14, <1>15, <1>16, <1>17, <1>18, <1>19, <1>20, <1>21, <1>22,
    <1>23, <1>24, <1>25, <1>26, <1>27, <1>28, <1>29 DEF Next, CallerStep,
    ConnStep, WatcherStep

\* A console goes live when its replay is done.
LEMMA ReplayStep == ApprovalInv /\ [Next]_vars => ReplayInv'
<1> SUFFICES ASSUME ApprovalInv, [Next]_vars PROVE ReplayInv'
  OBVIOUS
<1> menu' = menu BY DEF Next, vars
<1> None \notin Requests \cup Conns BY ApprovalAssumption
<1> USE DEF ApprovalInv, TypeOK, ReplayInv, Phases
<1>1. ASSUME NEW r \in Requests, DecideAtOnce(r) PROVE ReplayInv'
  BY <1>1 DEF DecideAtOnce, connVars, storeVars, Finish, Outcome
<1>2. ASSUME NEW r \in Requests, Ask(r) PROVE ReplayInv'
  BY <1>2 DEF Ask, connVars, storeVars
<1>3. ASSUME NEW r \in Requests, Route(r) PROVE ReplayInv' BY <1>3 DEF Route, connVars
<1>4. ASSUME NEW r \in Requests, Send(r) PROVE ReplayInv' BY <1>4 DEF Send, Full
<1>5. ASSUME NEW r \in Requests, Push(r) PROVE ReplayInv' BY <1>5 DEF Push, connVars
<1>6. ASSUME NEW r \in Requests, Answer(r) PROVE ReplayInv'
  BY <1>6 DEF Answer, connVars, storeVars, Finish
<1>7. ASSUME NEW r \in Requests, Evict(r) PROVE ReplayInv' BY <1>7 DEF Evict, connVars
<1>8. ASSUME NEW r \in Requests, Timeout(r) PROVE ReplayInv' BY <1>8 DEF Timeout, connVars
<1>9. ASSUME NEW r \in Requests, Age(r) PROVE ReplayInv'
  BY <1>9 DEF Age, connVars, storeVars
<1>10. ASSUME NEW r \in Requests, NEW soon \in BOOLEAN, Exit(r, soon) PROVE ReplayInv'
  BY <1>10 DEF Exit, connVars, storeVars, Termination
<1>11. ASSUME NEW c \in Conns, Connect(c) PROVE ReplayInv' BY <1>11 DEF Connect, callerVars
<1>12. ASSUME NEW c \in Conns, LockQueue(c) PROVE ReplayInv'
  BY <1>12 DEF LockQueue, callerVars
<1>13. ASSUME NEW c \in Conns, Drain(c) PROVE ReplayInv'
  BY <1>13 DEF Drain, callerVars, Full
<1>14. ASSUME NEW c \in Conns, Snapshot(c) PROVE ReplayInv'
  BY <1>14 DEF Snapshot, callerVars, Listening
<1>15. ASSUME NEW c \in Conns, Replay(c) PROVE ReplayInv'
  <2>1. ASSUME NEW r \in todo[c], todo' = [todo EXCEPT ![c] = @ \ {r}], UNCHANGED conn
        PROVE  ReplayInv'
    BY <1>15, <2>1 DEF Replay
  <2>2. ASSUME todo[c] = {}, conn' = [conn EXCEPT ![c] = "live"], UNCHANGED <<chan, todo>>
        PROVE  ReplayInv'
    BY <1>15, <2>2 DEF Replay
  <2> QED BY <1>15, <2>1, <2>2 DEF Replay
<1>16. ASSUME NEW c \in Conns, Pump(c) PROVE ReplayInv'
  BY <1>16 DEF Pump, callerVars, storeVars
<1>17. ASSUME NEW c \in Conns, CloseConn(c) PROVE ReplayInv'
  BY <1>17 DEF CloseConn, callerVars
<1>18. ASSUME NEW c \in Conns, Tally(c) PROVE ReplayInv' BY <1>18 DEF Tally, storeVars
<1>19. ASSUME NEW c \in Conns, Flood(c) PROVE ReplayInv'
  BY <1>19 DEF Flood, callerVars, storeVars
<1>20. ASSUME NEW c \in Conns, PumpFails(c) PROVE ReplayInv'
  BY <1>20 DEF PumpFails, callerVars, storeVars
<1>21. ASSUME NEW c \in Conns, HangUp(c) PROVE ReplayInv'
  BY <1>21 DEF HangUp, callerVars, storeVars
<1>22. ASSUME NEW c \in Conns, NEW r \in Requests, NEW d \in {"approved", "rejected"}, Approve(c, r, d) PROVE ReplayInv'
  BY <1>22 DEF Approve, Deliver, Listening
<1>23. CASE UpdatePolicy BY <1>23 DEF UpdatePolicy, connVars, storeVars
<1>24. CASE ScanQueue BY <1>24 DEF ScanQueue, callerVars, connVars
<1>25. CASE ScanBridge BY <1>25 DEF ScanBridge, callerVars, connVars
<1>28. CASE ListBridge BY <1>28 DEF ListBridge, callerVars, connVars, storeVars
<1>29. ASSUME NEW r \in Requests, Expire(r) PROVE ReplayInv'
  BY <1>29 DEF Expire, connVars, storeVars
<1>26. CASE StopWatcher BY <1>26 DEF StopWatcher, callerVars, connVars, storeVars
<1>27. CASE UNCHANGED vars BY <1>27 DEF vars
<1> HIDE DEF ApprovalInv, TypeOK, ReplayInv, Phases
<1> QED BY <1>1, <1>2, <1>3, <1>4, <1>5, <1>6, <1>7, <1>8, <1>9, <1>10, <1>11,
    <1>12, <1>13, <1>14, <1>15, <1>16, <1>17, <1>18, <1>19, <1>20, <1>21, <1>22,
    <1>23, <1>24, <1>25, <1>26, <1>27, <1>28, <1>29 DEF Next, CallerStep,
    ConnStep, WatcherStep

\* A step that shows no less to no more waiting requests keeps them on the screen.
LEMMA ShownFrame ==
    ASSUME ShownInv,
           \A q \in Requests, k \in Conns :
              (Waits(q, k)' => Waits(q, k)) /\ (OnScreen(q, k) => OnScreen(q, k)')
    PROVE  ShownInv'
BY DEF ShownInv

\* Every step keeps what is asked on the screen of the attached console.
LEMMA ShownStep == ApprovalInv /\ [Next]_vars => ShownInv'
<1> SUFFICES ASSUME ApprovalInv, [Next]_vars PROVE ShownInv'
  OBVIOUS
<1> menu' = menu BY DEF Next, vars
<1> None \notin Requests \cup Conns BY ApprovalAssumption
<1> USE DEF ApprovalInv, TypeOK
<1>1. ASSUME NEW r \in Requests, DecideAtOnce(r) PROVE ShownInv'
  <2> QED BY <1>1, ShownFrame DEF DecideAtOnce, connVars, storeVars, Finish, Outcome, Waits, OnScreen
<1>2. ASSUME NEW r \in Requests, Ask(r) PROVE ShownInv'
  <2> QED BY <1>2, ShownFrame DEF Ask, connVars, storeVars, Waits, OnScreen
<1>3. ASSUME NEW r \in Requests, Route(r) PROVE ShownInv'
  <2> QED BY <1>3, ShownFrame DEF Route, connVars, Waits, OnScreen
<1>4. ASSUME NEW r \in Requests, Send(r) PROVE ShownInv'
  <2> SUFFICES ASSUME NEW q \in Requests, NEW k \in Conns, Waits(q, k)'
               PROVE  OnScreen(q, k)'
    BY DEF ShownInv
  <2>1. UNCHANGED <<box, via, slot, conn, open, todo, seen, watcher>> BY <1>4 DEF Send
  <2>2. wlock = r /\ slot \in Conns BY <1>4 DEF Send, HeldInv, Held, WriterInv
  <2>3. ASSUME ~ Full(slot), chan' = [chan EXCEPT ![slot] = Append(@, r)],
               pc' = [pc EXCEPT ![r] = "await"]
        PROVE  OnScreen(q, k)'
    <3>1. ToSet(Append(chan[slot], r)) = ToSet(chan[slot]) \cup {r} BY <2>2, AppendElements
    <3>2. chan'[slot] = Append(chan[slot], r) /\ \A e \in Conns : e # slot => chan'[e] = chan[e]
      BY <2>2, <2>3
    <3>3. k = slot BY <2>1 DEF Waits
    <3>4. CASE q = r BY <3>1, <3>2, <3>3, <3>4 DEF OnScreen
    <3>5. CASE q # r
      <4>1. Waits(q, k) BY <2>1, <2>3, <3>5 DEF Waits
      <4>2. OnScreen(q, k) BY <4>1 DEF ShownInv
      <4> QED BY <2>1, <3>1, <3>2, <3>3, <4>2 DEF OnScreen
    <3> QED BY <3>4, <3>5
  <2>4. ASSUME pc' = [pc EXCEPT ![r] = "done"], UNCHANGED chan PROVE OnScreen(q, k)'
    <3>1. Waits(q, k) BY <2>1, <2>4 DEF Waits
    <3>2. OnScreen(q, k) BY <3>1 DEF ShownInv
    <3> QED BY <2>1, <2>4, <3>2 DEF OnScreen
  <2> QED BY <1>4, <2>3, <2>4 DEF Send
<1>5. ASSUME NEW r \in Requests, Push(r) PROVE ShownInv'
  <2>1. via[r] = "queue" BY <1>5 DEF Push, HeldInv, Held
  <2> QED BY <1>5, <2>1, ShownFrame DEF Push, connVars, Waits, OnScreen
<1>6. ASSUME NEW r \in Requests, Answer(r) PROVE ShownInv'
  <2> QED BY <1>6, ShownFrame DEF Answer, connVars, storeVars, Finish, Waits, OnScreen
<1>7. ASSUME NEW r \in Requests, Evict(r) PROVE ShownInv'
  <2> QED BY <1>7, ShownFrame DEF Evict, connVars, Waits, OnScreen
<1>8. ASSUME NEW r \in Requests, Timeout(r) PROVE ShownInv'
  <2> QED BY <1>8, ShownFrame DEF Timeout, connVars, Waits, OnScreen
<1>9. ASSUME NEW r \in Requests, Age(r) PROVE ShownInv'
  <2> QED BY <1>9, ShownFrame DEF Age, connVars, storeVars, Waits, OnScreen
<1>10. ASSUME NEW r \in Requests, NEW soon \in BOOLEAN, Exit(r, soon) PROVE ShownInv'
  <2> QED BY <1>10, ShownFrame DEF Exit, connVars, storeVars, Termination, Waits, OnScreen
<1>11. ASSUME NEW c \in Conns, Connect(c) PROVE ShownInv'
  <2> QED BY <1>11, ShownFrame DEF Connect, callerVars, Waits, OnScreen
<1>12. ASSUME NEW c \in Conns, LockQueue(c) PROVE ShownInv'
  <2> QED BY <1>12, ShownFrame DEF LockQueue, callerVars, Waits, OnScreen
<1>13. ASSUME NEW c \in Conns, Drain(c) PROVE ShownInv'
  <2>1. Head(queue) \in Requests BY <1>13, QueueSteps
  <2>2. ToSet(Append(chan[c], Head(queue))) = ToSet(chan[c]) \cup {Head(queue)}
    BY <2>1, AppendElements
  <2>3. /\ UNCHANGED <<slot, conn, open, pc, box, via, todo, seen, watcher>>
        /\ \A k \in Conns : ToSet(chan[k]) \subseteq ToSet(chan'[k])
    BY <1>13, <2>2 DEF Drain, callerVars
  <2> QED BY <2>3, ShownFrame DEF Waits, OnScreen
<1>14. ASSUME NEW c \in Conns, Snapshot(c) PROVE ShownInv'
  <2> SUFFICES ASSUME NEW q \in Requests, NEW k \in Conns, Waits(q, k)'
               PROVE  OnScreen(q, k)'
    BY DEF ShownInv
  <2>1. /\ UNCHANGED <<slot, open, pc, box, via, chan, seen, watcher>>
        /\ conn' = [conn EXCEPT ![c] = "replay"]
        /\ todo' = [todo EXCEPT ![c] = {r \in bridge : Listening(r)}]
    BY <1>14 DEF Snapshot, callerVars
  <2>2. CASE k = c
    <3>1. q \in bridge BY <2>1 DEF Waits, HeldInv, Held, InStore
    <3>2. Listening(q) BY <2>1 DEF Waits, Listening
    <3> QED BY <2>1, <2>2, <3>1, <3>2 DEF OnScreen
  <2>3. CASE k # c
    <3>1. Waits(q, k) BY <2>1, <2>3 DEF Waits
    <3>2. OnScreen(q, k) BY <3>1 DEF ShownInv
    <3> QED BY <2>1, <2>3, <3>2 DEF OnScreen
  <2> QED BY <2>2, <2>3
<1>15. ASSUME NEW c \in Conns, Replay(c) PROVE ShownInv'
  <2>1. UNCHANGED <<slot, open, pc, box, via, seen, watcher>> BY <1>15 DEF Replay, callerVars, storeVars
  <2>2. ASSUME NEW r \in todo[c], chan' = [chan EXCEPT ![c] = Append(@, r)],
               todo' = [todo EXCEPT ![c] = @ \ {r}], UNCHANGED conn
        PROVE  ShownInv'
    <3>1. ToSet(Append(chan[c], r)) = ToSet(chan[c]) \cup {r} BY AppendElements
    <3>2. \A k \in Conns : /\ todo[k] \subseteq todo'[k] \cup ToSet(chan'[k])
                           /\ ToSet(chan[k]) \subseteq ToSet(chan'[k])
      BY <2>2, <3>1
    <3> QED BY <2>1, <2>2, <3>2, ShownFrame DEF Waits, OnScreen
  <2>3. ASSUME todo[c] = {}, conn' = [conn EXCEPT ![c] = "live"], UNCHANGED <<chan, todo>>
        PROVE  ShownInv'
    BY <1>15, <2>1, <2>3, ShownFrame DEF Replay, Waits, OnScreen
  <2> QED BY <1>15, <2>2, <2>3 DEF Replay
<1>16. ASSUME NEW c \in Conns, Pump(c) PROVE ShownInv'
  <2> QED BY <1>16, ShownFrame DEF Pump, callerVars, storeVars, Waits, OnScreen
<1>17. ASSUME NEW c \in Conns, CloseConn(c) PROVE ShownInv'
  <2> SUFFICES ASSUME NEW q \in Requests, NEW k \in Conns, Waits(q, k)'
               PROVE  OnScreen(q, k)'
    BY DEF ShownInv
  <2>1. k # c /\ Waits(q, k) BY <1>17 DEF CloseConn, callerVars, Waits
  <2>2. OnScreen(q, k) BY <2>1 DEF ShownInv
  <2> QED BY <1>17, <2>1, <2>2 DEF CloseConn, callerVars, OnScreen
<1>18. ASSUME NEW c \in Conns, Tally(c) PROVE ShownInv'
  <2> QED BY <1>18, ShownFrame DEF Tally, storeVars, Waits, OnScreen
<1>19. ASSUME NEW c \in Conns, Flood(c) PROVE ShownInv'
  <2> QED BY <1>19, ShownFrame DEF Flood, callerVars, storeVars, Waits, OnScreen
<1>20. ASSUME NEW c \in Conns, PumpFails(c) PROVE ShownInv'
  <2> SUFFICES ASSUME NEW q \in Requests, NEW k \in Conns, Waits(q, k)'
               PROVE  OnScreen(q, k)'
    BY DEF ShownInv
  <2>1. k # c /\ Waits(q, k) BY <1>20 DEF PumpFails, callerVars, storeVars, Waits
  <2>2. OnScreen(q, k) BY <2>1 DEF ShownInv
  <2> QED BY <1>20, <2>1, <2>2 DEF PumpFails, callerVars, storeVars, OnScreen
<1>21. ASSUME NEW c \in Conns, HangUp(c) PROVE ShownInv'
  <2> QED BY <1>21, ShownFrame DEF HangUp, callerVars, storeVars, Waits, OnScreen
<1>22. ASSUME NEW c \in Conns, NEW r \in Requests, NEW d \in {"approved", "rejected"}, Approve(c, r, d) PROVE ShownInv'
  <2> QED BY <1>22, ShownFrame DEF Approve, Deliver, Listening, Waits, OnScreen
<1>23. CASE UpdatePolicy
  <2> QED BY <1>23, ShownFrame DEF UpdatePolicy, connVars, storeVars, Waits, OnScreen
<1>24. CASE ScanQueue
  <2>1. watcher.hand = {} BY <1>24 DEF ScanQueue
  <2> QED BY <1>24, <2>1, ShownFrame DEF ScanQueue, callerVars, connVars, Waits, OnScreen
<1>25. CASE ScanBridge
  <2>1. watcher.hand = {} BY <1>25 DEF ScanBridge
  <2> QED BY <1>25, <2>1, ShownFrame DEF ScanBridge, callerVars, connVars, Waits, OnScreen
<1>28. CASE ListBridge
  <2>1. watcher.hand = {} BY <1>28 DEF ListBridge
  <2> QED BY <1>28, <2>1, ShownFrame DEF ListBridge, callerVars, connVars, storeVars, Waits, OnScreen
<1>29. ASSUME NEW r \in Requests, Expire(r) PROVE ShownInv'
  <2> SUFFICES ASSUME NEW q \in Requests, NEW k \in Conns, Waits(q, k)'
               PROVE  OnScreen(q, k)'
    BY DEF ShownInv
  <2>1. /\ UNCHANGED <<pc, via, slot, conn, open, chan, todo, seen>> /\ r \in watcher.hand
        /\ watcher'.hand = watcher.hand \ {r}
        /\ \A x \in Requests : box'[x] = IF x = r /\ Listening(x) THEN "ttl" ELSE box[x]
    BY <1>29 DEF Expire, Deliver, connVars, storeVars
  <2>2. q # r BY <2>1 DEF Waits, Listening
  <2>3. Waits(q, k) BY <2>1, <2>2 DEF Waits
  <2>4. OnScreen(q, k) BY <2>3 DEF ShownInv
  <2> QED BY <2>1, <2>4 DEF OnScreen
<1>26. CASE StopWatcher
  <2> QED BY <1>26, ShownFrame DEF StopWatcher, callerVars, connVars, storeVars, Waits, OnScreen
<1>27. CASE UNCHANGED vars BY <1>27, ShownFrame DEF vars, Waits, OnScreen
<1> HIDE DEF ApprovalInv, TypeOK
<1> QED BY <1>1, <1>2, <1>3, <1>4, <1>5, <1>6, <1>7, <1>8, <1>9, <1>10, <1>11,
    <1>12, <1>13, <1>14, <1>15, <1>16, <1>17, <1>18, <1>19, <1>20, <1>21, <1>22,
    <1>23, <1>24, <1>25, <1>26, <1>27, <1>28, <1>29 DEF Next, CallerStep,
    ConnStep, WatcherStep

\* The inductive invariant holds initially.
LEMMA InvInit == Init => ApprovalInv
<1> SUFFICES ASSUME Init PROVE ApprovalInv
  OBVIOUS
<1> USE ApprovalAssumption DEF Init
<1>1. ToSet(<<>>) = {} /\ Len(<<>>) = 0 BY First
<1>2. IsInjective(<<>>)
  <2>1. DOMAIN <<>> = {} OBVIOUS
  <2> QED BY <2>1, Zenon DEF IsInjective
<1>3. TypeOK
  <2>1. rules \in Seq(Rules) OBVIOUS
  <2>2. queue \in Seq(Requests) /\ ToSet(queue) \cap bridge = {} /\ IsInjective(queue)
    BY <1>1, <1>2
  <2> QED BY <1>1, <2>1, <2>2 DEF TypeOK, Steps, Phases, Decisions
<1>4. HeldInv BY <1>1 DEF HeldInv, Held, InStore, Fresh, NoTally
<1>5. DecidedInv BY <1>1 DEF DecidedInv, Decided, NoTally
<1>6. LastInv BY DEF LastInv, Latest
<1>7. PlanInv BY DEF PlanInv
<1>8. ExitIsTold BY DEF ExitIsTold
<1>9. WriterInv /\ ReplayInv /\ ShownInv BY DEF WriterInv, ReplayInv, ShownInv, Waits
<1> QED BY <1>3, <1>4, <1>5, <1>6, <1>7, <1>8, <1>9 DEF ApprovalInv

\* The inductive invariant holds in every reachable state.
THEOREM ApprovalInvariant == Spec => []ApprovalInv
<1>1. ApprovalInv /\ [Next]_vars => ApprovalInv'
  <2> SUFFICES ASSUME ApprovalInv, [Next]_vars PROVE ApprovalInv'
    OBVIOUS
  <2>1. TypeOK /\ HeldInv BY DEF ApprovalInv
  <2>2. TypeOK' BY <2>1, TypeStep
  <2>3. HeldInv' /\ DecidedInv' /\ LastInv' BY HeldStep, DecidedStep, LastStep
  <2>4. PlanInv' /\ ExitIsTold' BY PlanStep, ExitStep
  <2>5. WriterInv' /\ ReplayInv' /\ ShownInv' BY WriterStep, ReplayStep, ShownStep
  <2> QED BY <2>2, <2>3, <2>4, <2>5 DEF ApprovalInv
<1> QED BY <1>1, InvInit, PTL DEF Spec

\* Whatever consoles, watcher and timeouts do to queue and bridge, a caller that
\* waits and has no decision on its way has its responder in one of them, or with the
\* watcher that is about to answer it.
THEOREM ResponderIsHeld == Spec => []NoLostResponder
<1>1. ApprovalInv => NoLostResponder
  BY DEF ApprovalInv, HeldInv, Held, InStore, NoLostResponder
<1> QED BY <1>1, ApprovalInvariant, PTL

\* For any number of requests, consoles and rule sets: what a tool returns was
\* decided, what is asked is shown, what is recorded was told.
THEOREM AnswersStayTrue == Spec => []AnswersAreTrue
<1>1. ApprovalInv => AnswersAreTrue
  <2> SUFFICES ASSUME ApprovalInv PROVE AnswersAreTrue
    OBVIOUS
  <2> USE DEF ApprovalInv
  <2>1. ASSUME NEW r \in Requests
        PROVE  /\ told[r] = "approved" /\ r \notin yes => via[r] = "none"
               /\ told[r] = "approved" => "rejected" \notin ToSet(counted[r])
               /\ told[r] \in {"ttl", "rejected"} => "approved" \notin ToSet(counted[r])
               /\ Len(counted[r]) > 1 => told[r] = "full"
    <3>1. Decided(r) /\ Held(r) BY DEF DecidedInv, HeldInv
    <3>2. ToSet(<<told[r]>>) = {told[r]} BY First
    <3>3. Len(counted[r]) \in Nat BY DEF TypeOK
    <3>4. CASE told[r] = box[r] /\ box[r] # "none"
      BY <3>1, <3>3, <3>4 DEF Decided, Held
    <3>5. CASE via[r] = "none" /\ counted[r] = <<told[r]>> BY <3>1, <3>2, <3>3, <3>5 DEF Decided
    <3>6. CASE told[r] \notin {"approved", "rejected", "ttl"} BY <3>1, <3>3, <3>6 DEF Decided
    <3> QED BY <3>1, <3>4, <3>5, <3>6 DEF Decided
  <2>2. ToldIsDecided BY <2>1 DEF ToldIsDecided, PlanInv
  <2>3. AskedIsShown
    <3> SUFFICES ASSUME NEW r \in Requests, NEW c \in Conns, slot = c, conn[c] = "live", open[c],
                        pc[r] = "await", box[r] = "none", via[r] = "bridge",
                        r \notin watcher.hand
                 PROVE  r \in seen[c] \cup ToSet(chan[c])
      BY DEF AskedIsShown
    <3>1. OnScreen(r, c) BY DEF ShownInv, Waits
    <3>2. todo[c] = {} BY DEF ReplayInv
    <3> QED BY <3>1, <3>2 DEF OnScreen
  <2> QED BY <2>2, <2>3 DEF AnswersAreTrue
<1> QED BY <1>1, ApprovalInvariant, PTL

\* The slot becomes empty only when the connection that has it ends.
THEOREM SlotStays == Spec => SlotIsKept
<1>1. TypeOK /\ [Next]_vars => \A c \in Conns : slot = c /\ slot' = None => conn[c] = "ended"
  <2> SUFFICES ASSUME TypeOK, [Next]_vars, NEW c \in Conns, slot = c, slot' = None
               PROVE  conn[c] = "ended"
    OBVIOUS
  <2>1. slot' # slot BY ApprovalAssumption
  <2>2. PICK k \in Conns : Connect(k) \/ CloseConn(k)
    <3>1. ASSUME NEW r \in Requests,
                 \/ DecideAtOnce(r) \/ Ask(r) \/ CallerStep(r) \/ Timeout(r) \/ Age(r)
                 \/ \E soon \in BOOLEAN : Exit(r, soon)
          PROVE  FALSE
      BY <2>1, <3>1 DEF DecideAtOnce, Ask, CallerStep, Route, Send, Push, Answer, Evict, Timeout,
                        Age, Exit, storeVars
    <3>2. ASSUME NEW k \in Conns,
                 \/ LockQueue(k) \/ Drain(k) \/ Snapshot(k) \/ Replay(k) \/ Pump(k) \/ Tally(k)
                 \/ Flood(k) \/ PumpFails(k) \/ HangUp(k)
                 \/ \E r \in Requests, d \in {"approved", "rejected"} : Approve(k, r, d)
          PROVE  FALSE
      BY <2>1, <3>2 DEF LockQueue, Drain, Snapshot, Replay, Pump, Tally, Flood, PumpFails,
                        HangUp, Approve, storeVars
    <3>3. ASSUME UpdatePolicy \/ WatcherStep \/ StopWatcher PROVE FALSE
      BY <2>1, <3>3 DEF UpdatePolicy, WatcherStep, ScanQueue, ListBridge, ScanBridge, Expire,
                        StopWatcher, storeVars
    <3>4. CASE UNCHANGED vars BY <2>1, <3>4 DEF vars
    <3> QED BY <3>1, <3>2, <3>3, <3>4 DEF Next, ConnStep
  <2>3. CASE Connect(k) BY <2>3, ApprovalAssumption DEF Connect
  <2>4. CASE CloseConn(k) BY <2>1, <2>4 DEF CloseConn
  <2> QED BY <2>2, <2>3, <2>4
<1>2. ApprovalInv => TypeOK BY DEF ApprovalInv
<1> QED BY <1>1, <1>2, ApprovalInvariant, PTL DEF Spec, SlotIsKept
=============================================================================
