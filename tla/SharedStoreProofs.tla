------------------------- MODULE SharedStoreProofs -------------------------
(***************************************************************************)
(* The shared store for every number of callers, layers, keys and lease    *)
(* names and every channel capacity: no wait and no lease_acquire misses   *)
(* its wake-up, a connection that is gone holds nothing, total_bytes is    *)
(* the number of bytes stored, and a lease is never taken from its holder.       *)
(*                                                                         *)
(* Inductive invariant: StoreInv.  A wake-up is safe only because a task   *)
(* has nothing left to send when it starts its next operation (SendInv):   *)
(* otherwise the events of one would overwrite those of the other.         *)
(***************************************************************************)
EXTENDS SharedStore, FiniteSetTheorems, FunctionTheorems, SequenceTheorems, TLAPS

\* A call names a key or a lease according to its operation, and where it is follows from
\* the operation too.
CallInv ==
    \A a \in Actors :
        /\ call[a].op \in {"set", "cas", "wait"} => call[a].name \in Keys
        /\ call[a].op \in {"acquire", "try", "release"} => call[a].name \in Names
        /\ call[a].at = "check" => call[a].op = "wait"
        /\ call[a].at = "try" => call[a].op \in {"acquire", "try"}

\* A caller is in the queue of the lock once, while its call is queued.
QueueInv ==
    /\ \A i \in 1..Len(lockQ) : lockQ[i] \in Actors => call[lockQ[i]].at = "queued"
    /\ \A i, j \in 1..Len(lockQ) : lockQ[i] \in Actors /\ lockQ[i] = lockQ[j] => i = j

\* Only a call that is sending has events to send, and only a connection that is gone has
\* some of its cleanup's.
SendInv ==
    \A a \in Actors : /\ call[a].at # "send" => toSend[a] = <<>>
                      /\ gone[a] = "no" => toSend[Cleanup(a)] = <<>>

\* From the first step of the cleanup on, what the root's store still grants is late; from
\* the second on, so is what the run-global registry grants.
LeaveInv ==
    \A a \in Actors, n \in Names :
        /\ gone[a] # "no" /\ lease[Root][n].holder = a => <<Root, n>> \in late
        /\ gone[a] = "yes" /\ runLease[n].holder = a => <<"run", n>> \in late

StoreInv ==
    /\ TypeOK /\ CallInv /\ QueueInv /\ SendInv /\ LeaveInv
    /\ NoMissedWrite /\ NoForgottenWaiter /\ TotalIsSum

-----------------------------------------------------------------------------
(* The steps, by what they do to the store *)

Kept == UNCHANGED <<registered, lockQ, writer, reg, kvVars, leaseVars, runLease, toSend, gone, calls>>
Others == UNCHANGED <<registered, lockQ, writer, reg, kvVars, runLease, gone, calls>>

GrantsRead(a) ==
    /\ lockQ # <<>> /\ a = Head(lockQ) /\ readers' = readers \cup {a} /\ lockQ' = Tail(lockQ)
    /\ call' = [call EXCEPT ![a] = [@ EXCEPT !.at = "go"]]
    /\ UNCHANGED <<registered, writer, reg, kvVars, leaseVars, runLease, rx, toSend, gone, calls>>
GrantsWrite(s) ==
    /\ lockQ # <<>> /\ writer' = s /\ lockQ' = Tail(lockQ)
    /\ UNCHANGED <<registered, readers, call, reg, kvVars, leaseVars, runLease, rx, toSend, gone, calls>>

Returns(a) ==
    /\ call[a].at \notin {"idle", "queued"} /\ (call[a].at = "send" => toSend[a] = <<>>)
    /\ Return(a) /\ Kept
Subscribes(a, at) ==
    /\ call[a].at = "go" /\ at \in {"check", "try"} /\ Goto(a, at) /\ Kept
    /\ call[a].op \in (IF at = "check" THEN {"wait"} ELSE {"acquire", "try"})
Sleeps(a) == call[a].at = "check" /\ ~ Satisfied(a) /\ Goto(a, "waiting") /\ Kept
Skips(a) ==
    /\ call[a].at = "waiting" /\ call[a].op = "wait" /\ (rx[a].lag \/ rx[a].q # <<>>)
    /\ Satisfied(a) => /\ ~ rx[a].lag
                       /\ ~ (Head(rx[a].q).name = call[a].name /\ Head(rx[a].q).ver >= call[a].n)
    /\ rx' = [rx EXCEPT ![a] = Recv(rx[a])] /\ UNCHANGED <<call, readers>> /\ Kept
Ignores(a) ==
    /\ call[a].at = "waiting" /\ call[a].op = "acquire" /\ ~ rx[a].lag /\ rx[a].q # <<>>
    /\ Head(rx[a].q).name # call[a].name
    /\ rx' = [rx EXCEPT ![a] = Recv(rx[a])] /\ UNCHANGED <<call, readers>> /\ Kept
Retries(a) ==
    /\ call[a].at = "waiting" /\ call[a].op = "acquire" /\ (rx[a].lag \/ rx[a].q # <<>>)
    /\ rx' = [rx EXCEPT ![a] = Recv(rx[a])] /\ UNCHANGED readers /\ Kept
    /\ call' = [call EXCEPT ![a] = [@ EXCEPT !.at = "try"]]

Acquires(a) ==
    LET l == LayerOf[a]  n == call[a].name IN
    /\ call[a].at = "try" /\ (~ Held(l, n) \/ n \in Expired(l)) /\ ids' = ids + 1
    /\ Put(l, [Without(l, {}) EXCEPT ![n] = [holder |-> a, id |-> ids + 1, expired |-> FALSE]])
    /\ mine' = [mine EXCEPT ![a] = @ \cup {ids + 1}]
    /\ toSend' = [toSend EXCEPT ![a] = Events(l, Expired(l))]
    /\ swallowed' = swallowed \ {<<l, n>>} /\ late' = Late(a, <<l, n>>)
    /\ Goto(a, "send") /\ Others
Evicts(a) ==
    LET l == LayerOf[a]  n == call[a].name IN
    /\ call[a].at = "try" /\ Held(l, n) /\ n \notin Expired(l)
    /\ Put(l, Without(l, {})) /\ Swallow(l) /\ UNCHANGED <<ids, mine, late, toSend>> /\ Others
ConflictSleeps(a) == Evicts(a) /\ call[a].op = "acquire" /\ Goto(a, "waiting")
ConflictReturns(a) == Evicts(a) /\ Return(a)

Freed(a) == {n \in Names \ Expired(LayerOf[a]) :
               /\ Held(LayerOf[a], n) /\ lease[LayerOf[a]][n].id = call[a].n
               /\ lease[LayerOf[a]][n].holder = a}
Releases(a) ==
    LET l == LayerOf[a] IN
    /\ call[a].at = "go" /\ call[a].op = "release" /\ Put(l, Without(l, Freed(a)))
    /\ toSend' = [toSend EXCEPT ![a] = Events(l, Expired(l)) \o Events(l, Freed(a))]
    /\ Goto(a, "send") /\ UNCHANGED <<ids, mine, late, swallowed>> /\ Others
ReleaseFails(a) ==
    LET l == LayerOf[a] IN
    /\ call[a].at = "go" /\ call[a].op = "release" /\ Put(l, Without(l, {})) /\ Swallow(l)
    /\ Return(a) /\ UNCHANGED <<ids, mine, late, toSend>> /\ Others

Handles(a) ==
    \/ Returns(a) \/ Subscribes(a, "check") \/ Subscribes(a, "try") \/ Sleeps(a)
    \/ Skips(a) \/ Ignores(a) \/ Retries(a) \/ Write(a) \/ Acquires(a)
    \/ ConflictSleeps(a) \/ ConflictReturns(a) \/ Releases(a) \/ ReleaseFails(a)

\* Every step is one of these.
LEMMA StepCases ==
    ASSUME Next
    PROVE  \/ \E a \in Actors : GrantsRead(a)
           \/ \E s \in Subs : GrantsWrite(s) \/ WantWrite(s) \/ WriteMap(s)
           \/ \E p \in Senders : Send(p)
           \/ \E a \in Actors : Handles(a) \/ \E c \in Requests(a) : Call(a, c)
           \/ \E l \in Layers : Prune(l) \/ \E n \in Names : Expire(l, n)
           \/ \E a \in Actors : \E n \in menu.names : RunAcquire(a, n) \/ RunRelease(a, n)
           \/ \E a \in Actors : Disconnect(a) \/ ReleaseRunLeases(a) \/ SessionTail(a)
           \/ \E n \in Names : RunExpire(n)
<1>1. ASSUME Grant PROVE (\E a \in Actors : GrantsRead(a)) \/ (\E s \in Subs : GrantsWrite(s))
  BY <1>1 DEF Grant, GrantsRead, GrantsWrite
<1>2. ASSUME NEW a \in Actors, CallStep(a) \/ Timeout(a) PROVE Handles(a)
  <2>1. CASE Refuse(a) \/ Answer(a) \/ RejectWrite(a) \/ Timeout(a)
    <3>1. Returns(a)
      BY <2>1 DEF Refuse, Answer, RejectWrite, Timeout, Returns, Kept
    <3> QED BY <3>1 DEF Handles
  <2>2. CASE Subscribe(a)
    <3>1. CASE call[a].op = "wait"
      <4>1. Subscribes(a, "check") BY <2>2, <3>1 DEF Subscribe, Subscribes, Kept
      <4> QED BY <4>1 DEF Handles
    <3>2. CASE call[a].op # "wait"
      <4>1. Subscribes(a, "try") BY <2>2, <3>2 DEF Subscribe, Subscribes, Kept
      <4> QED BY <4>1 DEF Handles
    <3> QED BY <3>1, <3>2
  <2>3. CASE CheckEntry(a)
    <3>1. CASE Satisfied(a)
      <4>1. Returns(a) BY <2>3, <3>1 DEF CheckEntry, Returns, Kept
      <4> QED BY <4>1 DEF Handles
    <3>2. CASE ~ Satisfied(a)
      <4>1. Sleeps(a) BY <2>3, <3>2 DEF CheckEntry, Sleeps, Kept
      <4> QED BY <4>1 DEF Handles
    <3> QED BY <3>1, <3>2
  <2>4. CASE WaitTurn(a)
    <3> DEFINE e == Head(rx[a].q)
               T == Satisfied(a) /\ (rx[a].lag \/ (e.name = call[a].name /\ e.ver >= call[a].n))
    <3>1. CASE T
      <4>1. Returns(a) BY <2>4, <3>1 DEF WaitTurn, Returns, Kept
      <4> QED BY <4>1 DEF Handles
    <3>2. CASE ~ T
      <4>1. Skips(a) BY <2>4, <3>2 DEF WaitTurn, Skips, Kept
      <4> QED BY <4>1 DEF Handles
    <3> QED BY <3>1, <3>2
  <2>5. CASE LeaseTurn(a)
    <3>1. CASE rx[a].lag \/ Head(rx[a].q).name = call[a].name
      <4>1. Retries(a) BY <2>5, <3>1 DEF LeaseTurn, Retries, Kept, lockVars
      <4> QED BY <4>1 DEF Handles
    <3>2. CASE ~ (rx[a].lag \/ Head(rx[a].q).name = call[a].name)
      <4>1. Ignores(a) BY <2>5, <3>2 DEF LeaseTurn, Ignores, Kept, lockVars
      <4> QED BY <4>1 DEF Handles
    <3> QED BY <3>1, <3>2
  <2>6. CASE TryAcquire(a)
    <3>1. CASE ~ Held(LayerOf[a], call[a].name) \/ call[a].name \in Expired(LayerOf[a])
      <4>1. Acquires(a) BY <2>6, <3>1 DEF TryAcquire, Acquires, Others
      <4> QED BY <4>1 DEF Handles
    <3>2. CASE ~ (~ Held(LayerOf[a], call[a].name) \/ call[a].name \in Expired(LayerOf[a]))
      <4>1. Evicts(a) BY <2>6, <3>2 DEF TryAcquire, Evicts, Others
      <4>2. IF call[a].op = "acquire" THEN Goto(a, "waiting") ELSE Return(a)
        BY <2>6, <3>2 DEF TryAcquire
      <4>3. ConflictSleeps(a) \/ ConflictReturns(a)
        BY <4>1, <4>2 DEF ConflictSleeps, ConflictReturns
      <4> QED BY <4>3 DEF Handles
    <3> QED BY <3>1, <3>2
  <2>7. CASE Release(a)
    <3>1. CASE Freed(a) # {}
      <4>1. Releases(a) BY <2>7, <3>1 DEF Release, Releases, Others, Freed
      <4> QED BY <4>1 DEF Handles
    <3>2. CASE Freed(a) = {}
      <4>1. ReleaseFails(a) BY <2>7, <3>2 DEF Release, ReleaseFails, Others, Freed, Without
      <4> QED BY <4>1 DEF Handles
    <3> QED BY <3>1, <3>2
  <2>8. CASE Write(a) BY <2>8 DEF Handles
  <2> QED BY <1>2, <2>1, <2>2, <2>3, <2>4, <2>5, <2>6, <2>7, <2>8 DEF CallStep
<1> QED BY <1>1, <1>2 DEF Next, RunStep

-----------------------------------------------------------------------------
(* What the operators return *)

\* The sequence of a finite set names every member.
LEMMA SetToSeqCovers ==
    ASSUME NEW S, IsFiniteSet(S)
    PROVE  /\ SetToSeq(S) \in Seq(S)
           /\ \A x \in S : \E i \in 1..Len(SetToSeq(S)) : SetToSeq(S)[i] = x
<1> DEFINE n == Cardinality(S)
           f == SetToSeq(S)
<1>1. n \in Nat /\ ExistsBijection(1..n, S) BY FS_CardinalityType
<1>2. \E g \in [1..n -> S] : IsInjective(g)
  BY <1>1 DEF ExistsBijection, Bijection, Injection, IsInjective
<1>3. f \in [1..n -> S] /\ IsInjective(f) BY <1>2 DEF SetToSeq
<1> HIDE DEF n, f
<1>4. f \in Seq(S) /\ Len(f) = n
  <2>1. \E m \in Nat : f \in [1..m -> S] BY <1>1, <1>3
  <2>2. f \in Seq(S) BY <1>1, <1>3 DEF Seq
  <2> QED BY <1>1, <1>3, <2>2
<1>5. ASSUME NEW x \in S, \A i \in 1..n : f[i] # x PROVE FALSE
  <2>1. f \in [1..n -> S \ {x}] BY <1>3, <1>5
  <2>2. IsFiniteSet(S \ {x}) /\ Cardinality(S \ {x}) = n - 1 BY FS_RemoveElement DEF n
  <2>3. IsFiniteSet(1..n) /\ Cardinality(1..n) = n
    <3>1. 1 \in Int /\ n \in Int BY <1>1
    <3>2. IsFiniteSet(1..n) /\ Cardinality(1..n) = IF 1 > n THEN 0 ELSE n - 1 + 1
      BY <3>1, FS_Interval
    <3> QED BY <1>1, <3>2
  <2>4. Cardinality(S \ {x}) < Cardinality(1..n) BY <1>1, <2>2, <2>3
  <2>5. \E i, j \in 1..n : i # j /\ f[i] = f[j] BY <2>1, <2>2, <2>3, <2>4, FS_PigeonHole
  <2> QED BY <1>3, <2>5 DEF IsInjective
<1> QED BY <1>4, <1>5 DEF f

\* The events of an eviction: one for each name.
LEMMA EventsAre ==
    ASSUME NEW l \in Layers, NEW S \in SUBSET Names
    PROVE  /\ Events(l, S) \in Seq(Event)
           /\ \A n \in S : \E i \in 1..Len(Events(l, S)) :
                /\ Events(l, S)[i].layer = l /\ Events(l, S)[i].op = "acquire"
                /\ Events(l, S)[i].name = n
<1> DEFINE s == SetToSeq(S)
           ev(n) == [layer |-> l, op |-> "acquire", name |-> n, ver |-> 0]
<1>1. IsFiniteSet(S) BY StoreAssumption, FS_Subset
<1>2. s \in Seq(S) /\ \A n \in S : \E i \in 1..Len(s) : s[i] = n BY <1>1, SetToSeqCovers
<1>3. Events(l, S) = [i \in 1..Len(s) |-> ev(s[i])] BY DEF Events
<1> HIDE DEF s
<1>4. \A i \in 1..Len(s) : s[i] \in S /\ ev(s[i]) \in Event BY <1>2 DEF Event
<1>5. Len(s) \in Nat BY <1>2
<1>6. [i \in 1..Len(s) |-> ev(s[i])] \in Seq(Event) /\ Len([i \in 1..Len(s) |-> ev(s[i])]) = Len(s)
  BY <1>4, <1>5
<1> QED BY <1>2, <1>3, <1>4, <1>6

\* What a sweep of a layer's leases leaves.
LEMMA WithoutIs ==
    ASSUME LeaseOK, NEW l \in Layers, NEW S \in SUBSET Names
    PROVE  /\ Without(l, S) \in [Names -> Entry] /\ Expired(l) \in SUBSET Names
           /\ \A n \in Names : n \notin S /\ n \notin Expired(l) => Without(l, S)[n] = lease[l][n]
           /\ \A n \in Names : n \in S \/ n \in Expired(l) => Without(l, S)[n].holder = Nobody
BY DEF LeaseOK, Without, Expired, Free, Entry

\* One event received keeps a receiver's type; a full channel drops its oldest.
LEMMA ReceiveIs ==
    ASSUME NEW r \in [q : Seq(Event), lag : BOOLEAN], NEW e \in Event, Len(r.q) <= Capacity
    PROVE  /\ Receive(r, e) \in [q : Seq(Event), lag : BOOLEAN] /\ Len(Receive(r, e).q) <= Capacity
           /\ \/ Receive(r, e).lag = TRUE
              \/ Receive(r, e).lag = r.lag /\ Receive(r, e).q = Append(r.q, e)
<1> DEFINE q == Append(r.q, e)
<1>1. r.q \in Seq(Event) /\ r.lag \in BOOLEAN OBVIOUS
<1>2. q \in Seq(Event) /\ Len(q) = Len(r.q) + 1 /\ Len(r.q) \in Nat BY <1>1
<1>3. Capacity \in Nat BY StoreAssumption
<1>4. CASE Len(q) <= Capacity BY <1>1, <1>2, <1>4 DEF Receive
<1>5. CASE ~ (Len(q) <= Capacity)
  <2>1. Receive(r, e) = [q |-> Tail(q), lag |-> TRUE] BY <1>5 DEF Receive
  <2>2. Tail(q) \in Seq(Event) /\ Len(Tail(q)) = Len(q) - 1
    <3> HIDE DEF q
    <3>1. q # <<>> BY <1>2
    <3> QED BY <1>2, <3>1
  <2> QED BY <1>2, <1>3, <2>1, <2>2
<1> QED BY <1>4, <1>5

\* recv() keeps a receiver's type.
LEMMA RecvIs ==
    ASSUME NEW r \in [q : Seq(Event), lag : BOOLEAN], Len(r.q) <= Capacity, r.lag \/ r.q # <<>>
    PROVE  Recv(r) \in [q : Seq(Event), lag : BOOLEAN] /\ Len(Recv(r).q) <= Capacity
<1>1. r.q \in Seq(Event) /\ r.lag \in BOOLEAN /\ Capacity \in Nat BY StoreAssumption
<1>2. CASE r.lag BY <1>1, <1>2 DEF Recv
<1>3. CASE ~ r.lag
  <2>1. Tail(r.q) \in Seq(Event) /\ Len(Tail(r.q)) = Len(r.q) - 1 /\ Len(r.q) \in Nat
    BY <1>1, <1>3
  <2>2. Recv(r) = [r EXCEPT !.q = Tail(r.q)] BY <1>3 DEF Recv
  <2> QED BY <1>1, <2>1, <2>2, SMTT(60)
<1> QED BY <1>2, <1>3

\* The answer of one call leaves the others alone.
LEMMA ReturnIs ==
    ASSUME CallOK, NEW a \in Actors, Return(a)
    PROVE  /\ call' \in [Actors -> Request] /\ rx' \in [Actors -> [q : Seq(Event), lag : BOOLEAN]]
           /\ call'[a].op = "none" /\ call'[a].at = "idle" /\ rx'[a].q = <<>>
           /\ \A b \in Actors \ {a} : call'[b] = call[b] /\ rx'[b] = rx[b]
<1>1. Idle \in Request /\ Idle.op = "none" /\ Idle.at = "idle" BY DEF Idle, Request, Places
<1>2. NoRx \in [q : Seq(Event), lag : BOOLEAN] /\ NoRx.q = <<>> BY DEF NoRx
<1>3. /\ call \in [Actors -> Request] /\ rx \in [Actors -> [q : Seq(Event), lag : BOOLEAN]]
      /\ call' = [call EXCEPT ![a] = Idle] /\ rx' = [rx EXCEPT ![a] = NoRx]
  BY DEF CallOK, Return
<1> QED BY <1>1, <1>2, <1>3

\* A handler that goes on changes its place and nothing else.
LEMMA GotoIs ==
    ASSUME CallOK, NEW a \in Actors, NEW at \in Places,
           call' = [call EXCEPT ![a] = [@ EXCEPT !.at = at]]
    PROVE  /\ call' \in [Actors -> Request] /\ call'[a].at = at
           /\ call'[a].op = call[a].op /\ call'[a].name = call[a].name /\ call'[a].n = call[a].n
           /\ \A b \in Actors \ {a} : call'[b] = call[b]
<1>1. call \in [Actors -> Request] BY DEF CallOK
<1>2. call[a] \in Request BY <1>1
<1>3. [call[a] EXCEPT !.at = at] \in Request BY <1>2 DEF Request
<1>4. call'[a] = [call[a] EXCEPT !.at = at] BY <1>1
<1>5. call' \in [Actors -> Request] /\ \A b \in Actors \ {a} : call'[b] = call[b]
  BY <1>1, <1>3
<1> QED BY <1>2, <1>4, <1>5 DEF Request

\* What a caller may ask.
LEMMA RequestsAre ==
    ASSUME LeaseOK, menu \in Menus, NEW a \in Actors, NEW c \in Requests(a)
    PROVE  /\ c \in Request /\ c.at = "queued" /\ c.op # "none"
           /\ c.op \in {"set", "cas", "wait"} => c.name \in Keys
           /\ c.op \in {"acquire", "try", "release"} => c.name \in Names
<1>0. menu.keys \subseteq Keys /\ menu.names \subseteq Names /\ mine[a] \subseteq Nat /\ Sizes \subseteq Nat
  BY StoreAssumption DEF LeaseOK
<1>1. ASSUME NEW k \in menu.keys, NEW z \in Sizes, NEW v \in 0..1,
             c = [op |-> "cas", at |-> "queued", name |-> k, n |-> z, exp |-> v]
      PROVE  /\ c \in Request /\ c.at = "queued" /\ c.op = "cas" /\ c.name \in Keys
  BY <1>0, <1>1 DEF Request, AllOps, Places
<1>2. ASSUME NEW k \in menu.keys, NEW z \in Sizes,
             c = [op |-> "set", at |-> "queued", name |-> k, n |-> z, exp |-> 0]
      PROVE  /\ c \in Request /\ c.at = "queued" /\ c.op = "set" /\ c.name \in Keys
  BY <1>0, <1>2 DEF Request, AllOps, Places
<1>3. ASSUME NEW k \in menu.keys, NEW v \in 1..2,
             c = [op |-> "wait", at |-> "queued", name |-> k, n |-> v, exp |-> 0]
      PROVE  /\ c \in Request /\ c.at = "queued" /\ c.op = "wait" /\ c.name \in Keys
  BY <1>0, <1>3 DEF Request, AllOps, Places
<1>4. ASSUME NEW o \in {"acquire", "try"}, NEW n \in menu.names,
             c = [op |-> o, at |-> "queued", name |-> n, n |-> 0, exp |-> 0]
      PROVE  /\ c \in Request /\ c.at = "queued" /\ c.op \in {"acquire", "try"} /\ c.name \in Names
  BY <1>0, <1>4 DEF Request, AllOps, Places
<1>5. ASSUME NEW n \in menu.names, NEW i \in mine[a],
             c = [op |-> "release", at |-> "queued", name |-> n, n |-> i, exp |-> 0]
      PROVE  /\ c \in Request /\ c.at = "queued" /\ c.op = "release" /\ c.name \in Names
  BY <1>0, <1>5 DEF Request, AllOps, Places
<1>6. \/ \E k \in menu.keys, z \in Sizes, v \in 0..1 :
           c = [op |-> "cas", at |-> "queued", name |-> k, n |-> z, exp |-> v]
      \/ \E k \in menu.keys, z \in Sizes :
           c = [op |-> "set", at |-> "queued", name |-> k, n |-> z, exp |-> 0]
      \/ \E k \in menu.keys, v \in 1..2 :
           c = [op |-> "wait", at |-> "queued", name |-> k, n |-> v, exp |-> 0]
      \/ \E o \in {"acquire", "try"}, n \in menu.names :
           c = [op |-> o, at |-> "queued", name |-> n, n |-> 0, exp |-> 0]
      \/ \E n \in menu.names, i \in mine[a] :
           c = [op |-> "release", at |-> "queued", name |-> n, n |-> i, exp |-> 0]
  BY DEF Requests
<1> HIDE DEF Requests
<1> QED BY <1>1, <1>2, <1>3, <1>4, <1>5, <1>6

-----------------------------------------------------------------------------
(* The steps keep the invariant *)

\* The lock: who holds it is who is in the middle of a call.
LEMMA LockStep == StoreInv /\ [Next]_vars => LockOK'
<1> SUFFICES ASSUME StoreInv, [Next]_vars PROVE LockOK'
  OBVIOUS
<1> LockOK /\ CallOK /\ KeysOK /\ LeaseOK BY DEF StoreInv, TypeOK
<1> CallInv /\ QueueInv BY DEF StoreInv
<1> USE StoreAssumption
<1> menu' = menu /\ menu \in Menus BY DEF Next, vars, StoreInv, TypeOK, CallOK
<1> USE DEF LockOK
<1>1. ASSUME NEW a \in Actors, GrantsRead(a) PROVE LockOK'
  <2>1. call'[a].at = "go" /\ \A b \in Actors \ {a} : call'[b] = call[b]
    BY <1>1 DEF GrantsRead, CallOK, Request
  <2>2. Tail(lockQ) \in Seq(Actors \cup Subs) BY <1>1 DEF GrantsRead
  <2> QED BY <1>1, <2>1, <2>2 DEF GrantsRead
<1>2. ASSUME NEW s \in Subs, GrantsWrite(s) PROVE LockOK'
  BY <1>2 DEF GrantsWrite, kvVars, leaseVars
<1>3. ASSUME NEW s \in Subs, WantWrite(s) PROVE LockOK'
  BY <1>3 DEF WantWrite, kvVars, leaseVars
<1>4. ASSUME NEW s \in Subs, WriteMap(s) PROVE LockOK'
  BY <1>4 DEF WriteMap, kvVars, leaseVars
<1>5. ASSUME NEW p \in Senders, Send(p) PROVE LockOK'
  BY <1>5 DEF Send, kvVars, leaseVars, lockVars
<1>6. ASSUME NEW a \in Actors, NEW c \in Requests(a), Call(a, c) PROVE LockOK'
  <2>1. c.at = "queued" BY RequestsAre
  <2>2. /\ call' = [call EXCEPT ![a] = c] /\ lockQ' = Append(lockQ, a) /\ call[a] = Idle
        /\ UNCHANGED <<registered, readers, writer, reg>>
    BY <1>6 DEF Call
  <2>3. call'[a].at = "queued" /\ \A b \in Actors \ {a} : call'[b] = call[b]
    BY <2>1, <2>2 DEF CallOK
  <2>4. a \notin readers BY <2>2 DEF Idle
  <2> QED BY <2>2, <2>3, <2>4
<1>7. ASSUME NEW a \in Actors, Returns(a) PROVE LockOK'
  BY <1>7, ReturnIs DEF Returns, Kept, Return, kvVars, leaseVars
<1>8. ASSUME NEW a \in Actors, NEW at \in {"check", "try"}, Subscribes(a, at) PROVE LockOK'
  BY <1>8 DEF Subscribes, Kept, Goto, kvVars, leaseVars
<1>9. ASSUME NEW a \in Actors, Sleeps(a) PROVE LockOK'
  BY <1>9 DEF Sleeps, Kept, Goto, kvVars, leaseVars
<1>10. ASSUME NEW a \in Actors, Skips(a) PROVE LockOK'
  BY <1>10 DEF Skips, Kept, kvVars, leaseVars
<1>11. ASSUME NEW a \in Actors, Ignores(a) PROVE LockOK'
  BY <1>11 DEF Ignores, Kept, kvVars, leaseVars
<1>12. ASSUME NEW a \in Actors, Retries(a) PROVE LockOK'
  BY <1>12 DEF Retries, Kept, kvVars, leaseVars
<1>13. ASSUME NEW a \in Actors, Write(a) PROVE LockOK' BY <1>13 DEF Write, leaseVars, Goto
<1>14. ASSUME NEW a \in Actors, Acquires(a) PROVE LockOK'
  BY <1>14 DEF Acquires, Others, Goto, Put, kvVars
<1>15. ASSUME NEW a \in Actors, ConflictSleeps(a) PROVE LockOK'
  BY <1>15 DEF ConflictSleeps, Goto, Evicts, Others, kvVars, Put, Swallow
<1>16. ASSUME NEW a \in Actors, ConflictReturns(a) PROVE LockOK'
  BY <1>16, ReturnIs, ZenonT(60) DEF ConflictReturns, Return, Evicts, Others, kvVars, Put, Swallow
<1>17. ASSUME NEW a \in Actors, Releases(a) PROVE LockOK'
  BY <1>17 DEF Releases, Others, Goto, Put, kvVars
<1>18. ASSUME NEW a \in Actors, ReleaseFails(a) PROVE LockOK'
  BY <1>18, ReturnIs, ZenonT(60) DEF ReleaseFails, Others, Return, Put, Swallow, kvVars
<1>19. ASSUME NEW l \in Layers, Prune(l) PROVE LockOK'
  BY <1>19 DEF Prune, kvVars, lockVars, Put
<1>20. ASSUME NEW l \in Layers, NEW n \in Names, Expire(l, n) PROVE LockOK'
  BY <1>20 DEF Expire, kvVars, lockVars, Put
<1>21. ASSUME NEW a \in Actors, NEW n \in menu.names, RunAcquire(a, n) PROVE LockOK'
  BY <1>21 DEF RunAcquire, kvVars, lockVars
<1>22. ASSUME NEW a \in Actors, NEW n \in menu.names, RunRelease(a, n) PROVE LockOK'
  BY <1>22 DEF RunRelease, kvVars, leaseVars, lockVars
<1>23. ASSUME NEW a \in Actors, Disconnect(a) PROVE LockOK'
  BY <1>23 DEF Disconnect, kvVars, lockVars, Put
<1>24. ASSUME NEW a \in Actors, ReleaseRunLeases(a) PROVE LockOK'
  BY <1>24 DEF ReleaseRunLeases, kvVars, leaseVars, lockVars
<1>25. ASSUME NEW n \in Names, RunExpire(n) PROVE LockOK'
  BY <1>25 DEF RunExpire, kvVars, leaseVars, lockVars
<1>27. ASSUME NEW a \in Actors, SessionTail(a) PROVE LockOK'
  BY <1>27 DEF SessionTail, kvVars, leaseVars, lockVars
<1>26. CASE UNCHANGED vars BY <1>26 DEF vars
<1> HIDE DEF LockOK
<1> QED BY <1>1, <1>2, <1>3, <1>4, <1>5, <1>6, <1>7, <1>8, <1>9, <1>10, <1>11,
    <1>12, <1>13, <1>14, <1>15, <1>16, <1>17, <1>18, <1>19, <1>20, <1>21, <1>22,
    <1>23, <1>24, <1>25, <1>26, <1>27, StepCases DEF Handles

\* Calls, receivers and what is to be sent keep their types.
LEMMA CallStepOK == StoreInv /\ [Next]_vars => CallOK'
<1> SUFFICES ASSUME StoreInv, [Next]_vars PROVE CallOK'
  OBVIOUS
<1> LockOK /\ CallOK /\ KeysOK /\ LeaseOK BY DEF StoreInv, TypeOK
<1> CallInv /\ QueueInv BY DEF StoreInv
<1> USE StoreAssumption
<1> menu' = menu /\ menu \in Menus BY DEF Next, vars, StoreInv, TypeOK, CallOK
<1>1. ASSUME NEW a \in Actors, GrantsRead(a) PROVE CallOK'
  <2>1. call' = [call EXCEPT ![a] = [@ EXCEPT !.at = "go"]] /\ UNCHANGED <<rx, toSend, gone, calls>>
    BY <1>1 DEF GrantsRead, kvVars, leaseVars
  <2>2. "go" \in Places BY DEF Places
  <2>3. call' \in [Actors -> Request] BY <2>1, <2>2, GotoIs
  <2> QED BY <2>1, <2>3 DEF CallOK
<1>2. ASSUME NEW s \in Subs, GrantsWrite(s) PROVE CallOK'
  BY <1>2 DEF CallOK, GrantsWrite, kvVars, leaseVars
<1>3. ASSUME NEW s \in Subs, WantWrite(s) PROVE CallOK'
  BY <1>3 DEF CallOK, WantWrite, kvVars, leaseVars
<1>4. ASSUME NEW s \in Subs, WriteMap(s) PROVE CallOK'
  BY <1>4 DEF CallOK, WriteMap, kvVars, leaseVars
<1>5. ASSUME NEW p \in Senders, Send(p) PROVE CallOK'
  <2>1. /\ toSend[p] # <<>> /\ toSend' = [toSend EXCEPT ![p] = Tail(@)]
        /\ rx' = [a \in Actors |-> IF a \in Subscribed(Head(toSend[p]))
                                   THEN Receive(rx[a], Head(toSend[p])) ELSE rx[a]]
        /\ UNCHANGED <<call, gone, calls>>
    BY <1>5 DEF Send
  <2>2. toSend[p] \in Seq(Event) BY DEF CallOK
  <2>3. Head(toSend[p]) \in Event /\ Tail(toSend[p]) \in Seq(Event) BY <2>1, <2>2
  <2>4. ASSUME NEW a \in Actors PROVE rx'[a] \in [q : Seq(Event), lag : BOOLEAN] /\ Len(rx'[a].q) <= Capacity
    <3>1. rx[a] \in [q : Seq(Event), lag : BOOLEAN] /\ Len(rx[a].q) <= Capacity
      BY DEF CallOK
    <3>2. Receive(rx[a], Head(toSend[p])) \in [q : Seq(Event), lag : BOOLEAN]
          /\ Len(Receive(rx[a], Head(toSend[p])).q) <= Capacity
      BY <2>3, <3>1, ReceiveIs
    <3> QED BY <2>1, <3>1, <3>2
  <2>5. rx' \in [Actors -> [q : Seq(Event), lag : BOOLEAN]] BY <2>1, <2>4
  <2>6. toSend' \in [Senders -> Seq(Event)] BY <2>1, <2>3 DEF CallOK
  <2> QED BY <2>1, <2>4, <2>5, <2>6 DEF CallOK
<1>6. ASSUME NEW a \in Actors, NEW c \in Requests(a), Call(a, c) PROVE CallOK'
  <2>1. c \in Request BY RequestsAre
  <2>2. /\ call' = [call EXCEPT ![a] = c] /\ calls' = calls + 1 /\ UNCHANGED <<rx, toSend, gone>>
    BY <1>6 DEF Call
  <2> QED BY <2>1, <2>2 DEF CallOK
<1>7. ASSUME NEW a \in Actors, Returns(a) PROVE CallOK'
  <2>1. Return(a) /\ UNCHANGED <<toSend, gone, calls>>
    BY <1>7 DEF Returns, Kept, Return, kvVars, leaseVars
  <2>2. /\ call' \in [Actors -> Request] /\ rx' \in [Actors -> [q : Seq(Event), lag : BOOLEAN]] /\ rx'[a].q = <<>>
        /\ \A b \in Actors \ {a} : rx'[b] = rx[b]
    BY <2>1, ReturnIs
  <2>3. \A b \in Actors : Len(rx'[b].q) <= Capacity
    <3>1. Len(rx'[a].q) = 0 /\ Capacity \in Nat BY <2>2
    <3>2. \A b \in Actors \ {a} : Len(rx'[b].q) <= Capacity BY <2>2 DEF CallOK
    <3> QED BY <3>1, <3>2
  <2> QED BY <2>1, <2>2, <2>3 DEF CallOK
<1>8. ASSUME NEW a \in Actors, NEW at \in {"check", "try"}, Subscribes(a, at) PROVE CallOK'
  <2>1. call' = [call EXCEPT ![a] = [@ EXCEPT !.at = at]] /\ UNCHANGED <<rx, toSend, gone, calls>>
    BY <1>8 DEF Subscribes, Kept, Goto, kvVars, leaseVars
  <2>2. at \in Places BY DEF Places
  <2>3. call' \in [Actors -> Request] BY <2>1, <2>2, GotoIs
  <2> QED BY <2>1, <2>3 DEF CallOK
<1>9. ASSUME NEW a \in Actors, Sleeps(a) PROVE CallOK'
  <2>1. call' = [call EXCEPT ![a] = [@ EXCEPT !.at = "waiting"]] /\ UNCHANGED <<rx, toSend, gone, calls>>
    BY <1>9 DEF Sleeps, Kept, Goto, kvVars, leaseVars
  <2>2. "waiting" \in Places BY DEF Places
  <2>3. call' \in [Actors -> Request] BY <2>1, <2>2, GotoIs
  <2> QED BY <2>1, <2>3 DEF CallOK
<1>10. ASSUME NEW a \in Actors, Skips(a) PROVE CallOK'
  <2>1. /\ rx' = [rx EXCEPT ![a] = Recv(rx[a])] /\ UNCHANGED <<toSend, gone, calls>>
        /\ rx[a].lag \/ rx[a].q # <<>>
    BY <1>10 DEF Skips, Kept, kvVars, leaseVars
  <2>2. call' \in [Actors -> Request]
    BY <1>10 DEF CallOK, Skips
  <2>3. rx[a] \in [q : Seq(Event), lag : BOOLEAN] /\ Len(rx[a].q) <= Capacity BY DEF CallOK
  <2>4. Recv(rx[a]) \in [q : Seq(Event), lag : BOOLEAN] /\ Len(Recv(rx[a]).q) <= Capacity
    BY <2>1, <2>3, RecvIs
  <2>5. rx' \in [Actors -> [q : Seq(Event), lag : BOOLEAN]] /\ \A b \in Actors : Len(rx'[b].q) <= Capacity
    BY <2>1, <2>4 DEF CallOK
  <2> QED BY <2>1, <2>2, <2>5 DEF CallOK
<1>11. ASSUME NEW a \in Actors, Ignores(a) PROVE CallOK'
  <2>1. /\ rx' = [rx EXCEPT ![a] = Recv(rx[a])] /\ UNCHANGED <<toSend, gone, calls>>
        /\ rx[a].lag \/ rx[a].q # <<>>
    BY <1>11 DEF Ignores, Kept, kvVars, leaseVars
  <2>2. call' \in [Actors -> Request]
    BY <1>11 DEF CallOK, Ignores
  <2>3. rx[a] \in [q : Seq(Event), lag : BOOLEAN] /\ Len(rx[a].q) <= Capacity BY DEF CallOK
  <2>4. Recv(rx[a]) \in [q : Seq(Event), lag : BOOLEAN] /\ Len(Recv(rx[a]).q) <= Capacity
    BY <2>1, <2>3, RecvIs
  <2>5. rx' \in [Actors -> [q : Seq(Event), lag : BOOLEAN]] /\ \A b \in Actors : Len(rx'[b].q) <= Capacity
    BY <2>1, <2>4 DEF CallOK
  <2> QED BY <2>1, <2>2, <2>5 DEF CallOK
<1>12. ASSUME NEW a \in Actors, Retries(a) PROVE CallOK'
  <2>1. /\ rx' = [rx EXCEPT ![a] = Recv(rx[a])] /\ UNCHANGED <<toSend, gone, calls>>
        /\ rx[a].lag \/ rx[a].q # <<>>
    BY <1>12 DEF Retries, Kept, kvVars, leaseVars
  <2>2. call' \in [Actors -> Request]
    <3>1. "try" \in Places BY DEF Places
    <3> QED BY <1>12, <3>1, GotoIs DEF Retries
  <2>3. rx[a] \in [q : Seq(Event), lag : BOOLEAN] /\ Len(rx[a].q) <= Capacity BY DEF CallOK
  <2>4. Recv(rx[a]) \in [q : Seq(Event), lag : BOOLEAN] /\ Len(Recv(rx[a]).q) <= Capacity
    BY <2>1, <2>3, RecvIs
  <2>5. rx' \in [Actors -> [q : Seq(Event), lag : BOOLEAN]] /\ \A b \in Actors : Len(rx'[b].q) <= Capacity
    BY <2>1, <2>4 DEF CallOK
  <2> QED BY <2>1, <2>2, <2>5 DEF CallOK
<1>13. ASSUME NEW a \in Actors, Write(a) PROVE CallOK'
  <2>1. call' = [call EXCEPT ![a] = [@ EXCEPT !.at = "send"]] /\ UNCHANGED <<rx, gone, calls>>
    BY <1>13 DEF Write, leaseVars, Goto
  <2>2. "send" \in Places BY DEF Places
  <2>3. call' \in [Actors -> Request] BY <2>1, <2>2, GotoIs
  <2>4. PICK e \in Seq(Event) : toSend' = [toSend EXCEPT ![a] = e]
    <3> DEFINE e == [layer |-> LayerOf[a], op |-> "wait", name |-> call[a].name,
                     ver |-> ver[LayerOf[a]][call[a].name] + 1]
    <3>1. call[a].name \in Keys BY <1>13 DEF Write, CallInv
    <3>2. ver[LayerOf[a]][call[a].name] \in Nat BY <3>1 DEF KeysOK
    <3>3. e \in Event BY <3>1, <3>2 DEF Event
    <3>4. toSend' = [toSend EXCEPT ![a] = <<e>>] BY <1>13 DEF Write
    <3>5. <<e>> \in Seq(Event) BY <3>3
    <3> HIDE DEF e
    <3> QED BY <3>4, <3>5
  <2>5. toSend' \in [Senders -> Seq(Event)] BY <2>4 DEF CallOK
  <2> QED BY <2>1, <2>3, <2>5 DEF CallOK
<1>14. ASSUME NEW a \in Actors, Acquires(a) PROVE CallOK'
  <2>1. call' = [call EXCEPT ![a] = [@ EXCEPT !.at = "send"]] /\ UNCHANGED <<rx, gone, calls>>
    BY <1>14 DEF Acquires, Others, Goto, Put, kvVars
  <2>2. "send" \in Places BY DEF Places
  <2>3. call' \in [Actors -> Request] BY <2>1, <2>2, GotoIs
  <2>4. PICK e \in Seq(Event) : toSend' = [toSend EXCEPT ![a] = e]
    <3>1. Expired(LayerOf[a]) \in SUBSET Names BY DEF Expired
    <3>2. Events(LayerOf[a], Expired(LayerOf[a])) \in Seq(Event) BY <3>1, EventsAre
    <3> QED BY <1>14, <3>2 DEF Acquires
  <2>5. toSend' \in [Senders -> Seq(Event)] BY <2>4 DEF CallOK
  <2> QED BY <2>1, <2>3, <2>5 DEF CallOK
<1>15. ASSUME NEW a \in Actors, ConflictSleeps(a) PROVE CallOK'
  <2>1. call' = [call EXCEPT ![a] = [@ EXCEPT !.at = "waiting"]] /\ UNCHANGED <<rx, toSend, gone, calls>>
    BY <1>15 DEF ConflictSleeps, Goto, Evicts, Others, kvVars, Put, Swallow
  <2>2. "waiting" \in Places BY DEF Places
  <2>3. call' \in [Actors -> Request] BY <2>1, <2>2, GotoIs
  <2> QED BY <2>1, <2>3 DEF CallOK
<1>16. ASSUME NEW a \in Actors, ConflictReturns(a) PROVE CallOK'
  <2>1. Return(a) /\ UNCHANGED <<toSend, gone, calls>>
    BY <1>16 DEF ConflictReturns, Return, Evicts, Others, kvVars, Put, Swallow
  <2>2. /\ call' \in [Actors -> Request] /\ rx' \in [Actors -> [q : Seq(Event), lag : BOOLEAN]] /\ rx'[a].q = <<>>
        /\ \A b \in Actors \ {a} : rx'[b] = rx[b]
    BY <2>1, ReturnIs
  <2>3. \A b \in Actors : Len(rx'[b].q) <= Capacity
    <3>1. Len(rx'[a].q) = 0 /\ Capacity \in Nat BY <2>2
    <3>2. \A b \in Actors \ {a} : Len(rx'[b].q) <= Capacity BY <2>2 DEF CallOK
    <3> QED BY <3>1, <3>2
  <2> QED BY <2>1, <2>2, <2>3 DEF CallOK
<1>17. ASSUME NEW a \in Actors, Releases(a) PROVE CallOK'
  <2>1. call' = [call EXCEPT ![a] = [@ EXCEPT !.at = "send"]] /\ UNCHANGED <<rx, gone, calls>>
    BY <1>17 DEF Releases, Others, Goto, Put, kvVars
  <2>2. "send" \in Places BY DEF Places
  <2>3. call' \in [Actors -> Request] BY <2>1, <2>2, GotoIs
  <2>4. PICK e \in Seq(Event) : toSend' = [toSend EXCEPT ![a] = e]
    <3>1. Expired(LayerOf[a]) \in SUBSET Names /\ Freed(a) \in SUBSET Names
      BY DEF Expired, Freed
    <3>2. /\ Events(LayerOf[a], Expired(LayerOf[a])) \in Seq(Event)
          /\ Events(LayerOf[a], Freed(a)) \in Seq(Event)
      BY <3>1, EventsAre
    <3>3. Events(LayerOf[a], Expired(LayerOf[a])) \o Events(LayerOf[a], Freed(a)) \in Seq(Event)
      BY <3>2
    <3> QED BY <1>17, <3>3 DEF Releases
  <2>5. toSend' \in [Senders -> Seq(Event)] BY <2>4 DEF CallOK
  <2> QED BY <2>1, <2>3, <2>5 DEF CallOK
<1>18. ASSUME NEW a \in Actors, ReleaseFails(a) PROVE CallOK'
  <2>1. Return(a) /\ UNCHANGED <<toSend, gone, calls>>
    BY <1>18 DEF ReleaseFails, Others, Return, Put, Swallow, kvVars
  <2>2. /\ call' \in [Actors -> Request] /\ rx' \in [Actors -> [q : Seq(Event), lag : BOOLEAN]] /\ rx'[a].q = <<>>
        /\ \A b \in Actors \ {a} : rx'[b] = rx[b]
    BY <2>1, ReturnIs
  <2>3. \A b \in Actors : Len(rx'[b].q) <= Capacity
    <3>1. Len(rx'[a].q) = 0 /\ Capacity \in Nat BY <2>2
    <3>2. \A b \in Actors \ {a} : Len(rx'[b].q) <= Capacity BY <2>2 DEF CallOK
    <3> QED BY <3>1, <3>2
  <2> QED BY <2>1, <2>2, <2>3 DEF CallOK
<1>19. ASSUME NEW l \in Layers, Prune(l) PROVE CallOK'
  <2>1. Expired(l) \in SUBSET Names BY DEF Expired
  <2>2. Events(l, Expired(l)) \in Seq(Event) BY <2>1, EventsAre
  <2>3. toSend' = [toSend EXCEPT ![l] = Events(l, Expired(l))] /\ UNCHANGED <<call, rx, gone, calls>>
    BY <1>19 DEF Prune
  <2> QED BY <2>2, <2>3 DEF CallOK
<1>20. ASSUME NEW l \in Layers, NEW n \in Names, Expire(l, n) PROVE CallOK'
  BY <1>20 DEF CallOK, Expire, kvVars, lockVars, Put
<1>21. ASSUME NEW a \in Actors, NEW n \in menu.names, RunAcquire(a, n) PROVE CallOK'
  BY <1>21 DEF CallOK, RunAcquire, kvVars, lockVars
<1>22. ASSUME NEW a \in Actors, NEW n \in menu.names, RunRelease(a, n) PROVE CallOK'
  BY <1>22 DEF CallOK, RunRelease, kvVars, leaseVars, lockVars
<1>23. ASSUME NEW a \in Actors, Disconnect(a) PROVE CallOK'
  <2> DEFINE F == {n \in Names \ Expired(Root) : lease[Root][n].holder = a}
  <2>1. Expired(Root) \in SUBSET Names /\ F \in SUBSET Names /\ Root \in Layers
    BY DEF Expired, Layers
  <2>2. Events(Root, Expired(Root)) \in Seq(Event) /\ Events(Root, F) \in Seq(Event)
    BY <2>1, EventsAre
  <2>3. Events(Root, Expired(Root)) \o Events(Root, F) \in Seq(Event) BY <2>2
  <2>4. /\ toSend' = [toSend EXCEPT ![Cleanup(a)] = Events(Root, Expired(Root)) \o Events(Root, F)]
        /\ gone' = [gone EXCEPT ![a] = "store"] /\ UNCHANGED <<call, rx, calls>>
    BY <1>23 DEF Disconnect, lockVars
  <2> QED BY <2>3, <2>4 DEF CallOK
<1>24. ASSUME NEW a \in Actors, ReleaseRunLeases(a) PROVE CallOK'
  BY <1>24 DEF CallOK, ReleaseRunLeases, kvVars, leaseVars, lockVars
<1>25. ASSUME NEW n \in Names, RunExpire(n) PROVE CallOK'
  BY <1>25 DEF CallOK, RunExpire, kvVars, leaseVars, lockVars
<1>27. ASSUME NEW a \in Actors, SessionTail(a) PROVE CallOK'
  BY <1>27 DEF CallOK, SessionTail, kvVars, leaseVars, lockVars
<1>26. CASE UNCHANGED vars BY <1>26 DEF vars, CallOK
<1> QED BY <1>1, <1>2, <1>3, <1>4, <1>5, <1>6, <1>7, <1>8, <1>9, <1>10, <1>11,
    <1>12, <1>13, <1>14, <1>15, <1>16, <1>17, <1>18, <1>19, <1>20, <1>21, <1>22,
    <1>23, <1>24, <1>25, <1>26, <1>27, StepCases DEF Handles

\* Leases keep their types.
LEMMA LeaseStepOK == StoreInv /\ [Next]_vars => LeaseOK'
<1> SUFFICES ASSUME StoreInv, [Next]_vars PROVE LeaseOK'
  OBVIOUS
<1> LockOK /\ CallOK /\ KeysOK /\ LeaseOK BY DEF StoreInv, TypeOK
<1> CallInv /\ QueueInv BY DEF StoreInv
<1> USE StoreAssumption
<1> menu' = menu /\ menu \in Menus BY DEF Next, vars, StoreInv, TypeOK, CallOK
<1>1. ASSUME NEW a \in Actors, GrantsRead(a) PROVE LeaseOK'
  BY <1>1 DEF LeaseOK, GrantsRead, kvVars, leaseVars
<1>2. ASSUME NEW s \in Subs, GrantsWrite(s) PROVE LeaseOK'
  BY <1>2 DEF LeaseOK, GrantsWrite, kvVars, leaseVars
<1>3. ASSUME NEW s \in Subs, WantWrite(s) PROVE LeaseOK'
  BY <1>3 DEF LeaseOK, WantWrite, kvVars, leaseVars
<1>4. ASSUME NEW s \in Subs, WriteMap(s) PROVE LeaseOK'
  BY <1>4 DEF LeaseOK, WriteMap, kvVars, leaseVars
<1>5. ASSUME NEW p \in Senders, Send(p) PROVE LeaseOK'
  BY <1>5 DEF LeaseOK, Send, kvVars, leaseVars, lockVars
<1>6. ASSUME NEW a \in Actors, NEW c \in Requests(a), Call(a, c) PROVE LeaseOK'
  BY <1>6 DEF LeaseOK, Call, kvVars, leaseVars
<1>7. ASSUME NEW a \in Actors, Returns(a) PROVE LeaseOK'
  BY <1>7 DEF LeaseOK, Returns, Kept, Return, kvVars, leaseVars
<1>8. ASSUME NEW a \in Actors, NEW at \in {"check", "try"}, Subscribes(a, at) PROVE LeaseOK'
  BY <1>8 DEF LeaseOK, Subscribes, Kept, Goto, kvVars, leaseVars
<1>9. ASSUME NEW a \in Actors, Sleeps(a) PROVE LeaseOK'
  BY <1>9 DEF LeaseOK, Sleeps, Kept, Goto, kvVars, leaseVars
<1>10. ASSUME NEW a \in Actors, Skips(a) PROVE LeaseOK'
  BY <1>10 DEF LeaseOK, Skips, Kept, kvVars, leaseVars
<1>11. ASSUME NEW a \in Actors, Ignores(a) PROVE LeaseOK'
  BY <1>11 DEF LeaseOK, Ignores, Kept, kvVars, leaseVars
<1>12. ASSUME NEW a \in Actors, Retries(a) PROVE LeaseOK'
  BY <1>12 DEF LeaseOK, Retries, Kept, kvVars, leaseVars
<1>13. ASSUME NEW a \in Actors, Write(a) PROVE LeaseOK'
  BY <1>13 DEF LeaseOK, Write, leaseVars, Goto
<1>14. ASSUME NEW a \in Actors, Acquires(a) PROVE LeaseOK'
  <2> DEFINE l == LayerOf[a]
             n == call[a].name
             e == [holder |-> a, id |-> ids + 1, expired |-> FALSE]
  <2>1. n \in Names /\ l \in Layers BY <1>14 DEF Acquires, CallInv
  <2>2. Without(l, {}) \in [Names -> Entry] BY <2>1, WithoutIs
  <2>3. e \in Entry BY DEF Entry, LeaseOK
  <2>4. /\ lease' = [lease EXCEPT ![l] = [Without(l, {}) EXCEPT ![n] = e]]
        /\ ids' = ids + 1 /\ mine' = [mine EXCEPT ![a] = @ \cup {ids + 1}] /\ UNCHANGED runLease
    BY <1>14 DEF Acquires, Put, Others
  <2> HIDE DEF l, n, e
  <2>5. [Without(l, {}) EXCEPT ![n] = e] \in [Names -> Entry] BY <2>1, <2>2, <2>3
  <2> QED BY <2>1, <2>4, <2>5 DEF LeaseOK
<1>15. ASSUME NEW a \in Actors, ConflictSleeps(a) PROVE LeaseOK'
  <2>1. {} \in SUBSET Names BY DEF Freed
  <2>2. Without(LayerOf[a], {}) \in [Names -> Entry] BY <2>1, WithoutIs
  <2>3. /\ lease' = [lease EXCEPT ![LayerOf[a]] = Without(LayerOf[a], {})]
        /\ UNCHANGED <<runLease, ids, mine>>
    BY <1>15 DEF ConflictSleeps, Goto, Evicts, Others, kvVars, Put, Swallow
  <2> QED BY <2>2, <2>3 DEF LeaseOK
<1>16. ASSUME NEW a \in Actors, ConflictReturns(a) PROVE LeaseOK'
  <2>1. {} \in SUBSET Names BY DEF Freed
  <2>2. Without(LayerOf[a], {}) \in [Names -> Entry] BY <2>1, WithoutIs
  <2>3. /\ lease' = [lease EXCEPT ![LayerOf[a]] = Without(LayerOf[a], {})]
        /\ UNCHANGED <<runLease, ids, mine>>
    BY <1>16 DEF ConflictReturns, Return, Evicts, Others, kvVars, Put, Swallow
  <2> QED BY <2>2, <2>3 DEF LeaseOK
<1>17. ASSUME NEW a \in Actors, Releases(a) PROVE LeaseOK'
  <2>1. Freed(a) \in SUBSET Names BY DEF Freed
  <2>2. Without(LayerOf[a], Freed(a)) \in [Names -> Entry] BY <2>1, WithoutIs
  <2>3. /\ lease' = [lease EXCEPT ![LayerOf[a]] = Without(LayerOf[a], Freed(a))]
        /\ UNCHANGED <<runLease, ids, mine>>
    BY <1>17 DEF Releases, Others, Goto, Put, kvVars
  <2> QED BY <2>2, <2>3 DEF LeaseOK
<1>18. ASSUME NEW a \in Actors, ReleaseFails(a) PROVE LeaseOK'
  <2>1. {} \in SUBSET Names BY DEF Freed
  <2>2. Without(LayerOf[a], {}) \in [Names -> Entry] BY <2>1, WithoutIs
  <2>3. /\ lease' = [lease EXCEPT ![LayerOf[a]] = Without(LayerOf[a], {})]
        /\ UNCHANGED <<runLease, ids, mine>>
    BY <1>18 DEF ReleaseFails, Others, Return, Put, Swallow, kvVars
  <2> QED BY <2>2, <2>3 DEF LeaseOK
<1>19. ASSUME NEW l \in Layers, Prune(l) PROVE LeaseOK'
  <2>1. Without(l, {}) \in [Names -> Entry] BY WithoutIs
  <2>2. lease' = [lease EXCEPT ![l] = Without(l, {})] /\ UNCHANGED <<runLease, ids, mine>>
    BY <1>19 DEF Prune, Put
  <2> QED BY <2>1, <2>2 DEF LeaseOK
<1>20. ASSUME NEW l \in Layers, NEW n \in Names, Expire(l, n) PROVE LeaseOK'
  <2>1. lease' = [lease EXCEPT ![l] = [lease[l] EXCEPT ![n] = [@ EXCEPT !.expired = TRUE]]]
        /\ UNCHANGED <<runLease, ids, mine>>
    BY <1>20 DEF Expire, Put
  <2>2. lease[l] \in [Names -> Entry] /\ lease[l][n] \in Entry BY DEF LeaseOK
  <2>3. [lease[l][n] EXCEPT !.expired = TRUE] \in Entry BY <2>2 DEF Entry
  <2>4. [lease[l] EXCEPT ![n] = [@ EXCEPT !.expired = TRUE]] \in [Names -> Entry]
    BY <2>2, <2>3
  <2> QED BY <2>1, <2>4 DEF LeaseOK
<1>21. ASSUME NEW a \in Actors, NEW n \in menu.names, RunAcquire(a, n) PROVE LeaseOK'
  <2>1. [holder |-> a, id |-> 0, expired |-> FALSE] \in Entry BY DEF Entry
  <2> QED BY <1>21, <2>1 DEF LeaseOK, RunAcquire
<1>22. ASSUME NEW a \in Actors, NEW n \in menu.names, RunRelease(a, n) PROVE LeaseOK'
  <2>1. Free \in Entry BY DEF Entry, Free
  <2> QED BY <1>22, <2>1 DEF LeaseOK, RunRelease, kvVars, leaseVars, lockVars
<1>23. ASSUME NEW a \in Actors, Disconnect(a) PROVE LeaseOK'
  <2> DEFINE F == {n \in Names \ Expired(Root) : lease[Root][n].holder = a}
  <2>1. F \in SUBSET Names /\ Root \in Layers BY DEF Layers
  <2>2. Without(Root, F) \in [Names -> Entry] BY <2>1, WithoutIs
  <2>3. lease' = [lease EXCEPT ![Root] = Without(Root, F)] /\ UNCHANGED <<runLease, ids, mine>>
    BY <1>23 DEF Disconnect, Put
  <2> QED BY <2>2, <2>3 DEF LeaseOK
<1>24. ASSUME NEW a \in Actors, ReleaseRunLeases(a) PROVE LeaseOK'
  <2>1. Free \in Entry BY DEF Entry, Free
  <2> QED BY <1>24, <2>1 DEF LeaseOK, ReleaseRunLeases, FreeHeldBy, kvVars, leaseVars, lockVars
<1>25. ASSUME NEW n \in Names, RunExpire(n) PROVE LeaseOK'
  <2>1. runLease[n] \in Entry BY DEF LeaseOK
  <2>2. [runLease[n] EXCEPT !.expired = TRUE] \in Entry BY <2>1 DEF Entry
  <2> QED BY <1>25, <2>2 DEF LeaseOK, RunExpire, kvVars, leaseVars, lockVars
<1>27. ASSUME NEW a \in Actors, SessionTail(a) PROVE LeaseOK'
  <2>1. Free \in Entry BY DEF Entry, Free
  <2> QED BY <1>27, <2>1 DEF LeaseOK, SessionTail, FreeHeldBy, leaseVars
<1>26. CASE UNCHANGED vars BY <1>26 DEF vars, LeaseOK
<1> QED BY <1>1, <1>2, <1>3, <1>4, <1>5, <1>6, <1>7, <1>8, <1>9, <1>10, <1>11,
    <1>12, <1>13, <1>14, <1>15, <1>16, <1>17, <1>18, <1>19, <1>20, <1>21, <1>22,
    <1>23, <1>24, <1>25, <1>26, <1>27, StepCases DEF Handles

\* Nothing of a layer's keys moves.
LEMMA KeysFrame == ASSUME KeysOK, TotalIsSum, UNCHANGED kvVars PROVE (KeysOK /\ TotalIsSum)'
BY DEF KeysOK, TotalIsSum, kvVars


\* The bytes under the keys of K.
Bytes(f, K) == UNION {{y} \X (1..f[y]) : y \in K}

LEMMA BytesFinite ==
    ASSUME NEW K, IsFiniteSet(K), NEW f, \A y \in K : f[y] \in Nat
    PROVE  IsFiniteSet(Bytes(f, K))
<1> DEFINE g == [y \in K |-> {y} \X (1..f[y])]
           T == {{y} \X (1..f[y]) : y \in K}
<1>1. g \in Surjection(K, T) BY DEF Surjection
<1> HIDE DEF g
<1>2. IsFiniteSet(T)
  <2> HIDE DEF T
  <2> QED BY <1>1, FS_Surjection
<1>3. ASSUME NEW y \in K PROVE IsFiniteSet({y} \X (1..f[y]))
  <2>1. IsFiniteSet({y}) BY FS_Singleton
  <2>2. IsFiniteSet(1..f[y]) BY FS_Interval
  <2> QED BY <2>1, <2>2, FS_Product
<1>4. \A U \in T : IsFiniteSet(U) BY <1>3
<1> HIDE DEF T
<1>5. IsFiniteSet(UNION T) BY <1>2, <1>4, FS_UNION
<1> QED BY <1>5 DEF T, Bytes

\* One key's bytes are as many as its size, and nobody else's.
LEMMA BytesOfKey ==
    ASSUME NEW K, IsFiniteSet(K), NEW f, \A y \in K : f[y] \in Nat, NEW k \in K
    PROVE  /\ Cardinality(Bytes(f, K)) \in Nat /\ Cardinality(Bytes(f, K \ {k})) \in Nat
           /\ Cardinality(Bytes(f, K)) = Cardinality(Bytes(f, K \ {k})) + f[k]
<1> DEFINE R == Bytes(f, K \ {k})
           P == {k} \X (1..f[k])
<1>1. IsFiniteSet(K \ {k}) BY FS_Subset
<1>2. IsFiniteSet(R) BY <1>1, BytesFinite
<1>3. IsFiniteSet(P) /\ Cardinality(P) = f[k]
  <2>1. IsFiniteSet({k}) /\ Cardinality({k}) = 1 BY FS_Singleton
  <2>2. IsFiniteSet(1..f[k]) /\ Cardinality(1..f[k]) = f[k] BY FS_Interval
  <2>3. IsFiniteSet(P) /\ Cardinality(P) = Cardinality({k}) * Cardinality(1..f[k])
    BY <2>1, <2>2, FS_Product
  <2>4. f[k] \in Nat OBVIOUS
  <2> HIDE DEF P
  <2> QED BY <2>1, <2>2, <2>3, <2>4
<1>4. Bytes(f, K) = R \cup P BY DEF Bytes
<1>5. R \cap P = {} BY DEF Bytes
<1> HIDE DEF R, P
<1>6. Cardinality(R \cup P) = Cardinality(R) + Cardinality(P) - Cardinality(R \cap P)
  BY <1>2, <1>3, FS_Union
<1>7. Cardinality(R \cap P) = 0 BY <1>5, FS_EmptySet
<1>8. Cardinality(R) \in Nat /\ f[k] \in Nat BY <1>2, FS_CardinalityType
<1>9. Cardinality(Bytes(f, K)) = Cardinality(R) + f[k] BY <1>3, <1>4, <1>6, <1>7, <1>8
<1> QED BY <1>8, <1>9 DEF R

\* A key's new size changes the number of bytes by the difference.
LEMMA StoredChanges ==
    ASSUME NEW f, NEW h, NEW k \in Keys, \A y \in Keys : f[y] \in Nat, h[k] \in Nat,
           \A y \in Keys \ {k} : h[y] = f[y]
    PROVE  /\ Cardinality(Stored(f)) \in Nat /\ Cardinality(Stored(h)) \in Nat
           /\ Cardinality(Stored(h)) + f[k] = Cardinality(Stored(f)) + h[k]
<1>1. IsFiniteSet(Keys) BY StoreAssumption
<1>2. \A y \in Keys : h[y] \in Nat OBVIOUS
<1>3. Bytes(h, Keys \ {k}) = Bytes(f, Keys \ {k}) BY DEF Bytes
<1>4. Stored(f) = Bytes(f, Keys) /\ Stored(h) = Bytes(h, Keys) BY DEF Stored, Bytes
<1>5. /\ Cardinality(Bytes(f, Keys)) \in Nat /\ Cardinality(Bytes(f, Keys \ {k})) \in Nat
      /\ Cardinality(Bytes(f, Keys)) = Cardinality(Bytes(f, Keys \ {k})) + f[k]
  BY <1>1, BytesOfKey
<1>6. /\ Cardinality(Bytes(h, Keys)) \in Nat
      /\ Cardinality(Bytes(h, Keys)) = Cardinality(Bytes(h, Keys \ {k})) + h[k]
  BY <1>1, <1>2, BytesOfKey
<1> QED BY <1>3, <1>4, <1>5, <1>6

\* total_bytes is the number of bytes stored.
LEMMA KeysStep == StoreInv /\ [Next]_vars => (KeysOK /\ TotalIsSum)'
<1> SUFFICES ASSUME StoreInv, [Next]_vars PROVE (KeysOK /\ TotalIsSum)'
  OBVIOUS
<1> LockOK /\ CallOK /\ KeysOK /\ LeaseOK BY DEF StoreInv, TypeOK
<1> CallInv /\ QueueInv BY DEF StoreInv
<1> USE StoreAssumption
<1> TotalIsSum BY DEF StoreInv
<1> menu' = menu /\ menu \in Menus BY DEF Next, vars, StoreInv, TypeOK, CallOK
<1>1. ASSUME NEW a \in Actors, GrantsRead(a) PROVE (KeysOK /\ TotalIsSum)'
  <2>1. UNCHANGED kvVars BY <1>1 DEF GrantsRead, kvVars, leaseVars
  <2> QED BY <2>1, KeysFrame
<1>2. ASSUME NEW s \in Subs, GrantsWrite(s) PROVE (KeysOK /\ TotalIsSum)'
  <2>1. UNCHANGED kvVars BY <1>2 DEF GrantsWrite, kvVars, leaseVars
  <2> QED BY <2>1, KeysFrame
<1>3. ASSUME NEW s \in Subs, WantWrite(s) PROVE (KeysOK /\ TotalIsSum)'
  <2>1. UNCHANGED kvVars BY <1>3 DEF WantWrite, kvVars, leaseVars
  <2> QED BY <2>1, KeysFrame
<1>4. ASSUME NEW s \in Subs, WriteMap(s) PROVE (KeysOK /\ TotalIsSum)'
  <2>1. UNCHANGED kvVars BY <1>4 DEF WriteMap, kvVars, leaseVars
  <2> QED BY <2>1, KeysFrame
<1>5. ASSUME NEW p \in Senders, Send(p) PROVE (KeysOK /\ TotalIsSum)'
  <2>1. UNCHANGED kvVars BY <1>5 DEF Send, kvVars, leaseVars, lockVars
  <2> QED BY <2>1, KeysFrame
<1>6. ASSUME NEW a \in Actors, NEW c \in Requests(a), Call(a, c) PROVE (KeysOK /\ TotalIsSum)'
  <2>1. UNCHANGED kvVars BY <1>6 DEF Call, kvVars, leaseVars
  <2> QED BY <2>1, KeysFrame
<1>7. ASSUME NEW a \in Actors, Returns(a) PROVE (KeysOK /\ TotalIsSum)'
  <2>1. UNCHANGED kvVars BY <1>7 DEF Returns, Kept, Return, kvVars, leaseVars
  <2> QED BY <2>1, KeysFrame
<1>8. ASSUME NEW a \in Actors, NEW at \in {"check", "try"}, Subscribes(a, at) PROVE (KeysOK /\ TotalIsSum)'
  <2>1. UNCHANGED kvVars BY <1>8 DEF Subscribes, Kept, Goto, kvVars, leaseVars
  <2> QED BY <2>1, KeysFrame
<1>9. ASSUME NEW a \in Actors, Sleeps(a) PROVE (KeysOK /\ TotalIsSum)'
  <2>1. UNCHANGED kvVars BY <1>9 DEF Sleeps, Kept, Goto, kvVars, leaseVars
  <2> QED BY <2>1, KeysFrame
<1>10. ASSUME NEW a \in Actors, Skips(a) PROVE (KeysOK /\ TotalIsSum)'
  <2>1. UNCHANGED kvVars BY <1>10 DEF Skips, Kept, kvVars, leaseVars
  <2> QED BY <2>1, KeysFrame
<1>11. ASSUME NEW a \in Actors, Ignores(a) PROVE (KeysOK /\ TotalIsSum)'
  <2>1. UNCHANGED kvVars BY <1>11 DEF Ignores, Kept, kvVars, leaseVars
  <2> QED BY <2>1, KeysFrame
<1>12. ASSUME NEW a \in Actors, Retries(a) PROVE (KeysOK /\ TotalIsSum)'
  <2>1. UNCHANGED kvVars BY <1>12 DEF Retries, Kept, kvVars, leaseVars
  <2> QED BY <2>1, KeysFrame
<1>13. ASSUME NEW a \in Actors, Write(a) PROVE (KeysOK /\ TotalIsSum)'
  <2> DEFINE l == LayerOf[a]
             k == call[a].name
             n == call[a].n
  <2>1. k \in Keys /\ l \in Layers /\ n \in Nat BY <1>13 DEF Write, CallInv, CallOK, Request
  <2>2. /\ ver' = [ver EXCEPT ![l] = [@ EXCEPT ![k] = ver[l][k] + 1]]
        /\ size' = [size EXCEPT ![l] = [@ EXCEPT ![k] = n]]
        /\ total' = [total EXCEPT ![l] = total[l] - size[l][k] + n]
        /\ total[l] - size[l][k] + n <= MaxTotal
    <3>1. ~ (Projected(l, k, n) > MaxTotal) BY <1>13 DEF Write, Rejected
    <3>2. total[l] \in Nat /\ size[l][k] \in Nat /\ MaxTotal \in Nat BY <2>1 DEF KeysOK
    <3>3. Projected(l, k, n) <= MaxTotal BY <2>1, <3>1, <3>2 DEF Projected
    <3> QED BY <1>13, <3>3 DEF Write, Projected
  <2> HIDE DEF l, k, n
  <2>3. /\ size \in [Layers -> [Keys -> Nat]] /\ ver \in [Layers -> [Keys -> Nat]]
        /\ total \in [Layers -> Nat]
    BY DEF KeysOK
  <2>4. size[l] \in [Keys -> Nat] /\ ver[l] \in [Keys -> Nat] BY <2>1, <2>3
  <2>5. size' \in [Layers -> [Keys -> Nat]] /\ size'[l] = [size[l] EXCEPT ![k] = n]
    BY <2>1, <2>2, <2>3, <2>4
  <2>6. ver' \in [Layers -> [Keys -> Nat]] /\ ver'[l] = [ver[l] EXCEPT ![k] = ver[l][k] + 1]
    BY <2>1, <2>2, <2>3, <2>4
  <2>7. /\ total[l] = Cardinality(Stored(size[l])) /\ total[l] \in Nat
        /\ total'[l] = total[l] - size[l][k] + n
    BY <2>1, <2>2, <2>3 DEF TotalIsSum
  <2>8. /\ Cardinality(Stored(size'[l])) \in Nat
        /\ Cardinality(Stored(size'[l])) + size[l][k] = Cardinality(Stored(size[l])) + n
    <3> DEFINE f == size[l]
               h == size'[l]
    <3>1. \A y \in Keys : f[y] \in Nat BY <2>4
    <3>2. h[k] = n BY <2>1, <2>4, <2>5
    <3>3. \A y \in Keys \ {k} : h[y] = f[y] BY <2>4, <2>5
    <3> HIDE DEF f, h
    <3>5. h[k] \in Nat BY <2>1, <3>2
    <3>6. /\ Cardinality(Stored(h)) \in Nat
          /\ Cardinality(Stored(h)) + f[k] = Cardinality(Stored(f)) + h[k]
      BY <2>1, <3>1, <3>3, <3>5, StoredChanges
    <3> QED BY <3>2, <3>6 DEF f, h
  <2>10. total'[l] = Cardinality(Stored(size'[l])) /\ total'[l] <= MaxTotal /\ total'[l] \in Nat
    <3>1. size[l][k] \in Nat BY <2>1, <2>4
    <3> QED BY <2>1, <2>2, <2>7, <2>8, <3>1
  <2>11. \A m \in Layers \ {l} : total'[m] = total[m] /\ size'[m] = size[m] /\ ver'[m] = ver[m]
    BY <2>2, <2>3
  <2>12. total' \in [Layers -> Nat] BY <2>1, <2>2, <2>3, <2>10
  <2>13. \A m \in Layers, j \in Keys : ver'[m][j] = 0 => size'[m][j] = 0
    <3>1. ASSUME NEW j \in Keys, ver'[l][j] = 0 PROVE size'[l][j] = 0
      <4>1. j # k BY <2>1, <2>4, <2>6, <3>1
      <4> QED BY <2>1, <2>4, <2>5, <2>6, <3>1, <4>1 DEF KeysOK
    <3> QED BY <2>11, <3>1 DEF KeysOK
  <2>14. \A m \in Layers : total'[m] = Cardinality(Stored(size'[m])) /\ total'[m] <= MaxTotal
    BY <2>10, <2>11 DEF TotalIsSum
  <2> QED BY <2>5, <2>6, <2>12, <2>13, <2>14 DEF KeysOK, TotalIsSum
<1>14. ASSUME NEW a \in Actors, Acquires(a) PROVE (KeysOK /\ TotalIsSum)'
  <2>1. UNCHANGED kvVars BY <1>14 DEF Acquires, Others, Goto, Put, kvVars
  <2> QED BY <2>1, KeysFrame
<1>15. ASSUME NEW a \in Actors, ConflictSleeps(a) PROVE (KeysOK /\ TotalIsSum)'
  <2>1. UNCHANGED kvVars
    BY <1>15 DEF ConflictSleeps, Goto, Evicts, Others, kvVars, Put, Swallow
  <2> QED BY <2>1, KeysFrame
<1>16. ASSUME NEW a \in Actors, ConflictReturns(a) PROVE (KeysOK /\ TotalIsSum)'
  <2>1. UNCHANGED kvVars
    BY <1>16 DEF ConflictReturns, Return, Evicts, Others, kvVars, Put, Swallow
  <2> QED BY <2>1, KeysFrame
<1>17. ASSUME NEW a \in Actors, Releases(a) PROVE (KeysOK /\ TotalIsSum)'
  <2>1. UNCHANGED kvVars BY <1>17 DEF Releases, Others, Goto, Put, kvVars
  <2> QED BY <2>1, KeysFrame
<1>18. ASSUME NEW a \in Actors, ReleaseFails(a) PROVE (KeysOK /\ TotalIsSum)'
  <2>1. UNCHANGED kvVars BY <1>18 DEF ReleaseFails, Others, Return, Put, Swallow, kvVars
  <2> QED BY <2>1, KeysFrame
<1>19. ASSUME NEW l \in Layers, Prune(l) PROVE (KeysOK /\ TotalIsSum)'
  <2>1. UNCHANGED kvVars BY <1>19 DEF Prune, kvVars, lockVars, Put
  <2> QED BY <2>1, KeysFrame
<1>20. ASSUME NEW l \in Layers, NEW n \in Names, Expire(l, n) PROVE (KeysOK /\ TotalIsSum)'
  <2>1. UNCHANGED kvVars BY <1>20 DEF Expire, kvVars, lockVars, Put
  <2> QED BY <2>1, KeysFrame
<1>21. ASSUME NEW a \in Actors, NEW n \in menu.names, RunAcquire(a, n) PROVE (KeysOK /\ TotalIsSum)'
  <2>1. UNCHANGED kvVars BY <1>21 DEF RunAcquire, kvVars, lockVars
  <2> QED BY <2>1, KeysFrame
<1>22. ASSUME NEW a \in Actors, NEW n \in menu.names, RunRelease(a, n) PROVE (KeysOK /\ TotalIsSum)'
  <2>1. UNCHANGED kvVars BY <1>22 DEF RunRelease, kvVars, leaseVars, lockVars
  <2> QED BY <2>1, KeysFrame
<1>23. ASSUME NEW a \in Actors, Disconnect(a) PROVE (KeysOK /\ TotalIsSum)'
  <2>1. UNCHANGED kvVars BY <1>23 DEF Disconnect, kvVars, lockVars, Put
  <2> QED BY <2>1, KeysFrame
<1>24. ASSUME NEW a \in Actors, ReleaseRunLeases(a) PROVE (KeysOK /\ TotalIsSum)'
  <2>1. UNCHANGED kvVars BY <1>24 DEF ReleaseRunLeases, kvVars, leaseVars, lockVars
  <2> QED BY <2>1, KeysFrame
<1>25. ASSUME NEW n \in Names, RunExpire(n) PROVE (KeysOK /\ TotalIsSum)'
  <2>1. UNCHANGED kvVars BY <1>25 DEF RunExpire, kvVars, leaseVars, lockVars
  <2> QED BY <2>1, KeysFrame
<1>27. ASSUME NEW a \in Actors, SessionTail(a) PROVE (KeysOK /\ TotalIsSum)'
  <2>1. UNCHANGED kvVars BY <1>27 DEF SessionTail
  <2> QED BY <2>1, KeysFrame
<1>26. CASE UNCHANGED vars BY <1>26, KeysFrame DEF vars, kvVars
<1> QED BY <1>1, <1>2, <1>3, <1>4, <1>5, <1>6, <1>7, <1>8, <1>9, <1>10, <1>11,
    <1>12, <1>13, <1>14, <1>15, <1>16, <1>17, <1>18, <1>19, <1>20, <1>21, <1>22,
    <1>23, <1>24, <1>25, <1>26, <1>27, StepCases DEF Handles

\* The place a handler's step starts from, and where it leads to.
Place(a, from, to) ==
    /\ call[a].at = from /\ call'[a].at = to
    /\ call'[a].op = call[a].op /\ call'[a].name = call[a].name /\ call'[a].n = call[a].n
    /\ \A b \in Actors \ {a} : call'[b] = call[b]
Answered(a) ==
    /\ call[a].at \notin {"idle", "queued"} /\ call'[a].op = "none" /\ call'[a].at = "idle"
    /\ \A b \in Actors \ {a} : call'[b] = call[b] /\ rx'[b] = rx[b]

LEMMA HandlersMove ==
    ASSUME CallOK, NEW a \in Actors
    PROVE  /\ Subscribes(a, "check") => Place(a, "go", "check") /\ call[a].op = "wait"
           /\ Subscribes(a, "try") => Place(a, "go", "try") /\ call[a].op \in {"acquire", "try"}
           /\ Sleeps(a) => Place(a, "check", "waiting")
           /\ Skips(a) \/ Ignores(a) => UNCHANGED call
           /\ Retries(a) => Place(a, "waiting", "try") /\ call[a].op = "acquire"
           /\ Write(a) => Place(a, "go", "send")
           /\ Acquires(a) => Place(a, "try", "send")
           /\ ConflictSleeps(a) => Place(a, "try", "waiting") /\ call[a].op = "acquire"
           /\ Releases(a) => Place(a, "go", "send")
           /\ Returns(a) \/ ConflictReturns(a) \/ ReleaseFails(a) => Answered(a)
<1> {"check", "try", "waiting", "send"} \subseteq Places BY DEF Places
<1>1. Subscribes(a, "check") => Place(a, "go", "check") /\ call[a].op = "wait"
  BY GotoIs DEF Subscribes, Goto, Place
<1>2. Subscribes(a, "try") => Place(a, "go", "try") /\ call[a].op \in {"acquire", "try"}
  BY GotoIs DEF Subscribes, Goto, Place
<1>3. Sleeps(a) => Place(a, "check", "waiting") BY GotoIs DEF Sleeps, Goto, Place
<1>4. Skips(a) \/ Ignores(a) => UNCHANGED call BY DEF Skips, Ignores
<1>5. Retries(a) => Place(a, "waiting", "try") /\ call[a].op = "acquire"
  BY GotoIs DEF Retries, Place
<1>6. Write(a) => Place(a, "go", "send") BY GotoIs DEF Write, Goto, Place
<1>7. Acquires(a) => Place(a, "try", "send") BY GotoIs DEF Acquires, Goto, Place
<1>8. ConflictSleeps(a) => Place(a, "try", "waiting") /\ call[a].op = "acquire"
  BY GotoIs DEF ConflictSleeps, Evicts, Goto, Place
<1>9. Releases(a) => Place(a, "go", "send") BY GotoIs DEF Releases, Goto, Place
<1>10. Returns(a) \/ ConflictReturns(a) \/ ReleaseFails(a) => Answered(a)
  BY ReturnIs DEF Returns, ConflictReturns, Evicts, ReleaseFails, Answered
<1> QED BY <1>1, <1>2, <1>3, <1>4, <1>5, <1>6, <1>7, <1>8, <1>9, <1>10

\* Operation, name and place of a call agree.
LEMMA CallInvStep == StoreInv /\ [Next]_vars => CallInv'
<1> SUFFICES ASSUME StoreInv, [Next]_vars PROVE CallInv'
  OBVIOUS
<1> LockOK /\ CallOK /\ KeysOK /\ LeaseOK BY DEF StoreInv, TypeOK
<1> CallInv /\ QueueInv BY DEF StoreInv
<1> USE StoreAssumption
<1> menu' = menu /\ menu \in Menus BY DEF Next, vars, StoreInv, TypeOK, CallOK
<1>1. ASSUME NEW a \in Actors, GrantsRead(a) PROVE CallInv'
  <2>1. call' = [call EXCEPT ![a] = [@ EXCEPT !.at = "go"]] /\ "go" \in Places
    BY <1>1 DEF GrantsRead, Places
  <2>2. /\ call'[a].at = "go" /\ call'[a].op = call[a].op /\ call'[a].name = call[a].name
        /\ \A b \in Actors \ {a} : call'[b] = call[b]
    BY <2>1, GotoIs
  <2> QED BY <2>2 DEF CallInv
<1>2. ASSUME NEW s \in Subs, GrantsWrite(s) PROVE CallInv'
  BY <1>2 DEF CallInv, GrantsWrite, kvVars, leaseVars
<1>3. ASSUME NEW s \in Subs, WantWrite(s) PROVE CallInv'
  BY <1>3 DEF CallInv, WantWrite, kvVars, leaseVars
<1>4. ASSUME NEW s \in Subs, WriteMap(s) PROVE CallInv'
  BY <1>4 DEF CallInv, WriteMap, kvVars, leaseVars
<1>5. ASSUME NEW p \in Senders, Send(p) PROVE CallInv'
  BY <1>5 DEF CallInv, Send, kvVars, leaseVars, lockVars
<1>6. ASSUME NEW a \in Actors, NEW c \in Requests(a), Call(a, c) PROVE CallInv'
  <2>1. /\ c.at = "queued" /\ (c.op \in {"set", "cas", "wait"} => c.name \in Keys)
        /\ (c.op \in {"acquire", "try", "release"} => c.name \in Names)
    BY RequestsAre
  <2>2. call' = [call EXCEPT ![a] = c] /\ call[a] = Idle BY <1>6 DEF Call
  <2>3. call'[a] = c /\ call[a].at = "idle" /\ \A b \in Actors \ {a} : call'[b] = call[b]
    BY <2>2 DEF CallOK, Idle
  <2> QED BY <2>1, <2>3 DEF CallInv
<1>7. ASSUME NEW a \in Actors, Returns(a) PROVE CallInv'
  <2>1. Answered(a) BY <1>7, HandlersMove
  <2> QED BY <2>1 DEF Place, Answered, CallInv
<1>8. ASSUME NEW a \in Actors, NEW at \in {"check", "try"}, Subscribes(a, at) PROVE CallInv'
  <2>1. Place(a, "go", at) /\ call[a].op \in (IF at = "check" THEN {"wait"} ELSE {"acquire", "try"})
    BY <1>8, HandlersMove
  <2> QED BY <2>1 DEF Place, Answered, CallInv
<1>9. ASSUME NEW a \in Actors, Sleeps(a) PROVE CallInv'
  <2>1. Place(a, "check", "waiting") BY <1>9, HandlersMove
  <2> QED BY <2>1 DEF Place, Answered, CallInv
<1>10. ASSUME NEW a \in Actors, Skips(a) PROVE CallInv'
  <2>1. UNCHANGED call BY <1>10, HandlersMove
  <2> QED BY <2>1 DEF Place, Answered, CallInv
<1>11. ASSUME NEW a \in Actors, Ignores(a) PROVE CallInv'
  <2>1. UNCHANGED call BY <1>11, HandlersMove
  <2> QED BY <2>1 DEF Place, Answered, CallInv
<1>12. ASSUME NEW a \in Actors, Retries(a) PROVE CallInv'
  <2>1. Place(a, "waiting", "try") /\ call[a].op = "acquire" BY <1>12, HandlersMove
  <2> QED BY <2>1 DEF Place, Answered, CallInv
<1>13. ASSUME NEW a \in Actors, Write(a) PROVE CallInv'
  <2>1. Place(a, "go", "send") BY <1>13, HandlersMove
  <2> QED BY <2>1 DEF Place, Answered, CallInv
<1>14. ASSUME NEW a \in Actors, Acquires(a) PROVE CallInv'
  <2>1. Place(a, "try", "send") BY <1>14, HandlersMove
  <2> QED BY <2>1 DEF Place, Answered, CallInv
<1>15. ASSUME NEW a \in Actors, ConflictSleeps(a) PROVE CallInv'
  <2>1. Place(a, "try", "waiting") /\ call[a].op = "acquire" BY <1>15, HandlersMove
  <2> QED BY <2>1 DEF Place, Answered, CallInv
<1>16. ASSUME NEW a \in Actors, ConflictReturns(a) PROVE CallInv'
  <2>1. Answered(a) BY <1>16, HandlersMove
  <2> QED BY <2>1 DEF Place, Answered, CallInv
<1>17. ASSUME NEW a \in Actors, Releases(a) PROVE CallInv'
  <2>1. Place(a, "go", "send") BY <1>17, HandlersMove
  <2> QED BY <2>1 DEF Place, Answered, CallInv
<1>18. ASSUME NEW a \in Actors, ReleaseFails(a) PROVE CallInv'
  <2>1. Answered(a) BY <1>18, HandlersMove
  <2> QED BY <2>1 DEF Place, Answered, CallInv
<1>19. ASSUME NEW l \in Layers, Prune(l) PROVE CallInv'
  BY <1>19 DEF CallInv, Prune, kvVars, lockVars, Put
<1>20. ASSUME NEW l \in Layers, NEW n \in Names, Expire(l, n) PROVE CallInv'
  BY <1>20 DEF CallInv, Expire, kvVars, lockVars, Put
<1>21. ASSUME NEW a \in Actors, NEW n \in menu.names, RunAcquire(a, n) PROVE CallInv'
  BY <1>21 DEF CallInv, RunAcquire, kvVars, lockVars
<1>22. ASSUME NEW a \in Actors, NEW n \in menu.names, RunRelease(a, n) PROVE CallInv'
  BY <1>22 DEF CallInv, RunRelease, kvVars, leaseVars, lockVars
<1>23. ASSUME NEW a \in Actors, Disconnect(a) PROVE CallInv'
  BY <1>23 DEF CallInv, Disconnect, kvVars, lockVars, Put
<1>24. ASSUME NEW a \in Actors, ReleaseRunLeases(a) PROVE CallInv'
  BY <1>24 DEF CallInv, ReleaseRunLeases, kvVars, leaseVars, lockVars
<1>25. ASSUME NEW n \in Names, RunExpire(n) PROVE CallInv'
  BY <1>25 DEF CallInv, RunExpire, kvVars, leaseVars, lockVars
<1>27. ASSUME NEW a \in Actors, SessionTail(a) PROVE CallInv'
  BY <1>27 DEF CallInv, SessionTail, kvVars, leaseVars, lockVars
<1>26. CASE UNCHANGED vars BY <1>26 DEF vars, CallInv
<1> QED BY <1>1, <1>2, <1>3, <1>4, <1>5, <1>6, <1>7, <1>8, <1>9, <1>10, <1>11,
    <1>12, <1>13, <1>14, <1>15, <1>16, <1>17, <1>18, <1>19, <1>20, <1>21, <1>22,
    <1>23, <1>24, <1>25, <1>26, <1>27, StepCases DEF Handles

\* A step that leaves the queue alone, of a caller that is not in it.
LEMMA QueueKept ==
    ASSUME QueueInv, UNCHANGED lockQ,
           \A b \in Actors : call[b].at = "queued" => call'[b].at = "queued"
    PROVE  QueueInv'
BY DEF QueueInv

\* A caller is queued once.
LEMMA QueueStep == StoreInv /\ [Next]_vars => QueueInv'
<1> SUFFICES ASSUME StoreInv, [Next]_vars PROVE QueueInv'
  OBVIOUS
<1> LockOK /\ CallOK /\ KeysOK /\ LeaseOK BY DEF StoreInv, TypeOK
<1> CallInv /\ QueueInv BY DEF StoreInv
<1> USE StoreAssumption
<1> menu' = menu /\ menu \in Menus BY DEF Next, vars, StoreInv, TypeOK, CallOK
<1>1. ASSUME NEW a \in Actors, GrantsRead(a) PROVE QueueInv'
  <2>1. call' = [call EXCEPT ![a] = [@ EXCEPT !.at = "go"]] /\ "go" \in Places
    BY <1>1 DEF GrantsRead, Places
  <2>2. /\ call'[a].at = "go" /\ call'[a].op = call[a].op /\ call'[a].name = call[a].name
        /\ \A b \in Actors \ {a} : call'[b] = call[b]
    BY <2>1, GotoIs
  <2>3. lockQ' = Tail(lockQ) /\ lockQ # <<>> /\ a = Head(lockQ) BY <1>1 DEF GrantsRead
  <2>4. lockQ \in Seq(Actors \cup Subs) BY DEF LockOK
  <2>5. \A i \in 1..Len(lockQ') : lockQ'[i] = lockQ[i + 1] /\ i + 1 \in 1..Len(lockQ)
    BY <2>3, <2>4
  <2>6. 1 \in 1..Len(lockQ) /\ lockQ[1] = a BY <2>3, <2>4
  <2>7. \A i \in 1..Len(lockQ') : lockQ'[i] # a
    <3>1. \A i \in 1..Len(lockQ') : i + 1 # 1 OBVIOUS
    <3> QED BY <2>5, <2>6, <3>1 DEF QueueInv
  <2>8. \A i \in 1..Len(lockQ') : lockQ'[i] \in Actors => call'[lockQ'[i]].at = "queued"
    BY <2>2, <2>5, <2>7, SMTT(60) DEF QueueInv
  <2>9. \A i, j \in 1..Len(lockQ') : lockQ'[i] \in Actors /\ lockQ'[i] = lockQ'[j] => i = j
    <3>1. ASSUME NEW i \in 1..Len(lockQ'), NEW j \in 1..Len(lockQ'),
                 lockQ'[i] \in Actors, lockQ'[i] = lockQ'[j]
          PROVE  i = j
      <4>1. i + 1 = j + 1 BY <2>5, <3>1 DEF QueueInv
      <4> QED BY <4>1
    <3> QED BY <3>1
  <2> QED BY <2>8, <2>9 DEF QueueInv
<1>2. ASSUME NEW s \in Subs, GrantsWrite(s) PROVE QueueInv'
  <2>1. lockQ' = Tail(lockQ) /\ lockQ # <<>> /\ UNCHANGED call BY <1>2 DEF GrantsWrite
  <2>2. lockQ \in Seq(Actors \cup Subs) BY DEF LockOK
  <2>3. \A i \in 1..Len(lockQ') : lockQ'[i] = lockQ[i + 1] /\ i + 1 \in 1..Len(lockQ)
    BY <2>1, <2>2
  <2> QED BY <2>1, <2>3, SMTT(60) DEF QueueInv
<1>3. ASSUME NEW s \in Subs, WantWrite(s) PROVE QueueInv'
  <2>1. lockQ' = Append(lockQ, s) /\ UNCHANGED call /\ s \notin Actors
    BY <1>3 DEF WantWrite, Layers
  <2>2. lockQ \in Seq(Actors \cup Subs) BY DEF LockOK
  <2>3. Len(lockQ') = Len(lockQ) + 1 /\ \A i \in 1..Len(lockQ) : lockQ'[i] = lockQ[i]
    BY <2>1, <2>2
  <2>4. lockQ'[Len(lockQ) + 1] = s BY <2>1, <2>2
  <2> QED BY <2>1, <2>2, <2>3, <2>4 DEF QueueInv
<1>4. ASSUME NEW s \in Subs, WriteMap(s) PROVE QueueInv'
  <2>1. UNCHANGED <<lockQ, call>> BY <1>4 DEF WriteMap, kvVars, leaseVars
  <2> QED BY <2>1, QueueKept
<1>5. ASSUME NEW p \in Senders, Send(p) PROVE QueueInv'
  <2>1. UNCHANGED <<lockQ, call>> BY <1>5 DEF Send, kvVars, leaseVars, lockVars
  <2> QED BY <2>1, QueueKept
<1>6. ASSUME NEW a \in Actors, NEW c \in Requests(a), Call(a, c) PROVE QueueInv'
  <2>1. /\ c.at = "queued" /\ (c.op \in {"set", "cas", "wait"} => c.name \in Keys)
        /\ (c.op \in {"acquire", "try", "release"} => c.name \in Names)
    BY RequestsAre
  <2>2. call' = [call EXCEPT ![a] = c] /\ call[a] = Idle BY <1>6 DEF Call
  <2>3. call'[a] = c /\ call[a].at = "idle" /\ \A b \in Actors \ {a} : call'[b] = call[b]
    BY <2>2 DEF CallOK, Idle
  <2>4. lockQ' = Append(lockQ, a) BY <1>6 DEF Call
  <2>5. lockQ \in Seq(Actors \cup Subs) BY DEF LockOK
  <2>6. Len(lockQ') = Len(lockQ) + 1 /\ \A i \in 1..Len(lockQ) : lockQ'[i] = lockQ[i]
    BY <2>4, <2>5
  <2>7. lockQ'[Len(lockQ) + 1] = a BY <2>4, <2>5
  <2>8. \A i \in 1..Len(lockQ) : lockQ[i] # a BY <2>3 DEF QueueInv
  <2> QED BY <2>1, <2>3, <2>5, <2>6, <2>7, <2>8, SMTT(60) DEF QueueInv
<1>7. ASSUME NEW a \in Actors, Returns(a) PROVE QueueInv'
  <2>1. Answered(a) BY <1>7, HandlersMove
  <2>2. UNCHANGED lockQ BY <1>7 DEF Returns, Kept, Return, kvVars, leaseVars
  <2> QED BY <2>1, <2>2, QueueKept DEF Place, Answered
<1>8. ASSUME NEW a \in Actors, NEW at \in {"check", "try"}, Subscribes(a, at) PROVE QueueInv'
  <2>1. Place(a, "go", at) /\ call[a].op \in (IF at = "check" THEN {"wait"} ELSE {"acquire", "try"})
    BY <1>8, HandlersMove
  <2>2. UNCHANGED lockQ BY <1>8 DEF Subscribes, Kept, Goto, kvVars, leaseVars
  <2> QED BY <2>1, <2>2, QueueKept DEF Place, Answered
<1>9. ASSUME NEW a \in Actors, Sleeps(a) PROVE QueueInv'
  <2>1. Place(a, "check", "waiting") BY <1>9, HandlersMove
  <2>2. UNCHANGED lockQ BY <1>9 DEF Sleeps, Kept, Goto, kvVars, leaseVars
  <2> QED BY <2>1, <2>2, QueueKept DEF Place, Answered
<1>10. ASSUME NEW a \in Actors, Skips(a) PROVE QueueInv'
  <2>1. UNCHANGED call BY <1>10, HandlersMove
  <2>2. UNCHANGED lockQ BY <1>10 DEF Skips, Kept, kvVars, leaseVars
  <2> QED BY <2>1, <2>2, QueueKept DEF Place, Answered
<1>11. ASSUME NEW a \in Actors, Ignores(a) PROVE QueueInv'
  <2>1. UNCHANGED call BY <1>11, HandlersMove
  <2>2. UNCHANGED lockQ BY <1>11 DEF Ignores, Kept, kvVars, leaseVars
  <2> QED BY <2>1, <2>2, QueueKept DEF Place, Answered
<1>12. ASSUME NEW a \in Actors, Retries(a) PROVE QueueInv'
  <2>1. Place(a, "waiting", "try") /\ call[a].op = "acquire" BY <1>12, HandlersMove
  <2>2. UNCHANGED lockQ BY <1>12 DEF Retries, Kept, kvVars, leaseVars
  <2> QED BY <2>1, <2>2, QueueKept DEF Place, Answered
<1>13. ASSUME NEW a \in Actors, Write(a) PROVE QueueInv'
  <2>1. Place(a, "go", "send") BY <1>13, HandlersMove
  <2>2. UNCHANGED lockQ BY <1>13 DEF Write, leaseVars, Goto
  <2> QED BY <2>1, <2>2, QueueKept DEF Place, Answered
<1>14. ASSUME NEW a \in Actors, Acquires(a) PROVE QueueInv'
  <2>1. Place(a, "try", "send") BY <1>14, HandlersMove
  <2>2. UNCHANGED lockQ BY <1>14 DEF Acquires, Others, Goto, Put, kvVars
  <2> QED BY <2>1, <2>2, QueueKept DEF Place, Answered
<1>15. ASSUME NEW a \in Actors, ConflictSleeps(a) PROVE QueueInv'
  <2>1. Place(a, "try", "waiting") /\ call[a].op = "acquire" BY <1>15, HandlersMove
  <2>2. UNCHANGED lockQ
    BY <1>15 DEF ConflictSleeps, Goto, Evicts, Others, kvVars, Put, Swallow
  <2> QED BY <2>1, <2>2, QueueKept DEF Place, Answered
<1>16. ASSUME NEW a \in Actors, ConflictReturns(a) PROVE QueueInv'
  <2>1. Answered(a) BY <1>16, HandlersMove
  <2>2. UNCHANGED lockQ
    BY <1>16 DEF ConflictReturns, Return, Evicts, Others, kvVars, Put, Swallow
  <2> QED BY <2>1, <2>2, QueueKept DEF Place, Answered
<1>17. ASSUME NEW a \in Actors, Releases(a) PROVE QueueInv'
  <2>1. Place(a, "go", "send") BY <1>17, HandlersMove
  <2>2. UNCHANGED lockQ BY <1>17 DEF Releases, Others, Goto, Put, kvVars
  <2> QED BY <2>1, <2>2, QueueKept DEF Place, Answered
<1>18. ASSUME NEW a \in Actors, ReleaseFails(a) PROVE QueueInv'
  <2>1. Answered(a) BY <1>18, HandlersMove
  <2>2. UNCHANGED lockQ BY <1>18 DEF ReleaseFails, Others, Return, Put, Swallow, kvVars
  <2> QED BY <2>1, <2>2, QueueKept DEF Place, Answered
<1>19. ASSUME NEW l \in Layers, Prune(l) PROVE QueueInv'
  <2>1. UNCHANGED <<lockQ, call>> BY <1>19 DEF Prune, kvVars, lockVars, Put
  <2> QED BY <2>1, QueueKept
<1>20. ASSUME NEW l \in Layers, NEW n \in Names, Expire(l, n) PROVE QueueInv'
  <2>1. UNCHANGED <<lockQ, call>> BY <1>20 DEF Expire, kvVars, lockVars, Put
  <2> QED BY <2>1, QueueKept
<1>21. ASSUME NEW a \in Actors, NEW n \in menu.names, RunAcquire(a, n) PROVE QueueInv'
  <2>1. UNCHANGED <<lockQ, call>> BY <1>21 DEF RunAcquire, kvVars, lockVars
  <2> QED BY <2>1, QueueKept
<1>22. ASSUME NEW a \in Actors, NEW n \in menu.names, RunRelease(a, n) PROVE QueueInv'
  <2>1. UNCHANGED <<lockQ, call>> BY <1>22 DEF RunRelease, kvVars, leaseVars, lockVars
  <2> QED BY <2>1, QueueKept
<1>23. ASSUME NEW a \in Actors, Disconnect(a) PROVE QueueInv'
  <2>1. UNCHANGED <<lockQ, call>> BY <1>23 DEF Disconnect, kvVars, lockVars, Put
  <2> QED BY <2>1, QueueKept
<1>24. ASSUME NEW a \in Actors, ReleaseRunLeases(a) PROVE QueueInv'
  <2>1. UNCHANGED <<lockQ, call>> BY <1>24 DEF ReleaseRunLeases, kvVars, leaseVars, lockVars
  <2> QED BY <2>1, QueueKept
<1>25. ASSUME NEW n \in Names, RunExpire(n) PROVE QueueInv'
  <2>1. UNCHANGED <<lockQ, call>> BY <1>25 DEF RunExpire, kvVars, leaseVars, lockVars
  <2> QED BY <2>1, QueueKept
<1>27. ASSUME NEW a \in Actors, SessionTail(a) PROVE QueueInv'
  <2>1. UNCHANGED <<lockQ, call>> BY <1>27 DEF SessionTail, lockVars
  <2> QED BY <2>1, QueueKept
<1>26. CASE UNCHANGED vars BY <1>26 DEF vars, QueueInv
<1> QED BY <1>1, <1>2, <1>3, <1>4, <1>5, <1>6, <1>7, <1>8, <1>9, <1>10, <1>11,
    <1>12, <1>13, <1>14, <1>15, <1>16, <1>17, <1>18, <1>19, <1>20, <1>21, <1>22,
    <1>23, <1>24, <1>25, <1>26, <1>27, StepCases DEF Handles

\* A task is an actor's call, a layer's pruner or a connection's cleanup.
LEMMA TasksDiffer ==
    /\ \A a \in Actors : a \in Senders /\ Cleanup(a) \in Senders /\ a \notin Layers
    /\ \A a, b \in Actors : a # Cleanup(b) /\ (Cleanup(a) = Cleanup(b) => a = b)
    /\ \A l \in Layers : l \in Senders /\ \A b \in Actors : l # Cleanup(b)
BY StoreAssumption DEF Senders, Cleanup

\* A task that is done stays done unless its own step gives it more.
LEMMA SendKept ==
    ASSUME SendInv, UNCHANGED gone,
           \A a \in Actors : /\ toSend[a] = <<>> => toSend'[a] = <<>>
                             /\ toSend[Cleanup(a)] = <<>> => toSend'[Cleanup(a)] = <<>>,
           \A a \in Actors : call'[a].at # "send" => call[a].at # "send" \/ toSend[a] = <<>>
    PROVE  SendInv'
BY DEF SendInv

\* A task has nothing left to send when it starts again.
LEMMA SendStep == StoreInv /\ [Next]_vars => SendInv'
<1> SUFFICES ASSUME StoreInv, [Next]_vars PROVE SendInv'
  OBVIOUS
<1> LockOK /\ CallOK /\ KeysOK /\ LeaseOK BY DEF StoreInv, TypeOK
<1> CallInv /\ QueueInv BY DEF StoreInv
<1> USE StoreAssumption
<1> SendInv BY DEF StoreInv
<1> menu' = menu /\ menu \in Menus BY DEF Next, vars, StoreInv, TypeOK, CallOK
<1>1. ASSUME NEW a \in Actors, GrantsRead(a) PROVE SendInv'
  <2>1. call' = [call EXCEPT ![a] = [@ EXCEPT !.at = "go"]] /\ "go" \in Places
    BY <1>1 DEF GrantsRead, Places
  <2>2. /\ call'[a].at = "go" /\ call'[a].op = call[a].op /\ call'[a].name = call[a].name
        /\ \A b \in Actors \ {a} : call'[b] = call[b]
    BY <2>1, GotoIs
  <2>3. call[a].at = "queued"
    <3>1. lockQ # <<>> /\ a = Head(lockQ) /\ lockQ \in Seq(Actors \cup Subs)
      BY <1>1 DEF GrantsRead, LockOK
    <3>2. 1 \in 1..Len(lockQ) /\ lockQ[1] = a BY <3>1
    <3> QED BY <3>2 DEF QueueInv
  <2>4. UNCHANGED <<gone, toSend>> BY <1>1 DEF GrantsRead
  <2> QED BY <2>2, <2>3, <2>4, SendKept
<1>2. ASSUME NEW s \in Subs, GrantsWrite(s) PROVE SendInv'
  <2>1. UNCHANGED <<gone, toSend, call>> BY <1>2 DEF GrantsWrite, kvVars, leaseVars
  <2> QED BY <2>1, SendKept
<1>3. ASSUME NEW s \in Subs, WantWrite(s) PROVE SendInv'
  <2>1. UNCHANGED <<gone, toSend, call>> BY <1>3 DEF WantWrite, kvVars, leaseVars
  <2> QED BY <2>1, SendKept
<1>4. ASSUME NEW s \in Subs, WriteMap(s) PROVE SendInv'
  <2>1. UNCHANGED <<gone, toSend, call>> BY <1>4 DEF WriteMap, kvVars, leaseVars
  <2> QED BY <2>1, SendKept
<1>5. ASSUME NEW p \in Senders, Send(p) PROVE SendInv'
  <2>1. /\ toSend[p] # <<>> /\ UNCHANGED <<gone, call>>
        /\ \A x \in Senders \ {p} : toSend'[x] = toSend[x]
    BY <1>5 DEF Send, CallOK
  <2> QED BY <2>1, TasksDiffer, SendKept
<1>6. ASSUME NEW a \in Actors, NEW c \in Requests(a), Call(a, c) PROVE SendInv'
  <2>1. /\ c.at = "queued" /\ (c.op \in {"set", "cas", "wait"} => c.name \in Keys)
        /\ (c.op \in {"acquire", "try", "release"} => c.name \in Names)
    BY RequestsAre
  <2>2. call' = [call EXCEPT ![a] = c] /\ call[a] = Idle BY <1>6 DEF Call
  <2>3. call'[a] = c /\ call[a].at = "idle" /\ \A b \in Actors \ {a} : call'[b] = call[b]
    BY <2>2 DEF CallOK, Idle
  <2>4. UNCHANGED <<gone, toSend>> BY <1>6 DEF Call
  <2> QED BY <2>3, <2>4, SendKept
<1>7. ASSUME NEW a \in Actors, Returns(a) PROVE SendInv'
  <2>1. Answered(a) BY <1>7, HandlersMove
  <2>2. UNCHANGED <<gone, toSend>> BY <1>7 DEF Returns, Kept, Return, kvVars, leaseVars
  <2>3. call[a].at = "send" => toSend[a] = <<>>
    BY <1>7 DEF Returns, ConflictReturns, Evicts, ReleaseFails
  <2> QED BY <2>1, <2>2, <2>3, SendKept DEF Place, Answered
<1>8. ASSUME NEW a \in Actors, NEW at \in {"check", "try"}, Subscribes(a, at) PROVE SendInv'
  <2>1. Place(a, "go", at) /\ call[a].op \in (IF at = "check" THEN {"wait"} ELSE {"acquire", "try"})
    BY <1>8, HandlersMove
  <2>2. UNCHANGED <<gone, toSend>> BY <1>8 DEF Subscribes, Kept, Goto, kvVars, leaseVars
  <2>3. call[a].at = "send" => toSend[a] = <<>> BY <1>8, <2>1 DEF Place
  <2> QED BY <2>1, <2>2, <2>3, SendKept DEF Place, Answered
<1>9. ASSUME NEW a \in Actors, Sleeps(a) PROVE SendInv'
  <2>1. Place(a, "check", "waiting") BY <1>9, HandlersMove
  <2>2. UNCHANGED <<gone, toSend>> BY <1>9 DEF Sleeps, Kept, Goto, kvVars, leaseVars
  <2>3. call[a].at = "send" => toSend[a] = <<>> BY <1>9, <2>1 DEF Place
  <2> QED BY <2>1, <2>2, <2>3, SendKept DEF Place, Answered
<1>10. ASSUME NEW a \in Actors, Skips(a) PROVE SendInv'
  <2>1. UNCHANGED <<gone, toSend, call>> BY <1>10 DEF Skips, Kept, kvVars, leaseVars
  <2> QED BY <2>1, SendKept
<1>11. ASSUME NEW a \in Actors, Ignores(a) PROVE SendInv'
  <2>1. UNCHANGED <<gone, toSend, call>> BY <1>11 DEF Ignores, Kept, kvVars, leaseVars
  <2> QED BY <2>1, SendKept
<1>12. ASSUME NEW a \in Actors, Retries(a) PROVE SendInv'
  <2>1. Place(a, "waiting", "try") /\ call[a].op = "acquire" BY <1>12, HandlersMove
  <2>2. UNCHANGED <<gone, toSend>> BY <1>12 DEF Retries, Kept, kvVars, leaseVars
  <2>3. call[a].at = "send" => toSend[a] = <<>> BY <1>12, <2>1 DEF Place
  <2> QED BY <2>1, <2>2, <2>3, SendKept DEF Place, Answered
<1>13. ASSUME NEW a \in Actors, Write(a) PROVE SendInv'
  <2>1. Place(a, "go", "send") BY <1>13, HandlersMove
  <2>2. UNCHANGED gone /\ \A x \in Senders \ {a} : toSend'[x] = toSend[x]
    BY <1>13, TasksDiffer DEF CallOK, Write, leaseVars, Goto
  <2> QED BY <2>1, <2>2, TasksDiffer DEF Place, SendInv
<1>14. ASSUME NEW a \in Actors, Acquires(a) PROVE SendInv'
  <2>1. Place(a, "try", "send") BY <1>14, HandlersMove
  <2>2. UNCHANGED gone /\ \A x \in Senders \ {a} : toSend'[x] = toSend[x]
    BY <1>14, TasksDiffer DEF CallOK, Acquires, Others, Goto, Put, kvVars
  <2> QED BY <2>1, <2>2, TasksDiffer DEF Place, SendInv
<1>15. ASSUME NEW a \in Actors, ConflictSleeps(a) PROVE SendInv'
  <2>1. Place(a, "try", "waiting") /\ call[a].op = "acquire" BY <1>15, HandlersMove
  <2>2. UNCHANGED <<gone, toSend>>
    BY <1>15 DEF ConflictSleeps, Goto, Evicts, Others, kvVars, Put, Swallow
  <2>3. call[a].at = "send" => toSend[a] = <<>> BY <1>15, <2>1 DEF Place
  <2> QED BY <2>1, <2>2, <2>3, SendKept DEF Place, Answered
<1>16. ASSUME NEW a \in Actors, ConflictReturns(a) PROVE SendInv'
  <2>1. Answered(a) BY <1>16, HandlersMove
  <2>2. UNCHANGED <<gone, toSend>>
    BY <1>16 DEF ConflictReturns, Return, Evicts, Others, kvVars, Put, Swallow
  <2>3. call[a].at = "send" => toSend[a] = <<>>
    BY <1>16 DEF Returns, ConflictReturns, Evicts, ReleaseFails
  <2> QED BY <2>1, <2>2, <2>3, SendKept DEF Place, Answered
<1>17. ASSUME NEW a \in Actors, Releases(a) PROVE SendInv'
  <2>1. Place(a, "go", "send") BY <1>17, HandlersMove
  <2>2. UNCHANGED gone /\ \A x \in Senders \ {a} : toSend'[x] = toSend[x]
    BY <1>17, TasksDiffer DEF CallOK, Releases, Others, Goto, Put, kvVars
  <2> QED BY <2>1, <2>2, TasksDiffer DEF Place, SendInv
<1>18. ASSUME NEW a \in Actors, ReleaseFails(a) PROVE SendInv'
  <2>1. Answered(a) BY <1>18, HandlersMove
  <2>2. UNCHANGED <<gone, toSend>>
    BY <1>18 DEF ReleaseFails, Others, Return, Put, Swallow, kvVars
  <2>3. call[a].at = "send" => toSend[a] = <<>>
    BY <1>18 DEF Returns, ConflictReturns, Evicts, ReleaseFails
  <2> QED BY <2>1, <2>2, <2>3, SendKept DEF Place, Answered
<1>19. ASSUME NEW l \in Layers, Prune(l) PROVE SendInv'
  <2>1. UNCHANGED <<gone, call>> /\ \A x \in Senders \ {l} : toSend'[x] = toSend[x]
    BY <1>19 DEF Prune, CallOK
  <2> QED BY <2>1, TasksDiffer, SendKept
<1>20. ASSUME NEW l \in Layers, NEW n \in Names, Expire(l, n) PROVE SendInv'
  <2>1. UNCHANGED <<gone, toSend, call>> BY <1>20 DEF Expire, kvVars, lockVars, Put
  <2> QED BY <2>1, SendKept
<1>21. ASSUME NEW a \in Actors, NEW n \in menu.names, RunAcquire(a, n) PROVE SendInv'
  <2>1. UNCHANGED <<gone, toSend, call>> BY <1>21 DEF RunAcquire, kvVars, lockVars
  <2> QED BY <2>1, SendKept
<1>22. ASSUME NEW a \in Actors, NEW n \in menu.names, RunRelease(a, n) PROVE SendInv'
  <2>1. UNCHANGED <<gone, toSend, call>>
    BY <1>22 DEF RunRelease, kvVars, leaseVars, lockVars
  <2> QED BY <2>1, SendKept
<1>23. ASSUME NEW a \in Actors, Disconnect(a) PROVE SendInv'
  <2>1. /\ UNCHANGED call /\ gone' = [gone EXCEPT ![a] = "store"]
        /\ \A x \in Senders \ {Cleanup(a)} : toSend'[x] = toSend[x]
    BY <1>23 DEF Disconnect, CallOK
  <2>2. gone'[a] # "no" /\ \A b \in Actors \ {a} : gone'[b] = gone[b] BY <2>1 DEF CallOK
  <2> QED BY <2>1, <2>2, TasksDiffer DEF SendInv
<1>24. ASSUME NEW a \in Actors, ReleaseRunLeases(a) PROVE SendInv'
  <2>1. UNCHANGED <<call, toSend>> /\ gone' = [gone EXCEPT ![a] = "yes"]
    BY <1>24 DEF ReleaseRunLeases
  <2>2. gone'[a] # "no" /\ \A b \in Actors \ {a} : gone'[b] = gone[b] BY <2>1 DEF CallOK
  <2> QED BY <2>1, <2>2 DEF SendInv
<1>25. ASSUME NEW n \in Names, RunExpire(n) PROVE SendInv'
  <2>1. UNCHANGED <<gone, toSend, call>> BY <1>25 DEF RunExpire, kvVars, leaseVars, lockVars
  <2> QED BY <2>1, SendKept
<1>27. ASSUME NEW a \in Actors, SessionTail(a) PROVE SendInv'
  <2>1. UNCHANGED <<gone, toSend, call>> BY <1>27 DEF SessionTail
  <2> QED BY <2>1, SendKept
<1>26. CASE UNCHANGED vars BY <1>26 DEF vars, SendInv
<1> QED BY <1>1, <1>2, <1>3, <1>4, <1>5, <1>6, <1>7, <1>8, <1>9, <1>10, <1>11,
    <1>12, <1>13, <1>14, <1>15, <1>16, <1>17, <1>18, <1>19, <1>20, <1>21, <1>22,
    <1>23, <1>24, <1>25, <1>26, <1>27, StepCases DEF Handles

\* No grant and no step of a cleanup: what an actor holds it held before.
LEMMA LeaveKept ==
    ASSUME LeaveInv, UNCHANGED <<late, gone>>,
           \A n \in Names : lease'[Root][n].holder \in {lease[Root][n].holder, Nobody},
           \A n \in Names : runLease'[n].holder \in {runLease[n].holder, Nobody}
    PROVE  LeaveInv'
BY StoreAssumption DEF LeaveInv

\* What a sweep does to the root's leases.
LEMMA SweptRoot ==
    ASSUME LeaseOK, NEW l \in Layers, NEW S \in SUBSET Names, Put(l, Without(l, S))
    PROVE  \A n \in Names : lease'[Root][n].holder \in {lease[Root][n].holder, Nobody}
<1>1. lease' = [lease EXCEPT ![l] = Without(l, S)] /\ Root \in Layers BY DEF Put, Layers
<1>2. lease \in [Layers -> [Names -> Entry]] BY DEF LeaseOK
<1>3. \A n \in Names : Without(l, S)[n].holder \in {lease[l][n].holder, Nobody}
  BY WithoutIs
<1>4. lease'[Root] = IF l = Root THEN Without(l, S) ELSE lease[Root] BY <1>1, <1>2
<1> QED BY <1>3, <1>4

\* A connection's cleanup leaves nothing behind but late grants.
LEMMA LeaveStep == StoreInv /\ [Next]_vars => LeaveInv'
<1> SUFFICES ASSUME StoreInv, [Next]_vars PROVE LeaveInv'
  OBVIOUS
<1> LockOK /\ CallOK /\ KeysOK /\ LeaseOK BY DEF StoreInv, TypeOK
<1> CallInv /\ QueueInv BY DEF StoreInv
<1> USE StoreAssumption
<1> LeaveInv BY DEF StoreInv
<1> Root \in Layers BY DEF Layers
<1> menu' = menu /\ menu \in Menus BY DEF Next, vars, StoreInv, TypeOK, CallOK
<1>1. ASSUME NEW a \in Actors, GrantsRead(a) PROVE LeaveInv'
  <2>1. UNCHANGED <<lease, runLease, late, gone>> BY <1>1 DEF GrantsRead, kvVars, leaseVars
  <2> QED BY <2>1, LeaveKept
<1>2. ASSUME NEW s \in Subs, GrantsWrite(s) PROVE LeaveInv'
  <2>1. UNCHANGED <<lease, runLease, late, gone>> BY <1>2 DEF GrantsWrite, kvVars, leaseVars
  <2> QED BY <2>1, LeaveKept
<1>3. ASSUME NEW s \in Subs, WantWrite(s) PROVE LeaveInv'
  <2>1. UNCHANGED <<lease, runLease, late, gone>> BY <1>3 DEF WantWrite, kvVars, leaseVars
  <2> QED BY <2>1, LeaveKept
<1>4. ASSUME NEW s \in Subs, WriteMap(s) PROVE LeaveInv'
  <2>1. UNCHANGED <<lease, runLease, late, gone>> BY <1>4 DEF WriteMap, kvVars, leaseVars
  <2> QED BY <2>1, LeaveKept
<1>5. ASSUME NEW p \in Senders, Send(p) PROVE LeaveInv'
  <2>1. UNCHANGED <<lease, runLease, late, gone>>
    BY <1>5 DEF Send, kvVars, leaseVars, lockVars
  <2> QED BY <2>1, LeaveKept
<1>6. ASSUME NEW a \in Actors, NEW c \in Requests(a), Call(a, c) PROVE LeaveInv'
  <2>1. UNCHANGED <<lease, runLease, late, gone>> BY <1>6 DEF Call, kvVars, leaseVars
  <2> QED BY <2>1, LeaveKept
<1>7. ASSUME NEW a \in Actors, Returns(a) PROVE LeaveInv'
  <2>1. UNCHANGED <<lease, runLease, late, gone>>
    BY <1>7 DEF Returns, Kept, Return, kvVars, leaseVars
  <2> QED BY <2>1, LeaveKept
<1>8. ASSUME NEW a \in Actors, NEW at \in {"check", "try"}, Subscribes(a, at) PROVE LeaveInv'
  <2>1. UNCHANGED <<lease, runLease, late, gone>>
    BY <1>8 DEF Subscribes, Kept, Goto, kvVars, leaseVars
  <2> QED BY <2>1, LeaveKept
<1>9. ASSUME NEW a \in Actors, Sleeps(a) PROVE LeaveInv'
  <2>1. UNCHANGED <<lease, runLease, late, gone>>
    BY <1>9 DEF Sleeps, Kept, Goto, kvVars, leaseVars
  <2> QED BY <2>1, LeaveKept
<1>10. ASSUME NEW a \in Actors, Skips(a) PROVE LeaveInv'
  <2>1. UNCHANGED <<lease, runLease, late, gone>>
    BY <1>10 DEF Skips, Kept, kvVars, leaseVars
  <2> QED BY <2>1, LeaveKept
<1>11. ASSUME NEW a \in Actors, Ignores(a) PROVE LeaveInv'
  <2>1. UNCHANGED <<lease, runLease, late, gone>>
    BY <1>11 DEF Ignores, Kept, kvVars, leaseVars
  <2> QED BY <2>1, LeaveKept
<1>12. ASSUME NEW a \in Actors, Retries(a) PROVE LeaveInv'
  <2>1. UNCHANGED <<lease, runLease, late, gone>>
    BY <1>12 DEF Retries, Kept, kvVars, leaseVars
  <2> QED BY <2>1, LeaveKept
<1>13. ASSUME NEW a \in Actors, Write(a) PROVE LeaveInv'
  <2>1. UNCHANGED <<lease, runLease, late, gone>> BY <1>13 DEF Write, leaseVars, Goto
  <2> QED BY <2>1, LeaveKept
<1>14. ASSUME NEW a \in Actors, Acquires(a) PROVE LeaveInv'
  <2> DEFINE l == LayerOf[a]
             n == call[a].name
             e == [holder |-> a, id |-> ids + 1, expired |-> FALSE]
  <2>1. n \in Names /\ l \in Layers BY <1>14 DEF Acquires, CallInv
  <2>2. /\ lease' = [lease EXCEPT ![l] = [Without(l, {}) EXCEPT ![n] = e]]
        /\ late' = (IF gone[a] = "no" THEN late \ {<<l, n>>} ELSE late \cup {<<l, n>>})
        /\ UNCHANGED <<runLease, gone>>
    BY <1>14 DEF Acquires, Put, Others, Late
  <2>3. Without(l, {}) \in [Names -> Entry] BY <2>1, WithoutIs
  <2>4. \A m \in Names : Without(l, {})[m].holder \in {lease[l][m].holder, Nobody}
    BY <2>1, WithoutIs
  <2>5. lease \in [Layers -> [Names -> Entry]] BY DEF LeaseOK
  <2>6. e.holder = a OBVIOUS
  <2> HIDE DEF l, n, e
  <2>7. ASSUME NEW b \in Actors, NEW m \in Names, gone[b] # "no", lease'[Root][m].holder = b
        PROVE  <<Root, m>> \in late'
    <3>1. CASE l = Root /\ m = n
      <4>1. lease'[Root][m] = e BY <2>1, <2>2, <2>3, <2>5, <3>1
      <4>2. b = a BY <2>6, <2>7, <4>1
      <4> QED BY <2>2, <2>7, <3>1, <4>2
    <3>2. CASE ~ (l = Root /\ m = n)
      <4>1. lease'[Root][m].holder \in {lease[Root][m].holder, Nobody}
        BY <2>1, <2>2, <2>3, <2>4, <2>5, <3>2
      <4>2. lease[Root][m].holder = b BY <2>7, <4>1
      <4>3. <<Root, m>> \in late BY <2>7, <4>2 DEF LeaveInv
      <4>4. <<Root, m>> # <<l, n>> BY <3>2
      <4> QED BY <2>2, <4>3, <4>4
    <3> QED BY <3>1, <3>2
  <2>8. ASSUME NEW b \in Actors, NEW m \in Names, gone[b] = "yes", runLease[m].holder = b
        PROVE  <<"run", m>> \in late'
    <3>1. <<"run", m>> \in late BY <2>8 DEF LeaveInv
    <3>2. <<"run", m>> # <<l, n>> BY <2>1
    <3> QED BY <2>2, <3>1, <3>2
  <2> QED BY <2>2, <2>7, <2>8 DEF LeaveInv
<1>15. ASSUME NEW a \in Actors, ConflictSleeps(a) PROVE LeaveInv'
  <2>1. {} \in SUBSET Names /\ LayerOf[a] \in Layers BY DEF Freed
  <2>2. Put(LayerOf[a], Without(LayerOf[a], {})) /\ UNCHANGED <<runLease, late, gone>>
    BY <1>15 DEF ConflictSleeps, Goto, Evicts, Others, kvVars, Put, Swallow
  <2>3. \A n \in Names : lease'[Root][n].holder \in {lease[Root][n].holder, Nobody}
    BY <2>1, <2>2, SweptRoot
  <2> QED BY <2>2, <2>3, LeaveKept
<1>16. ASSUME NEW a \in Actors, ConflictReturns(a) PROVE LeaveInv'
  <2>1. {} \in SUBSET Names /\ LayerOf[a] \in Layers BY DEF Freed
  <2>2. Put(LayerOf[a], Without(LayerOf[a], {})) /\ UNCHANGED <<runLease, late, gone>>
    BY <1>16 DEF ConflictReturns, Return, Evicts, Others, kvVars, Put, Swallow
  <2>3. \A n \in Names : lease'[Root][n].holder \in {lease[Root][n].holder, Nobody}
    BY <2>1, <2>2, SweptRoot
  <2> QED BY <2>2, <2>3, LeaveKept
<1>17. ASSUME NEW a \in Actors, Releases(a) PROVE LeaveInv'
  <2>1. Freed(a) \in SUBSET Names /\ LayerOf[a] \in Layers BY DEF Freed
  <2>2. Put(LayerOf[a], Without(LayerOf[a], Freed(a))) /\ UNCHANGED <<runLease, late, gone>>
    BY <1>17 DEF Releases, Others, Goto, Put, kvVars
  <2>3. \A n \in Names : lease'[Root][n].holder \in {lease[Root][n].holder, Nobody}
    BY <2>1, <2>2, SweptRoot
  <2> QED BY <2>2, <2>3, LeaveKept
<1>18. ASSUME NEW a \in Actors, ReleaseFails(a) PROVE LeaveInv'
  <2>1. {} \in SUBSET Names /\ LayerOf[a] \in Layers BY DEF Freed
  <2>2. Put(LayerOf[a], Without(LayerOf[a], {})) /\ UNCHANGED <<runLease, late, gone>>
    BY <1>18 DEF ReleaseFails, Others, Return, Put, Swallow, kvVars
  <2>3. \A n \in Names : lease'[Root][n].holder \in {lease[Root][n].holder, Nobody}
    BY <2>1, <2>2, SweptRoot
  <2> QED BY <2>2, <2>3, LeaveKept
<1>19. ASSUME NEW l \in Layers, Prune(l) PROVE LeaveInv'
  <2>1. Put(l, Without(l, {})) /\ UNCHANGED <<runLease, late, gone>> BY <1>19 DEF Prune
  <2>2. {} \in SUBSET Names OBVIOUS
  <2>3. \A n \in Names : lease'[Root][n].holder \in {lease[Root][n].holder, Nobody}
    BY <2>1, <2>2, SweptRoot
  <2> QED BY <2>1, <2>3, LeaveKept
<1>20. ASSUME NEW l \in Layers, NEW n \in Names, Expire(l, n) PROVE LeaveInv'
  <2>1. /\ lease' = [lease EXCEPT ![l] = [lease[l] EXCEPT ![n] = [@ EXCEPT !.expired = TRUE]]]
        /\ UNCHANGED <<runLease, late, gone>>
    BY <1>20 DEF Expire, Put
  <2>2. lease \in [Layers -> [Names -> Entry]] BY DEF LeaseOK
  <2>3. [lease[l][n] EXCEPT !.expired = TRUE].holder = lease[l][n].holder BY <2>2 DEF Entry
  <2>4. \A m \in Names : lease'[Root][m].holder = lease[Root][m].holder BY <2>1, <2>2, <2>3
  <2> QED BY <2>1, <2>4, LeaveKept
<1>21. ASSUME NEW a \in Actors, NEW n \in menu.names, RunAcquire(a, n) PROVE LeaveInv'
  <2> DEFINE e == [holder |-> a, id |-> 0, expired |-> FALSE]
  <2>1. /\ runLease' = [runLease EXCEPT ![n] = e]
        /\ late' = (IF gone[a] = "no" THEN late \ {<<"run", n>>} ELSE late \cup {<<"run", n>>})
        /\ UNCHANGED <<lease, gone>>
    BY <1>21 DEF RunAcquire, Late
  <2>2. e.holder = a OBVIOUS
  <2> HIDE DEF e
  <2>3. n \in Names /\ runLease \in [Names -> Entry] BY DEF LeaseOK
  <2>4. ASSUME NEW b \in Actors, NEW m \in Names, gone[b] # "no", lease[Root][m].holder = b
        PROVE  <<Root, m>> \in late'
    <3>1. <<Root, m>> \in late BY <2>4 DEF LeaveInv
    <3>2. <<Root, m>> # <<"run", n>> OBVIOUS
    <3> QED BY <2>1, <3>1, <3>2
  <2>5. ASSUME NEW b \in Actors, NEW m \in Names, gone[b] = "yes", runLease'[m].holder = b
        PROVE  <<"run", m>> \in late'
    <3>1. CASE m = n
      <4>1. b = a BY <2>1, <2>2, <2>3, <2>5, <3>1
      <4> QED BY <2>1, <2>5, <3>1, <4>1
    <3>2. CASE m # n
      <4>1. runLease[m].holder = b BY <2>1, <2>3, <2>5, <3>2
      <4>2. <<"run", m>> \in late BY <2>5, <4>1 DEF LeaveInv
      <4> QED BY <2>1, <3>2, <4>2
    <3> QED BY <3>1, <3>2
  <2> QED BY <2>1, <2>4, <2>5 DEF LeaveInv
<1>22. ASSUME NEW a \in Actors, NEW n \in menu.names, RunRelease(a, n) PROVE LeaveInv'
  <2>1. runLease' = [runLease EXCEPT ![n] = Free] /\ UNCHANGED <<lease, late, gone>>
    BY <1>22 DEF RunRelease, leaseVars
  <2>2. Free.holder = Nobody BY DEF Free
  <2>3. \A m \in Names : runLease'[m].holder \in {runLease[m].holder, Nobody}
    BY <2>1, <2>2 DEF LeaseOK
  <2> QED BY <2>1, <2>3, LeaveKept
<1>23. ASSUME NEW a \in Actors, Disconnect(a) PROVE LeaveInv'
  <2> DEFINE F == {n \in Names \ Expired(Root) : lease[Root][n].holder = a}
  <2>1. /\ Put(Root, Without(Root, F)) /\ F \in SUBSET Names /\ UNCHANGED <<runLease, late>>
        /\ gone' = [gone EXCEPT ![a] = "store"] /\ gone[a] = "no"
    BY <1>23 DEF Disconnect
  <2>2. \A n \in Names : lease'[Root][n].holder \in {lease[Root][n].holder, Nobody}
    BY <2>1, SweptRoot
  <2>3. \A n \in Names : lease'[Root][n].holder # a
    <3>1. lease'[Root] = Without(Root, F) BY <2>1 DEF Put, LeaseOK
    <3>2. ASSUME NEW n \in Names, lease[Root][n].holder = a PROVE Without(Root, F)[n].holder = Nobody
      <4>1. n \in F \/ n \in Expired(Root) BY <3>2
      <4> HIDE DEF F
      <4> QED BY <2>1, <4>1, WithoutIs
    <3> HIDE DEF F
    <3> QED BY <2>2, <3>1, <3>2
  <2>4. gone'[a] = "store" /\ \A b \in Actors \ {a} : gone'[b] = gone[b] BY <2>1 DEF CallOK
  <2> HIDE DEF F
  <2> QED BY <2>1, <2>2, <2>3, <2>4 DEF LeaveInv
<1>24. ASSUME NEW a \in Actors, ReleaseRunLeases(a) PROVE LeaveInv'
  <2>1. /\ runLease' = [n \in Names |-> IF runLease[n].holder = a THEN Free ELSE runLease[n]]
        /\ UNCHANGED <<lease, late>> /\ gone' = [gone EXCEPT ![a] = "yes"] /\ gone[a] = "store"
    BY <1>24 DEF ReleaseRunLeases, FreeHeldBy, leaseVars
  <2>2. gone'[a] = "yes" /\ \A b \in Actors \ {a} : gone'[b] = gone[b] BY <2>1 DEF CallOK
  <2>3. Free.holder = Nobody BY DEF Free
  <2>4. \A n \in Names : /\ runLease'[n].holder # a
                         /\ runLease'[n].holder \in {runLease[n].holder, Nobody}
    BY <2>1, <2>3
  <2> QED BY <2>1, <2>2, <2>4 DEF LeaveInv
<1>25. ASSUME NEW n \in Names, RunExpire(n) PROVE LeaveInv'
  <2>1. /\ runLease' = [runLease EXCEPT ![n] = [@ EXCEPT !.expired = TRUE]]
        /\ UNCHANGED <<lease, late, gone>>
    BY <1>25 DEF RunExpire, leaseVars
  <2>2. runLease \in [Names -> Entry] BY DEF LeaseOK
  <2>3. [runLease[n] EXCEPT !.expired = TRUE].holder = runLease[n].holder BY <2>2 DEF Entry
  <2>4. \A m \in Names : runLease'[m].holder = runLease[m].holder BY <2>1, <2>2, <2>3
  <2> QED BY <2>1, <2>4, LeaveKept
<1>27. ASSUME NEW a \in Actors, SessionTail(a) PROVE LeaveInv'
  <2>1. /\ runLease' = [n \in Names |-> IF runLease[n].holder = a THEN Free ELSE runLease[n]]
        /\ UNCHANGED <<lease, late, gone>>
    BY <1>27 DEF SessionTail, FreeHeldBy, leaseVars
  <2>2. Free.holder = Nobody BY DEF Free
  <2>3. \A n \in Names : runLease'[n].holder \in {runLease[n].holder, Nobody} BY <2>1, <2>2
  <2> QED BY <2>1, <2>3 DEF LeaveInv
<1>26. CASE UNCHANGED vars BY <1>26 DEF vars, LeaveInv
<1> QED BY <1>1, <1>2, <1>3, <1>4, <1>5, <1>6, <1>7, <1>8, <1>9, <1>10, <1>11,
    <1>12, <1>13, <1>14, <1>15, <1>16, <1>17, <1>18, <1>19, <1>20, <1>21, <1>22,
    <1>23, <1>24, <1>25, <1>26, <1>27, StepCases DEF Handles

-----------------------------------------------------------------------------
(* Wake-ups: the two properties of the waits are one *)

Hit(a, e) == e.name = call[a].name /\ (call[a].op = "wait" => e.ver >= call[a].n)
Received(a) == \E i \in 1..Len(rx[a].q) : Hit(a, rx[a].q[i])
OnItsWay(a) == \E p \in Senders : \E i \in 1..Len(toSend[p]) :
                  /\ toSend[p][i].layer = LayerOf[a] /\ toSend[p][i].op = call[a].op
                  /\ Hit(a, toSend[p][i])
Coming(a) == rx[a].lag \/ Received(a) \/ OnItsWay(a)
Available(a) == /\ ~ Held(LayerOf[a], call[a].name)
                /\ <<LayerOf[a], call[a].name>> \notin swallowed
Ready(a) == \/ call[a].op = "wait" /\ Satisfied(a)
            \/ call[a].op = "acquire" /\ Available(a)
WakeInv == \A a \in Actors : call[a].at = "waiting" /\ Ready(a) => Coming(a)

LEMMA WakeSays == NoMissedWrite /\ NoForgottenWaiter <=> WakeInv
<1>1. ASSUME NEW a \in Actors, call[a].op = "wait"
      PROVE  Coming(a) <=>
                \/ rx[a].lag
                \/ \E i \in 1..Len(rx[a].q) : rx[a].q[i].name = call[a].name
                                              /\ rx[a].q[i].ver >= call[a].n
                \/ \E p \in Senders : \E i \in Pending(p, LayerOf[a], "wait", call[a].name) :
                       toSend[p][i].ver >= call[a].n
  BY <1>1 DEF Coming, Received, OnItsWay, Hit, Pending
<1>2. ASSUME NEW a \in Actors, call[a].op = "acquire"
      PROVE  Coming(a) <=>
                \/ rx[a].lag \/ \E i \in 1..Len(rx[a].q) : rx[a].q[i].name = call[a].name
                \/ \E p \in Senders : Pending(p, LayerOf[a], "acquire", call[a].name) # {}
  BY <1>2 DEF Coming, Received, OnItsWay, Hit, Pending
<1>3. ASSUME NoMissedWrite, NoForgottenWaiter, NEW a \in Actors, call[a].at = "waiting", Ready(a)
      PROVE  Coming(a)
  <2>1. CASE call[a].op = "wait" BY <1>1, <1>3, <2>1 DEF Ready, NoMissedWrite
  <2>2. CASE call[a].op = "acquire"
    BY <1>2, <1>3, <2>2 DEF Ready, Available, NoForgottenWaiter
  <2> QED BY <1>3, <2>1, <2>2 DEF Ready
<1>4. ASSUME WakeInv PROVE NoMissedWrite
  BY <1>1, <1>4 DEF WakeInv, Ready, NoMissedWrite
<1>5. ASSUME WakeInv PROVE NoForgottenWaiter
  BY <1>2, <1>5 DEF WakeInv, Ready, Available, NoForgottenWaiter
<1> QED BY <1>3, <1>4, <1>5 DEF WakeInv

\* A wake-up on its way stays on its way while nobody receives and no task that still has
\* events is given others.
LEMMA ComingStays ==
    ASSUME NEW a \in Actors, Coming(a), call'[a] = call[a], rx'[a] = rx[a],
           \A p \in Senders : toSend[p] = <<>> \/ toSend'[p] = toSend[p]
    PROVE  Coming(a)'
<1>1. CASE rx[a].lag \/ Received(a) BY <1>1 DEF Coming, Received, Hit
<1>2. CASE OnItsWay(a)
  <2>1. PICK p \in Senders : \E i \in 1..Len(toSend[p]) :
                  /\ toSend[p][i].layer = LayerOf[a] /\ toSend[p][i].op = call[a].op
                  /\ Hit(a, toSend[p][i])
    BY <1>2 DEF OnItsWay
  <2>2. toSend[p] # <<>>
    <3>1. toSend[p] = <<>> => Len(toSend[p]) = 0 OBVIOUS
    <3> QED BY <2>1, <3>1
  <2>3. toSend'[p] = toSend[p] BY <2>2
  <2>4. OnItsWay(a)' BY <2>1, <2>3 DEF OnItsWay, Hit
  <2> QED BY <2>4 DEF Coming
<1> QED BY <1>1, <1>2 DEF Coming

\* A step after which nobody new waits and nobody who waits is newly ready.
LEMMA WakeKept ==
    ASSUME WakeInv, \A p \in Senders : toSend[p] = <<>> \/ toSend'[p] = toSend[p],
           \A a \in Actors : call'[a].at = "waiting" /\ Ready(a)' =>
               call'[a] = call[a] /\ rx'[a] = rx[a] /\ Ready(a)
    PROVE  WakeInv'
<1> SUFFICES ASSUME NEW a \in Actors, call'[a].at = "waiting", Ready(a)' PROVE Coming(a)'
  BY DEF WakeInv
<1>1. call'[a] = call[a] /\ rx'[a] = rx[a] /\ Ready(a) OBVIOUS
<1>2. Coming(a) BY <1>1 DEF WakeInv
<1> QED BY <1>1, <1>2, ComingStays

\* Entries and leases of the layer stay: who is ready was ready.
LEMMA ReadyFrame ==
    ASSUME NEW a \in Actors, call'[a] = call[a], UNCHANGED <<ver, lease, swallowed>>
    PROVE  Ready(a)' <=> Ready(a)
BY DEF Ready, Satisfied, Available, Held

\* An event for somebody else is dropped: the wake-up is behind it.
LEMMA ComingBehind ==
    ASSUME CallOK, NEW a \in Actors, Coming(a), ~ rx[a].lag, rx[a].q # <<>>, ~ Hit(a, Head(rx[a].q)),
           rx' = [rx EXCEPT ![a] = Recv(rx[a])], UNCHANGED <<call, toSend>>
    PROVE  Coming(a)'
<1> DEFINE q == rx[a].q
<1>1. rx[a] \in [q : Seq(Event), lag : BOOLEAN] BY DEF CallOK
<1>2. q \in Seq(Event) BY <1>1
<1>3. rx'[a].q = Tail(q) BY <1>1 DEF Recv, CallOK
<1>4. CASE Received(a)
  <2>1. PICK i \in 1..Len(q) : Hit(a, q[i]) BY <1>4 DEF Received
  <2>2. Head(q) = q[1] BY <1>2
  <2>3. i # 1 BY <2>1, <2>2
  <2>4. i - 1 \in 1..Len(Tail(q)) /\ Tail(q)[i - 1] = q[i] BY <1>2, <2>1, <2>3
  <2>6. \E j \in 1..Len(rx'[a].q) : rx'[a].q[j] = q[i] BY <1>3, <2>4
  <2>7. Received(a)' BY <2>1, <2>6 DEF Received, Hit
  <2> QED BY <2>7 DEF Coming
<1>5. CASE OnItsWay(a)
  <2>1. OnItsWay(a)' BY <1>5 DEF OnItsWay, Hit
  <2> QED BY <2>1 DEF Coming
<1> QED BY <1>4, <1>5 DEF Coming

\* A sweep frees the names it is given and the expired ones.
LEMMA SweptHeld ==
    ASSUME LeaseOK, NEW l \in Layers, NEW S \in SUBSET Names, Put(l, Without(l, S)),
           NEW m \in Layers, NEW n \in Names, lease'[m][n].holder = Nobody
    PROVE  lease[m][n].holder = Nobody \/ (m = l /\ (n \in S \/ n \in Expired(l)))
<1>1. lease' = [lease EXCEPT ![l] = Without(l, S)] BY DEF Put
<1>2. lease \in [Layers -> [Names -> Entry]] BY DEF LeaseOK
<1>3. n \notin S /\ n \notin Expired(l) => Without(l, S)[n] = lease[l][n] BY WithoutIs
<1>4. lease'[m] = IF m = l THEN Without(l, S) ELSE lease[m] BY <1>1, <1>2
<1> QED BY <1>3, <1>4

\* A sweep that tells everybody: every name it frees is among the events of its task.
LEMMA SweepWakes ==
    ASSUME WakeInv, LeaseOK, CallInv, NEW l \in Layers, NEW S \in SUBSET Names, NEW t \in Senders,
           Put(l, Without(l, S)), UNCHANGED <<ver, swallowed>>, toSend[t] = <<>>,
           \A p \in Senders \ {t} : toSend'[p] = toSend[p],
           \A n \in S \cup Expired(l) : \E i \in 1..Len(toSend'[t]) :
               toSend'[t][i].layer = l /\ toSend'[t][i].op = "acquire" /\ toSend'[t][i].name = n,
           \A b \in Actors : call'[b].at = "waiting" => call'[b] = call[b] /\ rx'[b] = rx[b]
    PROVE  WakeInv'
<1> SUFFICES ASSUME NEW b \in Actors, call'[b].at = "waiting", Ready(b)' PROVE Coming(b)'
  BY DEF WakeInv
<1>1. call'[b] = call[b] /\ rx'[b] = rx[b] OBVIOUS
<1>2. CASE Ready(b)
  <2>1. Coming(b) BY <1>1, <1>2 DEF WakeInv
  <2>2. \A p \in Senders : toSend[p] = <<>> \/ toSend'[p] = toSend[p] OBVIOUS
  <2> QED BY <1>1, <2>1, <2>2, ComingStays
<1>3. CASE ~ Ready(b)
  <2>1. call[b].op = "acquire" /\ ~ Available(b) /\ Available(b)'
    BY <1>1, <1>3 DEF Ready, Satisfied
  <2>2. call[b].name \in Names /\ LayerOf[b] \in Layers BY <2>1, StoreAssumption DEF CallInv
  <2>3. lease'[LayerOf[b]][call[b].name].holder = Nobody /\ lease[LayerOf[b]][call[b].name].holder # Nobody
    BY <1>1, <2>1 DEF Available, Held
  <2>4. LayerOf[b] = l /\ call[b].name \in S \cup Expired(l) BY <2>2, <2>3, SweptHeld
  <2>5. PICK i \in 1..Len(toSend'[t]) : /\ toSend'[t][i].layer = l /\ toSend'[t][i].op = "acquire"
                                        /\ toSend'[t][i].name = call[b].name
    BY <2>4
  <2>6. OnItsWay(b)' BY <1>1, <2>1, <2>4, <2>5 DEF OnItsWay, Hit
  <2> QED BY <2>6 DEF Coming
<1> QED BY <1>2, <1>3

\* A sweep nobody is told of is remembered as swallowed.
LEMMA EvictionWakes ==
    ASSUME WakeInv, LeaseOK, CallInv, NEW l \in Layers, Put(l, Without(l, {})), Swallow(l),
           UNCHANGED <<ver, toSend>>,
           \A b \in Actors : call'[b].at = "waiting" /\ Ready(b)' => call'[b] = call[b] /\ rx'[b] = rx[b]
    PROVE  WakeInv'
<1>1. ASSUME NEW b \in Actors, call'[b].at = "waiting", Ready(b)' PROVE Ready(b)
  <2>1. call'[b] = call[b] BY <1>1
  <2>2. swallowed' = swallowed \cup {<<l, n>> : n \in Expired(l)} BY DEF Swallow
  <2>3. CASE call[b].op = "wait" BY <1>1, <2>1, <2>3 DEF Ready, Satisfied
  <2>4. CASE call[b].op = "acquire"
    <3>1. call[b].name \in Names /\ LayerOf[b] \in Layers
      BY <2>4, StoreAssumption DEF CallInv
    <3>2. /\ lease'[LayerOf[b]][call[b].name].holder = Nobody
          /\ <<LayerOf[b], call[b].name>> \notin swallowed'
      BY <1>1, <2>1, <2>4 DEF Ready, Available, Held
    <3>3. \/ lease[LayerOf[b]][call[b].name].holder = Nobody
          \/ LayerOf[b] = l /\ call[b].name \in Expired(l)
      <4>1. {} \in SUBSET Names OBVIOUS
      <4> QED BY <3>1, <3>2, <4>1, SweptHeld
    <3>4. lease[LayerOf[b]][call[b].name].holder = Nobody BY <2>2, <3>2, <3>3
    <3> QED BY <2>2, <2>4, <3>2, <3>4 DEF Ready, Available, Held
  <2> QED BY <1>1, <2>1, <2>3, <2>4 DEF Ready
<1> QED BY <1>1, WakeKept

\* A write wakes whoever waits for its version.
LEMMA WriteWakes ==
    ASSUME WakeInv, KeysOK, CallOK, CallInv, SendInv, NEW a \in Actors, Write(a)
    PROVE  WakeInv'
<1> DEFINE l == LayerOf[a]
           k == call[a].name
           e == [layer |-> l, op |-> "wait", name |-> k, ver |-> ver[l][k] + 1]
<1>1. Place(a, "go", "send") BY HandlersMove
<1>2. /\ toSend' = [toSend EXCEPT ![a] = <<e>>] /\ UNCHANGED <<rx, lease, swallowed>>
      /\ ver' = [ver EXCEPT ![l] = [@ EXCEPT ![k] = ver[l][k] + 1]]
  BY DEF Write, Goto, leaseVars
<1>3. k \in Keys /\ l \in Layers BY StoreAssumption DEF Write, CallInv
<1>4. toSend[a] = <<>> /\ a \in Senders BY <1>1, TasksDiffer DEF SendInv, Place
<1>5. \A p \in Senders : toSend[p] = <<>> \/ toSend'[p] = toSend[p] BY <1>2, <1>4 DEF CallOK
<1>6. toSend'[a] = <<e>> BY <1>2, <1>4 DEF CallOK
<1> SUFFICES ASSUME NEW b \in Actors, call'[b].at = "waiting", Ready(b)' PROVE Coming(b)'
  BY DEF WakeInv
<1>7. call'[b] = call[b] /\ rx'[b] = rx[b] BY <1>1, <1>2 DEF Place
<1>8. CASE Ready(b)
  <2>1. Coming(b) BY <1>7, <1>8 DEF WakeInv
  <2> QED BY <1>5, <1>7, <2>1, ComingStays
<1>9. CASE ~ Ready(b)
  <2>1. call[b].op = "wait" /\ ver'[LayerOf[b]][call[b].name] >= call[b].n
        /\ ~ (ver[LayerOf[b]][call[b].name] >= call[b].n)
    BY <1>2, <1>7, <1>9 DEF Ready, Satisfied, Available, Held
  <2>2. call[b].name \in Keys /\ LayerOf[b] \in Layers BY <2>1, StoreAssumption DEF CallInv
  <2>3. LayerOf[b] = l /\ call[b].name = k
    <3>1. ver'[LayerOf[b]][call[b].name] # ver[LayerOf[b]][call[b].name] BY <2>1
    <3> HIDE DEF l, k
    <3> QED BY <1>2, <1>3, <2>2, <3>1 DEF KeysOK
  <2>4. e.layer = LayerOf[b] /\ e.op = "wait" /\ e.name = call[b].name /\ e.ver >= call[b].n
    <3>1. ver'[l][k] = ver[l][k] + 1
      <4> HIDE DEF l, k
      <4> QED BY <1>2, <1>3 DEF KeysOK
    <3> QED BY <2>1, <2>3, <3>1
  <2> HIDE DEF e
  <2>5. 1 \in 1..Len(toSend'[a]) /\ toSend'[a][1] = e BY <1>6
  <2>6. OnItsWay(b)' BY <1>4, <1>7, <2>1, <2>4, <2>5 DEF OnItsWay, Hit
  <2> QED BY <2>6 DEF Coming
<1> QED BY <1>8, <1>9

\* A grant evicts what has expired, tells of it, and takes the name it is for.
LEMMA AcquireWakes ==
    ASSUME WakeInv, LeaseOK, CallOK, CallInv, SendInv, NEW a \in Actors, Acquires(a)
    PROVE  WakeInv'
<1> DEFINE l == LayerOf[a]
           n == call[a].name
           x == [holder |-> a, id |-> ids + 1, expired |-> FALSE]
           row == [Without(l, {}) EXCEPT ![n] = x]
           E == Expired(l)
<1>1. Place(a, "try", "send") BY HandlersMove
<1>2. /\ lease' = [lease EXCEPT ![l] = row] /\ toSend' = [toSend EXCEPT ![a] = Events(l, E)]
      /\ swallowed' = swallowed \ {<<l, n>>} /\ UNCHANGED <<rx, ver>>
  BY DEF Acquires, Put, Goto, Others, kvVars
<1>3. n \in Names /\ l \in Layers /\ E \in SUBSET Names
  BY StoreAssumption DEF Acquires, CallInv, Expired
<1>4. toSend[a] = <<>> /\ a \in Senders BY <1>1, TasksDiffer DEF SendInv, Place
<1>5. \A p \in Senders : toSend[p] = <<>> \/ toSend'[p] = toSend[p] BY <1>2, <1>4 DEF CallOK
<1>6. toSend'[a] = Events(l, E) BY <1>2, <1>4 DEF CallOK
<1>7. Without(l, {}) \in [Names -> Entry] BY <1>3, WithoutIs
<1>8. row[n].holder # Nobody BY <1>3, <1>7, StoreAssumption
<1>9. \A m \in Names \ {n} : m \notin E => row[m] = lease[l][m]
  <2>1. \A m \in Names : m \notin E => Without(l, {})[m] = lease[l][m] BY <1>3, WithoutIs
  <2> QED BY <1>7, <2>1
<1>10. lease'[l] = row /\ \A m \in Layers \ {l} : lease'[m] = lease[m]
  BY <1>2, <1>3 DEF LeaseOK
<1> HIDE DEF l, n, x, row, E
<1> SUFFICES ASSUME NEW b \in Actors, call'[b].at = "waiting", Ready(b)' PROVE Coming(b)'
  BY DEF WakeInv
<1>11. call'[b] = call[b] /\ rx'[b] = rx[b] BY <1>1, <1>2 DEF Place
<1>12. CASE Ready(b)
  <2>1. Coming(b) BY <1>11, <1>12 DEF WakeInv
  <2> QED BY <1>5, <1>11, <2>1, ComingStays
<1>13. CASE ~ Ready(b)
  <2> DEFINE m == LayerOf[b]
             z == call[b].name
  <2>1. call[b].op = "acquire" /\ ~ Available(b) /\ Available(b)'
    BY <1>2, <1>11, <1>13 DEF Ready, Satisfied
  <2>2. z \in Names /\ m \in Layers BY <2>1, StoreAssumption DEF CallInv
  <2>3. lease'[m][z].holder = Nobody /\ <<m, z>> \notin swallowed'
    BY <1>11, <2>1 DEF Available, Held
  <2>4. ~ (lease[m][z].holder = Nobody /\ <<m, z>> \notin swallowed)
    BY <2>1 DEF Available, Held
  <2> HIDE DEF m, z
  <2>5. ~ (m = l /\ z = n) BY <1>8, <1>10, <2>3
  <2>6. <<m, z>> \notin swallowed
    <3>1. <<m, z>> # <<l, n>> BY <2>5
    <3> QED BY <1>2, <2>3, <3>1
  <2>7. lease[m][z].holder # Nobody BY <2>4, <2>6
  <2>8. m = l /\ z \in E BY <1>9, <1>10, <2>2, <2>3, <2>5, <2>7
  <2>9. PICK i \in 1..Len(Events(l, E)) :
           /\ Events(l, E)[i].layer = l /\ Events(l, E)[i].op = "acquire" /\ Events(l, E)[i].name = z
    BY <1>3, <2>8, EventsAre
  <2>10. OnItsWay(b)' BY <1>4, <1>6, <1>11, <2>1, <2>8, <2>9 DEF OnItsWay, Hit, m, z
  <2> QED BY <2>10 DEF Coming
<1> QED BY <1>12, <1>13

\* A send hands its event to everybody who is subscribed, or tells them they lag.
LEMMA SendWakes ==
    ASSUME WakeInv, CallOK, NEW p \in Senders, Send(p)
    PROVE  WakeInv'
<1> DEFINE e == Head(toSend[p])
<1>1. /\ toSend[p] # <<>> /\ toSend' = [toSend EXCEPT ![p] = Tail(@)]
      /\ rx' = [a \in Actors |-> IF a \in Subscribed(e) THEN Receive(rx[a], e) ELSE rx[a]]
      /\ UNCHANGED <<call, ver, lease, swallowed>>
  BY DEF Send, kvVars, leaseVars
<1>2. toSend[p] \in Seq(Event) BY DEF CallOK
<1>3. e \in Event /\ e = toSend[p][1] BY <1>1, <1>2
<1>4. toSend'[p] = Tail(toSend[p]) /\ \A t \in Senders \ {p} : toSend'[t] = toSend[t]
  BY <1>1 DEF CallOK
<1> SUFFICES ASSUME NEW a \in Actors, call'[a].at = "waiting", Ready(a)' PROVE Coming(a)'
  BY DEF WakeInv
<1>5. call'[a] = call[a] /\ call[a].at = "waiting" BY <1>1
<1>6. Ready(a) BY <1>1, <1>5, ReadyFrame
<1>7. Coming(a) BY <1>5, <1>6 DEF WakeInv
<1>8. rx[a] \in [q : Seq(Event), lag : BOOLEAN] /\ Len(rx[a].q) <= Capacity BY DEF CallOK
<1>9. \/ rx'[a].lag = TRUE
      \/ a \in Subscribed(e) /\ rx'[a].lag = rx[a].lag /\ rx'[a].q = Append(rx[a].q, e)
      \/ a \notin Subscribed(e) /\ rx'[a] = rx[a]
  <2>1. CASE a \in Subscribed(e)
    <3>1. rx'[a] = Receive(rx[a], e) BY <1>1, <2>1
    <3> DEFINE r == rx[a]
    <3>2. e \in Event /\ r \in [q : Seq(Event), lag : BOOLEAN] /\ Len(r.q) <= Capacity
      BY <1>3, <1>8
    <3> HIDE DEF e, r
    <3>3. \/ Receive(r, e).lag = TRUE
          \/ Receive(r, e).lag = r.lag /\ Receive(r, e).q = Append(r.q, e)
      BY <3>2, ReceiveIs
    <3> QED BY <2>1, <3>1, <3>3 DEF r
  <2>2. CASE a \notin Subscribed(e) BY <1>1, <2>2
  <2> QED BY <2>1, <2>2
<1> HIDE DEF e
<1>10. CASE rx'[a].lag = TRUE BY <1>10 DEF Coming
<1>11. CASE rx'[a].lag # TRUE
  <2>1. rx'[a].lag = rx[a].lag /\ ~ rx[a].lag
    <3>1. rx[a].lag \in BOOLEAN BY <1>8
    <3> QED BY <1>9, <1>11, <3>1
  <2>2. ASSUME Received(a) PROVE Received(a)'
    <3>1. PICK i \in 1..Len(rx[a].q) : Hit(a, rx[a].q[i]) BY <2>2 DEF Received
    <3>2. rx[a].q \in Seq(Event) BY <1>8
    <3>3. i \in 1..Len(Append(rx[a].q, e)) /\ Append(rx[a].q, e)[i] = rx[a].q[i]
      BY <1>3, <3>1, <3>2
    <3>4. rx'[a].q = rx[a].q \/ rx'[a].q = Append(rx[a].q, e) BY <1>9, <1>11
    <3>5. i \in 1..Len(rx'[a].q) /\ rx'[a].q[i] = rx[a].q[i] BY <3>1, <3>3, <3>4
    <3> QED BY <1>5, <3>1, <3>5 DEF Received, Hit
  <2>3. ASSUME OnItsWay(a) PROVE Received(a)' \/ OnItsWay(a)'
    <3>1. PICK t \in Senders : \E i \in 1..Len(toSend[t]) :
                  /\ toSend[t][i].layer = LayerOf[a] /\ toSend[t][i].op = call[a].op
                  /\ Hit(a, toSend[t][i])
      BY <2>3 DEF OnItsWay
    <3>2. PICK i \in 1..Len(toSend[t]) : /\ toSend[t][i].layer = LayerOf[a]
                                         /\ toSend[t][i].op = call[a].op /\ Hit(a, toSend[t][i])
      BY <3>1
    <3>3. CASE t # p
      <4>1. toSend'[t] = toSend[t] BY <1>4, <3>3
      <4>2. OnItsWay(a)' BY <1>5, <3>2, <4>1 DEF OnItsWay, Hit
      <4> QED BY <4>2
    <3>4. CASE t = p /\ i # 1
      <4>1. i - 1 \in 1..Len(Tail(toSend[p])) /\ Tail(toSend[p])[i - 1] = toSend[p][i]
        BY <1>1, <1>2, <3>2, <3>4
      <4>2. i - 1 \in 1..Len(toSend'[p]) /\ toSend'[p][i - 1] = toSend[p][i] BY <1>4, <4>1
      <4>3. OnItsWay(a)' BY <1>5, <3>2, <3>4, <4>2 DEF OnItsWay, Hit
      <4> QED BY <4>3
    <3>5. CASE t = p /\ i = 1
      <4>1. e.layer = LayerOf[a] /\ e.op = call[a].op /\ Hit(a, e) BY <1>3, <3>2, <3>5
      <4>2. a \in Subscribed(e) BY <1>5, <4>1 DEF Subscribed
      <4>3. rx'[a].q = Append(rx[a].q, e) BY <1>9, <1>11, <4>2
      <4>4. rx[a].q \in Seq(Event) BY <1>8
      <4>5. Len(rx'[a].q) \in 1..Len(rx'[a].q) /\ rx'[a].q[Len(rx'[a].q)] = e
        BY <1>3, <4>3, <4>4
      <4>6. Received(a)' BY <1>5, <4>1, <4>5 DEF Received, Hit
      <4> QED BY <4>6
    <3> QED BY <3>3, <3>4, <3>5
  <2> QED BY <1>7, <2>1, <2>2, <2>3 DEF Coming
<1> QED BY <1>10, <1>11

\* A sequence of events says of every name in S that it is free in layer l.
Tells(q, l, S) ==
    \A n \in S : \E i \in 1..Len(q) : q[i].layer = l /\ q[i].op = "acquire" /\ q[i].name = n

\* The events of two lists are those of either.
LEMMA EventsJoin ==
    ASSUME NEW l \in Layers, NEW S \in SUBSET Names, NEW T \in SUBSET Names
    PROVE  Tells(Events(l, S) \o Events(l, T), l, T \cup S)
<1> DEFINE A == Events(l, S)
           B == Events(l, T)
           q == A \o B
<1>1. /\ A \in Seq(Event) /\ B \in Seq(Event)
      /\ \A n \in S : \E i \in 1..Len(A) : A[i].layer = l /\ A[i].op = "acquire" /\ A[i].name = n
  BY EventsAre
<1>2. \A n \in T : \E i \in 1..Len(B) : B[i].layer = l /\ B[i].op = "acquire" /\ B[i].name = n
  BY EventsAre
<1> HIDE DEF A, B
<1>3. /\ \A i \in 1..Len(A) : i \in 1..Len(q) /\ q[i] = A[i]
      /\ \A i \in 1..Len(B) : i + Len(A) \in 1..Len(q) /\ q[i + Len(A)] = B[i]
  BY <1>1
<1>4. ASSUME NEW n \in S
      PROVE  \E i \in 1..Len(q) : q[i].layer = l /\ q[i].op = "acquire" /\ q[i].name = n
  BY <1>1, <1>3
<1>5. ASSUME NEW n \in T
      PROVE  \E i \in 1..Len(q) : q[i].layer = l /\ q[i].op = "acquire" /\ q[i].name = n
  BY <1>2, <1>3
<1> HIDE DEF q
<1>6. Tells(q, l, T \cup S) BY <1>4, <1>5 DEF Tells
<1> QED BY <1>6 DEF q, A, B

\* Nobody sleeps on beside what it waits for.
LEMMA WakeStep == StoreInv /\ [Next]_vars => WakeInv'
<1> SUFFICES ASSUME StoreInv, [Next]_vars PROVE WakeInv'
  OBVIOUS
<1> LockOK /\ CallOK /\ KeysOK /\ LeaseOK BY DEF StoreInv, TypeOK
<1> CallInv /\ QueueInv BY DEF StoreInv
<1> USE StoreAssumption
<1> SendInv /\ WakeInv BY WakeSays DEF StoreInv
<1> menu' = menu /\ menu \in Menus BY DEF Next, vars, StoreInv, TypeOK, CallOK
<1>1. ASSUME NEW a \in Actors, GrantsRead(a) PROVE WakeInv'
  <2>1. call' = [call EXCEPT ![a] = [@ EXCEPT !.at = "go"]] /\ "go" \in Places
    BY <1>1 DEF GrantsRead, Places
  <2>2. /\ call'[a].at = "go" /\ call'[a].op = call[a].op /\ call'[a].name = call[a].name
        /\ \A b \in Actors \ {a} : call'[b] = call[b]
    BY <2>1, GotoIs
  <2>3. UNCHANGED <<rx, toSend, ver, lease, swallowed>>
    BY <1>1 DEF GrantsRead, kvVars, leaseVars, kvVars
  <2> QED BY <2>2, <2>3, ReadyFrame, WakeKept
<1>2. ASSUME NEW s \in Subs, GrantsWrite(s) PROVE WakeInv'
  <2>1. UNCHANGED <<call, rx, toSend, ver, lease, swallowed>>
    BY <1>2 DEF GrantsWrite, kvVars, leaseVars
  <2> QED BY <2>1, ReadyFrame, WakeKept
<1>3. ASSUME NEW s \in Subs, WantWrite(s) PROVE WakeInv'
  <2>1. UNCHANGED <<call, rx, toSend, ver, lease, swallowed>>
    BY <1>3 DEF WantWrite, kvVars, leaseVars
  <2> QED BY <2>1, ReadyFrame, WakeKept
<1>4. ASSUME NEW s \in Subs, WriteMap(s) PROVE WakeInv'
  <2>1. UNCHANGED <<call, rx, toSend, ver, lease, swallowed>>
    BY <1>4 DEF WriteMap, kvVars, leaseVars
  <2> QED BY <2>1, ReadyFrame, WakeKept
<1>5. ASSUME NEW p \in Senders, Send(p) PROVE WakeInv'
  BY <1>5, SendWakes
<1>6. ASSUME NEW a \in Actors, NEW c \in Requests(a), Call(a, c) PROVE WakeInv'
  <2>1. /\ c.at = "queued" /\ (c.op \in {"set", "cas", "wait"} => c.name \in Keys)
        /\ (c.op \in {"acquire", "try", "release"} => c.name \in Names)
    BY RequestsAre
  <2>2. call' = [call EXCEPT ![a] = c] /\ call[a] = Idle BY <1>6 DEF Call
  <2>3. call'[a] = c /\ call[a].at = "idle" /\ \A b \in Actors \ {a} : call'[b] = call[b]
    BY <2>2 DEF CallOK, Idle
  <2>4. UNCHANGED <<rx, toSend, ver, lease, swallowed>> BY <1>6 DEF Call, kvVars, leaseVars
  <2>5. call'[a].at # "waiting" BY <2>1, <2>3
  <2> QED BY <2>3, <2>4, <2>5, ReadyFrame, WakeKept
<1>7. ASSUME NEW a \in Actors, Returns(a) PROVE WakeInv'
  <2>1. Answered(a) BY <1>7, HandlersMove
  <2>2. UNCHANGED <<toSend, ver, lease, swallowed>>
    BY <1>7 DEF Returns, Kept, Return, kvVars, leaseVars
  <2>3. call'[a].at # "waiting" /\ \A b \in Actors \ {a} : call'[b] = call[b] /\ rx'[b] = rx[b]
    BY <1>7, <2>1 DEF Place, Answered, Returns, Kept, Return, kvVars, leaseVars
  <2> QED BY <2>2, <2>3, ReadyFrame, WakeKept
<1>8. ASSUME NEW a \in Actors, NEW at \in {"check", "try"}, Subscribes(a, at) PROVE WakeInv'
  <2>1. Place(a, "go", at) /\ call[a].op \in (IF at = "check" THEN {"wait"} ELSE {"acquire", "try"})
    BY <1>8, HandlersMove
  <2>2. UNCHANGED <<toSend, ver, lease, swallowed>>
    BY <1>8 DEF Subscribes, Kept, Goto, kvVars, leaseVars
  <2>3. call'[a].at # "waiting" /\ \A b \in Actors \ {a} : call'[b] = call[b] /\ rx'[b] = rx[b]
    BY <1>8, <2>1 DEF Place, Answered, Subscribes, Kept, Goto, kvVars, leaseVars
  <2> QED BY <2>2, <2>3, ReadyFrame, WakeKept
<1>9. ASSUME NEW a \in Actors, Sleeps(a) PROVE WakeInv'
  <2>1. Place(a, "check", "waiting") BY <1>9, HandlersMove
  <2>2. UNCHANGED <<rx, toSend, ver, lease, swallowed>>
    BY <1>9 DEF Sleeps, Kept, Goto, kvVars, leaseVars
  <2>3. call[a].op = "wait" /\ ~ Satisfied(a) BY <1>9 DEF Sleeps, CallInv
  <2>4. ~ Ready(a)' BY <2>1, <2>2, <2>3 DEF Place, Ready, Satisfied
  <2>5. \A b \in Actors \ {a} : call'[b] = call[b] BY <2>1 DEF Place
  <2> QED BY <2>2, <2>4, <2>5, ReadyFrame, WakeKept
<1>10. ASSUME NEW a \in Actors, Skips(a) PROVE WakeInv'
  <2>1. /\ UNCHANGED <<call, toSend, ver, lease, swallowed>> /\ rx' = [rx EXCEPT ![a] = Recv(rx[a])]
        /\ call[a].at = "waiting"
    BY <1>10 DEF Skips, Kept, kvVars, leaseVars
  <2>2. \A b \in Actors : Ready(b)' <=> Ready(b) BY <2>1, ReadyFrame
  <2>3. \A b \in Actors \ {a} : rx'[b] = rx[b] BY <2>1 DEF CallOK
  <2>4. ASSUME NEW b \in Actors, b # a, call[b].at = "waiting", Ready(b) PROVE Coming(b)'
    <3>1. Coming(b) BY <2>4 DEF WakeInv
    <3> QED BY <2>1, <2>3, <2>4, <3>1, ComingStays
  <2>5. ASSUME Ready(a) PROVE Coming(a)'
    <3>1. Coming(a) BY <2>1, <2>5 DEF WakeInv
    <3>2. ~ rx[a].lag /\ rx[a].q # <<>> /\ ~ Hit(a, Head(rx[a].q))
      BY <1>10, <2>5 DEF Skips, Ready, Hit
    <3> QED BY <2>1, <3>1, <3>2, ComingBehind
  <2> QED BY <2>1, <2>2, <2>4, <2>5 DEF WakeInv
<1>11. ASSUME NEW a \in Actors, Ignores(a) PROVE WakeInv'
  <2>1. /\ UNCHANGED <<call, toSend, ver, lease, swallowed>> /\ rx' = [rx EXCEPT ![a] = Recv(rx[a])]
        /\ call[a].at = "waiting"
    BY <1>11 DEF Ignores, Kept, kvVars, leaseVars
  <2>2. \A b \in Actors : Ready(b)' <=> Ready(b) BY <2>1, ReadyFrame
  <2>3. \A b \in Actors \ {a} : rx'[b] = rx[b] BY <2>1 DEF CallOK
  <2>4. ASSUME NEW b \in Actors, b # a, call[b].at = "waiting", Ready(b) PROVE Coming(b)'
    <3>1. Coming(b) BY <2>4 DEF WakeInv
    <3> QED BY <2>1, <2>3, <2>4, <3>1, ComingStays
  <2>5. ASSUME Ready(a) PROVE Coming(a)'
    <3>1. Coming(a) BY <2>1, <2>5 DEF WakeInv
    <3>2. ~ rx[a].lag /\ rx[a].q # <<>> /\ ~ Hit(a, Head(rx[a].q))
      BY <1>11, <2>5 DEF Ignores, Ready, Hit
    <3> QED BY <2>1, <3>1, <3>2, ComingBehind
  <2> QED BY <2>1, <2>2, <2>4, <2>5 DEF WakeInv
<1>12. ASSUME NEW a \in Actors, Retries(a) PROVE WakeInv'
  <2>1. Place(a, "waiting", "try") BY <1>12, HandlersMove
  <2>2. UNCHANGED <<toSend, ver, lease, swallowed>>
    BY <1>12 DEF Retries, Kept, kvVars, leaseVars
  <2>3. \A b \in Actors \ {a} : call'[b] = call[b] /\ rx'[b] = rx[b]
    BY <1>12, <2>1 DEF Place, Retries, CallOK
  <2>4. call'[a].at # "waiting" BY <2>1 DEF Place
  <2> QED BY <2>2, <2>3, <2>4, ReadyFrame, WakeKept
<1>13. ASSUME NEW a \in Actors, Write(a) PROVE WakeInv'
  BY <1>13, WriteWakes
<1>14. ASSUME NEW a \in Actors, Acquires(a) PROVE WakeInv'
  BY <1>14, AcquireWakes
<1>15. ASSUME NEW a \in Actors, ConflictSleeps(a) PROVE WakeInv'
  <2>1. Place(a, "try", "waiting") /\ call[a].op = "acquire" BY <1>15, HandlersMove
  <2>2. /\ Put(LayerOf[a], Without(LayerOf[a], {})) /\ Swallow(LayerOf[a])
        /\ UNCHANGED <<ver, toSend, rx>> /\ LayerOf[a] \in Layers
        /\ Held(LayerOf[a], call[a].name) /\ call[a].name \notin Expired(LayerOf[a])
    BY <1>15 DEF Evicts, Others, kvVars, ConflictSleeps, Goto
  <2>3. ~ Ready(a)'
    <3>1. call[a].name \in Names BY <2>1 DEF CallInv
    <3>2. {} \in SUBSET Names OBVIOUS
    <3>3. lease'[LayerOf[a]][call[a].name].holder # Nobody
      BY <2>2, <3>1, <3>2, SweptHeld DEF Held
    <3> QED BY <2>1, <3>3 DEF Place, Ready, Available, Held
  <2>4. \A b \in Actors : call'[b].at = "waiting" /\ Ready(b)' => call'[b] = call[b] /\ rx'[b] = rx[b]
    BY <2>1, <2>2, <2>3 DEF Place
  <2> QED BY <2>2, <2>4, EvictionWakes
<1>16. ASSUME NEW a \in Actors, ConflictReturns(a) PROVE WakeInv'
  <2>1. Answered(a) BY <1>16, HandlersMove
  <2>2. /\ Put(LayerOf[a], Without(LayerOf[a], {})) /\ Swallow(LayerOf[a])
        /\ UNCHANGED <<ver, toSend>> /\ LayerOf[a] \in Layers
    BY <1>16 DEF Evicts, Others, kvVars, ConflictReturns, ReleaseFails
  <2>3. \A b \in Actors : call'[b].at = "waiting" => call'[b] = call[b] /\ rx'[b] = rx[b]
    BY <2>1 DEF Answered
  <2> QED BY <2>2, <2>3, EvictionWakes
<1>17. ASSUME NEW a \in Actors, Releases(a) PROVE WakeInv'
  <2> DEFINE l == LayerOf[a]
  <2>1. Place(a, "go", "send") BY <1>17, HandlersMove
  <2>2. /\ Put(l, Without(l, Freed(a))) /\ UNCHANGED <<ver, swallowed, rx>>
        /\ toSend' = [toSend EXCEPT ![a] = Events(l, Expired(l)) \o Events(l, Freed(a))]
    BY <1>17 DEF Releases, Others, kvVars, Goto
  <2>3. l \in Layers /\ Freed(a) \in SUBSET Names /\ Expired(l) \in SUBSET Names
    BY DEF Freed, Expired
  <2>4. toSend[a] = <<>> /\ a \in Senders BY <2>1, TasksDiffer DEF SendInv, Place
  <2>5. /\ toSend'[a] = Events(l, Expired(l)) \o Events(l, Freed(a))
        /\ \A p \in Senders \ {a} : toSend'[p] = toSend[p]
    BY <2>2, <2>4 DEF CallOK
  <2>6. \A b \in Actors : call'[b].at = "waiting" => call'[b] = call[b] /\ rx'[b] = rx[b]
    BY <2>1, <2>2 DEF Place
  <2> HIDE DEF l
  <2>7. \A n \in Freed(a) \cup Expired(l) : \E i \in 1..Len(toSend'[a]) :
           toSend'[a][i].layer = l /\ toSend'[a][i].op = "acquire" /\ toSend'[a][i].name = n
    <3> DEFINE q == toSend'[a]
               F == Freed(a)
               E == Expired(l)
    <3>1. q = Events(l, E) \o Events(l, F) BY <2>5
    <3>2. F \in SUBSET Names /\ E \in SUBSET Names BY <2>3
    <3> HIDE DEF q, E, F
    <3>3. Tells(Events(l, E) \o Events(l, F), l, F \cup E) BY <2>3, <3>2, EventsJoin
    <3>4. Tells(q, l, F \cup E) BY <3>1, <3>3, Zenon
    <3> QED BY <3>4 DEF Tells, q, E, F
  <2> QED BY <2>2, <2>3, <2>4, <2>5, <2>6, <2>7, SweepWakes
<1>18. ASSUME NEW a \in Actors, ReleaseFails(a) PROVE WakeInv'
  <2>1. Answered(a) BY <1>18, HandlersMove
  <2>2. /\ Put(LayerOf[a], Without(LayerOf[a], {})) /\ Swallow(LayerOf[a])
        /\ UNCHANGED <<ver, toSend>> /\ LayerOf[a] \in Layers
    BY <1>18 DEF Evicts, Others, kvVars, ConflictReturns, ReleaseFails
  <2>3. \A b \in Actors : call'[b].at = "waiting" => call'[b] = call[b] /\ rx'[b] = rx[b]
    BY <2>1 DEF Answered
  <2> QED BY <2>2, <2>3, EvictionWakes
<1>19. ASSUME NEW l \in Layers, Prune(l) PROVE WakeInv'
  <2>1. /\ Put(l, Without(l, {})) /\ UNCHANGED <<ver, swallowed, rx, call>> /\ toSend[l] = <<>>
        /\ toSend' = [toSend EXCEPT ![l] = Events(l, Expired(l))]
    BY <1>19 DEF Prune, kvVars
  <2>2. {} \in SUBSET Names /\ Expired(l) \in SUBSET Names /\ l \in Senders
    BY TasksDiffer DEF Expired
  <2>3. toSend'[l] = Events(l, Expired(l)) /\ \A p \in Senders \ {l} : toSend'[p] = toSend[p]
    BY <2>1, <2>2 DEF CallOK
  <2>4. \A n \in {} \cup Expired(l) : \E i \in 1..Len(toSend'[l]) :
           toSend'[l][i].layer = l /\ toSend'[l][i].op = "acquire" /\ toSend'[l][i].name = n
    BY <2>2, <2>3, EventsAre
  <2>5. \A b \in Actors : call'[b].at = "waiting" => call'[b] = call[b] /\ rx'[b] = rx[b]
    BY <2>1
  <2> QED BY <2>1, <2>2, <2>3, <2>4, <2>5, SweepWakes
<1>20. ASSUME NEW l \in Layers, NEW n \in Names, Expire(l, n) PROVE WakeInv'
  <2>1. /\ lease' = [lease EXCEPT ![l] = [lease[l] EXCEPT ![n] = [@ EXCEPT !.expired = TRUE]]]
        /\ UNCHANGED <<call, rx, toSend, ver, swallowed>>
    BY <1>20 DEF Expire, Put, kvVars
  <2>2. lease \in [Layers -> [Names -> Entry]] BY DEF LeaseOK
  <2>3. [lease[l][n] EXCEPT !.expired = TRUE].holder = lease[l][n].holder BY <2>2 DEF Entry
  <2>4. \A m \in Layers, z \in Names : lease'[m][z].holder = lease[m][z].holder
    BY <2>1, <2>2, <2>3
  <2>5. ASSUME NEW b \in Actors, Ready(b)' PROVE Ready(b)
    <3>1. call[b].op = "acquire" => call[b].name \in Names /\ LayerOf[b] \in Layers
      BY DEF CallInv
    <3> QED BY <2>1, <2>4, <2>5, <3>1 DEF Ready, Satisfied, Available, Held
  <2> QED BY <2>1, <2>5, WakeKept
<1>21. ASSUME NEW a \in Actors, NEW n \in menu.names, RunAcquire(a, n) PROVE WakeInv'
  <2>1. UNCHANGED <<call, rx, toSend, ver, lease, swallowed>>
    BY <1>21 DEF RunAcquire, kvVars, lockVars
  <2> QED BY <2>1, ReadyFrame, WakeKept
<1>22. ASSUME NEW a \in Actors, NEW n \in menu.names, RunRelease(a, n) PROVE WakeInv'
  <2>1. UNCHANGED <<call, rx, toSend, ver, lease, swallowed>>
    BY <1>22 DEF RunRelease, kvVars, leaseVars, lockVars
  <2> QED BY <2>1, ReadyFrame, WakeKept
<1>23. ASSUME NEW a \in Actors, Disconnect(a) PROVE WakeInv'
  <2> DEFINE F == {n \in Names \ Expired(Root) : lease[Root][n].holder = a}
             t == Cleanup(a)
  <2>1. /\ Put(Root, Without(Root, F)) /\ UNCHANGED <<ver, swallowed, rx, call>> /\ gone[a] = "no"
        /\ toSend' = [toSend EXCEPT ![t] = Events(Root, Expired(Root)) \o Events(Root, F)]
    BY <1>23 DEF Disconnect, kvVars
  <2>2. Root \in Layers /\ F \in SUBSET Names /\ Expired(Root) \in SUBSET Names
    BY DEF Layers, Expired
  <2>3. toSend[t] = <<>> /\ t \in Senders BY <2>1, TasksDiffer DEF SendInv
  <2> HIDE DEF F, t
  <2>4. /\ toSend'[t] = Events(Root, Expired(Root)) \o Events(Root, F)
        /\ \A p \in Senders \ {t} : toSend'[p] = toSend[p]
    BY <2>1, <2>3 DEF CallOK
  <2>5. \A n \in F \cup Expired(Root) : \E i \in 1..Len(toSend'[t]) :
           toSend'[t][i].layer = Root /\ toSend'[t][i].op = "acquire" /\ toSend'[t][i].name = n
    <3> DEFINE q == toSend'[t]
               E == Expired(Root)
    <3>1. q = Events(Root, E) \o Events(Root, F) BY <2>4
    <3>2. F \in SUBSET Names /\ E \in SUBSET Names BY <2>2
    <3> HIDE DEF q, E
    <3>3. Tells(Events(Root, E) \o Events(Root, F), Root, F \cup E)
      BY <2>2, <3>2, EventsJoin
    <3>4. Tells(q, Root, F \cup E) BY <3>1, <3>3, Zenon
    <3> QED BY <3>4 DEF Tells, q, E
  <2>6. \A b \in Actors : call'[b].at = "waiting" => call'[b] = call[b] /\ rx'[b] = rx[b]
    BY <2>1
  <2> QED BY <2>1, <2>2, <2>3, <2>4, <2>5, <2>6, SweepWakes
<1>24. ASSUME NEW a \in Actors, ReleaseRunLeases(a) PROVE WakeInv'
  <2>1. UNCHANGED <<call, rx, toSend, ver, lease, swallowed>>
    BY <1>24 DEF ReleaseRunLeases, kvVars, leaseVars, lockVars
  <2> QED BY <2>1, ReadyFrame, WakeKept
<1>25. ASSUME NEW n \in Names, RunExpire(n) PROVE WakeInv'
  <2>1. UNCHANGED <<call, rx, toSend, ver, lease, swallowed>>
    BY <1>25 DEF RunExpire, kvVars, leaseVars, lockVars
  <2> QED BY <2>1, ReadyFrame, WakeKept
<1>27. ASSUME NEW a \in Actors, SessionTail(a) PROVE WakeInv'
  <2>1. UNCHANGED <<call, rx, toSend, ver, lease, swallowed>>
    BY <1>27 DEF SessionTail, kvVars, leaseVars
  <2> QED BY <2>1, ReadyFrame, WakeKept
<1>26. CASE UNCHANGED vars BY <1>26, ReadyFrame, WakeKept DEF vars
<1> QED BY <1>1, <1>2, <1>3, <1>4, <1>5, <1>6, <1>7, <1>8, <1>9, <1>10, <1>11,
    <1>12, <1>13, <1>14, <1>15, <1>16, <1>17, <1>18, <1>19, <1>20, <1>21, <1>22,
    <1>23, <1>24, <1>25, <1>26, <1>27, StepCases DEF Handles

-----------------------------------------------------------------------------
(* The theorems *)

LEMMA InitStore == Init => StoreInv
<1> SUFFICES ASSUME Init PROVE StoreInv OBVIOUS
<1> USE StoreAssumption
<1>1. menu \in [who : SUBSET Actors, ops : SUBSET AllOps, keys : SUBSET Keys,
                names : SUBSET Names, pre : SUBSET Subs, subs : SUBSET Subs, max : Nat]
  BY DEF Init
<1>2. \A a \in Actors : call[a] = Idle BY DEF Init
<1>3. LockOK BY <1>1, <1>2 DEF Init, LockOK, Idle
<1>4. CallOK
  <2>1. Idle \in Request BY DEF Idle, Request, Places
  <2>2. NoRx \in [q : Seq(Event), lag : BOOLEAN] /\ Len(NoRx.q) = 0 BY DEF NoRx
  <2>3. <<>> \in Seq(Event) OBVIOUS
  <2> QED BY <2>1, <2>2, <2>3 DEF Init, CallOK
<1>5. KeysOK BY DEF Init, KeysOK
<1>6. LeaseOK
  <2>1. Free \in Entry BY DEF Free, Entry
  <2> QED BY <2>1 DEF Init, LeaseOK
<1>7. CallInv BY <1>2 DEF CallInv, Idle
<1>8. QueueInv BY DEF Init, QueueInv
<1>9. SendInv BY DEF Init, SendInv, Senders
<1>10. LeaveInv BY DEF Init, LeaveInv
<1>11. NoMissedWrite /\ NoForgottenWaiter BY <1>2 DEF NoMissedWrite, NoForgottenWaiter, Idle
<1>12. TotalIsSum
  <2> SUFFICES ASSUME NEW l \in Layers
               PROVE  total[l] = Cardinality(Stored(size[l])) /\ total[l] <= MaxTotal
    BY DEF TotalIsSum
  <2> DEFINE f == size[l]
  <2>1. \A k \in Keys : f[k] \in Nat /\ f[k] = 0 BY DEF Init
  <2>2. total[l] = 0 /\ 0 <= MaxTotal BY DEF Init
  <2> HIDE DEF f
  <2>3. Stored(f) = {} BY <2>1 DEF Stored
  <2>4. Cardinality(Stored(f)) = 0 BY <2>3, FS_EmptySet
  <2> QED BY <2>2, <2>4 DEF f
<1> QED BY <1>3, <1>4, <1>5, <1>6, <1>7, <1>8, <1>9, <1>10, <1>11, <1>12 DEF StoreInv, TypeOK

\* The inductive invariant, for every set of callers, layers, keys and names.
THEOREM StoreInvariant == Spec => []StoreInv
<1>1. StoreInv /\ [Next]_vars => StoreInv'
  <2> SUFFICES ASSUME StoreInv, [Next]_vars PROVE StoreInv' OBVIOUS
  <2>1. LockOK' /\ CallOK' /\ LeaseOK' BY LockStep, CallStepOK, LeaseStepOK
  <2>2. (KeysOK /\ TotalIsSum)' BY KeysStep
  <2>3. CallInv' /\ QueueInv' /\ SendInv' /\ LeaveInv'
    BY CallInvStep, QueueStep, SendStep, LeaveStep
  <2>4. WakeInv' BY WakeStep
  <2>5. (NoMissedWrite /\ NoForgottenWaiter <=> WakeInv)' BY WakeSays, PTL
  <2> QED BY <2>1, <2>2, <2>3, <2>4, <2>5 DEF StoreInv, TypeOK
<1> QED BY <1>1, InitStore, PTL DEF Spec

\* No wait and no lease_acquire sleeps on beside what it waits for with nothing on its way
\* to wake it (SharedStore::wait, lease_acquire), a connection that is gone holds nothing
\* but what was granted late, and total_bytes is the sum of the sizes.
THEOREM StoreStaysSound == Spec => []StoreIsSound
<1>1. StoreInv => StoreIsSound
  BY DEF StoreInv, StoreIsSound, LeaveInv, GoneHoldsNothing
<1> QED BY <1>1, StoreInvariant, PTL

\* What a step may do to a lease whose TTL runs: to one of a layer, and to a run-global one.
LayerLeasesStay ==
    \A l \in Layers, n \in Names :
        LET e == lease[l][n] IN
        Held(l, n) /\ ~ e.expired /\ lease'[l][n].id # e.id =>
            \/ call[e.holder].op = "release" /\ call[e.holder].n = e.id
            \/ gone'[e.holder] # gone[e.holder]

RunLeasesStay ==
    \A n \in Names :
        LET h == runLease[n].holder IN
        h # Nobody /\ ~ runLease[n].expired /\ runLease'[n].holder # h =>
            RunRelease(h, n) \/ SessionTail(h) \/ gone'[h] # gone[h]

\* A sweep takes only what it was asked to.
LEMMA SweepSpares ==
    ASSUME LeaseOK, NEW l \in Layers, NEW S \in SUBSET Names, Put(l, Without(l, S)),
           NEW m \in Layers, NEW n \in Names, Held(m, n), ~ lease[m][n].expired, ~ (m = l /\ n \in S)
    PROVE  lease'[m][n] = lease[m][n]
<1>1. n \notin Expired(m) BY DEF Expired
<1>2. CASE m = l
  <2>1. lease'[m] = Without(l, S) BY <1>2 DEF Put, LeaseOK
  <2> QED BY <1>1, <1>2, <2>1 DEF Without
<1>3. CASE m # l BY <1>3 DEF Put, LeaseOK
<1> QED BY <1>2, <1>3

LEMMA LayerLeasesStep == StoreInv /\ [Next]_vars => LayerLeasesStay
<1> SUFFICES ASSUME StoreInv, [Next]_vars PROVE LayerLeasesStay OBVIOUS
<1> SUFFICES ASSUME NEW m \in Layers, NEW z \in Names, Held(m, z), ~ lease[m][z].expired,
                    lease'[m][z].id # lease[m][z].id
             PROVE  \/ /\ call[lease[m][z].holder].op = "release"
                       /\ call[lease[m][z].holder].n = lease[m][z].id
                    \/ gone'[lease[m][z].holder] # gone[lease[m][z].holder]
  BY DEF LayerLeasesStay
<1> USE StoreAssumption
<1> LeaseOK /\ CallOK /\ CallInv BY DEF StoreInv, TypeOK
<1>a. lease' # lease BY Zenon
<1>b. Next BY <1>a DEF vars
<1>1. ASSUME NEW a \in Actors, Acquires(a) PROVE FALSE
  <2> DEFINE l == LayerOf[a]
             n == call[a].name
             row == Without(l, {})
             x == [holder |-> a, id |-> ids + 1, expired |-> FALSE]
  <2>1. l \in Layers /\ n \in Names BY <1>1 DEF Acquires, CallInv
  <2>2. Put(l, [row EXCEPT ![n] = x]) /\ (~ Held(l, n) \/ n \in Expired(l)) BY <1>1 DEF Acquires
  <2>3. ~ (m = l /\ z = n) BY <2>2 DEF Expired
  <2>4. z \notin Expired(m) BY DEF Expired
  <2>5. CASE m = l
    <3>1. lease'[m] = [row EXCEPT ![n] = x] BY <2>1, <2>2, <2>5 DEF Put, LeaseOK
    <3>2. row[z] = lease[m][z] /\ row = [k \in Names |-> row[k]] BY <2>4, <2>5 DEF Without
    <3> HIDE DEF row, x, l, n
    <3>3. lease'[m][z] = row[z] BY <2>3, <2>5, <3>1, <3>2
    <3> QED BY <3>2, <3>3
  <2>6. CASE m # l
    <3> HIDE DEF row, x, l, n
    <3> QED BY <2>2, <2>6 DEF Put, LeaseOK
  <2> QED BY <2>5, <2>6
<1>2. ASSUME NEW l \in Layers, Put(l, Without(l, {})) PROVE FALSE
  <2>1. lease'[m][z] = lease[m][z] BY <1>2, SweepSpares
  <2> QED BY <2>1
<1>3. ASSUME NEW a \in Actors, ConflictSleeps(a) \/ ConflictReturns(a) \/ ReleaseFails(a) PROVE FALSE
  <2>1. Put(LayerOf[a], Without(LayerOf[a], {})) /\ LayerOf[a] \in Layers
    BY <1>3 DEF ConflictSleeps, ConflictReturns, ReleaseFails, Evicts
  <2> QED BY <1>2, <2>1
<1>4. ASSUME NEW l \in Layers, Prune(l) PROVE FALSE BY <1>2, <1>4 DEF Prune
<1>5. ASSUME NEW a \in Actors, Releases(a)
      PROVE  call[lease[m][z].holder].op = "release"
             /\ call[lease[m][z].holder].n = lease[m][z].id
  <2>1. Put(LayerOf[a], Without(LayerOf[a], Freed(a))) /\ call[a].op = "release"
    BY <1>5 DEF Releases
  <2>2. LayerOf[a] \in Layers /\ Freed(a) \in SUBSET Names BY DEF Freed
  <2>3. m = LayerOf[a] /\ z \in Freed(a)
    <3> SUFFICES ASSUME ~ (m = LayerOf[a] /\ z \in Freed(a)) PROVE FALSE OBVIOUS
    <3>1. lease'[m][z] = lease[m][z] BY <2>1, <2>2, SweepSpares
    <3> QED BY <3>1
  <2> QED BY <2>1, <2>3 DEF Freed
<1>6. ASSUME NEW a \in Actors, Disconnect(a)
      PROVE  gone'[lease[m][z].holder] # gone[lease[m][z].holder]
  <2> DEFINE F == {n \in Names \ Expired(Root) : lease[Root][n].holder = a}
  <2>1. Put(Root, Without(Root, F)) /\ gone[a] = "no" /\ gone' = [gone EXCEPT ![a] = "store"]
    BY <1>6 DEF Disconnect
  <2>2. Root \in Layers /\ F \in SUBSET Names BY DEF Layers
  <2>3. m = Root /\ z \in F
    <3> SUFFICES ASSUME ~ (m = Root /\ z \in F) PROVE FALSE OBVIOUS
    <3> HIDE DEF F
    <3>1. lease'[m][z] = lease[m][z] BY <2>1, <2>2, SweepSpares
    <3> QED BY <3>1
  <2>4. lease[m][z].holder = a BY <2>3
  <2> QED BY <2>1, <2>4 DEF CallOK
<1>7. ASSUME NEW l \in Layers, NEW n \in Names, Expire(l, n) PROVE FALSE
  <2> DEFINE e == [lease[l][n] EXCEPT !.expired = TRUE]
  <2>1. lease' = [lease EXCEPT ![l] = [lease[l] EXCEPT ![n] = e]] BY <1>7 DEF Expire, Put
  <2>2. lease[l] \in [Names -> Entry] /\ lease[l][n] \in Entry BY DEF LeaseOK
  <2>3. e.id = lease[l][n].id BY <2>2 DEF Entry
  <2> HIDE DEF e
  <2>4. lease'[m][z].id = lease[m][z].id BY <2>1, <2>2, <2>3 DEF LeaseOK
  <2> QED BY <2>4
<1>8. ASSUME NEW a \in Actors, Handles(a), lease' # lease
      PROVE  \/ Acquires(a) \/ ConflictSleeps(a) \/ ConflictReturns(a) \/ Releases(a)
             \/ ReleaseFails(a)
  BY <1>8 DEF Handles, Returns, Subscribes, Sleeps, Skips, Ignores, Retries, Write, Kept, leaseVars
<1>9. \/ \E a \in Actors : Handles(a) \/ Disconnect(a)
      \/ \E l \in Layers : Prune(l) \/ \E n \in Names : Expire(l, n)
  BY <1>a, <1>b, StepCases
     DEF GrantsRead, GrantsWrite, WantWrite, WriteMap, Send, Call, RunAcquire, RunRelease,
         ReleaseRunLeases, SessionTail, RunExpire, leaseVars
<1> QED BY <1>a, <1>1, <1>3, <1>4, <1>5, <1>6, <1>7, <1>8, <1>9

LEMMA RunLeasesStep == StoreInv /\ [Next]_vars => RunLeasesStay
<1> SUFFICES ASSUME StoreInv, [Next]_vars PROVE RunLeasesStay OBVIOUS
<1> SUFFICES ASSUME NEW z \in Names, runLease[z].holder # Nobody, ~ runLease[z].expired,
                    runLease'[z].holder # runLease[z].holder
             PROVE  RunRelease(runLease[z].holder, z) \/ SessionTail(runLease[z].holder)
                    \/ gone'[runLease[z].holder] # gone[runLease[z].holder]
  BY DEF RunLeasesStay
<1> USE StoreAssumption
<1> LeaseOK /\ CallOK BY DEF StoreInv, TypeOK
<1>a. runLease' # runLease BY Zenon
<1>b. Next BY <1>a DEF vars
<1>1. menu.names \in SUBSET Names BY DEF CallOK
<1>2. ASSUME NEW a \in Actors, NEW n \in menu.names, RunAcquire(a, n) PROVE FALSE
  <2>1. n \in Names BY <1>1
  <2>2. runLease' = [runLease EXCEPT ![n] = [holder |-> a, id |-> 0, expired |-> FALSE]]
        /\ (runLease[n].holder \in {Nobody, a} \/ runLease[n].expired)
    BY <1>2 DEF RunAcquire
  <2>3. CASE n = z
    <3>1. runLease'[z].holder = a BY <2>1, <2>2, <2>3 DEF LeaseOK
    <3> QED BY <2>2, <2>3, <3>1
  <2>4. CASE n # z
    <3>1. runLease'[z] = runLease[z] BY <2>1, <2>2, <2>4 DEF LeaseOK
    <3> QED BY <3>1
  <2> QED BY <2>3, <2>4
<1>3. ASSUME NEW a \in Actors, NEW n \in menu.names, RunRelease(a, n)
      PROVE  RunRelease(runLease[z].holder, z)
  <2>1. runLease' = [runLease EXCEPT ![n] = Free] /\ runLease[n].holder = a
    BY <1>3 DEF RunRelease
  <2>2. n = z
    <3> SUFFICES ASSUME n # z PROVE FALSE OBVIOUS
    <3>1. runLease'[z] = runLease[z] BY <2>1 DEF LeaseOK
    <3> QED BY <3>1
  <2> QED BY <1>3, <2>1, <2>2
<1>4. ASSUME NEW n \in Names, RunExpire(n) PROVE FALSE
  <2> DEFINE e == [runLease[n] EXCEPT !.expired = TRUE]
  <2>1. runLease' = [runLease EXCEPT ![n] = e] BY <1>4 DEF RunExpire
  <2>2. runLease[n] \in Entry BY DEF LeaseOK
  <2>3. e.holder = runLease[n].holder BY <2>2 DEF Entry
  <2> HIDE DEF e
  <2>4. runLease'[z].holder = runLease[z].holder BY <2>1, <2>3 DEF LeaseOK
  <2> QED BY <2>4
<1>5. ASSUME NEW a \in Actors, ReleaseRunLeases(a)
      PROVE  gone'[runLease[z].holder] # gone[runLease[z].holder]
  <2>1. /\ runLease' = [n \in Names |-> IF runLease[n].holder = a THEN Free ELSE runLease[n]]
        /\ gone[a] = "store" /\ gone' = [gone EXCEPT ![a] = "yes"]
    BY <1>5 DEF ReleaseRunLeases, FreeHeldBy
  <2>2. runLease[z].holder = a
    <3> SUFFICES ASSUME runLease[z].holder # a PROVE FALSE OBVIOUS
    <3>1. runLease'[z] = runLease[z] BY <2>1
    <3> QED BY <3>1
  <2> QED BY <2>1, <2>2 DEF CallOK
<1>6. ASSUME NEW a \in Actors, Handles(a) PROVE FALSE
  <2>1. UNCHANGED runLease
    BY <1>6 DEF Handles, Returns, Subscribes, Sleeps, Skips, Ignores, Retries, Write, Kept,
                Acquires, ConflictSleeps, ConflictReturns, Evicts, Releases, ReleaseFails, Others
  <2> QED BY <1>a, <2>1
<1>7. \/ \E a \in Actors : \E n \in menu.names : RunAcquire(a, n) \/ RunRelease(a, n)
      \/ \E a \in Actors : Handles(a) \/ ReleaseRunLeases(a) \/ SessionTail(a)
      \/ \E n \in Names : RunExpire(n)
  BY <1>a, <1>b, StepCases
     DEF GrantsRead, GrantsWrite, WantWrite, WriteMap, Send, Call, Prune, Expire, Disconnect
<1>8. ASSUME NEW a \in Actors, SessionTail(a) PROVE SessionTail(runLease[z].holder)
  <2>1. runLease' = [n \in Names |-> IF runLease[n].holder = a THEN Free ELSE runLease[n]]
    BY <1>8 DEF SessionTail, FreeHeldBy
  <2>2. runLease[z].holder = a
    <3> SUFFICES ASSUME runLease[z].holder # a PROVE FALSE OBVIOUS
    <3>1. runLease'[z] = runLease[z] BY <2>1
    <3> QED BY <3>1
  <2> QED BY <1>8, <2>2
<1> QED BY <1>2, <1>3, <1>4, <1>5, <1>6, <1>7, <1>8

\* A lease whose TTL runs leaves its holder only by the holder's own release of its id, or
\* by the end of the holder's connection (LeaseRegistry::release, run_leases.rs release);
\* a run-global one also by the end of a session of the holder's name.
THEOREM LeasesAreNotStolen == Spec => LeaseIsNotStolen
<1>1. StoreInv /\ [Next]_vars => [LayerLeasesStay /\ RunLeasesStay]_vars
  BY LayerLeasesStep, RunLeasesStep
<1> QED BY <1>1, StoreInvariant, PTL DEF Spec, LeaseIsNotStolen, LayerLeasesStay, RunLeasesStay
=============================================================================
