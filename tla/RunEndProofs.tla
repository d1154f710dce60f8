---------------------------- MODULE RunEndProofs ----------------------------
(***************************************************************************)
(* Proofs about RunEnd for any tree of workers and sub-leads, any number   *)
(* of waits and any capacity of the channel: waits miss no completion,     *)
(* summary.json has one record each and the right ones, and the exit code  *)
(* says what happened.                                                     *)
(***************************************************************************)
EXTENDS RunEnd, SequenceTheorems, TLAPS

-----------------------------------------------------------------------------
(* The inductive invariant *)

\* The stages of a tail: the session has ended, append_record has returned, the entry is Done.
Marked == {"done", "settled", "gone"}
Appended == {"recorded", "removed"} \cup Marked
Ended == {"exited", "ended", "written"} \cup Appended

\* What an actor leaves behind as its tail goes on. A worker's layer was spawned before it.
Trail(a) ==
    /\ at[a] = "written" => a \in line \cup lost
    /\ at[a] \in Appended => a \in lost \/ [id |-> a, synth |-> FALSE] \in file
    /\ entry[a] = "done" => at[a] \in Marked
    /\ at[a] \in Ended => outcome[a] # "none"
    /\ at[a] # "idle" => at[Layer(a)] # "idle"

TrailInv == \A a \in Actors : Trail(a)

\* No record is of a session that has not ended, and none is synthesized before the end.
FileInv == \A r \in file : IF r.synth THEN fin = "done" ELSE outcome[r.id] # "none"

MailInv == \A l \in Leads : mail[l] <= sent

\* The messages a receiver holds, and that it will hear of a: by its message or as Lagged.
Queued(r) == {r.q[i] : i \in 1 .. Len(r.q)}
Hears(c, a) == a \in Queued(rx[c]) \/ rx[c].lag

\* A message is about an actor that has announced itself.
QueueInv == \A r \in Receivers : \A a \in Queued(rx[r]) : at[a] = "gone"

\* From where it has looked on, a wait hears of whatever it could have found there.
Alert(c) ==
    /\ Waiting(c) => rx[c].open
    /\ \A a \in call[c].want.ids : at[a] = "gone" =>
          /\ call[c].at \in {"results", "exists", "waiting"} /\ IsDone(a) => Hears(c, a)
          /\ call[c].at \in {"exists", "waiting"} /\ a \in results => Hears(c, a)

AlertInv == \A c \in Calls : Alert(c)

Own(a) == a \in lost \/ [id |-> a, synth |-> FALSE] \in read

Finishing == {"root", "subs", "kill", "drain", "read", "synthRoot", "synthSubs", "write"}

\* Before finalize terminates the run's token.
Early == DOMAIN After \cup {"wait", "root", "subs", "kill"}

\* What run_hierarchical's tail has established when it is where it is.
FinInv ==
    /\ SettingUp => at[Root] = "idle"
    /\ fin \in Finishing => at[Root] = "gone"
    /\ \A a \in known \ inFlight : at[a] \in Marked
    /\ fin = "read" /\ ~ gaveUp => inFlight = {}
    /\ fin \in {"synthRoot", "synthSubs", "write"} =>
          Own(Root) /\ (~ gaveUp => \A a \in known : Own(a))
    /\ fin \in {"synthSubs", "write"} => synth \cap Existing = {}

\* What the run's token has to do with the end: before finalize terminates it, it is
\* tripped only by somebody else, and a lead that was stopped by it was stopped before
\* finalize looked.
TokenInv ==
    /\ interrupted => stop # {}
    /\ outcome[Root] = "Cancelled" => Root \in killed
    /\ fin \in Early /\ Root \in killed => stop # {}
    /\ fin \in Finishing /\ outcome[Root] = "Cancelled" => interrupted

\* The summary, once it is written: nothing happens after that.
SummaryInv == OneRecordEach /\ DrainedAreReported /\ ExitCodeIsHonest

RunEndInv ==
    /\ TypeOK /\ TrailInv /\ FileInv /\ MailInv /\ QueueInv /\ AlertInv /\ FinInv /\ TokenInv
    /\ SummaryInv

-----------------------------------------------------------------------------
(* The channel *)

\* What a message does to a receiver: an open one hears of it and of what it already held.
LEMMA ReceiveKeeps ==
    ASSUME NEW r \in Rx, NEW a \in Actors, Len(r.q) <= Cap, ~ r.open => r = NoRx
    PROVE  LET n == Receive(r, a) IN
           /\ n \in Rx /\ Len(n.q) <= Cap /\ n.open = r.open /\ (~ n.open => n = NoRx)
           /\ Queued(n) \subseteq Queued(r) \cup {a}
           /\ r.lag => n.lag
           /\ r.open => Queued(r) \cup {a} \subseteq Queued(n) \/ n.lag
<1> DEFINE n == Receive(r, a)
           q == Append(r.q, a)
<1>0. r.q \in Seq(Actors) BY DEF Rx
<1>1. /\ q \in Seq(Actors) /\ Len(q) = Len(r.q) + 1
      /\ \A i \in 1 .. Len(r.q) : q[i] = r.q[i]
      /\ q[Len(r.q) + 1] = a
  BY <1>0, AppendProperties
<1>2. Len(r.q) \in Nat /\ Len(q) \in Nat /\ q # <<>> BY <1>0, <1>1, LenProperties
<1>3. /\ Head(q) \in Actors /\ Tail(q) \in Seq(Actors) /\ Len(Tail(q)) = Len(q) - 1
      /\ \A i \in 1 .. Len(Tail(q)) : Tail(q)[i] = q[i + 1]
  BY <1>1, <1>2, HeadTailProperties
<1> HIDE DEF q
<1>4. CASE ~ r.open BY <1>4 DEF Receive
<1>5. CASE r.open /\ Len(q) <= Cap
  <2>1. n = [r EXCEPT !.q = q] BY <1>5 DEF Receive, q
  <2>2. n \in Rx /\ n.q = q /\ n.lag = r.lag /\ n.open BY <1>1, <1>5, <2>1 DEF Rx
  <2>3. Queued(n) = Queued(r) \cup {a} BY <1>1, <1>2, <2>2 DEF Queued
  <2> QED BY <1>5, <2>2, <2>3
<1>6. CASE r.open /\ ~ (Len(q) <= Cap)
  <2>1. n = [r EXCEPT !.q = Tail(q), !.lag = TRUE, !.dropped = @ \cup {Head(q)}]
    BY <1>6 DEF Receive, q
  <2>2. n \in Rx /\ n.q = Tail(q) /\ n.lag /\ n.open BY <1>3, <1>6, <2>1, ZenonT(60) DEF Rx
  <2>3. Len(n.q) <= Cap BY <1>1, <1>2, <1>3, <2>2
  <2>4. Queued(n) \subseteq Queued(r) \cup {a} BY <1>1, <1>2, <1>3, <2>2 DEF Queued
  <2> QED BY <1>6, <2>2, <2>3, <2>4
<1> QED BY <1>4, <1>5, <1>6

\* What a receiver holds after it has taken its first message.
LEMMA TakeKeeps ==
    ASSUME NEW r \in Rx, r.q # <<>>
    PROVE  /\ Head(r.q) \in Queued(r) /\ Head(r.q) \in Actors
           /\ Tail(r.q) \in Seq(Actors) /\ Len(Tail(r.q)) = Len(r.q) - 1
           /\ {Tail(r.q)[i] : i \in 1 .. Len(Tail(r.q))} \subseteq Queued(r)
<1>0. r.q \in Seq(Actors) BY DEF Rx
<1>1. Len(r.q) \in Nat \ {0} BY <1>0, LenProperties, EmptySeq
<1>2. /\ Head(r.q) \in Actors /\ Tail(r.q) \in Seq(Actors) /\ Len(Tail(r.q)) = Len(r.q) - 1
      /\ \A i \in 1 .. Len(Tail(r.q)) : Tail(r.q)[i] = r.q[i + 1]
  BY <1>0, HeadTailProperties
<1>3. Head(r.q) = r.q[1] BY <1>0, <1>1
<1> QED BY <1>1, <1>2, <1>3 DEF Queued

\* A receiver that is not open holds nothing.
LEMMA NoRxIsEmpty == NoRx \in Rx /\ Queued(NoRx) = {} /\ ~ NoRx.open /\ Len(NoRx.q) = 0
BY DEF NoRx, Rx, Queued

\* What subscribing, answering and taking a message do to the receivers.
LEMMA ReceiverSteps ==
    ASSUME RxOK, NEW c \in Receivers
    PROVE  /\ rx' = Opened(c) =>
                 /\ RxOK' /\ rx'[c].open
                 /\ \A r \in Receivers : Queued(rx'[r]) = Queued(rx[r]) /\ rx'[r].lag = rx[r].lag
                 /\ \A r \in Receivers \ {c} : rx'[r] = rx[r]
           /\ rx' = [rx EXCEPT ![c] = NoRx] =>
                 /\ RxOK' /\ rx'[c] = NoRx
                 /\ \A r \in Receivers : Queued(rx'[r]) \subseteq Queued(rx[r])
                 /\ \A r \in Receivers \ {c} : rx'[r] = rx[r]
           /\ rx' = [rx EXCEPT ![c] = [@ EXCEPT !.q = Tail(rx[c].q)]] /\ rx[c].q # <<>> =>
                 /\ RxOK' /\ rx'[c].open = rx[c].open /\ rx'[c].lag = rx[c].lag
                 /\ Head(rx[c].q) \in Queued(rx[c])
                 /\ \A r \in Receivers : Queued(rx'[r]) \subseteq Queued(rx[r])
                 /\ \A r \in Receivers \ {c} : rx'[r] = rx[r]
           /\ rx' = [rx EXCEPT ![c] = [@ EXCEPT !.lag = FALSE]] =>
                 /\ RxOK'
                 /\ \A r \in Receivers : Queued(rx'[r]) = Queued(rx[r])
                 /\ \A r \in Receivers \ {c} : rx'[r] = rx[r]
<1> USE DEF RxOK
<1>0. Cap \in Nat \ {0} BY Bounds
<1>1. ASSUME rx' = Opened(c)
      PROVE  /\ RxOK' /\ rx'[c].open
             /\ \A r \in Receivers : Queued(rx'[r]) = Queued(rx[r]) /\ rx'[r].lag = rx[r].lag
             /\ \A r \in Receivers \ {c} : rx'[r] = rx[r]
  <2>1. rx' = [rx EXCEPT ![c] = [rx[c] EXCEPT !.open = TRUE]] BY <1>1 DEF Opened
  <2>2. /\ [rx[c] EXCEPT !.open = TRUE] \in Rx /\ rx'[c].open
        /\ rx'[c].q = rx[c].q /\ rx'[c].lag = rx[c].lag
    BY <2>1 DEF Rx
  <2>3. \A r \in Receivers \ {c} : rx'[r] = rx[r] BY <2>1
  <2>4. rx' \in [Receivers -> Rx] BY <2>1, <2>2
  <2>5. \A r \in Receivers : Queued(rx'[r]) = Queued(rx[r]) BY <2>2, <2>3 DEF Queued
  <2> QED BY <2>2, <2>3, <2>4, <2>5
<1>2. ASSUME rx' = [rx EXCEPT ![c] = NoRx]
      PROVE  /\ RxOK' /\ rx'[c] = NoRx
             /\ \A r \in Receivers : Queued(rx'[r]) \subseteq Queued(rx[r])
             /\ \A r \in Receivers \ {c} : rx'[r] = rx[r]
  BY <1>0, <1>2, NoRxIsEmpty
<1>3. ASSUME rx' = [rx EXCEPT ![c] = [@ EXCEPT !.q = Tail(rx[c].q)]], rx[c].q # <<>>
      PROVE  /\ RxOK' /\ rx'[c].open = rx[c].open /\ rx'[c].lag = rx[c].lag
             /\ Head(rx[c].q) \in Queued(rx[c])
             /\ \A r \in Receivers : Queued(rx'[r]) \subseteq Queued(rx[r])
             /\ \A r \in Receivers \ {c} : rx'[r] = rx[r]
  <2>0. rx[c] \in Rx /\ Len(rx[c].q) \in Nat BY LenProperties DEF Rx
  <2>1. rx' = [rx EXCEPT ![c] = [rx[c] EXCEPT !.q = Tail(rx[c].q)]] BY <1>3
  <2>2. /\ Head(rx[c].q) \in Queued(rx[c])
        /\ Tail(rx[c].q) \in Seq(Actors) /\ Len(Tail(rx[c].q)) = Len(rx[c].q) - 1
        /\ {Tail(rx[c].q)[i] : i \in 1 .. Len(Tail(rx[c].q))} \subseteq Queued(rx[c])
    BY <1>3, <2>0, TakeKeeps
  <2>3. /\ [rx[c] EXCEPT !.q = Tail(rx[c].q)] \in Rx /\ rx'[c].q = Tail(rx[c].q)
        /\ rx'[c].open = rx[c].open /\ rx'[c].lag = rx[c].lag
    BY <2>0, <2>1, <2>2 DEF Rx
  <2>4. \A r \in Receivers \ {c} : rx'[r] = rx[r] BY <2>1
  <2>5. rx' \in [Receivers -> Rx] BY <2>1, <2>3
  <2>6. Queued(rx'[c]) \subseteq Queued(rx[c])
    <3>1. Queued(rx'[c]) = {Tail(rx[c].q)[i] : i \in 1 .. Len(Tail(rx[c].q))}
      BY <2>3 DEF Queued
    <3> QED BY <2>2, <3>1
  <2>7. rx[c] # NoRx BY <1>3 DEF NoRx
  <2>8. Len(rx'[c].q) <= Cap BY <1>0, <2>0, <2>2, <2>3
  <2>9. ~ rx'[c].open => rx'[c] = NoRx BY <2>3, <2>7
  <2> QED BY <2>2, <2>3, <2>4, <2>5, <2>6, <2>8, <2>9
<1>4. ASSUME rx' = [rx EXCEPT ![c] = [@ EXCEPT !.lag = FALSE]]
      PROVE  /\ RxOK'
             /\ \A r \in Receivers : Queued(rx'[r]) = Queued(rx[r])
             /\ \A r \in Receivers \ {c} : rx'[r] = rx[r]
  <2>1. rx' = [rx EXCEPT ![c] = [rx[c] EXCEPT !.lag = FALSE]] BY <1>4
  <2>2. /\ [rx[c] EXCEPT !.lag = FALSE] \in Rx
        /\ rx'[c].q = rx[c].q /\ rx'[c].open = rx[c].open
    BY <2>1 DEF Rx
  <2>6. ASSUME ~ rx[c].open PROVE rx'[c] = NoRx
    <3>1. rx[c] = NoRx BY <2>6
    <3>2. ASSUME NEW n \in Rx, n.lag = FALSE PROVE [n EXCEPT !.lag = FALSE] = n
      BY <3>2 DEF Rx
    <3>3. rx'[c] = [rx[c] EXCEPT !.lag = FALSE] BY <2>1
    <3>4. NoRx.lag = FALSE BY DEF NoRx
    <3> QED BY <3>1, <3>2, <3>3, <3>4, NoRxIsEmpty
  <2>3. \A r \in Receivers \ {c} : rx'[r] = rx[r] BY <2>1
  <2>4. rx' \in [Receivers -> Rx] BY <2>1, <2>2
  <2>5. \A r \in Receivers : Queued(rx'[r]) = Queued(rx[r]) BY <2>2, <2>3 DEF Queued
  <2> QED BY <2>2, <2>3, <2>4, <2>5, <2>6
<1> QED BY <1>1, <1>2, <1>3, <1>4

-----------------------------------------------------------------------------
(* Steps preserve the invariant *)

\* A task never goes back: once it exists, once it is marked and once it is gone it stays so.
Onward(a) ==
    /\ at[a] # "idle" => at'[a] # "idle"
    /\ at[a] \in Marked => at'[a] \in Marked
    /\ at[a] = "gone" => at'[a] = "gone"

\* No step takes a task back.
LEMMA OnwardStep == RunEndInv /\ [Next]_vars => \A a \in Actors : Onward(a)
<1> SUFFICES ASSUME RunEndInv, [Next]_vars PROVE \A a \in Actors : Onward(a)
  OBVIOUS
<1> at \in [Actors -> Stages] BY DEF RunEndInv, TypeOK, SessOK
<1> SettingUp => at[Root] = "idle" BY DEF RunEndInv, FinInv
<1> Root \in Actors BY DEF Actors, Leads
<1> USE DEF Onward, Marked
<1>1. CASE SetUp BY <1>1 DEF SetUp, sessVars, diskVars
<1>2. CASE Launch
  BY <1>2 DEF Launch, SettingUp, After
<1>3. CASE SetUpFails BY <1>3 DEF SetUpFails, sessVars, diskVars
<1>4. ASSUME NEW b \in Workers, SpawnWorker(b) PROVE \A a \in Actors : Onward(a)
  BY <1>4 DEF SpawnWorker, diskVars, finVars
<1>5. ASSUME NEW b \in Workers, Register(b) PROVE \A a \in Actors : Onward(a)
  BY <1>5 DEF Register, diskVars, finVars
<1>6. ASSUME NEW b \in Subs, SpawnSublead(b) PROVE \A a \in Actors : Onward(a)
  BY <1>6 DEF SpawnSublead, diskVars, finVars
<1>7. CASE Tripping BY <1>7 DEF Tripping, CtrlC, CancelRun, BudgetBreach, Trip, diskVars, finVars
<1>8. ASSUME NEW b \in Leads, Reprompt(b) PROVE \A a \in Actors : Onward(a)
  BY <1>8 DEF Reprompt, diskVars, finVars
<1>9. ASSUME NEW b \in Actors, Start(b) PROVE \A a \in Actors : Onward(a)
  BY <1>9 DEF Start, diskVars, finVars
<1>10. ASSUME NEW b \in Actors, SessionEnds(b) PROVE \A a \in Actors : Onward(a)
  BY <1>10 DEF SessionEnds, diskVars, finVars
<1>11. ASSUME NEW b \in Leads, LoopTurn(b) PROVE \A a \in Actors : Onward(a)
  BY <1>11 DEF LoopTurn, diskVars, finVars
<1>12. ASSUME NEW b \in Actors, PrepareFails(b) PROVE \A a \in Actors : Onward(a)
  BY <1>12 DEF PrepareFails, diskVars, finVars
<1>13. ASSUME NEW b \in Actors, WriteLine(b) PROVE \A a \in Actors : Onward(a)
  BY <1>13 DEF WriteLine
<1>14. ASSUME NEW b \in Actors, EndLine(b) PROVE \A a \in Actors : Onward(a)
  BY <1>14 DEF EndLine, finVars
<1>15. ASSUME NEW b \in Actors, Remove(b) PROVE \A a \in Actors : Onward(a)
  BY <1>15 DEF Remove, diskVars, finVars
<1>16. ASSUME NEW b \in Actors, MarkDone(b) PROVE \A a \in Actors : Onward(a)
  BY <1>16 DEF MarkDone, diskVars, finVars
<1>17. ASSUME NEW b \in Actors, Settle(b) PROVE \A a \in Actors : Onward(a)
  BY <1>17 DEF Settle, finVars
<1>18. ASSUME NEW b \in Actors, Announce(b) PROVE \A a \in Actors : Onward(a)
  BY <1>18 DEF Announce, diskVars, finVars
<1>19. ASSUME NEW c \in Calls, NEW q \in menu.waits, Wait(c, q) PROVE \A a \in Actors : Onward(a)
  BY <1>19 DEF Wait, sessVars, diskVars, finVars, Opened
<1>20. ASSUME NEW c \in Calls, Look(c) PROVE \A a \in Actors : Onward(a)
  BY <1>20 DEF Look, sessVars, diskVars, finVars, Answer, Go, Opened
<1>21. ASSUME NEW c \in Calls, LookInResults(c) PROVE \A a \in Actors : Onward(a)
  BY <1>21 DEF LookInResults, sessVars, diskVars, finVars, Answer, Go, Opened
<1>22. ASSUME NEW c \in Calls, Exists(c) PROVE \A a \in Actors : Onward(a)
  BY <1>22 DEF Exists, sessVars, diskVars, finVars, Answer, Go, Opened
<1>23. ASSUME NEW c \in Calls, WaitTurn(c) PROVE \A a \in Actors : Onward(a)
  BY <1>23 DEF WaitTurn, sessVars, diskVars, finVars, Answer
<1>24. ASSUME NEW c \in Calls, WaitLagged(c) PROVE \A a \in Actors : Onward(a)
  BY <1>24 DEF WaitLagged, sessVars, diskVars, finVars, Answer
<1>25. ASSUME NEW c \in Calls, WaitTimeout(c) PROVE \A a \in Actors : Onward(a)
  BY <1>25 DEF WaitTimeout, sessVars, diskVars, finVars, Answer
<1>26. CASE Capture BY <1>26 DEF Capture, sessVars, diskVars, Opened
<1>27. CASE SnapshotRoot BY <1>27 DEF SnapshotRoot, sessVars, diskVars
<1>28. CASE SnapshotSubs BY <1>28 DEF SnapshotSubs, sessVars, diskVars
<1>29. CASE Terminate BY <1>29 DEF Terminate, diskVars
<1>30. CASE DrainTurn BY <1>30 DEF DrainTurn, sessVars, diskVars
<1>31. CASE Drained BY <1>31 DEF Drained, sessVars, diskVars
<1>32. CASE Deadline BY <1>32 DEF Deadline, sessVars, diskVars
<1>33. CASE ReadFile BY <1>33 DEF ReadFile, sessVars, diskVars
<1>34. CASE SynthRoot BY <1>34 DEF SynthRoot, sessVars, diskVars
<1>35. CASE SynthSubs BY <1>35 DEF SynthSubs, sessVars, diskVars
<1>36. CASE WriteSummary BY <1>36 DEF WriteSummary, sessVars
<1>37. CASE UNCHANGED vars BY <1>37 DEF vars, sessVars, diskVars, finVars
<1> HIDE DEF Onward, Marked
<1> QED BY <1>1, <1>2, <1>3, <1>4, <1>5, <1>6, <1>7, <1>8, <1>9, <1>10, <1>11,
    <1>12, <1>13, <1>14, <1>15, <1>16, <1>17, <1>18, <1>19, <1>20, <1>21, <1>22,
    <1>23, <1>24, <1>25, <1>26, <1>27, <1>28, <1>29, <1>30, <1>31, <1>32, <1>33,
    <1>34, <1>35, <1>36, <1>37 DEF Next, Spawning, Session, TailStep, WaitStep, Finalize

\* What the tails leave behind is there after every step.
LEMMA TrailStep == RunEndInv /\ [Next]_vars => TrailInv'
<1> SUFFICES ASSUME RunEndInv, [Next]_vars PROVE TrailInv'
  OBVIOUS
<1> /\ at \in [Actors -> Stages] /\ entry \in [Actors -> {"none", "pending", "running", "done"}]
    /\ outcome \in [Actors -> {"none", "Success", "Failed", "Cancelled"}]
  BY DEF RunEndInv, TypeOK, SessOK
<1> TrailInv BY DEF RunEndInv
<1> \A a \in Actors : Layer(a) \in Actors BY Layers, Ids DEF Layer, Actors, Leads
<1> SettingUp => at[Root] = "idle" BY DEF RunEndInv, FinInv
<1> Root \in Actors /\ Layer(Root) = Root BY Ids DEF Actors, Leads, Layer
<1> \A a \in Actors : Onward(a) BY OnwardStep
<1> USE DEF TrailInv, Trail, Marked, Appended, Ended, Onward
<1>1. CASE SetUp BY <1>1 DEF SetUp, sessVars, diskVars
<1>2. CASE Launch
  <2>1. at[Root] = "idle" BY <1>2 DEF Launch, SettingUp, After
  <2> QED BY <1>2, <2>1 DEF Launch, diskVars
<1>3. CASE SetUpFails BY <1>3 DEF SetUpFails, sessVars, diskVars
<1>4. ASSUME NEW b \in Workers, SpawnWorker(b) PROVE TrailInv'
  <2>1. Layer(b) = LayerOf[b] /\ b \in Actors BY DEF Layer, Actors
  <2>2. at[Layer(b)] = "live" /\ at[b] = "idle" BY <1>4, <2>1 DEF SpawnWorker
  <2>3. at'[Layer(b)] # "idle" BY <2>1, <2>2
  <2> QED BY <1>4, <2>1, <2>3, ZenonT(60) DEF SpawnWorker, diskVars
<1>5. ASSUME NEW b \in Workers, Register(b) PROVE TrailInv'
  <2>1. b \in Actors BY DEF Actors
  <2> QED BY <1>5, <2>1 DEF Register, diskVars, finVars
<1>6. ASSUME NEW b \in Subs, SpawnSublead(b) PROVE TrailInv'
  <2>1. b \in Actors /\ Layer(b) = b BY Ids DEF Actors, Leads, Layer
  <2> QED BY <1>6, <2>1 DEF SpawnSublead, diskVars, finVars
<1>7. CASE Tripping BY <1>7 DEF Tripping, CtrlC, CancelRun, BudgetBreach, Trip, diskVars, finVars
<1>8. ASSUME NEW b \in Leads, Reprompt(b) PROVE TrailInv'
  BY <1>8 DEF Reprompt, diskVars, finVars
<1>9. ASSUME NEW b \in Actors, Start(b) PROVE TrailInv'
  BY <1>9 DEF Start, diskVars, finVars
<1>10. ASSUME NEW b \in Actors, SessionEnds(b) PROVE TrailInv'
  <2>1. PICK o \in Outcomes(b) : outcome' = [outcome EXCEPT ![b] = o]
    BY <1>10 DEF SessionEnds
  <2>2. o # "none" BY DEF Outcomes
  <2> QED BY <1>10, <2>1, <2>2, ZenonT(60) DEF SessionEnds, diskVars
<1>11. ASSUME NEW b \in Leads, LoopTurn(b) PROVE TrailInv'
  <2>1. b \in Actors BY DEF Actors
  <2> QED BY <1>11, <2>1 DEF LoopTurn, diskVars, finVars
<1>12. ASSUME NEW b \in Actors, PrepareFails(b) PROVE TrailInv'
  BY <1>12, ZenonT(60) DEF PrepareFails, diskVars, finVars
<1>13. ASSUME NEW b \in Actors, WriteLine(b) PROVE TrailInv'
  <2>1. at[b] = "ended" /\ UNCHANGED <<entry, outcome, file>> BY <1>13 DEF WriteLine
  <2>2. CASE line' = line \cup {b} /\ UNCHANGED lost /\ at' = [at EXCEPT ![b] = "written"]
    BY <2>1, <2>2
  <2>3. CASE lost' = lost \cup {b} /\ UNCHANGED line /\ at' = [at EXCEPT ![b] = "recorded"]
    BY <2>1, <2>3
  <2> QED BY <1>13, <2>2, <2>3 DEF WriteLine
<1>14. ASSUME NEW b \in Actors, EndLine(b) PROVE TrailInv' BY <1>14, ZenonT(60) DEF EndLine, finVars
<1>15. ASSUME NEW b \in Actors, Remove(b) PROVE TrailInv'
  BY <1>15 DEF Remove, diskVars, finVars
<1>16. ASSUME NEW b \in Actors, MarkDone(b) PROVE TrailInv'
  BY <1>16, ZenonT(60) DEF MarkDone, diskVars, finVars
<1>17. ASSUME NEW b \in Actors, Settle(b) PROVE TrailInv' BY <1>17 DEF Settle, finVars
<1>18. ASSUME NEW b \in Actors, Announce(b) PROVE TrailInv'
  BY <1>18, ZenonT(60) DEF Announce, diskVars, finVars
<1>19. ASSUME NEW c \in Calls, NEW q \in menu.waits, Wait(c, q) PROVE TrailInv'
  BY <1>19 DEF Wait, sessVars, diskVars, finVars, Opened
<1>20. ASSUME NEW c \in Calls, Look(c) PROVE TrailInv'
  BY <1>20 DEF Look, sessVars, diskVars, finVars, Answer, Go, Opened
<1>21. ASSUME NEW c \in Calls, LookInResults(c) PROVE TrailInv'
  BY <1>21 DEF LookInResults, sessVars, diskVars, finVars, Answer, Go, Opened
<1>22. ASSUME NEW c \in Calls, Exists(c) PROVE TrailInv'
  BY <1>22 DEF Exists, sessVars, diskVars, finVars, Answer, Go, Opened
<1>23. ASSUME NEW c \in Calls, WaitTurn(c) PROVE TrailInv'
  BY <1>23 DEF WaitTurn, sessVars, diskVars, finVars, Answer
<1>24. ASSUME NEW c \in Calls, WaitLagged(c) PROVE TrailInv'
  BY <1>24 DEF WaitLagged, sessVars, diskVars, finVars, Answer
<1>25. ASSUME NEW c \in Calls, WaitTimeout(c) PROVE TrailInv'
  BY <1>25 DEF WaitTimeout, sessVars, diskVars, finVars, Answer
<1>26. CASE Capture BY <1>26 DEF Capture, sessVars, diskVars, Opened
<1>27. CASE SnapshotRoot BY <1>27 DEF SnapshotRoot, sessVars, diskVars
<1>28. CASE SnapshotSubs BY <1>28 DEF SnapshotSubs, sessVars, diskVars
<1>29. CASE Terminate BY <1>29 DEF Terminate, diskVars
<1>30. CASE DrainTurn BY <1>30 DEF DrainTurn, sessVars, diskVars
<1>31. CASE Drained BY <1>31 DEF Drained, sessVars, diskVars
<1>32. CASE Deadline BY <1>32 DEF Deadline, sessVars, diskVars
<1>33. CASE ReadFile BY <1>33 DEF ReadFile, sessVars, diskVars
<1>34. CASE SynthRoot BY <1>34 DEF SynthRoot, sessVars, diskVars
<1>35. CASE SynthSubs BY <1>35 DEF SynthSubs, sessVars, diskVars
<1>36. CASE WriteSummary BY <1>36 DEF WriteSummary, sessVars
<1>37. CASE UNCHANGED vars BY <1>37 DEF vars, sessVars, diskVars
<1> HIDE DEF TrailInv, Trail, Marked, Appended, Ended, Onward
<1> QED BY <1>1, <1>2, <1>3, <1>4, <1>5, <1>6, <1>7, <1>8, <1>9, <1>10, <1>11,
    <1>12, <1>13, <1>14, <1>15, <1>16, <1>17, <1>18, <1>19, <1>20, <1>21, <1>22,
    <1>23, <1>24, <1>25, <1>26, <1>27, <1>28, <1>29, <1>30, <1>31, <1>32, <1>33,
    <1>34, <1>35, <1>36, <1>37 DEF Next, Spawning, Session, TailStep, WaitStep, Finalize

\* Every record is of a session that has ended.
LEMMA FileStep == RunEndInv /\ [Next]_vars => (FileInv /\ MailInv)'
<1> SUFFICES ASSUME RunEndInv, [Next]_vars PROVE (FileInv /\ MailInv)'
  OBVIOUS
<1> /\ at \in [Actors -> Stages] /\ entry \in [Actors -> {"none", "pending", "running", "done"}]
    /\ outcome \in [Actors -> {"none", "Success", "Failed", "Cancelled"}]
  BY DEF RunEndInv, TypeOK, SessOK
<1> TrailInv /\ FileInv /\ MailInv BY DEF RunEndInv
<1> mail \in [Leads -> 0 .. menu.reprompts] /\ sent \in 0 .. menu.reprompts
  BY DEF RunEndInv, TypeOK, SessOK
<1> menu.reprompts \in Nat BY MenuShape DEF RunEndInv, TypeOK
<1> file \subseteq [id : Actors, synth : BOOLEAN] BY DEF RunEndInv, TypeOK, DiskOK
<1> fin = "done" => fin' = "done" BY DEF Next, Alive, vars, finVars
<1> USE DEF FileInv, MailInv
<1>1. CASE SetUp BY <1>1 DEF SetUp, sessVars, diskVars
<1>2. CASE Launch BY <1>2 DEF Launch, diskVars
<1>3. CASE SetUpFails BY <1>3 DEF SetUpFails, sessVars, diskVars
<1>4. ASSUME NEW b \in Workers, SpawnWorker(b) PROVE (FileInv /\ MailInv)'
  BY <1>4 DEF SpawnWorker, diskVars, finVars
<1>5. ASSUME NEW b \in Workers, Register(b) PROVE (FileInv /\ MailInv)'
  BY <1>5 DEF Register, diskVars, finVars
<1>6. ASSUME NEW b \in Subs, SpawnSublead(b) PROVE (FileInv /\ MailInv)'
  BY <1>6 DEF SpawnSublead, diskVars, finVars
<1>7. CASE Tripping BY <1>7 DEF Tripping, CtrlC, CancelRun, BudgetBreach, Trip, diskVars, finVars
<1>8. ASSUME NEW b \in Leads, Reprompt(b) PROVE (FileInv /\ MailInv)'
  BY <1>8 DEF Reprompt, diskVars, finVars
<1>9. ASSUME NEW b \in Actors, Start(b) PROVE (FileInv /\ MailInv)'
  BY <1>9 DEF Start, diskVars, finVars
<1>10. ASSUME NEW b \in Actors, SessionEnds(b) PROVE (FileInv /\ MailInv)'
  <2>1. PICK o \in Outcomes(b) : outcome' = [outcome EXCEPT ![b] = o]
    BY <1>10 DEF SessionEnds
  <2>2. o # "none" BY DEF Outcomes
  <2> QED BY <1>10, <2>1, <2>2 DEF SessionEnds, diskVars, finVars
<1>11. ASSUME NEW b \in Leads, LoopTurn(b) PROVE (FileInv /\ MailInv)'
  BY <1>11 DEF LoopTurn, diskVars, finVars
<1>12. ASSUME NEW b \in Actors, PrepareFails(b) PROVE (FileInv /\ MailInv)'
  BY <1>12 DEF PrepareFails, diskVars, finVars
<1>13. ASSUME NEW b \in Actors, WriteLine(b) PROVE (FileInv /\ MailInv)'
  <2>1. UNCHANGED <<outcome, mail, sent, file>> /\ fin' \in {fin, "failed"}
    BY <1>13 DEF WriteLine
  <2> QED BY <2>1
<1>14. ASSUME NEW b \in Actors, EndLine(b) PROVE (FileInv /\ MailInv)'
  <2>1. outcome[b] # "none" BY <1>14 DEF EndLine, TrailInv, Trail, Ended
  <2>2. file' \subseteq file \cup {[id |-> b, synth |-> FALSE]} BY <1>14 DEF EndLine
  <2>3. UNCHANGED <<outcome, mail, sent, fin>> BY <1>14 DEF EndLine, finVars
  <2> QED BY <2>1, <2>2, <2>3
<1>15. ASSUME NEW b \in Actors, Remove(b) PROVE (FileInv /\ MailInv)'
  BY <1>15 DEF Remove, diskVars, finVars
<1>16. ASSUME NEW b \in Actors, MarkDone(b) PROVE (FileInv /\ MailInv)'
  BY <1>16 DEF MarkDone, diskVars, finVars
<1>17. ASSUME NEW b \in Actors, Settle(b) PROVE (FileInv /\ MailInv)'
  BY <1>17 DEF Settle, finVars
<1>18. ASSUME NEW b \in Actors, Announce(b) PROVE (FileInv /\ MailInv)'
  BY <1>18 DEF Announce, diskVars, finVars
<1>19. ASSUME NEW c \in Calls, NEW q \in menu.waits, Wait(c, q) PROVE (FileInv /\ MailInv)'
  BY <1>19 DEF Wait, sessVars, diskVars, finVars, Opened
<1>20. ASSUME NEW c \in Calls, Look(c) PROVE (FileInv /\ MailInv)'
  BY <1>20 DEF Look, sessVars, diskVars, finVars, Answer, Go, Opened
<1>21. ASSUME NEW c \in Calls, LookInResults(c) PROVE (FileInv /\ MailInv)'
  BY <1>21 DEF LookInResults, sessVars, diskVars, finVars, Answer, Go, Opened
<1>22. ASSUME NEW c \in Calls, Exists(c) PROVE (FileInv /\ MailInv)'
  BY <1>22 DEF Exists, sessVars, diskVars, finVars, Answer, Go, Opened
<1>23. ASSUME NEW c \in Calls, WaitTurn(c) PROVE (FileInv /\ MailInv)'
  BY <1>23 DEF WaitTurn, sessVars, diskVars, finVars, Answer
<1>24. ASSUME NEW c \in Calls, WaitLagged(c) PROVE (FileInv /\ MailInv)'
  BY <1>24 DEF WaitLagged, sessVars, diskVars, finVars, Answer
<1>25. ASSUME NEW c \in Calls, WaitTimeout(c) PROVE (FileInv /\ MailInv)'
  BY <1>25 DEF WaitTimeout, sessVars, diskVars, finVars, Answer
<1>26. CASE Capture BY <1>26 DEF Capture, sessVars, diskVars, Opened
<1>27. CASE SnapshotRoot BY <1>27 DEF SnapshotRoot, sessVars, diskVars
<1>28. CASE SnapshotSubs BY <1>28 DEF SnapshotSubs, sessVars, diskVars
<1>29. CASE Terminate BY <1>29 DEF Terminate, diskVars
<1>30. CASE DrainTurn BY <1>30 DEF DrainTurn, sessVars, diskVars
<1>31. CASE Drained BY <1>31 DEF Drained, sessVars, diskVars
<1>32. CASE Deadline BY <1>32 DEF Deadline, sessVars, diskVars
<1>33. CASE ReadFile BY <1>33 DEF ReadFile, sessVars, diskVars
<1>34. CASE SynthRoot BY <1>34 DEF SynthRoot, sessVars, diskVars
<1>35. CASE SynthSubs BY <1>35 DEF SynthSubs, sessVars, diskVars
<1>36. CASE WriteSummary
  <2>1. CASE fin' = "done"
    <3>1. file' \subseteq file \cup {[id |-> w, synth |-> TRUE] : w \in synth}
      BY <1>36 DEF WriteSummary
    <3> QED BY <1>36, <2>1, <3>1 DEF WriteSummary, sessVars
  <2>2. CASE fin' # "done" BY <1>36, <2>2 DEF WriteSummary, sessVars
  <2> QED BY <2>1, <2>2
<1>37. CASE UNCHANGED vars BY <1>37 DEF vars, sessVars, diskVars, finVars
<1> HIDE DEF FileInv, MailInv
<1> QED BY <1>1, <1>2, <1>3, <1>4, <1>5, <1>6, <1>7, <1>8, <1>9, <1>10, <1>11,
    <1>12, <1>13, <1>14, <1>15, <1>16, <1>17, <1>18, <1>19, <1>20, <1>21, <1>22,
    <1>23, <1>24, <1>25, <1>26, <1>27, <1>28, <1>29, <1>30, <1>31, <1>32, <1>33,
    <1>34, <1>35, <1>36, <1>37 DEF Next, Spawning, Session, TailStep, WaitStep, Finalize

\* A receiver holds messages about actors that are gone, and no more than fit.
LEMMA ReceiverStep == RunEndInv /\ [Next]_vars => (RxOK /\ QueueInv)'
<1> SUFFICES ASSUME RunEndInv, [Next]_vars PROVE (RxOK /\ QueueInv)'
  OBVIOUS
<1> RxOK /\ QueueInv BY DEF RunEndInv, TypeOK
<1> \A a \in Actors : at[a] = "gone" => at'[a] = "gone" BY OnwardStep DEF Onward
<1> \A r \in Receivers : Queued(rx[r]) \subseteq Actors BY LenProperties DEF RxOK, Rx, Queued
<1>0. ASSUME RxOK', \A r \in Receivers : Queued(rx'[r]) \subseteq Queued(rx[r])
      PROVE  (RxOK /\ QueueInv)'
  BY <1>0 DEF QueueInv
<1> Fin \in Receivers /\ Calls \subseteq Receivers BY DEF Receivers
<1>a. ASSUME NEW c \in Calls, NEW x, Answer(c, x) PROVE (RxOK /\ QueueInv)'
  BY <1>0, <1>a, ReceiverSteps DEF Answer
<1>b. ASSUME NEW c \in Calls, NEW x, Go(c, x) PROVE (RxOK /\ QueueInv)'
  <2>1. CASE rx' = rx BY <1>0, <2>1 DEF RxOK
  <2>2. CASE rx' = Opened(c) BY <1>0, <2>2, ReceiverSteps
  <2> QED BY <1>b, <2>1, <2>2 DEF Go
 
<1>1. CASE SetUp
  <2>1. rx' = rx BY <1>1 DEF SetUp, sessVars, diskVars
  <2> QED BY <1>0, <2>1 DEF RxOK
<1>2. CASE Launch
  <2>1. rx' = rx BY <1>2 DEF Launch, diskVars
  <2> QED BY <1>0, <2>1 DEF RxOK
<1>3. CASE SetUpFails
  <2>1. rx' = rx BY <1>3 DEF SetUpFails, sessVars, diskVars
  <2> QED BY <1>0, <2>1 DEF RxOK
<1>4. ASSUME NEW b \in Workers, SpawnWorker(b) PROVE (RxOK /\ QueueInv)'
  <2>1. rx' = rx BY <1>4 DEF SpawnWorker, diskVars, finVars
  <2> QED BY <1>0, <2>1 DEF RxOK
<1>5. ASSUME NEW b \in Workers, Register(b) PROVE (RxOK /\ QueueInv)'
  <2>1. rx' = rx BY <1>5 DEF Register, diskVars, finVars
  <2> QED BY <1>0, <2>1 DEF RxOK
<1>6. ASSUME NEW b \in Subs, SpawnSublead(b) PROVE (RxOK /\ QueueInv)'
  <2>1. rx' = rx BY <1>6 DEF SpawnSublead, diskVars, finVars
  <2> QED BY <1>0, <2>1 DEF RxOK
<1>7. CASE Tripping
  <2>1. rx' = rx BY <1>7 DEF Tripping, CtrlC, CancelRun, BudgetBreach, Trip, diskVars, finVars
  <2> QED BY <1>0, <2>1 DEF RxOK
<1>8. ASSUME NEW b \in Leads, Reprompt(b) PROVE (RxOK /\ QueueInv)'
  <2>1. rx' = rx BY <1>8 DEF Reprompt, diskVars, finVars
  <2> QED BY <1>0, <2>1 DEF RxOK
<1>9. ASSUME NEW b \in Actors, Start(b) PROVE (RxOK /\ QueueInv)'
  <2>1. rx' = rx BY <1>9 DEF Start, diskVars, finVars
  <2> QED BY <1>0, <2>1 DEF RxOK
<1>10. ASSUME NEW b \in Actors, SessionEnds(b) PROVE (RxOK /\ QueueInv)'
  <2>1. rx' = rx BY <1>10 DEF SessionEnds, diskVars, finVars
  <2> QED BY <1>0, <2>1 DEF RxOK
<1>11. ASSUME NEW b \in Leads, LoopTurn(b) PROVE (RxOK /\ QueueInv)'
  <2>1. rx' = rx BY <1>11 DEF LoopTurn, diskVars, finVars
  <2> QED BY <1>0, <2>1 DEF RxOK
<1>12. ASSUME NEW b \in Actors, PrepareFails(b) PROVE (RxOK /\ QueueInv)'
  <2>1. rx' = rx BY <1>12 DEF PrepareFails, diskVars, finVars
  <2> QED BY <1>0, <2>1 DEF RxOK
<1>13. ASSUME NEW b \in Actors, WriteLine(b) PROVE (RxOK /\ QueueInv)'
  <2>1. rx' = rx BY <1>13 DEF WriteLine
  <2> QED BY <1>0, <2>1 DEF RxOK
<1>14. ASSUME NEW b \in Actors, EndLine(b) PROVE (RxOK /\ QueueInv)'
  <2>1. rx' = rx BY <1>14 DEF EndLine, finVars
  <2> QED BY <1>0, <2>1 DEF RxOK
<1>15. ASSUME NEW b \in Actors, Remove(b) PROVE (RxOK /\ QueueInv)'
  <2>1. rx' = rx BY <1>15 DEF Remove, diskVars, finVars
  <2> QED BY <1>0, <2>1 DEF RxOK
<1>16. ASSUME NEW b \in Actors, MarkDone(b) PROVE (RxOK /\ QueueInv)'
  <2>1. rx' = rx BY <1>16 DEF MarkDone, diskVars, finVars
  <2> QED BY <1>0, <2>1 DEF RxOK
<1>17. ASSUME NEW b \in Actors, Settle(b) PROVE (RxOK /\ QueueInv)'
  <2>1. rx' = rx BY <1>17 DEF Settle, finVars
  <2> QED BY <1>0, <2>1 DEF RxOK
<1>18. ASSUME NEW b \in Actors, Announce(b) PROVE (RxOK /\ QueueInv)'
  <2>1. rx' = [r \in Receivers |-> Receive(rx[r], b)] BY <1>18 DEF Announce, HeardByRoot
  <2>2. at' = [at EXCEPT ![b] = "gone"] BY <1>18 DEF Announce
  <2>3. at \in [Actors -> Stages] BY DEF RunEndInv, TypeOK, SessOK
  <2>4. at'[b] = "gone" BY <2>2, <2>3
  <2>5. ASSUME NEW r \in Receivers
        PROVE  /\ rx'[r] \in Rx /\ Len(rx'[r].q) <= Cap /\ (~ rx'[r].open => rx'[r] = NoRx)
               /\ Queued(rx'[r]) \subseteq Queued(rx[r]) \cup {b}
    <3>1. rx[r] \in Rx /\ Len(rx[r].q) <= Cap /\ (~ rx[r].open => rx[r] = NoRx) BY DEF RxOK
    <3>2. rx'[r] = Receive(rx[r], b) BY <2>1
    <3> QED BY <3>1, <3>2, ReceiveKeeps
  <2>6. RxOK' BY <2>1, <2>5 DEF RxOK
  <2> QED BY <2>4, <2>5, <2>6 DEF QueueInv
<1>19. ASSUME NEW c \in Calls, NEW q \in menu.waits, Wait(c, q) PROVE (RxOK /\ QueueInv)'
  <2>1. CASE rx' = rx BY <1>0, <2>1 DEF RxOK
  <2>2. CASE rx' = Opened(c) BY <1>0, <2>2, ReceiverSteps
  <2> QED BY <1>19, <2>1, <2>2 DEF Wait
<1>20. ASSUME NEW c \in Calls, Look(c) PROVE (RxOK /\ QueueInv)'
  BY <1>20, <1>a, <1>b DEF Look
<1>21. ASSUME NEW c \in Calls, LookInResults(c) PROVE (RxOK /\ QueueInv)'
  BY <1>21, <1>a, <1>b DEF LookInResults
<1>22. ASSUME NEW c \in Calls, Exists(c) PROVE (RxOK /\ QueueInv)'
  BY <1>22, <1>a, <1>b DEF Exists
<1>23. ASSUME NEW c \in Calls, WaitTurn(c) PROVE (RxOK /\ QueueInv)'
  <2>1. CASE rx' = [rx EXCEPT ![c] = [@ EXCEPT !.q = Tail(rx[c].q)]]
    BY <1>23, <1>0, <2>1, ReceiverSteps DEF WaitTurn
  <2> QED BY <1>23, <1>a, <2>1 DEF WaitTurn
<1>24. ASSUME NEW c \in Calls, WaitLagged(c) PROVE (RxOK /\ QueueInv)'
  BY <1>24, <1>a DEF WaitLagged
<1>25. ASSUME NEW c \in Calls, WaitTimeout(c) PROVE (RxOK /\ QueueInv)'
  BY <1>25, <1>a DEF WaitTimeout
<1>26. CASE Capture
  BY <1>26, <1>0, ReceiverSteps DEF Capture
<1>27. CASE SnapshotRoot
  <2>1. rx' = rx BY <1>27 DEF SnapshotRoot, sessVars, diskVars
  <2> QED BY <1>0, <2>1 DEF RxOK
<1>28. CASE SnapshotSubs
  <2>1. rx' = rx BY <1>28 DEF SnapshotSubs, sessVars, diskVars
  <2> QED BY <1>0, <2>1 DEF RxOK
<1>29. CASE Terminate
  <2>1. rx' = rx BY <1>29 DEF Terminate, diskVars
  <2> QED BY <1>0, <2>1 DEF RxOK
<1>30. CASE DrainTurn
  <2>1. CASE rx' = [rx EXCEPT ![Fin] = [@ EXCEPT !.lag = FALSE]]
    BY <1>0, <2>1, ReceiverSteps
  <2>2. CASE rx[Fin].q # <<>> /\ rx' = [rx EXCEPT ![Fin] = [@ EXCEPT !.q = Tail(rx[Fin].q)]]
    BY <1>0, <2>2, ReceiverSteps
  <2> QED BY <1>30, <2>1, <2>2 DEF DrainTurn
<1>31. CASE Drained
  <2>1. rx' = rx BY <1>31 DEF Drained, sessVars, diskVars
  <2> QED BY <1>0, <2>1 DEF RxOK
<1>32. CASE Deadline
  <2>1. rx' = rx BY <1>32 DEF Deadline, sessVars, diskVars
  <2> QED BY <1>0, <2>1 DEF RxOK
<1>33. CASE ReadFile
  <2>1. rx' = rx BY <1>33 DEF ReadFile, sessVars, diskVars
  <2> QED BY <1>0, <2>1 DEF RxOK
<1>34. CASE SynthRoot
  <2>1. rx' = rx BY <1>34 DEF SynthRoot, sessVars, diskVars
  <2> QED BY <1>0, <2>1 DEF RxOK
<1>35. CASE SynthSubs
  <2>1. rx' = rx BY <1>35 DEF SynthSubs, sessVars, diskVars
  <2> QED BY <1>0, <2>1 DEF RxOK
<1>36. CASE WriteSummary
  <2>1. rx' = rx BY <1>36 DEF WriteSummary, sessVars
  <2> QED BY <1>0, <2>1 DEF RxOK
<1>37. CASE UNCHANGED vars BY <1>37, <1>0 DEF vars, RxOK
<1> QED BY <1>1, <1>2, <1>3, <1>4, <1>5, <1>6, <1>7, <1>8, <1>9, <1>10, <1>11,
    <1>12, <1>13, <1>14, <1>15, <1>16, <1>17, <1>18, <1>19, <1>20, <1>21, <1>22,
    <1>23, <1>24, <1>25, <1>26, <1>27, <1>28, <1>29, <1>30, <1>31, <1>32, <1>33,
    <1>34, <1>35, <1>36, <1>37 DEF Next, Spawning, Session, TailStep, WaitStep, Finalize

\* What may happen is chosen once.
LEMMA MenuStays == [Next]_vars => menu' = menu
BY DEF Next, Spawning, Session, TailStep, WaitStep, Finalize, vars, finVars, SetUp,
        Launch, SetUpFails, SpawnWorker, Register, SpawnSublead, Tripping, CtrlC,
        CancelRun, BudgetBreach, Trip, Reprompt,
        Start, SessionEnds, LoopTurn, PrepareFails, WriteLine, EndLine, Remove,
        MarkDone, Settle, Announce, Wait, Look, LookInResults, Exists, WaitTurn,
        WaitLagged, WaitTimeout, Capture, SnapshotRoot, SnapshotSubs, Terminate,
        DrainTurn, Drained, Deadline, ReadFile, SynthRoot, SynthSubs, WriteSummary

\* TypeOK but for the receivers.
PlainOK == SessOK /\ DiskOK /\ CallOK /\ FinOK

\* Types.
LEMMA TypeStep == RunEndInv /\ [Next]_vars => PlainOK'
<1> SUFFICES ASSUME RunEndInv, [Next]_vars PROVE PlainOK'
  OBVIOUS
<1> SessOK /\ DiskOK /\ CallOK /\ FinOK /\ MailInv /\ RxOK BY DEF RunEndInv, TypeOK
<1> menu \in Menus BY DEF RunEndInv, TypeOK
<1> menu' = menu BY MenuStays
<1> menu.reprompts \in Nat BY MenuShape
<1> /\ Workers \subseteq Actors /\ Subs \subseteq Leads /\ Leads \subseteq Actors
    /\ Root \in Leads
  BY DEF Actors, Leads
<1> USE DEF PlainOK, SessOK, DiskOK, CallOK, FinOK, Stages
<1>1. CASE SetUp
  <2>1. fin' \in DOMAIN After \cup {"wait"} BY <1>1 DEF SetUp, SettingUp, After
  <2>2. UNCHANGED <<sessVars, diskVars, call, known, inFlight, gaveUp, interrupted, read, synth,
                    summary, rc>>
    BY <1>1 DEF SetUp
  <2> QED BY <2>1, <2>2 DEF sessVars, diskVars
<1>2. CASE Launch
  <2>1. fin' = "wait" BY <1>2 DEF Launch, After
  <2>2. /\ entry' = [entry EXCEPT ![Root] = "running"] /\ at' = [at EXCEPT ![Root] = "live"]
        /\ UNCHANGED <<subs, outcome, killed, stop, mail, sent, sid, diskVars, call, known,
                       inFlight, gaveUp, interrupted, read, synth, summary, rc>>
    BY <1>2 DEF Launch
  <2> QED BY <2>1, <2>2 DEF diskVars
<1>3. CASE SetUpFails BY <1>3 DEF SetUpFails, sessVars, diskVars
<1>4. ASSUME NEW b \in Workers, SpawnWorker(b) PROVE PlainOK'
  BY <1>4 DEF SpawnWorker, diskVars, finVars
<1>5. ASSUME NEW b \in Workers, Register(b) PROVE PlainOK'
  BY <1>5 DEF Register, diskVars, finVars
<1>6. ASSUME NEW b \in Subs, SpawnSublead(b) PROVE PlainOK'
  BY <1>6 DEF SpawnSublead, diskVars, finVars
<1>7. CASE Tripping
  <2>1. Reached \subseteq Actors BY DEF Reached
  <2>2. PICK k \in Trips : Trip(k)
    BY <1>7 DEF Tripping, CtrlC, CancelRun, BudgetBreach, Trips
  <2>3. killed' \subseteq Actors /\ stop' \subseteq Trips BY <2>1, <2>2 DEF Trip
  <2> QED BY <2>2, <2>3 DEF Trip, diskVars, finVars
<1>8. ASSUME NEW b \in Leads, Reprompt(b) PROVE PlainOK'
  <2>1. mail[b] <= sent /\ mail[b] \in Nat /\ sent \in Nat /\ sent + 1 <= menu.reprompts
    BY <1>8 DEF Reprompt, MailInv
  <2>2. mail' = [mail EXCEPT ![b] = mail[b] + 1] /\ sent' = sent + 1 BY <1>8 DEF Reprompt
  <2>3. mail' \in [Leads -> 0 .. menu.reprompts] /\ sent' \in 0 .. menu.reprompts
    BY <2>1, <2>2
  <2>4. UNCHANGED <<subs, entry, at, outcome, killed, stop, sid, diskVars, call, finVars>>
    BY <1>8 DEF Reprompt
  <2> QED BY <2>3, <2>4 DEF diskVars, finVars
<1>9. ASSUME NEW b \in Actors, Start(b) PROVE PlainOK' BY <1>9 DEF Start, diskVars, finVars
<1>10. ASSUME NEW b \in Actors, SessionEnds(b) PROVE PlainOK'
  <2>1. PICK o \in Outcomes(b) : outcome' = [outcome EXCEPT ![b] = o]
    BY <1>10 DEF SessionEnds
  <2>2. o \in {"Success", "Failed", "Cancelled"} BY DEF Outcomes
  <2>3. outcome' \in [Actors -> {"none", "Success", "Failed", "Cancelled"}] BY <2>1, <2>2
  <2>4. sid' \subseteq Leads BY <1>10 DEF SessionEnds
  <2>5. at' \in [Actors -> Stages] BY <1>10 DEF SessionEnds
  <2> QED BY <1>10, <2>3, <2>4, <2>5 DEF SessionEnds, diskVars, finVars
<1>11. ASSUME NEW b \in Leads, LoopTurn(b) PROVE PlainOK'
  BY <1>11 DEF LoopTurn, diskVars, finVars
<1>12. ASSUME NEW b \in Actors, PrepareFails(b) PROVE PlainOK'
  BY <1>12 DEF PrepareFails, diskVars, finVars
<1>13. ASSUME NEW b \in Actors, WriteLine(b) PROVE PlainOK'
  <2>1. \/ line' = line \cup {b} /\ UNCHANGED <<lost, fin>> /\ at' = [at EXCEPT ![b] = "written"]
        \/ /\ lost' = lost \cup {b} /\ UNCHANGED line /\ at' = [at EXCEPT ![b] = "recorded"]
           /\ fin' \in {fin, "failed"}
    BY <1>13 DEF WriteLine
  <2>2. /\ at' \in [Actors -> Stages] /\ line' \subseteq Actors /\ lost' \subseteq Actors
        /\ fin' \in {fin, "failed"}
    BY <2>1
  <2>3. UNCHANGED <<subs, entry, outcome, killed, stop, mail, sent, sid, file, results, call,
                    known, inFlight, gaveUp, interrupted, read, synth, summary, rc>>
    BY <1>13 DEF WriteLine
  <2> QED BY <2>2, <2>3
<1>14. ASSUME NEW b \in Actors, EndLine(b) PROVE PlainOK'
  <2>1. /\ at' \in [Actors -> Stages] /\ line' \subseteq Actors /\ lost' \subseteq Actors
        /\ file \subseteq file' /\ file' \subseteq [id : Actors, synth : BOOLEAN]
    <3>1. at' = [at EXCEPT ![b] = "recorded"] /\ line' = {} BY <1>14 DEF EndLine
    <3>2. [id |-> b, synth |-> FALSE] \in [id : Actors, synth : BOOLEAN] OBVIOUS
    <3>3. \/ file' = file \cup {[id |-> b, synth |-> FALSE]} /\ UNCHANGED lost
          \/ lost' = lost \cup line /\ UNCHANGED file
      BY <1>14 DEF EndLine
    <3>4. at' \in [Actors -> Stages] BY <3>1
    <3>5. line \subseteq Actors /\ lost \subseteq Actors /\ file \subseteq [id : Actors, synth : BOOLEAN]
      OBVIOUS
    <3> HIDE DEF PlainOK, SessOK, DiskOK, CallOK, FinOK, Stages
    <3> QED BY <3>1, <3>2, <3>3, <3>4, <3>5
  <2>2. UNCHANGED <<subs, entry, outcome, killed, stop, mail, sent, sid, results, call, finVars>>
    BY <1>14 DEF EndLine
  <2> QED BY <2>1, <2>2 DEF finVars
<1>15. ASSUME NEW b \in Actors, Remove(b) PROVE PlainOK'
  BY <1>15 DEF Remove, diskVars, finVars
<1>16. ASSUME NEW b \in Actors, MarkDone(b) PROVE PlainOK'
  BY <1>16 DEF MarkDone, diskVars, finVars
<1>17. ASSUME NEW b \in Actors, Settle(b) PROVE PlainOK' BY <1>17 DEF Settle, finVars
<1>18. ASSUME NEW b \in Actors, Announce(b) PROVE PlainOK'
  BY <1>18 DEF Announce, diskVars, finVars
<1>19. ASSUME NEW c \in Calls, NEW q \in menu.waits, Wait(c, q) PROVE PlainOK'
  BY <1>19 DEF Wait, sessVars, diskVars, finVars, Opened
<1>20. ASSUME NEW c \in Calls, Look(c) PROVE PlainOK'
  BY <1>20 DEF Look, sessVars, diskVars, finVars, Answer, Go, Opened
<1>21. ASSUME NEW c \in Calls, LookInResults(c) PROVE PlainOK'
  BY <1>21 DEF LookInResults, sessVars, diskVars, finVars, Answer, Go, Opened
<1>22. ASSUME NEW c \in Calls, Exists(c) PROVE PlainOK'
  BY <1>22 DEF Exists, sessVars, diskVars, finVars, Answer, Go, Opened
<1>23. ASSUME NEW c \in Calls, WaitTurn(c) PROVE PlainOK'
  <2>1. UNCHANGED <<sessVars, diskVars, finVars>> BY <1>23 DEF WaitTurn
  <2>2. CallOK' BY <1>23 DEF WaitTurn, Answer
  <2> QED BY <2>1, <2>2 DEF sessVars, diskVars, finVars
<1>24. ASSUME NEW c \in Calls, WaitLagged(c) PROVE PlainOK'
  BY <1>24 DEF WaitLagged, sessVars, diskVars, finVars, Answer
<1>25. ASSUME NEW c \in Calls, WaitTimeout(c) PROVE PlainOK'
  BY <1>25 DEF WaitTimeout, sessVars, diskVars, finVars, Answer
<1>26. CASE Capture
  <2>1. interrupted' \in BOOLEAN /\ fin' = "root" BY <1>26 DEF Capture, WasInterrupted, Draining
  <2> QED BY <1>26, <2>1 DEF Capture, sessVars, diskVars
<1>27. CASE SnapshotRoot
  <2>1. fin' = "subs" /\ known' \subseteq Actors /\ inFlight' \subseteq known'
    BY <1>27 DEF SnapshotRoot, NotDone, InMap
  <2> QED BY <1>27, <2>1 DEF SnapshotRoot, sessVars, diskVars
<1>28. CASE SnapshotSubs
  <2>1. fin' = "kill" /\ known' \subseteq Actors /\ inFlight' \subseteq known'
    BY <1>28 DEF SnapshotSubs, NotDone, InMap
  <2> QED BY <1>28, <2>1 DEF SnapshotSubs, sessVars, diskVars
<1>29. CASE Terminate
  <2>1. Reached \subseteq Actors BY DEF Reached
  <2>2. killed' \subseteq Actors /\ fin' = "drain" BY <1>29, <2>1 DEF Terminate
  <2> QED BY <1>29, <2>2 DEF Terminate, diskVars
<1>30. CASE DrainTurn BY <1>30 DEF DrainTurn, sessVars, diskVars
<1>31. CASE Drained BY <1>31 DEF Drained, sessVars, diskVars
<1>32. CASE Deadline BY <1>32 DEF Deadline, sessVars, diskVars
<1>33. CASE ReadFile BY <1>33 DEF ReadFile, sessVars, diskVars
<1>34. CASE SynthRoot BY <1>34 DEF SynthRoot, sessVars, diskVars
<1>35. CASE SynthSubs BY <1>35 DEF SynthSubs, sessVars, diskVars
<1>36. CASE WriteSummary
  <2>1. /\ fin' \in {"done", "failed"} /\ rc' \in {-1, 0, 1, 130}
        /\ file \subseteq file' /\ file' \subseteq [id : Actors, synth : BOOLEAN]
        /\ summary' \subseteq [id : Actors, synth : BOOLEAN]
    <3> DEFINE made == {[id |-> w, synth |-> TRUE] : w \in synth}
    <3>0. synth \subseteq Actors /\ read \subseteq file /\ file \subseteq [id : Actors, synth : BOOLEAN]
      OBVIOUS
    <3>3. summary \subseteq [id : Actors, synth : BOOLEAN] /\ rc \in {-1, 0, 1, 130} OBVIOUS
    <3> HIDE DEF PlainOK, SessOK, DiskOK, CallOK, FinOK, Stages
    <3>1. ASSUME NEW r \in made PROVE r \in [id : Actors, synth : BOOLEAN]
      <4>1. PICK w \in synth : r = [id |-> w, synth |-> TRUE] OBVIOUS
      <4>2. w \in Actors BY <3>0
      <4> QED BY <4>1, <4>2
    <3>2. \/ /\ file' \in {file, file \cup made} /\ summary' = read \cup made
             /\ rc' \in {130, 1, 0} /\ fin' = "done"
          \/ fin' = "failed" /\ UNCHANGED <<file, summary, rc>>
      BY <1>36 DEF WriteSummary, ExitCode
    <3> HIDE DEF made
    <3> QED BY <3>0, <3>1, <3>2, <3>3
  <2> QED BY <1>36, <2>1 DEF WriteSummary, sessVars
<1>37. CASE UNCHANGED vars BY <1>37 DEF vars, sessVars, diskVars, finVars
<1> HIDE DEF PlainOK, SessOK, DiskOK, CallOK, FinOK, Stages
<1> QED BY <1>1, <1>2, <1>3, <1>4, <1>5, <1>6, <1>7, <1>8, <1>9, <1>10, <1>11,
    <1>12, <1>13, <1>14, <1>15, <1>16, <1>17, <1>18, <1>19, <1>20, <1>21, <1>22,
    <1>23, <1>24, <1>25, <1>26, <1>27, <1>28, <1>29, <1>30, <1>31, <1>32, <1>33,
    <1>34, <1>35, <1>36, <1>37 DEF Next, Spawning, Session, TailStep, WaitStep, Finalize

\* What can be found of an actor that is gone could be found before.
Quiet(a) ==
    at'[a] = "gone" =>
        /\ at[a] = "gone"
        /\ IsDone(a)' => IsDone(a)
        /\ a \in results' => a \in results

StaysQuiet == \A a \in Actors : Quiet(a) \/ Announce(a)

\* Only its own completion makes an actor findable after it is gone.
LEMMA QuietStep == RunEndInv /\ [Next]_vars => StaysQuiet
<1> SUFFICES ASSUME RunEndInv, [Next]_vars PROVE StaysQuiet
  OBVIOUS
<1> /\ at \in [Actors -> Stages] /\ entry \in [Actors -> {"none", "pending", "running", "done"}]
    /\ outcome \in [Actors -> {"none", "Success", "Failed", "Cancelled"}]
  BY DEF RunEndInv, TypeOK, SessOK
<1> SettingUp => at[Root] = "idle" BY DEF RunEndInv, FinInv
<1> \A a \in Actors : at[a] # "idle" => at[Layer(a)] # "idle" BY DEF RunEndInv, TrailInv, Trail
<1> Workers \subseteq Actors /\ Leads \subseteq Actors /\ Subs \subseteq Actors /\ Root \in Actors
  BY DEF Actors, Leads
<1> USE DEF StaysQuiet, Quiet, IsDone, Visible
<1>1. CASE SetUp
  <2>1. UNCHANGED <<at, entry, subs, results>> BY <1>1 DEF SetUp, sessVars, diskVars
  <2> QED BY <2>1
<1>2. CASE Launch
  BY <1>2 DEF Launch, diskVars, SettingUp, After
<1>3. CASE SetUpFails
  <2>1. UNCHANGED <<at, entry, subs, results>> BY <1>3 DEF SetUpFails, sessVars, diskVars
  <2> QED BY <2>1
<1>4. ASSUME NEW b \in Workers, SpawnWorker(b) PROVE StaysQuiet
  BY <1>4 DEF SpawnWorker, diskVars, finVars
<1>5. ASSUME NEW b \in Workers, Register(b) PROVE StaysQuiet
  BY <1>5 DEF Register, diskVars, finVars
<1>6. ASSUME NEW b \in Subs, SpawnSublead(b) PROVE StaysQuiet
  BY <1>6 DEF SpawnSublead, diskVars, finVars
<1>7. CASE Tripping
  <2>1. UNCHANGED <<at, entry, subs, results>>
    BY <1>7 DEF Tripping, CtrlC, CancelRun, BudgetBreach, Trip, diskVars, finVars
  <2> QED BY <2>1
<1>8. ASSUME NEW b \in Leads, Reprompt(b) PROVE StaysQuiet
  <2>1. UNCHANGED <<at, entry, subs, results>> BY <1>8 DEF Reprompt, diskVars, finVars
  <2> QED BY <2>1
<1>9. ASSUME NEW b \in Actors, Start(b) PROVE StaysQuiet
  BY <1>9 DEF Start, diskVars, finVars
<1>10. ASSUME NEW b \in Actors, SessionEnds(b) PROVE StaysQuiet
  BY <1>10 DEF SessionEnds, diskVars, finVars
<1>11. ASSUME NEW b \in Leads, LoopTurn(b) PROVE StaysQuiet
  BY <1>11 DEF LoopTurn, diskVars, finVars
<1>12. ASSUME NEW b \in Actors, PrepareFails(b) PROVE StaysQuiet
  BY <1>12 DEF PrepareFails, diskVars, finVars
<1>13. ASSUME NEW b \in Actors, WriteLine(b) PROVE StaysQuiet BY <1>13 DEF WriteLine
<1>14. ASSUME NEW b \in Actors, EndLine(b) PROVE StaysQuiet BY <1>14 DEF EndLine, finVars
<1>15. ASSUME NEW b \in Actors, Remove(b) PROVE StaysQuiet
  BY <1>15 DEF Remove, diskVars, finVars
<1>16. ASSUME NEW b \in Actors, MarkDone(b) PROVE StaysQuiet
  BY <1>16 DEF MarkDone, diskVars, finVars
<1>17. ASSUME NEW b \in Actors, Settle(b) PROVE StaysQuiet BY <1>17 DEF Settle, finVars
<1>18. ASSUME NEW b \in Actors, Announce(b) PROVE StaysQuiet
  <2>1. at' = [at EXCEPT ![b] = "gone"] /\ UNCHANGED <<entry, subs, results>>
    BY <1>18 DEF Announce, diskVars
  <2> QED BY <1>18, <2>1
<1>19. ASSUME NEW c \in Calls, NEW q \in menu.waits, Wait(c, q) PROVE StaysQuiet
  <2>1. UNCHANGED <<at, entry, subs, results>>
    BY <1>19 DEF Wait, sessVars, diskVars, finVars
  <2> QED BY <2>1
<1>20. ASSUME NEW c \in Calls, Look(c) PROVE StaysQuiet
  <2>1. UNCHANGED <<at, entry, subs, results>>
    BY <1>20 DEF Look, sessVars, diskVars, finVars
  <2> QED BY <2>1
<1>21. ASSUME NEW c \in Calls, LookInResults(c) PROVE StaysQuiet
  <2>1. UNCHANGED <<at, entry, subs, results>>
    BY <1>21 DEF LookInResults, sessVars, diskVars, finVars
  <2> QED BY <2>1
<1>22. ASSUME NEW c \in Calls, Exists(c) PROVE StaysQuiet
  <2>1. UNCHANGED <<at, entry, subs, results>>
    BY <1>22 DEF Exists, sessVars, diskVars, finVars
  <2> QED BY <2>1
<1>23. ASSUME NEW c \in Calls, WaitTurn(c) PROVE StaysQuiet
  <2>1. UNCHANGED <<at, entry, subs, results>>
    BY <1>23 DEF WaitTurn, sessVars, diskVars, finVars
  <2> QED BY <2>1
<1>24. ASSUME NEW c \in Calls, WaitLagged(c) PROVE StaysQuiet
  <2>1. UNCHANGED <<at, entry, subs, results>>
    BY <1>24 DEF WaitLagged, sessVars, diskVars, finVars
  <2> QED BY <2>1
<1>25. ASSUME NEW c \in Calls, WaitTimeout(c) PROVE StaysQuiet
  <2>1. UNCHANGED <<at, entry, subs, results>>
    BY <1>25 DEF WaitTimeout, sessVars, diskVars, finVars
  <2> QED BY <2>1
<1>26. CASE Capture
  <2>1. UNCHANGED <<at, entry, subs, results>> BY <1>26 DEF Capture, sessVars, diskVars
  <2> QED BY <2>1
<1>27. CASE SnapshotRoot
  <2>1. UNCHANGED <<at, entry, subs, results>> BY <1>27 DEF SnapshotRoot, sessVars, diskVars
  <2> QED BY <2>1
<1>28. CASE SnapshotSubs
  <2>1. UNCHANGED <<at, entry, subs, results>> BY <1>28 DEF SnapshotSubs, sessVars, diskVars
  <2> QED BY <2>1
<1>29. CASE Terminate
  <2>1. UNCHANGED <<at, entry, subs, results>> BY <1>29 DEF Terminate, diskVars
  <2> QED BY <2>1
<1>30. CASE DrainTurn
  <2>1. UNCHANGED <<at, entry, subs, results>> BY <1>30 DEF DrainTurn, sessVars, diskVars
  <2> QED BY <2>1
<1>31. CASE Drained
  <2>1. UNCHANGED <<at, entry, subs, results>> BY <1>31 DEF Drained, sessVars, diskVars
  <2> QED BY <2>1
<1>32. CASE Deadline
  <2>1. UNCHANGED <<at, entry, subs, results>> BY <1>32 DEF Deadline, sessVars, diskVars
  <2> QED BY <2>1
<1>33. CASE ReadFile
  <2>1. UNCHANGED <<at, entry, subs, results>> BY <1>33 DEF ReadFile, sessVars, diskVars
  <2> QED BY <2>1
<1>34. CASE SynthRoot
  <2>1. UNCHANGED <<at, entry, subs, results>> BY <1>34 DEF SynthRoot, sessVars, diskVars
  <2> QED BY <2>1
<1>35. CASE SynthSubs
  <2>1. UNCHANGED <<at, entry, subs, results>> BY <1>35 DEF SynthSubs, sessVars, diskVars
  <2> QED BY <2>1
<1>36. CASE WriteSummary
  <2>1. UNCHANGED <<at, entry, subs, results>> BY <1>36 DEF WriteSummary, sessVars
  <2> QED BY <2>1
<1>37. CASE UNCHANGED vars BY <1>37 DEF vars, sessVars, diskVars, finVars
<1> HIDE DEF StaysQuiet, Quiet, IsDone, Visible
<1> QED BY <1>1, <1>2, <1>3, <1>4, <1>5, <1>6, <1>7, <1>8, <1>9, <1>10, <1>11,
    <1>12, <1>13, <1>14, <1>15, <1>16, <1>17, <1>18, <1>19, <1>20, <1>21, <1>22,
    <1>23, <1>24, <1>25, <1>26, <1>27, <1>28, <1>29, <1>30, <1>31, <1>32, <1>33,
    <1>34, <1>35, <1>36, <1>37 DEF Next, Spawning, Session, TailStep, WaitStep, Finalize

\* What a wait asks for.
LEMMA Wants ==
    ASSUME RunEndInv, NEW c \in Calls
    PROVE  /\ call[c].want.ids \subseteq Actors
           /\ call[c].want.op # "actor" => call[c].want.ids \cap results = {}
<1>1. call[c].want \in menu.waits \cup {NoWait} /\ menu \in Menus /\ results \subseteq Subs
  BY DEF RunEndInv, TypeOK, CallOK, DiskOK
<1>2. CASE call[c].want = NoWait BY <1>2 DEF NoWait
<1>3. CASE call[c].want \in menu.waits BY <1>1, <1>3, MenuShape, Ids DEF Actors, Leads
<1> QED BY <1>1, <1>2, <1>3

\* A wait that another step leaves alone stays alert.
LEMMA AlertFrame ==
    ASSUME RunEndInv, NEW c \in Calls, call'[c] = call[c], rx'[c] = rx[c],
           \A a \in Actors : Quiet(a)
    PROVE  Alert(c)'
<1>1. Alert(c) /\ call[c].want.ids \subseteq Actors BY Wants DEF RunEndInv, AlertInv
<1>2. (Waiting(c) => rx[c].open)' BY <1>1 DEF Alert, Waiting
<1>3. ASSUME NEW a \in call[c].want.ids, at'[a] = "gone",
             call[c].at \in {"results", "exists", "waiting"} /\ IsDone(a)'
      PROVE  Hears(c, a)'
  <2>1. at[a] = "gone" /\ IsDone(a) BY <1>1, <1>3 DEF Quiet
  <2> QED BY <1>1, <1>3, <2>1 DEF Alert, Hears
<1>4. ASSUME NEW a \in call[c].want.ids, at'[a] = "gone",
             call[c].at \in {"exists", "waiting"} /\ a \in results'
      PROVE  Hears(c, a)'
  <2>1. at[a] = "gone" /\ a \in results BY <1>1, <1>4 DEF Quiet
  <2> QED BY <1>1, <1>4, <2>1 DEF Alert, Hears
<1> QED BY <1>2, <1>3, <1>4 DEF Alert

\* The steps that touch a wait or its receiver: its own, and announcements.
OwnStep(c) == (\E q \in menu.waits : Wait(c, q)) \/ WaitStep(c) \/ WaitTimeout(c)
LeftAlone(c) == call'[c] = call[c] /\ rx'[c] = rx[c]
Announced == \E a \in Actors : Announce(a)
Touches == \A d \in Calls : LeftAlone(d) \/ OwnStep(d) \/ Announced

\* A wait is touched by its own steps and by announcements only.
LEMMA TouchStep == RunEndInv /\ [Next]_vars => Touches
<1> SUFFICES ASSUME RunEndInv, [Next]_vars PROVE Touches
  OBVIOUS
<1> /\ call \in [Calls -> [at : {"idle", "look", "results", "exists", "waiting", "record",
                                "unknown", "error"},
                          want : menu.waits \cup {NoWait}]]
    /\ rx \in [Receivers -> Rx] /\ RxOK
  BY DEF RunEndInv, TypeOK, CallOK, RxOK
<1> Fin \in Receivers /\ Calls \subseteq Receivers \ {Fin} BY Ids DEF Receivers
<1> USE DEF Touches
<1>1. CASE SetUp
  BY <1>1 DEF SetUp, sessVars, diskVars, LeftAlone
<1>2. CASE Launch
  BY <1>2 DEF Launch, diskVars, LeftAlone
<1>3. CASE SetUpFails
  BY <1>3 DEF SetUpFails, sessVars, diskVars, LeftAlone
<1>4. ASSUME NEW b \in Workers, SpawnWorker(b) PROVE Touches
  BY <1>4 DEF SpawnWorker, diskVars, finVars, LeftAlone
<1>5. ASSUME NEW b \in Workers, Register(b) PROVE Touches
  BY <1>5 DEF Register, diskVars, finVars, LeftAlone
<1>6. ASSUME NEW b \in Subs, SpawnSublead(b) PROVE Touches
  BY <1>6 DEF SpawnSublead, diskVars, finVars, LeftAlone
<1>7. CASE Tripping
  BY <1>7 DEF Tripping, CtrlC, CancelRun, BudgetBreach, Trip, diskVars, finVars, LeftAlone
<1>8. ASSUME NEW b \in Leads, Reprompt(b) PROVE Touches
  BY <1>8 DEF Reprompt, diskVars, finVars, LeftAlone
<1>9. ASSUME NEW b \in Actors, Start(b) PROVE Touches
  BY <1>9 DEF Start, diskVars, finVars, LeftAlone
<1>10. ASSUME NEW b \in Actors, SessionEnds(b) PROVE Touches
  BY <1>10 DEF SessionEnds, diskVars, finVars, LeftAlone
<1>11. ASSUME NEW b \in Leads, LoopTurn(b) PROVE Touches
  BY <1>11 DEF LoopTurn, diskVars, finVars, LeftAlone
<1>12. ASSUME NEW b \in Actors, PrepareFails(b) PROVE Touches
  BY <1>12 DEF PrepareFails, diskVars, finVars, LeftAlone
<1>13. ASSUME NEW b \in Actors, WriteLine(b) PROVE Touches
  BY <1>13 DEF WriteLine, LeftAlone
<1>14. ASSUME NEW b \in Actors, EndLine(b) PROVE Touches
  BY <1>14 DEF EndLine, finVars, LeftAlone
<1>15. ASSUME NEW b \in Actors, Remove(b) PROVE Touches
  BY <1>15 DEF Remove, diskVars, finVars, LeftAlone
<1>16. ASSUME NEW b \in Actors, MarkDone(b) PROVE Touches
  BY <1>16 DEF MarkDone, diskVars, finVars, LeftAlone
<1>17. ASSUME NEW b \in Actors, Settle(b) PROVE Touches
  BY <1>17 DEF Settle, finVars, LeftAlone
<1>18. ASSUME NEW b \in Actors, Announce(b) PROVE Touches
  BY <1>18 DEF Announced
<1>19. ASSUME NEW c \in Calls, NEW q \in menu.waits, Wait(c, q) PROVE Touches
  <2> SUFFICES ASSUME NEW d \in Calls PROVE LeftAlone(d) \/ OwnStep(d) \/ Announced OBVIOUS
  <2>1. CASE d = c BY <1>19, <2>1 DEF OwnStep, WaitStep
  <2>2. CASE d # c
    <3>1. call'[d] = call[d] /\ rx'[d] = rx[d]
      BY <1>19, <2>2 DEF Wait, sessVars, diskVars, finVars, Opened
    <3> QED BY <3>1 DEF LeftAlone
  <2> QED BY <2>1, <2>2
<1>20. ASSUME NEW c \in Calls, Look(c) PROVE Touches
  <2> SUFFICES ASSUME NEW d \in Calls PROVE LeftAlone(d) \/ OwnStep(d) \/ Announced OBVIOUS
  <2>1. CASE d = c BY <1>20, <2>1 DEF OwnStep, WaitStep
  <2>2. CASE d # c
    <3>1. call'[d] = call[d] /\ rx'[d] = rx[d]
      BY <1>20, <2>2 DEF Look, sessVars, diskVars, finVars, Answer, Go, Opened
    <3> QED BY <3>1 DEF LeftAlone
  <2> QED BY <2>1, <2>2
<1>21. ASSUME NEW c \in Calls, LookInResults(c) PROVE Touches
  <2> SUFFICES ASSUME NEW d \in Calls PROVE LeftAlone(d) \/ OwnStep(d) \/ Announced OBVIOUS
  <2>1. CASE d = c BY <1>21, <2>1 DEF OwnStep, WaitStep
  <2>2. CASE d # c
    <3>1. call'[d] = call[d] /\ rx'[d] = rx[d]
      BY <1>21, <2>2 DEF LookInResults, sessVars, diskVars, finVars, Answer, Go, Opened
    <3> QED BY <3>1 DEF LeftAlone
  <2> QED BY <2>1, <2>2
<1>22. ASSUME NEW c \in Calls, Exists(c) PROVE Touches
  <2> SUFFICES ASSUME NEW d \in Calls PROVE LeftAlone(d) \/ OwnStep(d) \/ Announced OBVIOUS
  <2>1. CASE d = c BY <1>22, <2>1 DEF OwnStep, WaitStep
  <2>2. CASE d # c
    <3>1. call'[d] = call[d] /\ rx'[d] = rx[d]
      BY <1>22, <2>2 DEF Exists, sessVars, diskVars, finVars, Answer, Go, Opened
    <3> QED BY <3>1 DEF LeftAlone
  <2> QED BY <2>1, <2>2
<1>23. ASSUME NEW c \in Calls, WaitTurn(c) PROVE Touches
  <2> SUFFICES ASSUME NEW d \in Calls PROVE LeftAlone(d) \/ OwnStep(d) \/ Announced OBVIOUS
  <2>1. CASE d = c BY <1>23, <2>1 DEF OwnStep, WaitStep
  <2>2. CASE d # c
    <3>1. call'[d] = call[d] /\ rx'[d] = rx[d]
      BY <1>23, <2>2 DEF WaitTurn, sessVars, diskVars, finVars, Answer
    <3> QED BY <3>1 DEF LeftAlone
  <2> QED BY <2>1, <2>2
<1>24. ASSUME NEW c \in Calls, WaitLagged(c) PROVE Touches
  <2> SUFFICES ASSUME NEW d \in Calls PROVE LeftAlone(d) \/ OwnStep(d) \/ Announced OBVIOUS
  <2>1. CASE d = c BY <1>24, <2>1 DEF OwnStep, WaitStep
  <2>2. CASE d # c
    <3>1. call'[d] = call[d] /\ rx'[d] = rx[d]
      BY <1>24, <2>2 DEF WaitLagged, sessVars, diskVars, finVars, Answer
    <3> QED BY <3>1 DEF LeftAlone
  <2> QED BY <2>1, <2>2
<1>25. ASSUME NEW c \in Calls, WaitTimeout(c) PROVE Touches
  <2> SUFFICES ASSUME NEW d \in Calls PROVE LeftAlone(d) \/ OwnStep(d) \/ Announced OBVIOUS
  <2>1. CASE d = c BY <1>25, <2>1 DEF OwnStep, WaitStep
  <2>2. CASE d # c
    <3>1. call'[d] = call[d] /\ rx'[d] = rx[d]
      BY <1>25, <2>2 DEF WaitTimeout, sessVars, diskVars, finVars, Answer
    <3> QED BY <3>1 DEF LeftAlone
  <2> QED BY <2>1, <2>2
<1>26. CASE Capture
  BY <1>26, ReceiverSteps DEF Capture, sessVars, diskVars, Opened, LeftAlone
<1>27. CASE SnapshotRoot
  BY <1>27 DEF SnapshotRoot, sessVars, diskVars, LeftAlone
<1>28. CASE SnapshotSubs
  BY <1>28 DEF SnapshotSubs, sessVars, diskVars, LeftAlone
<1>29. CASE Terminate
  BY <1>29 DEF Terminate, diskVars, LeftAlone
<1>30. CASE DrainTurn
  <2>1. call' = call BY <1>30 DEF DrainTurn
  <2>2. \A d \in Calls : rx'[d] = rx[d] BY <1>30 DEF DrainTurn
  <2> QED BY <2>1, <2>2 DEF LeftAlone
<1>31. CASE Drained
  BY <1>31 DEF Drained, sessVars, diskVars, LeftAlone
<1>32. CASE Deadline
  BY <1>32 DEF Deadline, sessVars, diskVars, LeftAlone
<1>33. CASE ReadFile
  BY <1>33 DEF ReadFile, sessVars, diskVars, LeftAlone
<1>34. CASE SynthRoot
  BY <1>34 DEF SynthRoot, sessVars, diskVars, LeftAlone
<1>35. CASE SynthSubs
  BY <1>35 DEF SynthSubs, sessVars, diskVars, LeftAlone
<1>36. CASE WriteSummary
  BY <1>36 DEF WriteSummary, sessVars, LeftAlone
<1>37. CASE UNCHANGED vars BY <1>37 DEF vars, LeftAlone
<1> HIDE DEF Touches
<1> QED BY <1>1, <1>2, <1>3, <1>4, <1>5, <1>6, <1>7, <1>8, <1>9, <1>10, <1>11,
    <1>12, <1>13, <1>14, <1>15, <1>16, <1>17, <1>18, <1>19, <1>20, <1>21, <1>22,
    <1>23, <1>24, <1>25, <1>26, <1>27, <1>28, <1>29, <1>30, <1>31, <1>32, <1>33,
    <1>34, <1>35, <1>36, <1>37 DEF Next, Spawning, Session, TailStep, WaitStep, Finalize

\* A completion is heard by every wait that listens.
LEMMA AlertAnnounce ==
    ASSUME RunEndInv, NEW b \in Actors, Announce(b), NEW c \in Calls
    PROVE  Alert(c)'
<1>1. /\ rx' = [r \in Receivers |-> Receive(rx[r], b)]
      /\ at' = [at EXCEPT ![b] = "gone"] /\ UNCHANGED <<entry, subs, results, call>>
  BY DEF Announce, HeardByRoot, diskVars
<1>2. Alert(c) /\ call[c].want.ids \subseteq Actors BY Wants DEF RunEndInv, AlertInv
<1>3. c \in Receivers BY DEF Receivers
<1>4. rx[c] \in Rx /\ Len(rx[c].q) <= Cap /\ (~ rx[c].open => rx[c] = NoRx)
  BY <1>3 DEF RunEndInv, TypeOK, RxOK
<1>5. rx'[c] = Receive(rx[c], b) BY <1>1, <1>3
<1>6. /\ rx'[c].open = rx[c].open
      /\ rx[c].lag => rx'[c].lag
      /\ rx[c].open => Queued(rx[c]) \cup {b} \subseteq Queued(rx'[c]) \/ rx'[c].lag
  BY <1>4, <1>5, ReceiveKeeps
<1>7. CASE ~ Waiting(c)
  BY <1>1, <1>7 DEF Alert, Waiting
<1>8. CASE Waiting(c)
  <2>1. rx[c].open BY <1>2, <1>8 DEF Alert
  <2>2. \A a \in Actors : (Hears(c, a) \/ a = b) => Hears(c, a)' BY <1>6, <2>1 DEF Hears
  <2>3. at \in [Actors -> Stages] BY DEF RunEndInv, TypeOK, SessOK
  <2>4. \A a \in Actors \ {b} : at'[a] = at[a] BY <1>1, <2>3
  <2>5. \A a \in Actors : IsDone(a)' <=> IsDone(a) BY <1>1 DEF IsDone, Visible
  <2> QED BY <1>1, <1>2, <1>6, <2>1, <2>2, <2>4, <2>5 DEF Alert
<1> QED BY <1>7, <1>8

\* What a wait has looked for and not found, it hears of.
LEMMA AlertOwn ==
    ASSUME RunEndInv, NEW c \in Calls, OwnStep(c)
    PROVE  Alert(c)'
<1>1. /\ Alert(c) /\ RxOK /\ call[c].want.ids \subseteq Actors
      /\ call[c].want.op # "actor" => call[c].want.ids \cap results = {}
  BY Wants DEF RunEndInv, AlertInv, TypeOK
<1>2. call \in [Calls -> [at : {"idle", "look", "results", "exists", "waiting", "record",
                                "unknown", "error"},
                          want : menu.waits \cup {NoWait}]]
  BY DEF RunEndInv, TypeOK, CallOK
<1>3. c \in Receivers BY DEF Receivers
<1>4. UNCHANGED <<at, entry, subs, results>>
  BY DEF OwnStep, WaitStep, Wait, Look, LookInResults, Exists, WaitTurn, WaitLagged,
         WaitTimeout, sessVars, diskVars
<1>5. \A a \in Actors : IsDone(a)' <=> IsDone(a) BY <1>4 DEF IsDone, Visible
<1>6. ASSUME NEW x \in {"record", "unknown", "error"}, Answer(c, x) PROVE Alert(c)'
  <2>1. call'[c].at = x BY <1>2, <1>6 DEF Answer
  <2> QED BY <2>1 DEF Alert, Waiting
<1>7. ASSUME NEW x \in {"results", "exists", "waiting"}, Go(c, x)
      PROVE  /\ call'[c].at = x /\ call'[c].want = call[c].want /\ rx'[c].open
             /\ \A a \in Actors : Hears(c, a) => Hears(c, a)'
  <2>1. call'[c].at = x /\ call'[c].want = call[c].want BY <1>2, <1>7 DEF Go
  <2>2. rx' = Opened(c) BY <1>7 DEF Go, Listening
  <2>3. /\ rx'[c].open /\ Queued(rx'[c]) = Queued(rx[c]) /\ rx'[c].lag = rx[c].lag
    BY <1>1, <1>3, <2>2, ReceiverSteps
  <2> QED BY <2>1, <2>3 DEF Hears
<1>8. ASSUME NEW q \in menu.waits, Wait(c, q) PROVE Alert(c)'
  <2>1. call'[c].at = "look" BY <1>2, <1>8 DEF Wait
  <2>2. rx' = Opened(c) BY <1>8 DEF Wait, Listening
  <2>3. rx'[c].open BY <1>1, <1>3, <2>2, ReceiverSteps
  <2> QED BY <2>1, <2>3 DEF Alert
<1>9. CASE Look(c)
  <2>1. CASE Go(c, "results") /\ ~ \E a \in call[c].want.ids : IsDone(a)
    BY <1>1, <1>5, <1>7, <2>1 DEF Alert
  <2>2. CASE /\ Go(c, "waiting") /\ ~ \E a \in call[c].want.ids : IsDone(a)
             /\ call[c].want.op = "any"
    BY <1>1, <1>4, <1>5, <1>7, <2>2 DEF Alert
  <2> QED BY <1>6, <1>9, <2>1, <2>2 DEF Look
<1>10. CASE LookInResults(c)
  <2>1. CASE Go(c, "exists") /\ call[c].at = "results" /\ call[c].want.ids \cap results = {}
    BY <1>1, <1>4, <1>5, <1>7, <2>1 DEF Alert
  <2> QED BY <1>6, <1>10, <2>1 DEF LookInResults
<1>11. CASE Exists(c)
  <2>1. CASE Go(c, "waiting") /\ call[c].at = "exists"
    BY <1>1, <1>4, <1>5, <1>7, <2>1 DEF Alert
  <2> QED BY <1>6, <1>11, <2>1 DEF Exists
<1>12. CASE WaitTurn(c)
  <2>1. CASE /\ rx[c].q # <<>> /\ rx' = [rx EXCEPT ![c] = [@ EXCEPT !.q = Tail(rx[c].q)]]
             /\ call' = call /\ call[c].at = "waiting"
             /\ ~ \E a \in call[c].want.ids :
                     IsDone(a) \/ (call[c].want.op = "actor" /\ a \in results)
    <3>1. rx'[c].open = rx[c].open BY <1>1, <1>3, <2>1, ReceiverSteps
    <3>2. rx'[c].open BY <1>1, <2>1, <3>1 DEF Alert, Waiting
    <3>3. \A a \in call[c].want.ids : ~ IsDone(a)' /\ a \notin results'
      BY <1>1, <1>4, <1>5, <2>1
    <3> QED BY <2>1, <3>2, <3>3 DEF Alert
  <2> QED BY <1>6, <1>12, <2>1 DEF WaitTurn
<1>13. CASE WaitLagged(c) BY <1>6, <1>13 DEF WaitLagged
<1>14. CASE WaitTimeout(c) BY <1>6, <1>14 DEF WaitTimeout
<1> QED BY <1>8, <1>9, <1>10, <1>11, <1>12, <1>13, <1>14 DEF OwnStep, WaitStep

\* Every wait stays alert.
LEMMA AlertStep == RunEndInv /\ [Next]_vars => AlertInv'
<1> SUFFICES ASSUME RunEndInv, [Next]_vars, NEW c \in Calls PROVE Alert(c)' BY DEF AlertInv
<1>1. CASE Announced BY <1>1, AlertAnnounce DEF Announced
<1>2. CASE OwnStep(c) BY <1>2, AlertOwn
<1>3. CASE LeftAlone(c) /\ ~ Announced
  <2>1. \A a \in Actors : Quiet(a) BY <1>3, QuietStep DEF Announced, StaysQuiet
  <2> QED BY <1>3, <2>1, AlertFrame DEF LeftAlone
<1> QED BY <1>1, <1>2, <1>3, TouchStep DEF Touches

\* What the tail of run_hierarchical has established is not undone by the others.
LEMMA FinFrame ==
    ASSUME RunEndInv, [Next]_vars,
           UNCHANGED <<known, inFlight, gaveUp, interrupted, read, synth>>,
           fin' \in {fin, "failed"}, lost \subseteq lost',
           at[Root] = "idle" => at'[Root] = "idle"
    PROVE  FinInv'
<1>1. FinInv /\ known \subseteq Actors /\ Root \in Actors
  BY DEF RunEndInv, TypeOK, FinOK, Actors, Leads
<1>2. \A a \in Actors : Onward(a) BY OnwardStep
<1>3. \A a \in Actors : Own(a) => Own(a)' BY DEF Own
<1>4. /\ (SettingUp => at[Root] = "idle")'
      /\ (fin \in Finishing => at[Root] = "gone")'
      /\ (\A a \in known \ inFlight : at[a] \in Marked)'
  BY <1>1, <1>2 DEF FinInv, SettingUp, After, Finishing, Onward
<1>5. /\ (fin = "read" /\ ~ gaveUp => inFlight = {})'
      /\ (fin \in {"synthRoot", "synthSubs", "write"} =>
             Own(Root) /\ (~ gaveUp => \A a \in known : Own(a)))'
      /\ (fin \in {"synthSubs", "write"} => synth \cap Existing = {})'
  BY <1>1, <1>3 DEF FinInv, Existing
<1> QED BY <1>4, <1>5 DEF FinInv

\* What the end of the run has established stays so.
LEMMA FinStep == RunEndInv /\ [Next]_vars => FinInv'
<1> SUFFICES ASSUME RunEndInv, [Next]_vars PROVE FinInv'
  OBVIOUS
<1> /\ at \in [Actors -> Stages] /\ entry \in [Actors -> {"none", "pending", "running", "done"}]
    /\ outcome \in [Actors -> {"none", "Success", "Failed", "Cancelled"}]
  BY DEF RunEndInv, TypeOK, SessOK
<1> FinInv /\ TrailInv /\ QueueInv /\ RxOK BY DEF RunEndInv, TypeOK
<1> /\ known \subseteq Actors /\ inFlight \subseteq known /\ Root \in Leads /\ Leads \subseteq Actors
    /\ Root \notin Workers /\ Root \notin Subs /\ read \subseteq file
  BY Ids DEF RunEndInv, TypeOK, FinOK, Actors, Leads
<1> \A a \in Actors : Onward(a) BY OnwardStep
<1> \A a \in Actors : entry[a] = "done" => at[a] \in Marked BY DEF TrailInv, Trail
 
<1>1. CASE SetUp
  <2>1. fin' \in DOMAIN After \cup {"wait", "failed"} /\ SettingUp
    BY <1>1 DEF SetUp, sessVars, diskVars, SettingUp, After
  <2>2. UNCHANGED <<known, inFlight, gaveUp, interrupted, read, synth, stop, at>>
    BY <1>1 DEF SetUp, sessVars, diskVars
  <2> QED BY <2>1, <2>2 DEF FinInv, SettingUp, After, Finishing
<1>2. CASE Launch
  <2>1. fin' = "wait" BY <1>2 DEF Launch, After
  <2>2. UNCHANGED <<known, inFlight, gaveUp, interrupted, read, synth, stop>>
    BY <1>2 DEF Launch, diskVars
  <2>3. \A a \in known : at[a] \in Marked => at'[a] \in Marked BY DEF Onward
  <2> QED BY <2>1, <2>2, <2>3 DEF FinInv, SettingUp, After, Finishing
<1>3. CASE SetUpFails
  <2>1. fin' \in DOMAIN After \cup {"wait", "failed"} /\ SettingUp
    BY <1>3 DEF SetUpFails, sessVars, diskVars, SettingUp, After
  <2>2. UNCHANGED <<known, inFlight, gaveUp, interrupted, read, synth, stop, at>>
    BY <1>3 DEF SetUpFails, sessVars, diskVars
  <2> QED BY <2>1, <2>2 DEF FinInv, SettingUp, After, Finishing
<1>4. ASSUME NEW b \in Workers, SpawnWorker(b) PROVE FinInv'
  <2>1. /\ UNCHANGED <<known, inFlight, gaveUp, interrupted, read, synth>>
        /\ fin' \in {fin, "failed"} /\ lost \subseteq lost'
    BY <1>4 DEF SpawnWorker, diskVars, finVars
  <2>2. at[Root] = "idle" => at'[Root] = "idle" BY <1>4 DEF SpawnWorker, diskVars, finVars
  <2> QED BY <2>1, <2>2, FinFrame
<1>5. ASSUME NEW b \in Workers, Register(b) PROVE FinInv'
  <2>1. /\ UNCHANGED <<known, inFlight, gaveUp, interrupted, read, synth>>
        /\ fin' \in {fin, "failed"} /\ lost \subseteq lost'
    BY <1>5 DEF Register, diskVars, finVars
  <2>2. at[Root] = "idle" => at'[Root] = "idle" BY <1>5 DEF Register, diskVars, finVars
  <2> QED BY <2>1, <2>2, FinFrame
<1>6. ASSUME NEW b \in Subs, SpawnSublead(b) PROVE FinInv'
  <2>1. /\ UNCHANGED <<known, inFlight, gaveUp, interrupted, read, synth>>
        /\ fin' \in {fin, "failed"} /\ lost \subseteq lost'
    BY <1>6 DEF SpawnSublead, diskVars, finVars
  <2>2. at[Root] = "idle" => at'[Root] = "idle" BY <1>6 DEF SpawnSublead, diskVars, finVars
  <2> QED BY <2>1, <2>2, FinFrame
<1>7. CASE Tripping
  <2>1. /\ UNCHANGED <<known, inFlight, gaveUp, interrupted, read, synth>>
        /\ fin' \in {fin, "failed"} /\ lost \subseteq lost'
    BY <1>7 DEF Tripping, CtrlC, CancelRun, BudgetBreach, Trip, diskVars, finVars
  <2>2. at[Root] = "idle" => at'[Root] = "idle"
    BY <1>7 DEF Tripping, CtrlC, CancelRun, BudgetBreach, Trip, diskVars, finVars
  <2> QED BY <2>1, <2>2, FinFrame
<1>8. ASSUME NEW b \in Leads, Reprompt(b) PROVE FinInv'
  <2>1. /\ UNCHANGED <<known, inFlight, gaveUp, interrupted, read, synth>>
        /\ fin' \in {fin, "failed"} /\ lost \subseteq lost'
    BY <1>8 DEF Reprompt, diskVars, finVars
  <2>2. at[Root] = "idle" => at'[Root] = "idle" BY <1>8 DEF Reprompt, diskVars, finVars
  <2> QED BY <2>1, <2>2, FinFrame
<1>9. ASSUME NEW b \in Actors, Start(b) PROVE FinInv'
  <2>1. /\ UNCHANGED <<known, inFlight, gaveUp, interrupted, read, synth>>
        /\ fin' \in {fin, "failed"} /\ lost \subseteq lost'
    BY <1>9 DEF Start, diskVars, finVars
  <2>2. at[Root] = "idle" => at'[Root] = "idle" BY <1>9 DEF Start, diskVars, finVars
  <2> QED BY <2>1, <2>2, FinFrame
<1>10. ASSUME NEW b \in Actors, SessionEnds(b) PROVE FinInv'
  <2>1. /\ UNCHANGED <<known, inFlight, gaveUp, interrupted, read, synth>>
        /\ fin' \in {fin, "failed"} /\ lost \subseteq lost'
    BY <1>10 DEF SessionEnds, diskVars, finVars
  <2>2. at[Root] = "idle" => at'[Root] = "idle" BY <1>10 DEF SessionEnds, diskVars, finVars
  <2> QED BY <2>1, <2>2, FinFrame
<1>11. ASSUME NEW b \in Leads, LoopTurn(b) PROVE FinInv'
  <2>1. /\ UNCHANGED <<known, inFlight, gaveUp, interrupted, read, synth>>
        /\ fin' \in {fin, "failed"} /\ lost \subseteq lost'
    BY <1>11 DEF LoopTurn, diskVars, finVars
  <2>2. at[Root] = "idle" => at'[Root] = "idle" BY <1>11 DEF LoopTurn, diskVars, finVars
  <2> QED BY <2>1, <2>2, FinFrame
<1>12. ASSUME NEW b \in Actors, PrepareFails(b) PROVE FinInv'
  <2>1. /\ UNCHANGED <<known, inFlight, gaveUp, interrupted, read, synth>>
        /\ fin' \in {fin, "failed"} /\ lost \subseteq lost'
    BY <1>12 DEF PrepareFails, diskVars, finVars
  <2>2. at[Root] = "idle" => at'[Root] = "idle" BY <1>12 DEF PrepareFails, diskVars, finVars
  <2> QED BY <2>1, <2>2, FinFrame
<1>13. ASSUME NEW b \in Actors, WriteLine(b) PROVE FinInv'
  <2>1. /\ UNCHANGED <<known, inFlight, gaveUp, interrupted, read, synth>>
        /\ fin' \in {fin, "failed"} /\ lost \subseteq lost'
    BY <1>13 DEF WriteLine
  <2>2. at[Root] = "idle" => at'[Root] = "idle" BY <1>13 DEF WriteLine
  <2> QED BY <2>1, <2>2, FinFrame
<1>14. ASSUME NEW b \in Actors, EndLine(b) PROVE FinInv'
  <2>1. /\ UNCHANGED <<known, inFlight, gaveUp, interrupted, read, synth>>
        /\ fin' \in {fin, "failed"} /\ lost \subseteq lost'
    BY <1>14 DEF EndLine, finVars
  <2>2. at[Root] = "idle" => at'[Root] = "idle" BY <1>14 DEF EndLine, finVars
  <2> QED BY <2>1, <2>2, FinFrame
<1>15. ASSUME NEW b \in Actors, Remove(b) PROVE FinInv'
  <2>1. /\ UNCHANGED <<known, inFlight, gaveUp, interrupted, read, synth>>
        /\ fin' \in {fin, "failed"} /\ lost \subseteq lost'
    BY <1>15 DEF Remove, diskVars, finVars
  <2>2. at[Root] = "idle" => at'[Root] = "idle" BY <1>15 DEF Remove, diskVars, finVars
  <2> QED BY <2>1, <2>2, FinFrame
<1>16. ASSUME NEW b \in Actors, MarkDone(b) PROVE FinInv'
  <2>1. /\ UNCHANGED <<known, inFlight, gaveUp, interrupted, read, synth>>
        /\ fin' \in {fin, "failed"} /\ lost \subseteq lost'
    BY <1>16 DEF MarkDone, diskVars, finVars
  <2>2. at[Root] = "idle" => at'[Root] = "idle" BY <1>16 DEF MarkDone, diskVars, finVars
  <2> QED BY <2>1, <2>2, FinFrame
<1>17. ASSUME NEW b \in Actors, Settle(b) PROVE FinInv'
  <2>1. /\ UNCHANGED <<known, inFlight, gaveUp, interrupted, read, synth>>
        /\ fin' \in {fin, "failed"} /\ lost \subseteq lost'
    BY <1>17 DEF Settle, finVars
  <2>2. at[Root] = "idle" => at'[Root] = "idle" BY <1>17 DEF Settle, finVars
  <2> QED BY <2>1, <2>2, FinFrame
<1>18. ASSUME NEW b \in Actors, Announce(b) PROVE FinInv'
  <2>1. /\ UNCHANGED <<known, inFlight, gaveUp, interrupted, read, synth>>
        /\ fin' \in {fin, "failed"} /\ lost \subseteq lost'
    BY <1>18 DEF Announce, diskVars, finVars
  <2>2. at[Root] = "idle" => at'[Root] = "idle" BY <1>18 DEF Announce, diskVars, finVars
  <2> QED BY <2>1, <2>2, FinFrame
<1>19. ASSUME NEW c \in Calls, NEW q \in menu.waits, Wait(c, q) PROVE FinInv'
  <2>1. /\ UNCHANGED <<known, inFlight, gaveUp, interrupted, read, synth>>
        /\ fin' \in {fin, "failed"} /\ lost \subseteq lost'
    BY <1>19 DEF Wait, sessVars, diskVars, finVars
  <2>2. at[Root] = "idle" => at'[Root] = "idle"
    BY <1>19 DEF Wait, sessVars, diskVars, finVars
  <2> QED BY <2>1, <2>2, FinFrame
<1>20. ASSUME NEW c \in Calls, Look(c) PROVE FinInv'
  <2>1. /\ UNCHANGED <<known, inFlight, gaveUp, interrupted, read, synth>>
        /\ fin' \in {fin, "failed"} /\ lost \subseteq lost'
    BY <1>20 DEF Look, sessVars, diskVars, finVars
  <2>2. at[Root] = "idle" => at'[Root] = "idle"
    BY <1>20 DEF Look, sessVars, diskVars, finVars
  <2> QED BY <2>1, <2>2, FinFrame
<1>21. ASSUME NEW c \in Calls, LookInResults(c) PROVE FinInv'
  <2>1. /\ UNCHANGED <<known, inFlight, gaveUp, interrupted, read, synth>>
        /\ fin' \in {fin, "failed"} /\ lost \subseteq lost'
    BY <1>21 DEF LookInResults, sessVars, diskVars, finVars
  <2>2. at[Root] = "idle" => at'[Root] = "idle"
    BY <1>21 DEF LookInResults, sessVars, diskVars, finVars
  <2> QED BY <2>1, <2>2, FinFrame
<1>22. ASSUME NEW c \in Calls, Exists(c) PROVE FinInv'
  <2>1. /\ UNCHANGED <<known, inFlight, gaveUp, interrupted, read, synth>>
        /\ fin' \in {fin, "failed"} /\ lost \subseteq lost'
    BY <1>22 DEF Exists, sessVars, diskVars, finVars
  <2>2. at[Root] = "idle" => at'[Root] = "idle"
    BY <1>22 DEF Exists, sessVars, diskVars, finVars
  <2> QED BY <2>1, <2>2, FinFrame
<1>23. ASSUME NEW c \in Calls, WaitTurn(c) PROVE FinInv'
  <2>1. /\ UNCHANGED <<known, inFlight, gaveUp, interrupted, read, synth>>
        /\ fin' \in {fin, "failed"} /\ lost \subseteq lost'
    BY <1>23 DEF WaitTurn, sessVars, diskVars, finVars
  <2>2. at[Root] = "idle" => at'[Root] = "idle"
    BY <1>23 DEF WaitTurn, sessVars, diskVars, finVars
  <2> QED BY <2>1, <2>2, FinFrame
<1>24. ASSUME NEW c \in Calls, WaitLagged(c) PROVE FinInv'
  <2>1. /\ UNCHANGED <<known, inFlight, gaveUp, interrupted, read, synth>>
        /\ fin' \in {fin, "failed"} /\ lost \subseteq lost'
    BY <1>24 DEF WaitLagged, sessVars, diskVars, finVars
  <2>2. at[Root] = "idle" => at'[Root] = "idle"
    BY <1>24 DEF WaitLagged, sessVars, diskVars, finVars
  <2> QED BY <2>1, <2>2, FinFrame
<1>25. ASSUME NEW c \in Calls, WaitTimeout(c) PROVE FinInv'
  <2>1. /\ UNCHANGED <<known, inFlight, gaveUp, interrupted, read, synth>>
        /\ fin' \in {fin, "failed"} /\ lost \subseteq lost'
    BY <1>25 DEF WaitTimeout, sessVars, diskVars, finVars
  <2>2. at[Root] = "idle" => at'[Root] = "idle"
    BY <1>25 DEF WaitTimeout, sessVars, diskVars, finVars
  <2> QED BY <2>1, <2>2, FinFrame
<1>26. CASE Capture
  <2>1. fin = "wait" /\ fin' = "root" /\ at' = at /\ stop' = stop
    BY <1>26 DEF Capture, sessVars, diskVars
  <2>2. UNCHANGED <<known, inFlight, gaveUp, read, synth, lost>>
    BY <1>26 DEF Capture, sessVars, diskVars
  <2>3. at[Root] = "gone" BY <1>26 DEF Capture
  <2> QED BY <1>26, <2>1, <2>2, <2>3 DEF FinInv, SettingUp, After, Finishing
<1>27. CASE SnapshotRoot
  <2>1. fin = "root" /\ fin' = "subs" /\ at' = at /\ stop' = stop
    BY <1>27 DEF SnapshotRoot, sessVars, diskVars
  <2>2. UNCHANGED <<gaveUp, interrupted, read, synth, lost>>
    BY <1>27 DEF SnapshotRoot, sessVars, diskVars
  <2>3. \A a \in known' \ inFlight' : a \in known \ inFlight \/ (a \in Actors /\ entry[a] = "done")
    BY <1>27 DEF SnapshotRoot, InMap, NotDone
  <2> QED BY <1>27, <2>1, <2>2, <2>3 DEF FinInv, SettingUp, After, Finishing
<1>28. CASE SnapshotSubs
  <2>1. fin = "subs" /\ fin' = "kill" /\ at' = at /\ stop' = stop
    BY <1>28 DEF SnapshotSubs, sessVars, diskVars
  <2>2. UNCHANGED <<gaveUp, interrupted, read, synth, lost>>
    BY <1>28 DEF SnapshotSubs, sessVars, diskVars
  <2>3. \A a \in known' \ inFlight' : a \in known \ inFlight \/ (a \in Actors /\ entry[a] = "done")
    BY <1>28 DEF SnapshotSubs, InMap, NotDone
  <2> QED BY <1>28, <2>1, <2>2, <2>3 DEF FinInv, SettingUp, After, Finishing
<1>29. CASE Terminate
  <2>1. fin = "kill" /\ fin' = "drain" /\ at' = at /\ stop' = stop
    BY <1>29 DEF Terminate, diskVars
  <2>2. UNCHANGED <<known, inFlight, gaveUp, interrupted, read, synth, lost>>
    BY <1>29 DEF Terminate, diskVars
  <2> QED BY <1>29, <2>1, <2>2 DEF FinInv, SettingUp, After, Finishing
<1>30. CASE DrainTurn
  <2>1. /\ fin = "drain" /\ fin' = "drain" /\ at' = at /\ stop' = stop
        /\ UNCHANGED <<known, gaveUp, interrupted, read, synth, lost>>
    BY <1>30 DEF DrainTurn, sessVars, diskVars
  <2>2. \A a \in inFlight \ inFlight' : at[a] \in Marked
    <3>1. CASE inFlight' = {a \in inFlight : ~ IsDone(a)} BY <3>1 DEF IsDone
    <3>2. CASE rx[Fin].q # <<>> /\ inFlight' = inFlight \ {Head(rx[Fin].q)}
      <4>1. Fin \in Receivers BY DEF Receivers
      <4>2. Head(rx[Fin].q) \in Queued(rx[Fin]) BY <3>2, <4>1, TakeKeeps DEF RxOK
      <4> QED BY <3>2, <4>1, <4>2 DEF QueueInv, Marked
    <3> QED BY <1>30, <3>1, <3>2 DEF DrainTurn
  <2> QED BY <2>1, <2>2 DEF FinInv, SettingUp, After, Finishing
<1>31. CASE Drained
  <2>1. fin = "drain" /\ fin' = "read" /\ at' = at /\ stop' = stop
    BY <1>31 DEF Drained, sessVars, diskVars
  <2>2. UNCHANGED <<known, inFlight, gaveUp, interrupted, read, synth, lost>>
    BY <1>31 DEF Drained, sessVars, diskVars
  <2>3. inFlight = {} BY <1>31 DEF Drained
  <2> QED BY <1>31, <2>1, <2>2, <2>3 DEF FinInv, SettingUp, After, Finishing
<1>32. CASE Deadline
  <2>1. fin = "drain" /\ fin' = "read" /\ at' = at /\ stop' = stop
    BY <1>32 DEF Deadline, sessVars, diskVars
  <2>2. UNCHANGED <<known, inFlight, interrupted, read, synth, lost>>
    BY <1>32 DEF Deadline, sessVars, diskVars
  <2>3. gaveUp' = TRUE BY <1>32 DEF Deadline
  <2> QED BY <1>32, <2>1, <2>2, <2>3 DEF FinInv, SettingUp, After, Finishing
<1>33. CASE ReadFile
  <2>1. fin = "read" /\ fin' = "synthRoot" /\ at' = at /\ stop' = stop
    BY <1>33 DEF ReadFile, sessVars, diskVars
  <2>2. UNCHANGED <<known, inFlight, gaveUp, interrupted, synth, lost>>
    BY <1>33 DEF ReadFile, sessVars, diskVars
  <2>3. read' = file BY <1>33 DEF ReadFile
  <2>4. \A a \in Actors : at[a] \in Marked => Own(a)'
    BY <2>2, <2>3 DEF TrailInv, Trail, Appended, Own
  <2>5. at[Root] \in Marked BY <2>1 DEF FinInv, Finishing, Marked
  <2>6. ~ gaveUp => \A a \in known : at[a] \in Marked BY <2>1 DEF FinInv
  <2> QED BY <1>33, <2>1, <2>2, <2>4, <2>5, <2>6 DEF FinInv, SettingUp, After, Finishing
<1>34. CASE SynthRoot
  <2>1. fin = "synthRoot" /\ fin' = "synthSubs" /\ at' = at /\ stop' = stop
    BY <1>34 DEF SynthRoot, sessVars, diskVars
  <2>2. UNCHANGED <<known, inFlight, gaveUp, interrupted, read, lost>>
    BY <1>34 DEF SynthRoot, sessVars, diskVars
  <2>4. \A a \in Actors : Own(a) => Own(a)' BY <2>2 DEF Own
  <2>3. (synth \cap Existing = {})' BY <1>34, <2>2 DEF SynthRoot, Existing
  <2> QED BY <1>34, <2>1, <2>2, <2>3, <2>4 DEF FinInv, SettingUp, After, Finishing
<1>35. CASE SynthSubs
  <2>1. fin = "synthSubs" /\ fin' = "write" /\ at' = at /\ stop' = stop
    BY <1>35 DEF SynthSubs, sessVars, diskVars
  <2>2. UNCHANGED <<known, inFlight, gaveUp, interrupted, read, lost>>
    BY <1>35 DEF SynthSubs, sessVars, diskVars
  <2>4. \A a \in Actors : Own(a) => Own(a)' BY <2>2 DEF Own
  <2>5. synth \cap Existing = {} BY <2>1 DEF FinInv
  <2>3. (synth \cap Existing = {})' BY <1>35, <2>2, <2>5 DEF SynthSubs, Existing
  <2> QED BY <1>35, <2>1, <2>2, <2>3, <2>4 DEF FinInv, SettingUp, After, Finishing
<1>36. CASE WriteSummary
  <2>1. fin' \in {"done", "failed"} BY <1>36 DEF WriteSummary, sessVars
  <2>2. UNCHANGED <<known, inFlight, gaveUp, interrupted, read, synth, stop, at>>
    BY <1>36 DEF WriteSummary, sessVars
  <2> QED BY <2>1, <2>2 DEF FinInv, SettingUp, After, Finishing
<1>37. CASE UNCHANGED vars BY <1>37, FinFrame DEF vars, sessVars, diskVars, finVars
<1> QED BY <1>1, <1>2, <1>3, <1>4, <1>5, <1>6, <1>7, <1>8, <1>9, <1>10, <1>11,
    <1>12, <1>13, <1>14, <1>15, <1>16, <1>17, <1>18, <1>19, <1>20, <1>21, <1>22,
    <1>23, <1>24, <1>25, <1>26, <1>27, <1>28, <1>29, <1>30, <1>31, <1>32, <1>33,
    <1>34, <1>35, <1>36, <1>37 DEF Next, Spawning, Session, TailStep, WaitStep, Finalize

\* Steps that leave the token, the lead's outcome and what finalize saw of them alone.
LEMMA TokenFrame ==
    ASSUME TokenInv, stop \subseteq stop', Root \in killed' <=> Root \in killed,
           interrupted' = interrupted, outcome'[Root] = outcome[Root],
           fin' \in Early => fin \in Early, fin' \in Finishing => fin \in Finishing
    PROVE  TokenInv'
  BY DEF TokenInv

\* Only trips, the end of the lead's session, the look at the token and finalize's own
\* terminate touch it.
LEMMA TokenStep == RunEndInv /\ [Next]_vars => TokenInv'
<1> SUFFICES ASSUME RunEndInv, [Next]_vars PROVE TokenInv'
  OBVIOUS
<1> /\ TokenInv /\ FinInv /\ outcome \in [Actors -> {"none", "Success", "Failed", "Cancelled"}]
    /\ Root \in Actors /\ Root \notin Workers /\ Root \notin Subs /\ Root \in Leads
  BY Ids DEF RunEndInv, TypeOK, SessOK, Actors, Leads
<1>1. CASE SetUp \/ Launch \/ SetUpFails
  <2>1. /\ UNCHANGED <<stop, killed, interrupted, outcome>>
        /\ fin \in Early /\ fin' \notin Finishing
    BY <1>1 DEF SetUp, Launch, SetUpFails, SettingUp, After, sessVars, Early, Finishing
  <2> QED BY <2>1, TokenFrame
<1>2. CASE Spawning \/ \E l \in Leads : Reprompt(l)
  <2>1. /\ UNCHANGED <<stop, interrupted, outcome, fin>>
        /\ Root \in killed' <=> Root \in killed
    BY <1>2 DEF Spawning, SpawnWorker, Register, SpawnSublead, Reprompt, finVars
  <2> QED BY <2>1, TokenFrame
<1>3. CASE Tripping
  <2>1. PICK k \in Trips : Trip(k)
    BY <1>3 DEF Tripping, CtrlC, CancelRun, BudgetBreach, Trips
  <2>2. /\ stop' # {} /\ killed \subseteq killed' /\ UNCHANGED <<interrupted, outcome, fin>>
    BY <2>1 DEF Trip, finVars
  <2> QED BY <2>2 DEF TokenInv
<1>4. ASSUME NEW a \in Actors, Start(a) \/ (a \in Leads /\ LoopTurn(a)) \/ TailStep(a)
      PROVE  TokenInv'
  <2>1. /\ UNCHANGED <<stop, killed, interrupted, outcome>> /\ fin' \in {fin, "failed"}
    BY <1>4 DEF Start, LoopTurn, TailStep, WriteLine, EndLine, Remove, MarkDone, Settle, Announce,
                finVars
  <2> QED BY <2>1, TokenFrame DEF Early, Finishing, After
<1>5. ASSUME NEW a \in Actors, SessionEnds(a) PROVE TokenInv'
  <2>1. UNCHANGED <<stop, killed, interrupted, fin>> BY <1>5 DEF SessionEnds, finVars
  <2>2. a # Root => outcome'[Root] = outcome[Root] BY <1>5 DEF SessionEnds
  <2>3. a = Root => at[Root] = "live" /\ (outcome'[Root] = "Cancelled" => Root \in killed)
    BY <1>5 DEF SessionEnds, Outcomes
  <2>4. a = Root => fin \notin Finishing BY <2>3 DEF FinInv
  <2>5. CASE a # Root BY <2>1, <2>2, <2>5, TokenFrame
  <2>6. CASE a = Root BY <2>1, <2>3, <2>4, <2>6 DEF TokenInv
  <2> QED BY <2>5, <2>6
<1>6. ASSUME NEW a \in Actors, PrepareFails(a) PROVE TokenInv'
  <2>1. UNCHANGED <<stop, killed, interrupted, fin>> /\ outcome'[Root] = outcome[Root]
    BY <1>6 DEF PrepareFails, finVars
  <2> QED BY <2>1, TokenFrame
<1>7. CASE \E c \in Calls : (\E q \in menu.waits : Wait(c, q)) \/ WaitStep(c) \/ WaitTimeout(c)
  <2>1. UNCHANGED <<stop, killed, interrupted, outcome, fin>>
    BY <1>7 DEF Wait, WaitStep, Look, LookInResults, Exists, WaitTurn, WaitLagged,
                WaitTimeout, sessVars, finVars
  <2> QED BY <2>1, TokenFrame
<1>8. CASE Capture
  <2>1. /\ fin = "wait" /\ fin' = "root" /\ UNCHANGED <<stop, killed, outcome>>
        /\ interrupted' = (stop # {} \/ Root \in killed)
    BY <1>8 DEF Capture, WasInterrupted, Draining, sessVars
  <2> QED BY <2>1 DEF TokenInv, Early, Finishing
<1>9. CASE Terminate
  <2>1. /\ fin = "kill" /\ fin' = "drain" /\ UNCHANGED <<stop, interrupted, outcome>>
        /\ killed \subseteq killed'
    BY <1>9 DEF Terminate
  <2> QED BY <2>1 DEF TokenInv, Early, Finishing, After
<1>10. CASE \/ SnapshotRoot \/ SnapshotSubs \/ DrainTurn \/ Drained \/ Deadline
            \/ ReadFile \/ SynthRoot \/ SynthSubs \/ WriteSummary
  <2>1. /\ UNCHANGED <<stop, killed, interrupted, outcome>>
        /\ fin' \in Early => fin \in Early
        /\ fin' \in Finishing => fin \in Finishing
    BY <1>10 DEF SnapshotRoot, SnapshotSubs, DrainTurn, Drained, Deadline, ReadFile, SynthRoot,
                 SynthSubs, WriteSummary, sessVars, Early, Finishing, After
  <2> QED BY <2>1, TokenFrame
<1>11. CASE UNCHANGED vars
  BY <1>11, TokenFrame DEF vars, sessVars, finVars
<1> QED BY <1>1, <1>2, <1>3, <1>4, <1>5, <1>6, <1>7, <1>8, <1>9, <1>10, <1>11
        DEF Next, Session, Finalize

\* The summary that is written has one record each, the actors' own where they have one,
\* and the exit code follows from it; nothing changes once it is there.
LEMMA SummaryStep == RunEndInv /\ [Next]_vars => SummaryInv'
<1> SUFFICES ASSUME RunEndInv, [Next]_vars PROVE SummaryInv' OBVIOUS
<1>1. fin' # "done" \/ WriteSummary \/ UNCHANGED vars
  <2>1. ASSUME Next PROVE fin' # "done" \/ WriteSummary
    <3>1. fin # "done" BY <2>1 DEF Next, Alive
    <3>2. CASE SetUp \/ Launch \/ SetUpFails
      BY <3>1, <3>2 DEF SetUp, Launch, SetUpFails, SettingUp, After
    <3>3. CASE Spawning \/ Tripping \/ \E l \in Leads : Reprompt(l)
      BY <3>1, <3>3 DEF Spawning, SpawnWorker, Register, SpawnSublead, Tripping, CtrlC, CancelRun,
                        BudgetBreach, Trip, Reprompt, finVars
    <3>4. CASE \E a \in Actors : Session(a) \/ PrepareFails(a)
      BY <3>1, <3>4 DEF Session, Start, SessionEnds, LoopTurn, PrepareFails, finVars
    <3>5. CASE \E a \in Actors : TailStep(a)
      BY <3>1, <3>5 DEF TailStep, WriteLine, EndLine, Remove, MarkDone, Settle, Announce, finVars
    <3>6. CASE \E c \in Calls : (\E q \in menu.waits : Wait(c, q)) \/ WaitStep(c) \/ WaitTimeout(c)
      BY <3>1, <3>6 DEF Wait, WaitStep, Look, LookInResults, Exists, WaitTurn, WaitLagged,
                        WaitTimeout, finVars
    <3>7. CASE Finalize \/ Deadline
      BY <3>1, <3>7 DEF Finalize, Capture, SnapshotRoot, SnapshotSubs, Terminate, DrainTurn,
                        Drained, ReadFile, SynthRoot, SynthSubs, Deadline
    <3> QED BY <2>1, <3>2, <3>3, <3>4, <3>5, <3>6, <3>7 DEF Next
  <2> QED BY <2>1
<1>2. CASE fin' # "done"
  BY <1>2 DEF SummaryInv, OneRecordEach, DrainedAreReported, ExitCodeIsHonest
<1>3. CASE UNCHANGED vars
  <2>1. /\ UNCHANGED <<fin, summary, gaveUp, known, lost, rc, stop, outcome>>
        /\ OneRecordEach /\ DrainedAreReported /\ ExitCodeIsHonest
    BY <1>3 DEF vars, sessVars, diskVars, finVars, RunEndInv, SummaryInv
  <2> QED BY <2>1 DEF SummaryInv, OneRecordEach, DrainedAreReported, ExitCodeIsHonest
<1>4. CASE WriteSummary /\ fin' = "done"
  <2> DEFINE made == {[id |-> w, synth |-> TRUE] : w \in synth}
  <2>1. /\ fin = "write" /\ summary' = read \cup made
        /\ rc' = IF interrupted THEN 130 ELSE IF FailedTasks(summary') # {} THEN 1 ELSE 0
    BY <1>4 DEF WriteSummary, ExitCode
  <2>2. UNCHANGED <<known, gaveUp, lost, stop, outcome>> BY <1>4 DEF WriteSummary, sessVars
  <2>3. /\ interrupted => stop # {}
        /\ outcome[Root] = "Cancelled" => interrupted
        /\ Own(Root) /\ (~ gaveUp => \A a \in known : Own(a))
        /\ synth \cap Existing = {}
    BY <2>1 DEF RunEndInv, FinInv, TokenInv, Finishing
  <2>4. \A r \in read : /\ r \in [id : Actors, synth : BOOLEAN] /\ ~ r.synth
                        /\ outcome[r.id] # "none" /\ r.id \notin synth
    <3>1. /\ read \subseteq file /\ file \subseteq [id : Actors, synth : BOOLEAN] /\ FileInv
      BY DEF RunEndInv, TypeOK, FinOK, DiskOK
    <3>2. \A r \in read : r.id \notin synth BY <2>3 DEF Existing
    <3> QED BY <2>1, <3>1, <3>2 DEF FileInv
  <2>5. /\ Root \notin synth /\ Root \in Actors /\ known \subseteq Actors
        /\ outcome \in [Actors -> {"none", "Success", "Failed", "Cancelled"}]
    BY Ids DEF RunEndInv, TypeOK, FinOK, SessOK, Actors, Leads
  <2>6. \A r \in made : r.synth /\ r.id \in synth /\ r = [id |-> r.id, synth |-> TRUE] OBVIOUS
  <2>7. \A r \in read : r = [id |-> r.id, synth |-> FALSE] BY <2>4
  <2> HIDE DEF made
  <2>8. OneRecordEach' BY <2>1, <2>4, <2>6, <2>7, ZenonT(60) DEF OneRecordEach
  <2>9. ASSUME ~ gaveUp, NEW a \in known \ lost
        PROVE  [id |-> a, synth |-> FALSE] \in read /\ [id |-> a, synth |-> TRUE] \notin summary'
    <3>1. [id |-> a, synth |-> FALSE] \in read BY <2>3, <2>9 DEF Own
    <3>2. a \notin synth BY <2>4, <3>1
    <3> QED BY <2>1, <2>4, <2>6, <3>1, <3>2
  <2>10. DrainedAreReported' BY <2>1, <2>2, <2>9 DEF DrainedAreReported
  <2>11. (rc' = 130 => stop' # {}) /\ (rc' # 130 => outcome'[Root] # "Cancelled")
    BY <2>1, <2>2, <2>3
  <2>12. ASSUME rc' = 0, NEW a \in Actors, [id |-> a, synth |-> FALSE] \in read
         PROVE  /\ outcome[a] # "Failed"
                /\ a = Root => outcome[a] = "Success"
    <3> DEFINE r == [id |-> a, synth |-> FALSE]
    <3>1. r \in summary' /\ r \notin FailedTasks(summary') BY <2>1, <2>12
    <3>2. Status(r) = outcome[a] BY DEF Status
    <3> QED BY <3>1, <3>2 DEF FailedTasks
  <2>13. rc' = 0 /\ Root \notin lost' => outcome'[Root] = "Success"
    BY <2>2, <2>3, <2>5, <2>12 DEF Own
  <2>14. rc' = 0 /\ ~ gaveUp' => \A a \in known' \ lost' : outcome'[a] # "Failed"
    BY <2>2, <2>5, <2>9, <2>12
  <2>15. ASSUME rc' = 1, outcome[Root] = "Success" PROVE \E a \in Actors : outcome[a] = "Failed"
    <3>1. PICK r \in FailedTasks(summary') : TRUE BY <2>1, <2>15
    <3>2. /\ r \in summary' /\ Status(r) # "Success"
          /\ r.id = Root \/ Status(r) # "Cancelled"
      BY <2>15 DEF FailedTasks
    <3>3. CASE r \in made BY <2>5, <2>6, <3>2, <3>3 DEF Status
    <3>4. CASE r \in read
      <4>1. Status(r) = outcome[r.id] /\ outcome[r.id] # "none" /\ r.id \in Actors
        BY <2>4, <3>4 DEF Status
      <4>2. outcome[r.id] # "Cancelled" BY <2>15, <3>2, <4>1
      <4> QED BY <2>5, <3>2, <4>1, <4>2
    <3> QED BY <2>1, <3>2, <3>3, <3>4
  <2>16. ExitCodeIsHonest' BY <2>2, <2>11, <2>13, <2>14, <2>15 DEF ExitCodeIsHonest
  <2> QED BY <2>8, <2>10, <2>16 DEF SummaryInv
<1> QED BY <1>1, <1>2, <1>3, <1>4

\* The run starts with nothing to answer for.
LEMMA InvInit == Init => RunEndInv
<1> SUFFICES ASSUME Init PROVE RunEndInv OBVIOUS
<1> USE DEF Init
<1>0. /\ Workers \subseteq Actors /\ Subs \subseteq Leads /\ Leads \subseteq Actors /\ Root \in Leads
      /\ menu.reprompts \in Nat
  BY MenuShape DEF Actors, Leads
<1>1. SessOK BY <1>0 DEF SessOK, Stages
<1>2. DiskOK /\ CallOK BY DEF DiskOK, CallOK, NoWait
<1>3. RxOK BY Bounds, NoRxIsEmpty DEF RxOK
<1>4. FinOK BY DEF FinOK, After
<1>5. TrailInv BY DEF TrailInv, Trail, Marked, Appended, Ended
<1>6. FileInv /\ MailInv BY <1>0 DEF FileInv, MailInv
<1>7. QueueInv BY NoRxIsEmpty DEF QueueInv
<1>8. AlertInv BY DEF AlertInv, Alert, Waiting, NoWait
<1>9. FinInv BY <1>0 DEF FinInv, SettingUp, After, Finishing
<1>11. TokenInv BY <1>0 DEF TokenInv, Finishing
<1>10. SummaryInv BY DEF SummaryInv, OneRecordEach, DrainedAreReported, ExitCodeIsHonest
<1> QED BY <1>1, <1>2, <1>3, <1>4, <1>5, <1>6, <1>7, <1>8, <1>9, <1>10, <1>11 DEF RunEndInv, TypeOK

-----------------------------------------------------------------------------
(* The theorems *)

\* The invariant holds in every state of every run, whatever fails, ends or is cancelled in
\* whatever order.
THEOREM RunEndInvariant == Spec => []RunEndInv
<1>1. RunEndInv /\ [Next]_vars => RunEndInv'
  <2> SUFFICES ASSUME RunEndInv, [Next]_vars PROVE RunEndInv' OBVIOUS
  <2>1. (menu \in Menus)'
    BY MenuStays DEF RunEndInv, TypeOK
  <2> QED BY <2>1, TypeStep, ReceiverStep, TrailStep, FileStep, AlertStep, FinStep, TokenStep, SummaryStep
          DEF RunEndInv, TypeOK, PlainOK
<1> QED BY <1>1, InvInit, PTL DEF Spec

\* What waits and summary.json say is what happened: a wait that sleeps on an empty channel
\* has missed nothing, summary.json has each drained actor's own record and no two of
\* anybody, and the exit code follows from them.
THEOREM RunEndStaysTrue == Spec => []RunEndIsTrue
<1>1. RunEndInv => RunEndIsTrue
  <2> SUFFICES ASSUME RunEndInv PROVE RunEndIsTrue OBVIOUS
  <2>1. ASSUME NEW c \in Calls, call[c].at = "waiting", rx[c].q = <<>>, ~ rx[c].lag,
               NEW a \in call[c].want.ids, IsDone(a) \/ a \in results
        PROVE  at[a] # "gone"
    <3>1. Queued(rx[c]) = {} BY <2>1 DEF Queued
    <3>2. ~ Hears(c, a) BY <2>1, <3>1 DEF Hears
    <3>3. Alert(c) BY DEF RunEndInv, AlertInv
    <3> QED BY <2>1, <3>2, <3>3 DEF Alert
  <2>2. NoMissedCompletion BY <2>1 DEF NoMissedCompletion
  <2> QED BY <2>2 DEF RunEndIsTrue, RunEndInv, SummaryInv
<1> QED BY <1>1, RunEndInvariant, PTL
=============================================================================
