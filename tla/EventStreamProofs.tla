------------------------- MODULE EventStreamProofs -------------------------
(***************************************************************************)
(* The event stream implements EventFeed, for any number of producers,     *)
(* clients and browsers, any capacities and any pattern of lags, lost      *)
(* connections, failed writes and crashes: every reader sees one order.    *)
(* And the log is true: it announces its holes, and a failed write costs   *)
(* no more than a line and the one joined to it.                           *)
(*                                                                         *)
(* Inductive invariant: StreamInv.  What is on its way to a reader is in   *)
(* the order of the bus, ahead of the reader's place on the bus and behind *)
(* what the reader has been shown (ClientInv, WebInv, LogInv).             *)
(***************************************************************************)
EXTENDS EventStream, FiniteSetTheorems, SequenceTheorems, TLAPS

Inj(b) == \A i, j \in DOMAIN b : b[i] = b[j] => i = j

\* Of a stream of envelopes: its events were sent, and stand in the order of the bus.
OnBus(b, es) == \A i \in DOMAIN es : es[i].k = "bus" => PlaceOn(b, es[i]) \in 1 .. Len(b)
Ordered(b, es) == \A i, j \in DOMAIN es : i < j /\ es[i].k = "bus" /\ es[j].k = "bus" =>
                      PlaceOn(b, es[i]) < PlaceOn(b, es[j])
Good(b, es) == OnBus(b, es) /\ Ordered(b, es)
\* All events of es come before those of ds; before place p.
AllBefore(b, es, ds) == \A i \in DOMAIN es, j \in DOMAIN ds : es[i].k = "bus" /\ ds[j].k = "bus" =>
                            PlaceOn(b, es[i]) < PlaceOn(b, ds[j])
Under(b, es, p) == \A i \in DOMAIN es : es[i].k = "bus" => PlaceOn(b, es[i]) < p

BusOK ==
    /\ menu \in Menus /\ seq \in Nat /\ up \in BOOLEAN
    /\ drawn \in [Actors -> Envelopes \cup {NoEnv}] /\ bus \in Seq(Envelopes)
    /\ pos \in [{Persister} \cup Clients -> Nat]
    /\ pos[Persister] \in 1 .. Len(bus) + 1
    /\ \A c \in Clients : pos[c] <= Len(bus) + 1

LogOK ==
    /\ log \in Seq(Seq(Envelopes)) /\ \A i \in DOMAIN log : log[i] # <<>>
    /\ ended \in BOOLEAN /\ faults \in 0 .. menu.faults /\ (~ ended => log # <<>>)

ConnOK ==
    /\ conn \in [Clients -> {"off", "hello", "live"}] /\ dials \in [Clients -> 0 .. menu.dials]
    /\ queue \in [Clients -> Seq(Envelopes)] /\ wire \in [Clients -> Seq(Envelopes)]
    /\ \A c \in Clients : Len(queue[c]) <= QueueCap
    /\ slot \in menu.writers \cup {None}

WebOK ==
    /\ gens \in Nat /\ gen \in 0 .. gens /\ chan \in Seq(Seq(Envelopes)) /\ Len(chan) = gens
    /\ pumped \in 0 .. Len(wire[Web])
    /\ tab \in [Browsers -> [gen : 0 .. gens, next : Nat, got : Seq(Envelopes)]]

StreamOK == BusOK /\ LogOK /\ ConnOK /\ WebOK

\* Numbers are drawn once, so the envelopes on the bus are different from each other and
\* from those about to be sent; and who draws which kind.
NumInv ==
    /\ Inj(bus) /\ \A i \in DOMAIN bus : bus[i].s <= seq /\ bus[i].k = "bus"
    /\ \A a \in Actors : drawn[a] # NoEnv =>
         /\ drawn[a].s <= seq /\ \A i \in DOMAIN bus : bus[i].s # drawn[a].s
         /\ \A b \in Actors \ {a} : drawn[b] # NoEnv => drawn[b].s # drawn[a].s
    /\ \A a \in Producers : drawn[a] # NoEnv => drawn[a].k = "bus" /\ drawn[a].n = 0
    /\ \A a \in Clients : drawn[a] # NoEnv => drawn[a].k \in {"bus", "direct"} /\ drawn[a].n = 0
    /\ drawn[Persister] # NoEnv => drawn[Persister].k = "gap"

ClientInv(c) ==
    /\ Good(bus, queue[c]) /\ Good(bus, wire[c]) /\ AllBefore(bus, wire[c], queue[c])
    /\ pos[c] # None => Under(bus, queue[c], pos[c]) /\ Under(bus, wire[c], pos[c])
    /\ conn[c] = "live" => pos[c] # None

\* What the web server has fanned out it has read.
Fanned(e) == \E m \in 1 .. pumped : wire[Web][m] = e
TabInv(b) ==
    /\ Good(bus, tab[b].got) /\ \A i \in DOMAIN tab[b].got : Fanned(tab[b].got[i])
    /\ tab[b].gen # None => LET c == chan[tab[b].gen] IN
         \A i \in DOMAIN tab[b].got, k \in DOMAIN c : k >= tab[b].next =>
            (tab[b].got[i].k = "bus" /\ c[k].k = "bus" => At(tab[b].got[i]) < At(c[k]))
WebInv ==
    /\ \A g \in DOMAIN chan : Good(bus, chan[g]) /\ \A i \in DOMAIN chan[g] : Fanned(chan[g][i])
    /\ \A b \in Browsers : TabInv(b)

LogInv ==
    /\ \A i \in DOMAIN log : Good(bus, log[i]) /\ Under(bus, log[i], pos[Persister])
    /\ \A i, j \in DOMAIN log : i < j => AllBefore(bus, log[i], log[j])

HoleInv ==
    /\ IsFiniteSet(Told(log, Len(log)))
    /\ faults = 0 => ended
    /\ HolesAreAnnounced

Bad == {i \in DOMAIN log : ~ Readable(log[i])}
Loose == IF ~ ended /\ Readable(log[Len(log)]) THEN 1 ELSE 0
FaultInv == Cardinality(Bad) + Loose <= faults

StreamInv == /\ StreamOK /\ NumInv /\ (\A c \in Clients : ClientInv(c)) /\ WebInv
             /\ LogInv /\ HoleInv /\ FaultInv
-----------------------------------------------------------------------------
(* Places on the bus, and streams of envelopes. *)

LEMMA PlaceIs == ASSUME NEW b, Inj(b), NEW i \in DOMAIN b PROVE PlaceOn(b, b[i]) = i
BY DEF PlaceOn, Inj

LEMMA PlaceStays ==
    ASSUME NEW b \in Seq(Envelopes), NEW x \in Envelopes, Inj(Append(b, x)),
           NEW e, PlaceOn(b, e) \in 1 .. Len(b)
    PROVE  PlaceOn(Append(b, x), e) = PlaceOn(b, e) /\ PlaceOn(b, e) \in 1 .. Len(Append(b, x))
<1> DEFINE i == PlaceOn(b, e)
           c == Append(b, x)
<1>1. Len(b) \in Nat /\ DOMAIN b = 1 .. Len(b) BY LenProperties
<1>2. i # 0 BY <1>1
<1>3. i \in DOMAIN b /\ b[i] = e BY <1>2 DEF PlaceOn
<1>4. DOMAIN c = 1 .. Len(c) /\ Len(c) = Len(b) + 1 /\ \A k \in 1 .. Len(b) : c[k] = b[k]
  BY <1>1, AppendProperties, LenProperties
<1>5. i \in DOMAIN c /\ c[i] = e BY <1>1, <1>3, <1>4
<1> HIDE DEF i, c
<1>6. PlaceOn(c, c[i]) = i BY <1>5, PlaceIs DEF c
<1> QED BY <1>1, <1>3, <1>4, <1>5, <1>6 DEF i, c

\* An event that is sent moves nothing of what was sent before.
LEMMA GoodStays ==
    ASSUME NEW b \in Seq(Envelopes), NEW x \in Envelopes, Inj(Append(b, x)), NEW es, Good(b, es)
    PROVE  Good(Append(b, x), es)
BY PlaceStays DEF Good, OnBus, Ordered

LEMMA UnderStays ==
    ASSUME NEW b \in Seq(Envelopes), NEW x \in Envelopes, Inj(Append(b, x)), NEW es, OnBus(b, es),
           NEW p, Under(b, es, p)
    PROVE  Under(Append(b, x), es, p)
BY PlaceStays DEF OnBus, Under

LEMMA BeforeStays ==
    ASSUME NEW b \in Seq(Envelopes), NEW x \in Envelopes, Inj(Append(b, x)), NEW es, OnBus(b, es),
           NEW ds, OnBus(b, ds), AllBefore(b, es, ds)
    PROVE  AllBefore(Append(b, x), es, ds)
BY PlaceStays DEF OnBus, AllBefore

LEMMA EmptyIsGood ==
    ASSUME NEW b
    PROVE  /\ Good(b, <<>>) /\ \A p : Under(b, <<>>, p)
           /\ \A es : AllBefore(b, es, <<>>) /\ AllBefore(b, <<>>, es)
<1>1. DOMAIN << >> = {} OBVIOUS
<1> QED BY <1>1 DEF Good, OnBus, Ordered, Under, AllBefore

\* A stream to which an envelope is added.
Fits(b, es, e) == e.k = "bus" => PlaceOn(b, e) \in 1 .. Len(b) /\ Under(b, es, PlaceOn(b, e))

LEMMA GoodAppend ==
    ASSUME NEW b, NEW es \in Seq(Envelopes), NEW e \in Envelopes, Good(b, es), Fits(b, es, e)
    PROVE  Good(b, Append(es, e))
<1> DEFINE ds == Append(es, e)
<1>1. Len(es) \in Nat /\ DOMAIN es = 1 .. Len(es) BY LenProperties
<1>2. DOMAIN ds = 1 .. Len(es) + 1 /\ ds[Len(es) + 1] = e /\ \A k \in 1 .. Len(es) : ds[k] = es[k]
  BY <1>1, AppendProperties, LenProperties
<1> HIDE DEF ds
<1>3. OnBus(b, ds) BY <1>1, <1>2 DEF OnBus, Good, Fits
<1>4. Ordered(b, ds)
  <2> SUFFICES ASSUME NEW i \in DOMAIN ds, NEW j \in DOMAIN ds, i < j, ds[i].k = "bus", ds[j].k = "bus"
               PROVE  PlaceOn(b, ds[i]) < PlaceOn(b, ds[j])
    BY DEF Ordered
  <2>1. i \in 1 .. Len(es) /\ ds[i] = es[i] BY <1>1, <1>2
  <2>2. CASE j \in 1 .. Len(es) BY <2>1, <2>2, <1>1, <1>2 DEF Good, Ordered
  <2>3. CASE j = Len(es) + 1 BY <2>1, <2>3, <1>1, <1>2 DEF Fits, Under
  <2> QED BY <2>2, <2>3, <1>1, <1>2
<1> QED BY <1>3, <1>4 DEF Good, ds

LEMMA UnderAppend ==
    ASSUME NEW b, NEW es \in Seq(Envelopes), NEW e \in Envelopes, NEW p, Under(b, es, p),
           e.k = "bus" => PlaceOn(b, e) < p
    PROVE  Under(b, Append(es, e), p)
<1>1. Len(es) \in Nat /\ DOMAIN es = 1 .. Len(es) BY LenProperties
<1>2. DOMAIN Append(es, e) = 1 .. Len(es) + 1 /\ Append(es, e)[Len(es) + 1] = e
      /\ \A k \in 1 .. Len(es) : Append(es, e)[k] = es[k]
  BY <1>1, AppendProperties, LenProperties
<1> QED BY <1>1, <1>2 DEF Under

LEMMA BeforeAppendRight ==
    ASSUME NEW b, NEW es, NEW ds \in Seq(Envelopes), NEW e \in Envelopes, AllBefore(b, es, ds),
           e.k = "bus" => Under(b, es, PlaceOn(b, e))
    PROVE  AllBefore(b, es, Append(ds, e))
<1>1. Len(ds) \in Nat /\ DOMAIN ds = 1 .. Len(ds) BY LenProperties
<1>2. DOMAIN Append(ds, e) = 1 .. Len(ds) + 1 /\ Append(ds, e)[Len(ds) + 1] = e
      /\ \A k \in 1 .. Len(ds) : Append(ds, e)[k] = ds[k]
  BY <1>1, AppendProperties, LenProperties
<1> QED BY <1>1, <1>2 DEF Under, AllBefore

LEMMA BeforeAppendLeft ==
    ASSUME NEW b, NEW es \in Seq(Envelopes), NEW ds, NEW e \in Envelopes, AllBefore(b, es, ds), e.k # "bus"
    PROVE  AllBefore(b, Append(es, e), ds)
<1>1. Len(es) \in Nat /\ DOMAIN es = 1 .. Len(es) BY LenProperties
<1>2. DOMAIN Append(es, e) = 1 .. Len(es) + 1 /\ Append(es, e)[Len(es) + 1] = e
      /\ \A k \in 1 .. Len(es) : Append(es, e)[k] = es[k]
  BY <1>1, AppendProperties, LenProperties
<1> QED BY <1>1, <1>2 DEF AllBefore

\* A stream to which another is added.
LEMMA GoodConcat ==
    ASSUME NEW b, NEW es \in Seq(Envelopes), NEW ds \in Seq(Envelopes),
           Good(b, es), Good(b, ds), AllBefore(b, es, ds)
    PROVE  Good(b, es \o ds) /\ \A p : Under(b, es, p) /\ Under(b, ds, p) => Under(b, es \o ds, p)
<1> DEFINE cs == es \o ds
           n == Len(es)
           m == Len(ds)
<1>1. n \in Nat /\ m \in Nat /\ DOMAIN es = 1 .. n /\ DOMAIN ds = 1 .. m BY LenProperties
<1>2. Len(cs) = n + m /\ DOMAIN cs = 1 .. n + m BY ConcatProperties, LenProperties, <1>1
<1>3. \A i \in 1 .. n + m : cs[i] = IF i <= n THEN es[i] ELSE ds[i - n] BY ConcatProperties
<1> HIDE DEF cs, n, m
<1>4. \A i \in DOMAIN cs : \/ i \in DOMAIN es /\ cs[i] = es[i]
                           \/ i > n /\ i - n \in DOMAIN ds /\ cs[i] = ds[i - n]
  BY <1>1, <1>2, <1>3
<1>5. OnBus(b, cs) BY <1>4 DEF OnBus, Good
<1>6. ASSUME NEW p, Under(b, es, p), Under(b, ds, p) PROVE Under(b, cs, p) BY <1>4, <1>6 DEF Under
<1>7. Ordered(b, cs)
  <2> SUFFICES ASSUME NEW i \in DOMAIN cs, NEW j \in DOMAIN cs, i < j, cs[i].k = "bus", cs[j].k = "bus"
               PROVE  PlaceOn(b, cs[i]) < PlaceOn(b, cs[j])
    BY DEF Ordered
  <2>1. CASE i <= n /\ j <= n BY <2>1, <1>1, <1>2, <1>4 DEF Good, Ordered
  <2>2. CASE i <= n /\ j > n
    <3>1. cs[i] = es[i] /\ i \in DOMAIN es /\ cs[j] = ds[j - n] /\ j - n \in DOMAIN ds
      BY <2>2, <1>1, <1>2, <1>4
    <3> QED BY <3>1 DEF AllBefore
  <2>3. CASE i > n /\ j > n
    <3>1. cs[i] = ds[i - n] /\ i - n \in DOMAIN ds /\ cs[j] = ds[j - n] /\ j - n \in DOMAIN ds /\ i - n < j - n
      BY <2>3, <1>1, <1>2, <1>4
    <3> QED BY <3>1 DEF Good, Ordered
  <2> QED BY <2>1, <2>2, <2>3, <1>1, <1>2
<1> QED BY <1>5, <1>6, <1>7 DEF Good, cs

-----------------------------------------------------------------------------
(* Types. *)

LEMMA MenuFacts ==
    ASSUME menu \in Menus
    PROVE  /\ menu.events \in Nat /\ menu.direct \in Nat /\ menu.dials \in Nat /\ menu.faults \in Nat
           /\ menu.clients \subseteq Clients /\ menu.writers \subseteq Clients
           /\ menu.producers \subseteq Producers
BY MenuShape

LEMMA ActorFacts ==
    /\ Producers \subseteq Actors /\ Clients \subseteq Actors /\ Persister \in Actors /\ Web \in Clients
    /\ Persister \notin Clients /\ Persister \notin Producers /\ Producers \cap Clients = {}
    /\ None \notin Clients
BY ActorsDiffer DEF Actors, Clients

LEMMA OldestFacts ==
    ASSUME NEW c, Len(c) \in Nat, NEW cap \in Nat \ {0}
    PROVE  Oldest(c, cap) \in 1 .. Len(c) + 1
BY DEF Oldest

LEMMA CapFacts == BusCap \in Nat \ {0} /\ QueueCap \in Nat \ {0} /\ WebCap \in Nat \ {0}
BY Caps

LEMMA EnvFacts ==
    /\ NoEnv \notin Envelopes
    /\ \A e \in Envelopes : e.s \in Nat /\ e.n \in Nat /\ e.k \in {"bus", "direct", "gap", "torn"}
    /\ \A k \in {"bus", "direct", "gap", "torn"}, s, n \in Nat : [k |-> k, s |-> s, n |-> n] \in Envelopes
BY DEF NoEnv, Envelopes

\* Who has numbered an envelope.
LEMMA NextSeqType ==
    ASSUME BusOK, NEW a \in Actors, NEW k \in {"bus", "direct", "gap"}, NEW n \in Nat, NextSeq(a, k, n)
    PROVE  seq' \in Nat /\ drawn' \in [Actors -> Envelopes \cup {NoEnv}]
BY EnvFacts DEF BusOK, NextSeq

LEMMA BusFrame == ASSUME BusOK, UNCHANGED <<menu, busVars, pos, up>> PROVE BusOK'
BY DEF BusOK, busVars

\* A receiver's next place.
LEMMA BehindType ==
    ASSUME BusOK, NEW r \in {Persister} \cup Clients, Lagged(r)
    PROVE  Behind(r).n \in Nat /\ Behind(r).n > 0 /\ Behind(r).to \in 1 .. Len(bus) + 1
<1>1. Len(bus) \in Nat BY LenProperties DEF BusOK
<1>2. Oldest(bus, BusCap) \in 1 .. Len(bus) + 1 BY <1>1, OldestFacts, CapFacts
<1>3. pos[r] \in Nat BY DEF BusOK
<1> QED BY <1>1, <1>2, <1>3 DEF Lagged, Behind

LEMMA ReceivesType ==
    ASSUME BusOK, NEW r \in {Persister} \cup Clients, Receives(r)
    PROVE  pos[r] \in 1 .. Len(bus) /\ bus[pos[r]] \in Envelopes
<1>1. Len(bus) \in Nat /\ DOMAIN bus = 1 .. Len(bus) BY LenProperties DEF BusOK
<1>2. Oldest(bus, BusCap) \in 1 .. Len(bus) + 1 BY <1>1, OldestFacts, CapFacts
<1>3. pos[r] \in 1 .. Len(bus) BY <1>1, <1>2 DEF Receives, BusOK
<1> QED BY <1>1, <1>3, ElementOfSeq DEF BusOK

LEMMA SendType ==
    ASSUME BusOK, NEW a \in Actors, Send(a), menu' = menu
    PROVE  /\ BusOK' /\ drawn[a] \in Envelopes /\ drawn[a] # NoEnv
           /\ bus' = Append(bus, drawn[a]) /\ Len(bus') = Len(bus) + 1 /\ Len(bus) \in Nat
<1>1. drawn[a] \in Envelopes /\ drawn[a] # NoEnv BY DEF BusOK, Send
<1>2. bus' = Append(bus, drawn[a]) BY DEF Send
<1>3. bus' \in Seq(Envelopes) /\ Len(bus') = Len(bus) + 1 /\ Len(bus) \in Nat
  BY <1>1, <1>2, AppendProperties, LenProperties DEF BusOK
<1>4. drawn' \in [Actors -> Envelopes \cup {NoEnv}] BY DEF BusOK, Send
<1>5. UNCHANGED <<menu, seq, pos, up>> BY DEF Send
<1> QED BY <1>1, <1>2, <1>3, <1>4, <1>5 DEF BusOK

LEMMA BusStep == ASSUME BusOK, ConnOK, [Next]_vars PROVE BusOK'
<1> USE ActorFacts, MenuFacts DEF BusOK
<1>a. Len(bus) \in Nat BY LenProperties
<1>b. UNCHANGED vars \/ (menu' = menu /\ Next) BY DEF Next
<1>0. CASE UNCHANGED vars BY <1>0, BusFrame DEF vars, busVars
<1> SUFFICES ASSUME menu' = menu, Next PROVE BusOK' BY <1>0, <1>b
<1>1. ASSUME NEW p \in menu.producers, Draw(p) PROVE BusOK' BY <1>1, NextSeqType DEF Draw
<1>2. ASSUME NEW p \in menu.producers, Send(p) PROVE BusOK' BY <1>2, SendType
<1>3. CASE PersistNext
  <2>1. pos[Persister] \in 1 .. Len(bus) BY <1>3, ReceivesType DEF PersistNext
  <2> QED BY <1>3, <1>a, <2>1 DEF PersistNext, busVars
<1>4. CASE PersistGap
  <2>1. Behind(Persister).n \in Nat /\ Behind(Persister).to \in 1 .. Len(bus) + 1
    BY <1>4, BehindType DEF PersistGap
  <2>2. seq' \in Nat /\ drawn' \in [Actors -> Envelopes \cup {NoEnv}] BY <1>4, <2>1, NextSeqType DEF PersistGap
  <2> QED BY <1>4, <1>a, <2>1, <2>2 DEF PersistGap
<1>5. CASE PersistSentinel BY <1>5 DEF PersistSentinel
<1>6. ASSUME NEW c \in Clients, Hello(c) PROVE BusOK' BY <1>6 DEF Hello
<1>7. ASSUME NEW c \in Clients, BadHello(c) PROVE BusOK' BY <1>7 DEF BadHello
<1>8. ASSUME NEW c \in Clients, Subscribe(c) PROVE BusOK' BY <1>8, <1>a DEF Subscribe, busVars
<1>9. ASSUME NEW c \in Clients, Bridge(c) PROVE BusOK'
  <2>0. UNCHANGED <<menu, busVars, up>> BY <1>9 DEF Bridge
  <2>1. CASE Receives(c) /\ pos' = [pos EXCEPT ![c] = @ + 1]
    <3>1. pos[c] \in 1 .. Len(bus) BY <2>1, ReceivesType
    <3> QED BY <2>0, <2>1, <3>1, <1>a DEF busVars
  <2>2. CASE Lagged(c) /\ pos' = [pos EXCEPT ![c] = Behind(c).to]
    <3>1. Behind(c).to \in 1 .. Len(bus) + 1 BY <2>2, BehindType
    <3> QED BY <2>0, <2>2, <3>1, <1>a DEF busVars
  <2> QED BY <1>9, <2>1, <2>2 DEF Bridge
<1>10. ASSUME NEW c \in Clients, Pump(c) PROVE BusOK' BY <1>10, BusFrame DEF Pump
<1>11. ASSUME NEW c \in Clients, DrawDirect(c) \/ Answer(c) PROVE BusOK'
  BY <1>11, NextSeqType DEF DrawDirect, Answer
<1>12. ASSUME NEW c \in Clients, SendDirect(c) PROVE BusOK' BY <1>12 DEF SendDirect
<1>13. ASSUME NEW c \in Clients, AnswerSent(c) PROVE BusOK' BY <1>13, SendType DEF AnswerSent
<1>14. ASSUME NEW c \in Clients, Hangup(c) PROVE BusOK' BY <1>14, <1>a DEF Hangup, None
<1>15. CASE Crash BY <1>15 DEF Crash
<1>16. CASE WebStep BY <1>16, BusFrame DEF WebStep, Fan, PumpEnds
<1>17. ASSUME NEW b \in Browsers, Open(b) \/ Event(b) \/ StreamEnds(b) PROVE BusOK'
  BY <1>17, BusFrame DEF Open, Event, StreamEnds
<1>18. ASSUME NEW b \in Browsers, Connect(b) PROVE BusOK' BY <1>18 DEF Connect, DialWeb
<1> QED BY <1>1, <1>2, <1>3, <1>4, <1>5, <1>6, <1>7, <1>8, <1>9, <1>10, <1>11, <1>12, <1>13, <1>14, <1>15,
           <1>16, <1>17, <1>18 DEF Next, PersistStep

\* What a write adds to the file: a piece, on a line of its own or joined to the last one.
PieceOf(e, torn) == [e EXCEPT !.k = IF torn THEN "torn" ELSE @]
AddPiece(ls, end, x) == IF end THEN Append(ls, <<x>>) ELSE [ls EXCEPT ![Len(ls)] = Append(@, x)]

LEMMA PieceFacts ==
    ASSUME NEW e \in Envelopes, NEW torn \in BOOLEAN
    PROVE  /\ PieceOf(e, torn) \in Envelopes /\ PieceOf(e, FALSE) = e
           /\ PieceOf(e, torn).k = (IF torn THEN "torn" ELSE e.k)
BY DEF PieceOf, Envelopes

LEMMA PersistCases ==
    ASSUME LogOK, NEW e \in Envelopes, Persist(e)
    PROVE  \/ UNCHANGED <<log, ended>> /\ faults < menu.faults /\ faults' = faults + 1
           \/ \E torn \in BOOLEAN :
                /\ log' = AddPiece(log, ended, PieceOf(e, torn))
                /\ \/ ended' = TRUE /\ faults' = faults /\ torn = FALSE
                   \/ ended' = FALSE /\ faults < menu.faults /\ faults' = faults + 1
BY DEF Persist, Written, AddPiece, PieceOf

Files(ls, ms) == /\ ms \in Seq(Seq(Envelopes)) /\ Len(ls) \in Nat /\ DOMAIN ls = 1 .. Len(ls)
                 /\ DOMAIN ms = 1 .. Len(ms) /\ Len(ms) \in Nat \ {0}
NewLine(ls, x, ms) == /\ Files(ls, ms) /\ Len(ms) = Len(ls) + 1
                      /\ (\A i \in 1 .. Len(ls) : ms[i] = ls[i]) /\ ms[Len(ls) + 1] = <<x>>
Joined(ls, x, ms) == /\ Files(ls, ms) /\ Len(ls) > 0 /\ Len(ms) = Len(ls)
                     /\ (\A i \in 1 .. Len(ls) - 1 : ms[i] = ls[i])
                     /\ ls[Len(ls)] \in Seq(Envelopes) /\ ms[Len(ls)] = Append(ls[Len(ls)], x)
Added(ls, end, x, ms) == (end /\ NewLine(ls, x, ms)) \/ (~ end /\ Joined(ls, x, ms))

LEMMA AddPieceFacts ==
    ASSUME NEW ls \in Seq(Seq(Envelopes)), NEW end \in BOOLEAN, ~ end => ls # <<>>, NEW x \in Envelopes
    PROVE  Added(ls, end, x, AddPiece(ls, end, x))
<1> DEFINE ms == AddPiece(ls, end, x)
           n == Len(ls)
<1>1. n \in Nat /\ DOMAIN ls = 1 .. n BY LenProperties
<1>2. <<x>> \in Seq(Envelopes) OBVIOUS
<1>3. CASE end
  <2>1. ms = Append(ls, <<x>>) BY <1>3 DEF AddPiece
  <2> HIDE DEF ms
  <2>2. ms \in Seq(Seq(Envelopes)) /\ Len(ms) = n + 1 /\ (\A i \in 1 .. n : ms[i] = ls[i]) /\ ms[n + 1] = <<x>>
    BY <2>1, <1>1, <1>2, AppendProperties
  <2>3. DOMAIN ms = 1 .. Len(ms) BY <2>2, LenProperties
  <2>4. NewLine(ls, x, ms) BY <2>2, <2>3, <1>1 DEF NewLine, Files
  <2> QED BY <2>4, <1>3 DEF Added, ms
<1>4. CASE ~ end
  <2>1. n > 0 BY <1>1, <1>4, EmptySeq
  <2>2. ls[n] \in Seq(Envelopes) BY <2>1, <1>1, ElementOfSeq
  <2>3. Append(ls[n], x) \in Seq(Envelopes) BY <2>2, AppendProperties
  <2>4. ms = [ls EXCEPT ![n] = Append(ls[n], x)] BY <1>4 DEF AddPiece
  <2> HIDE DEF ms
  <2>5. ms \in Seq(Seq(Envelopes)) /\ Len(ms) = n BY <2>4, <2>3, <2>1, <1>1, ExceptSeq
  <2>6. DOMAIN ms = 1 .. Len(ms) BY <2>5, LenProperties
  <2>7. (\A i \in 1 .. n - 1 : ms[i] = ls[i]) /\ ms[n] = Append(ls[n], x)
    <3> HIDE DEF n
    <3> QED BY <2>4, <1>1, <2>1
  <2>8. Joined(ls, x, ms) BY <2>1, <2>2, <2>5, <2>6, <2>7, <1>1 DEF Joined, Files
  <2> QED BY <2>8, <1>4 DEF Added, ms
<1> QED BY <1>3, <1>4

\* A write leaves a file as AddPiece does.
LEMMA LogAdds ==
    ASSUME LogOK, NEW e \in Envelopes, NEW torn \in BOOLEAN, NEW ls, ls = AddPiece(log, ended, PieceOf(e, torn))
    PROVE  Added(log, ended, PieceOf(e, torn), ls)
<1>1. log \in Seq(Seq(Envelopes)) /\ ended \in BOOLEAN /\ (~ ended => log # <<>>) BY DEF LogOK
<1>2. PieceOf(e, torn) \in Envelopes BY PieceFacts
<1> QED BY <1>1, <1>2, AddPieceFacts

LEMMA LogPersist == ASSUME LogOK, BusOK, menu' = menu, NEW e \in Envelopes, Persist(e) PROVE LogOK'
<1>0. menu.faults \in Nat /\ faults \in 0 .. menu.faults BY MenuFacts DEF BusOK, LogOK
<1>2. CASE UNCHANGED <<log, ended>> /\ faults < menu.faults /\ faults' = faults + 1
  BY <1>2, <1>0 DEF LogOK
<1>3. ASSUME NEW torn \in BOOLEAN, log' = AddPiece(log, ended, PieceOf(e, torn)),
             \/ ended' = TRUE /\ faults' = faults /\ torn = FALSE
             \/ ended' = FALSE /\ faults < menu.faults /\ faults' = faults + 1
      PROVE  LogOK'
  <2> DEFINE x == PieceOf(e, torn)
             ls == log'
  <2>1. x \in Envelopes BY PieceFacts
  <2>2. Added(log, ended, x, ls) BY <1>3, LogAdds
  <2>5. ended' \in BOOLEAN BY <1>3
  <2>6. faults' \in 0 .. menu.faults BY <1>3, <1>0
  <2>7. \A i \in DOMAIN log : log[i] # <<>> BY DEF LogOK
  <2> HIDE DEF x, ls
  <2>3. \A i \in DOMAIN ls : ls[i] # <<>>
    <3>1. CASE NewLine(log, x, ls)
      <4> DEFINE y == <<x>>
      <4>1. y # <<>> OBVIOUS
      <4>2. ls[Len(log) + 1] = y BY <3>1 DEF NewLine
      <4> HIDE DEF y
      <4>3. ASSUME NEW i \in DOMAIN ls PROVE (i \in DOMAIN log /\ ls[i] = log[i]) \/ i = Len(log) + 1
        BY <3>1 DEF NewLine, Files
      <4> QED BY <4>1, <4>2, <4>3, <2>7
    <3>2. CASE Joined(log, x, ls)
      <4>1. log[Len(log)] \in Seq(Envelopes) BY <3>2 DEF Joined
      <4>2. Append(log[Len(log)], x) # <<>> BY <4>1, <2>1, AppendProperties
      <4> QED BY <4>2, <3>2, <2>7 DEF Joined, Files
    <3> QED BY <3>1, <3>2, <2>2 DEF Added
  <2>4. ls # <<>> /\ ls \in Seq(Seq(Envelopes))
    <3>1. Len(ls) # 0 /\ ls \in Seq(Seq(Envelopes)) BY <2>2 DEF Added, NewLine, Joined, Files
    <3> QED BY <3>1, EmptySeq
  <2> QED BY <2>3, <2>4, <2>5, <2>6 DEF LogOK, ls
<1> QED BY <1>2, <1>3, PersistCases

\* Which steps write to the file.
Messages_(e) == e \in Envelopes /\ e.k = "direct" /\ e.n = 0 /\ Persist(e)

LEMMA LogSteps ==
    ASSUME BusOK, NumInv, Next
    PROVE  \/ UNCHANGED logVars \/ PersistNext \/ PersistSentinel
           \/ /\ \E e : Messages_(e)
              /\ UNCHANGED <<bus, pos, up>> /\ drawn'[Persister] = drawn[Persister]
<1> DEFINE Goal == \/ UNCHANGED logVars \/ PersistNext \/ PersistSentinel
                   \/ /\ \E e : Messages_(e)
                      /\ UNCHANGED <<bus, pos, up>> /\ drawn'[Persister] = drawn[Persister]
<1>1. ASSUME NEW p \in menu.producers, Draw(p) \/ Send(p) PROVE Goal BY <1>1 DEF Draw, Send
<1>2. CASE PersistStep BY <1>2 DEF PersistStep, PersistGap
<1>3. ASSUME NEW c \in Clients, Hello(c) PROVE Goal
  <2>1. [k |-> "direct", s |-> seq + 2, n |-> 0] \in Envelopes BY EnvFacts DEF BusOK
  <2> QED BY <1>3, <2>1 DEF Hello, Messages_
<1>4. ASSUME NEW c \in Clients, BadHello(c) PROVE Goal
  <2>1. [k |-> "direct", s |-> seq + 1, n |-> 0] \in Envelopes BY EnvFacts DEF BusOK
  <2> QED BY <1>4, <2>1 DEF BadHello, Messages_
<1>5. ASSUME NEW c \in Clients, drawn[c].k = "direct", SendDirect(c) PROVE Goal
  <2>1. drawn[c] \in Envelopes /\ drawn[c].n = 0 BY <1>5, ActorFacts DEF SendDirect, BusOK, NumInv
  <2>2. drawn'[Persister] = drawn[Persister] BY <1>5, ActorFacts DEF SendDirect, BusOK
  <2> QED BY <1>5, <2>1, <2>2 DEF SendDirect, Messages_
<1>6. ASSUME NEW c \in Clients, \/ Subscribe(c) \/ Bridge(c) \/ Pump(c) \/ DrawDirect(c) \/ Answer(c)
                                \/ AnswerSent(c) \/ Hangup(c)
      PROVE Goal
  BY <1>6 DEF Subscribe, Bridge, Pump, DrawDirect, Answer, AnswerSent, Send, Hangup
<1>7. CASE Crash BY <1>7 DEF Crash
<1>8. CASE WebStep BY <1>8 DEF WebStep, Fan, PumpEnds
<1>9. ASSUME NEW b \in Browsers, Open(b) \/ Connect(b) \/ Event(b) \/ StreamEnds(b) PROVE Goal
  BY <1>9 DEF Open, Connect, Event, StreamEnds
<1> QED BY <1>1, <1>2, <1>3, <1>4, <1>5, <1>6, <1>7, <1>8, <1>9 DEF Next

LEMMA LogFrame == ASSUME LogOK, UNCHANGED <<menu, logVars>> PROVE LogOK'
BY DEF LogOK, logVars

LEMMA LogOKStep == ASSUME LogOK, BusOK, NumInv, [Next]_vars PROVE LogOK'
<1>0. CASE UNCHANGED vars BY <1>0, LogFrame DEF vars
<1> SUFFICES ASSUME Next PROVE LogOK' BY <1>0
<1>a. menu' = menu BY DEF Next
<1>1. CASE UNCHANGED logVars BY <1>1, <1>a, LogFrame
<1>2. CASE PersistNext
  <2>1. bus[pos[Persister]] \in Envelopes BY <1>2, ReceivesType DEF PersistNext
  <2> QED BY <1>2, <1>a, <2>1, LogPersist DEF PersistNext
<1>3. CASE PersistSentinel
  <2>1. drawn[Persister] \in Envelopes BY <1>3, ActorFacts DEF PersistSentinel, BusOK
  <2> QED BY <1>3, <1>a, <2>1, LogPersist DEF PersistSentinel
<1>4. ASSUME NEW e, Messages_(e) PROVE LogOK' BY <1>4, <1>a, LogPersist DEF Messages_
<1> QED BY <1>1, <1>2, <1>3, <1>4, LogSteps

QueueOK(q) == q \in [Clients -> Seq(Envelopes)] /\ \A c \in Clients : Len(q[c]) <= QueueCap

LEMMA OfferType ==
    ASSUME QueueOK(queue), NEW c \in Clients, NEW e \in Envelopes, NEW q,
           q = [queue EXCEPT ![c] = IF Len(@) < QueueCap THEN Append(@, e) ELSE @]
    PROVE  QueueOK(q)
<1>1. queue[c] \in Seq(Envelopes) /\ Len(queue[c]) \in Nat /\ Len(queue[c]) <= QueueCap
  BY LenProperties DEF QueueOK
<1> DEFINE a == Append(queue[c], e)
<1>2. a \in Seq(Envelopes) /\ Len(a) = Len(queue[c]) + 1 BY <1>1, AppendProperties
<1> HIDE DEF a
<1>3. q = [queue EXCEPT ![c] = IF Len(queue[c]) < QueueCap THEN a ELSE queue[c]] BY DEF a
<1>4. q \in [Clients -> Seq(Envelopes)] BY <1>1, <1>2, <1>3 DEF QueueOK
<1>5. ASSUME NEW d \in Clients PROVE Len(q[d]) <= QueueCap
  <2>1. CASE d # c BY <2>1, <1>3 DEF QueueOK
  <2>2. CASE d = c BY <2>2, <1>1, <1>2, <1>3, CapFacts DEF QueueOK
  <2> QED BY <2>1, <2>2
<1> QED BY <1>4, <1>5 DEF QueueOK

LEMMA EmptyQueue ==
    ASSUME QueueOK(queue), NEW c \in Clients, NEW q, q = [queue EXCEPT ![c] = <<>>] \/ q = [d \in Clients |-> <<>>]
    PROVE  QueueOK(q)
<1>1. <<>> \in Seq(Envelopes) /\ Len(<<>>) = 0 BY EmptySeq
<1> DEFINE z == <<>>
<1>2. z \in Seq(Envelopes) /\ Len(z) <= QueueCap BY <1>1, CapFacts
<1> HIDE DEF z
<1>3. q = [queue EXCEPT ![c] = z] \/ q = [d \in Clients |-> z] BY DEF z
<1> QED BY <1>2, <1>3 DEF QueueOK

LEMMA ConnFrame == ASSUME ConnOK, UNCHANGED <<menu, connVars>> PROVE ConnOK'
BY DEF ConnOK, connVars

LEMMA ConnStep == ASSUME ConnOK, BusOK, NumInv, [Next]_vars PROVE ConnOK'
<1> USE ActorFacts
<1>0. CASE UNCHANGED vars BY <1>0, ConnFrame DEF vars
<1> SUFFICES ASSUME Next PROVE ConnOK' BY <1>0
<1>a. menu' = menu /\ menu.dials \in Nat /\ menu.writers \subseteq Clients /\ QueueOK(queue)
  BY MenuFacts DEF Next, BusOK, ConnOK, QueueOK
<1>1. ASSUME NEW p \in menu.producers, Draw(p) \/ Send(p) PROVE ConnOK'
  BY <1>1, <1>a, ConnFrame DEF Draw, Send
<1>2. CASE PersistStep BY <1>2, <1>a, ConnFrame DEF PersistStep, PersistNext, PersistGap, PersistSentinel
<1>3. ASSUME NEW c \in Clients, Hello(c) PROVE ConnOK'
  <2>1. conn' \in [Clients -> {"off", "hello", "live"}] BY <1>3 DEF Hello, ConnOK
  <2>2. dials' \in [Clients -> 0 .. menu.dials] BY <1>3, <1>a DEF Hello, Dial, ConnOK
  <2>3. wire' = wire /\ slot' \in menu.writers \cup {None} BY <1>3 DEF Hello, ConnOK
  <2>4. QueueOK(queue')
    <3>1. CASE c \in menu.writers /\ slot # None
      <4> DEFINE e == [k |-> "direct", s |-> seq + 2, n |-> 0]
      <4>1. e \in Envelopes BY EnvFacts DEF BusOK
      <4>2. slot \in Clients BY <3>1, <1>a DEF ConnOK
      <4>3. queue' = [queue EXCEPT ![slot] = IF Len(@) < QueueCap THEN Append(@, e) ELSE @]
        BY <1>3, <3>1 DEF Hello
      <4> QED BY <4>1, <4>2, <4>3, <1>a, OfferType
    <3>2. CASE ~(c \in menu.writers /\ slot # None)
      <4>1. queue' = queue BY <1>3, <3>2 DEF Hello
      <4> QED BY <4>1, <1>a
    <3> QED BY <3>1, <3>2
  <2> QED BY <2>1, <2>2, <2>3, <2>4, <1>a DEF ConnOK, QueueOK
<1>4. ASSUME NEW c \in Clients, BadHello(c) PROVE ConnOK'
  <2> DEFINE e == [k |-> "direct", s |-> seq + 1, n |-> 0]
  <2>1. e \in Envelopes BY EnvFacts DEF BusOK
  <2>2. wire' = [wire EXCEPT ![c] = Append(@, e)] BY <1>4 DEF BadHello
  <2>3. Append(wire[c], e) \in Seq(Envelopes) BY <2>1, AppendProperties DEF ConnOK
  <2>4. wire' \in [Clients -> Seq(Envelopes)] BY <2>2, <2>3 DEF ConnOK
  <2> QED BY <1>4, <1>a, <2>4 DEF BadHello, ConnOK
<1>5. ASSUME NEW c \in Clients, Subscribe(c) PROVE ConnOK' BY <1>5, <1>a DEF Subscribe, ConnOK
<1>6. ASSUME NEW c \in Clients, Bridge(c) PROVE ConnOK'
  <2>1. QueueOK(queue')
    <3>1. CASE Receives(c) /\ Offer(c, bus[pos[c]])
      <4>1. bus[pos[c]] \in Envelopes BY <3>1, ReceivesType
      <4> QED BY <4>1, <3>1, <1>a, OfferType DEF Offer
    <3>2. CASE queue' = queue BY <3>2, <1>a
    <3> QED BY <1>6, <3>1, <3>2 DEF Bridge
  <2> QED BY <1>6, <1>a, <2>1 DEF Bridge, ConnOK, QueueOK
<1>7. ASSUME NEW c \in Clients, Pump(c) PROVE ConnOK'
  <2>1. wire[c] \o queue[c] \in Seq(Envelopes) BY ConcatProperties DEF ConnOK
  <2>2. wire' \in [Clients -> Seq(Envelopes)] BY <1>7, <2>1 DEF Pump, ConnOK
  <2>3. QueueOK(queue') BY <1>7, <1>a, EmptyQueue DEF Pump
  <2> QED BY <1>7, <1>a, <2>2, <2>3 DEF Pump, ConnOK, QueueOK
<1>8. ASSUME NEW c \in Clients, DrawDirect(c) \/ Answer(c) \/ AnswerSent(c) PROVE ConnOK'
  BY <1>8, <1>a, ConnFrame DEF DrawDirect, Answer, AnswerSent, Send
<1>9. ASSUME NEW c \in Clients, SendDirect(c) PROVE ConnOK'
  <2>1. drawn[c] \in Envelopes BY <1>9 DEF SendDirect, BusOK
  <2>2. Append(wire[c], drawn[c]) \in Seq(Envelopes) BY <2>1, AppendProperties DEF ConnOK
  <2>3. QueueOK(queue') /\ wire' \in [Clients -> Seq(Envelopes)]
    <3>1. CASE Offer(c, drawn[c]) /\ wire' = wire BY <3>1, <2>1, <1>a, OfferType DEF Offer, ConnOK
    <3>2. CASE wire' = [wire EXCEPT ![c] = Append(@, drawn[c])] /\ queue' = queue
      BY <3>2, <2>2, <1>a DEF ConnOK
    <3> QED BY <1>9, <3>1, <3>2 DEF SendDirect
  <2> QED BY <1>9, <1>a, <2>3 DEF SendDirect, ConnOK, QueueOK
<1>10. ASSUME NEW c \in Clients, Hangup(c) PROVE ConnOK'
  <2>1. QueueOK(queue') BY <1>10, <1>a, EmptyQueue DEF Hangup
  <2> QED BY <1>10, <1>a, <2>1 DEF Hangup, ConnOK, QueueOK
<1>11. CASE Crash
  <2>1. QueueOK(queue') BY <1>11, <1>a, EmptyQueue DEF Crash
  <2> QED BY <1>11, <1>a, <2>1 DEF Crash, ConnOK, QueueOK
<1>12. CASE WebStep BY <1>12, <1>a, ConnFrame DEF WebStep, Fan, PumpEnds
<1>13. ASSUME NEW b \in Browsers, Open(b) \/ Event(b) \/ StreamEnds(b) PROVE ConnOK'
  BY <1>13, <1>a, ConnFrame DEF Open, Event, StreamEnds
<1>14. ASSUME NEW b \in Browsers, Connect(b) PROVE ConnOK' BY <1>14, <1>a DEF Connect, DialWeb, ConnOK
<1> QED BY <1>1, <1>2, <1>3, <1>4, <1>5, <1>6, <1>7, <1>8, <1>9, <1>10, <1>11, <1>12, <1>13, <1>14 DEF Next

\* Sockets only grow.
WireGrows == \A c \in Clients : /\ Len(wire[c]) \in Nat /\ Len(wire'[c]) \in Nat /\ Len(wire[c]) <= Len(wire'[c])
                                /\ \A i \in 1 .. Len(wire[c]) : wire'[c][i] = wire[c][i]

LEMMA WireStep == ASSUME ConnOK, BusOK, NumInv, [Next]_vars PROVE WireGrows
<1> USE ActorFacts
<1>a. wire \in [Clients -> Seq(Envelopes)] /\ \A c \in Clients : Len(wire[c]) \in Nat
  BY LenProperties DEF ConnOK
<1>1. CASE UNCHANGED wire BY <1>1, <1>a DEF WireGrows
<1>2. ASSUME NEW c \in Clients, NEW e \in Envelopes, wire' = [wire EXCEPT ![c] = Append(@, e)] PROVE WireGrows
  <2>1. Len(Append(wire[c], e)) = Len(wire[c]) + 1 /\ \A i \in 1 .. Len(wire[c]) : Append(wire[c], e)[i] = wire[c][i]
    BY <1>a, AppendProperties
  <2> DEFINE w == Append(wire[c], e)
  <2>2. wire' = [wire EXCEPT ![c] = w] BY <1>2
  <2> HIDE DEF w
  <2> QED BY <1>a, <2>1, <2>2 DEF WireGrows, w
<1>3. ASSUME NEW c \in Clients, Pump(c) PROVE WireGrows
  <2> DEFINE w == wire[c] \o queue[c]
  <2>0. queue[c] \in Seq(Envelopes) /\ Len(queue[c]) \in Nat BY LenProperties DEF ConnOK
  <2>1. Len(w) = Len(wire[c]) + Len(queue[c]) /\ \A i \in 1 .. Len(wire[c]) : w[i] = wire[c][i]
    BY <1>a, <2>0, ConcatProperties
  <2>2. wire' = [wire EXCEPT ![c] = w] BY <1>3 DEF Pump
  <2> HIDE DEF w
  <2> QED BY <1>a, <2>0, <2>1, <2>2 DEF WireGrows
<1>4. ASSUME NEW c \in Clients, BadHello(c) PROVE WireGrows
  <2> DEFINE e == [k |-> "direct", s |-> seq + 1, n |-> 0]
  <2>1. e \in Envelopes BY EnvFacts DEF BusOK
  <2>2. wire' = [wire EXCEPT ![c] = Append(@, e)] BY <1>4 DEF BadHello
  <2> QED BY <2>1, <2>2, <1>2
<1>5. ASSUME NEW c \in Clients, SendDirect(c) PROVE WireGrows
  <2>1. drawn[c] \in Envelopes BY <1>5 DEF SendDirect, BusOK
  <2> QED BY <1>5, <2>1, <1>1, <1>2 DEF SendDirect
<1>6. UNCHANGED wire \/ \E c \in Clients : Pump(c) \/ BadHello(c) \/ SendDirect(c)
  <2>1. CASE UNCHANGED vars BY <2>1 DEF vars, connVars
  <2>2. CASE Next
    <3>1. ASSUME NEW c \in Clients, \/ Hello(c) \/ Subscribe(c) \/ Bridge(c) \/ DrawDirect(c) \/ Answer(c)
                                    \/ AnswerSent(c) \/ Hangup(c)
          PROVE  UNCHANGED wire
      BY <3>1 DEF Hello, Subscribe, Bridge, DrawDirect, Answer, AnswerSent, Send, Hangup, connVars
    <3>2. ASSUME NEW p \in menu.producers, Draw(p) \/ Send(p) PROVE UNCHANGED wire BY <3>2 DEF Draw, Send, connVars
    <3>3. CASE PersistStep \/ Crash \/ WebStep
      BY <3>3 DEF PersistStep, PersistNext, PersistGap, PersistSentinel, Crash, WebStep, Fan, PumpEnds, connVars
    <3>4. ASSUME NEW b \in Browsers, Open(b) \/ Connect(b) \/ Event(b) \/ StreamEnds(b) PROVE UNCHANGED wire
      BY <3>4 DEF Open, Connect, Event, StreamEnds, connVars
    <3> QED BY <2>2, <3>1, <3>2, <3>3, <3>4 DEF Next
  <2> QED BY <2>1, <2>2
<1> QED BY <1>1, <1>3, <1>4, <1>5, <1>6

\* Which steps are the web server's.
LEMMA WebSteps ==
    ASSUME Next
    PROVE  \/ UNCHANGED webVars
           \/ /\ WebStep \/ \E b \in Browsers : Open(b) \/ Connect(b) \/ Event(b) \/ StreamEnds(b)
              /\ UNCHANGED <<bus, wire, log, pos>>
<1>1. ASSUME NEW p \in menu.producers, Draw(p) \/ Send(p) PROVE UNCHANGED webVars BY <1>1 DEF Draw, Send
<1>2. CASE PersistStep BY <1>2 DEF PersistStep, PersistNext, PersistGap, PersistSentinel
<1>3. ASSUME NEW c \in Clients,
             \/ Hello(c) \/ BadHello(c) \/ Subscribe(c) \/ Bridge(c) \/ Pump(c) \/ DrawDirect(c)
             \/ SendDirect(c) \/ Answer(c) \/ AnswerSent(c) \/ Hangup(c)
      PROVE  UNCHANGED webVars
  BY <1>3 DEF Hello, BadHello, Subscribe, Bridge, Pump, DrawDirect, SendDirect, Answer, AnswerSent, Send, Hangup
<1>4. CASE Crash BY <1>4 DEF Crash
<1>5. CASE WebStep BY <1>5 DEF WebStep, Fan, PumpEnds, busVars, connVars, logVars
<1>6. ASSUME NEW b \in Browsers, Open(b) \/ Connect(b) \/ Event(b) \/ StreamEnds(b)
      PROVE  UNCHANGED <<bus, wire, log, pos>>
  BY <1>6 DEF Open, Connect, Event, StreamEnds, busVars, connVars, logVars
<1> QED BY <1>1, <1>2, <1>3, <1>4, <1>5, <1>6 DEF Next

Tabs(n) == [gen : 0 .. n, next : Nat, got : Seq(Envelopes)]
LEMMA TabType ==
    ASSUME NEW n \in Nat, NEW m \in Nat, n <= m, NEW t \in [Browsers -> Tabs(n)], NEW b \in Browsers,
           NEW r \in Tabs(m)
    PROVE  [t EXCEPT ![b] = r] \in [Browsers -> Tabs(m)] /\ t \in [Browsers -> Tabs(m)]
BY DEF Tabs

LEMMA RowType ==
    ASSUME NEW n \in Nat, NEW m \in Nat, NEW r \in Tabs(n), NEW g \in 0 .. m, NEW x \in Nat,
           NEW es \in Seq(Envelopes)
    PROVE  /\ r.gen \in 0 .. n /\ r.next \in Nat /\ r.got \in Seq(Envelopes)
           /\ [r EXCEPT !.gen = g] \in Tabs(m) /\ [r EXCEPT !.gen = g, !.next = x] \in Tabs(m)
           /\ [r EXCEPT !.next = x] \in Tabs(n) /\ [r EXCEPT !.next = x, !.got = es] \in Tabs(n)
BY DEF Tabs

LEMMA WebOKStep == ASSUME WebOK, ConnOK, BusOK, NumInv, [Next]_vars PROVE WebOK'
<1> USE ActorFacts DEF Tabs
<1>a. WireGrows BY WireStep
<1>b. ASSUME UNCHANGED webVars PROVE WebOK' BY <1>a, <1>b DEF WebOK, WireGrows, webVars
<1> SUFFICES ASSUME Next, WebStep \/ \E b \in Browsers : Open(b) \/ Connect(b) \/ Event(b) \/ StreamEnds(b),
                    UNCHANGED <<bus, wire, log, pos>>
             PROVE  WebOK'
  BY <1>b, WebSteps DEF vars
<1>c. /\ gens \in Nat /\ gen \in 0 .. gens /\ Len(chan) = gens /\ DOMAIN chan = 1 .. gens
      /\ chan \in Seq(Seq(Envelopes)) /\ \A g \in 1 .. gens : chan[g] \in Seq(Envelopes) /\ Len(chan[g]) \in Nat
      /\ tab \in [Browsers -> Tabs(gens)] /\ pumped \in 0 .. Len(wire[Web]) /\ wire[Web] \in Seq(Envelopes)
  BY LenProperties, ElementOfSeq DEF WebOK, ConnOK
<1>d. \A b \in Browsers : tab[b] \in Tabs(gens) /\ tab[b].gen \in 0 .. gens BY <1>c
<1>e. <<>> \in Seq(Envelopes) BY EmptySeq
<1>f. \A b \in Browsers : tab[b].next \in Nat /\ tab[b].got \in Seq(Envelopes) BY <1>c
<1> HIDE DEF Tabs
<1>1. CASE Fan
  <2>1. NextLine \in Envelopes BY <1>1, <1>c, ElementOfSeq, LenProperties DEF Fan, NextLine
  <2>2. gen \in 1 .. gens BY <1>1, <1>c DEF Fan, None
  <2>3. Append(chan[gen], NextLine) \in Seq(Envelopes) BY <2>1, <2>2, <1>c, AppendProperties
  <2>4. chan' = [chan EXCEPT ![gen] = Append(chan[gen], NextLine)] BY <1>1 DEF Fan
  <2>5. chan' \in Seq(Seq(Envelopes)) /\ Len(chan') = Len(chan) BY <2>2, <2>3, <2>4, <1>c, ExceptSeq
  <2>6. pumped' \in 0 .. Len(wire[Web]) BY <1>1, <1>c, LenProperties DEF Fan
  <2> QED BY <1>1, <2>5, <2>6 DEF Fan, WebOK
<1>2. CASE PumpEnds BY <1>2, <1>c DEF PumpEnds, WebOK, None
<1>3. ASSUME NEW b \in Browsers, Open(b) PROVE WebOK'
  <2>0. gen # 0 BY <1>3 DEF Open, None
  <2>1. gen \in 1 .. gens BY <2>0, <1>c
  <2>2. Len(chan[gen]) + 1 \in Nat BY <2>1, <1>c
  <2>3. [tab[b] EXCEPT !.gen = gen, !.next = Len(chan[gen]) + 1] \in Tabs(gens)
    BY <2>1, <2>2, <1>c, <1>d, <1>e, RowType
  <2>4. tab' = [tab EXCEPT ![b] = [tab[b] EXCEPT !.gen = gen, !.next = Len(chan[gen]) + 1]] BY <1>3 DEF Open
  <2>5. tab' \in [Browsers -> Tabs(gens)] BY <2>3, <2>4, <1>c
  <2> QED BY <1>3, <2>5 DEF Open, WebOK, Tabs
<1>4. ASSUME NEW b \in Browsers, Connect(b) PROVE WebOK'
  <2> DEFINE z == <<>>
  <2>1. z \in Seq(Envelopes) BY EmptySeq
  <2> HIDE DEF z
  <2>2. chan' = Append(chan, z) BY <1>4 DEF Connect, z
  <2>3. chan' \in Seq(Seq(Envelopes)) /\ Len(chan') = gens + 1 BY <2>1, <2>2, <1>c, AppendProperties
  <2>4. [tab[b] EXCEPT !.gen = gens + 1, !.next = 1] \in Tabs(gens + 1)
    <3>1. gens + 1 \in Nat /\ gens + 1 \in 0 .. gens + 1 /\ 1 \in Nat BY <1>c
    <3> QED BY <3>1, <1>c, <1>d, <1>e, RowType
  <2>5. tab' = [tab EXCEPT ![b] = [tab[b] EXCEPT !.gen = gens + 1, !.next = 1]] BY <1>4 DEF Connect
  <2>6. tab' \in [Browsers -> Tabs(gens + 1)] BY <2>4, <2>5, <1>c, TabType
  <2>9. gen' = gens + 1 /\ gens' = gens + 1 BY <1>4 DEF Connect
  <2>7. gen' \in 0 .. gens' /\ gens' \in Nat /\ gens' = gens + 1
    <3> HIDE <1>4
    <3> QED BY <2>9, <1>c
  <2>8. pumped' \in 0 .. Len(wire'[Web]) BY <1>4, <1>c DEF Connect
  <2> QED BY <2>3, <2>6, <2>7, <2>8 DEF WebOK, Tabs
<1>5. ASSUME NEW b \in Browsers, Event(b) PROVE WebOK'
  <2> DEFINE t == tab[b]
             c == chan[t.gen]
  <2>0. t.gen # 0 BY <1>5 DEF Event, None
  <2>1. t \in Tabs(gens) /\ t.gen \in 1 .. gens /\ t.next \in Nat /\ t.got \in Seq(Envelopes)
    BY <2>0, <1>c, <1>d, <1>f
  <2>2. c \in Seq(Envelopes) /\ Len(c) \in Nat BY <2>1, <1>c
  <2>3. Oldest(c, WebCap) \in 1 .. Len(c) + 1 BY <2>2, OldestFacts, CapFacts
  <2> HIDE DEF t, c
  <2>4. CASE /\ t.next \in Oldest(c, WebCap) .. Len(c)
             /\ tab' = [tab EXCEPT ![b] = [t EXCEPT !.next = t.next + 1, !.got = Append(t.got, c[t.next])]]
    <3>1. t.next \in 1 .. Len(c) BY <2>4, <2>1, <2>2, <2>3
    <3>2. c[t.next] \in Envelopes BY <3>1, <2>2, ElementOfSeq
    <3>3. Append(t.got, c[t.next]) \in Seq(Envelopes) BY <3>2, <2>1, AppendProperties
    <3>4. [t EXCEPT !.next = t.next + 1, !.got = Append(t.got, c[t.next])] \in Tabs(gens)
      <4>1. t.next + 1 \in Nat BY <2>1
      <4> DEFINE x == t.next + 1
                 es == Append(t.got, c[t.next])
      <4>2. x \in Nat /\ es \in Seq(Envelopes) BY <4>1, <3>3
      <4> HIDE DEF x, es
      <4>3. 0 \in 0 .. gens BY <1>c
      <4>4. [t EXCEPT !.next = x, !.got = es] \in Tabs(gens) BY <4>2, <4>3, <2>1, <1>c, RowType
      <4> QED BY <4>4 DEF x, es
    <3>5. tab' \in [Browsers -> Tabs(gens)] BY <3>4, <2>4, <1>c
    <3> QED BY <1>5, <3>5 DEF Event, WebOK, Tabs
  <2>5. CASE tab' = [tab EXCEPT ![b] = [t EXCEPT !.next = Oldest(c, WebCap)]]
    <3>0. Oldest(c, WebCap) \in Nat BY <2>2, <2>3
    <3>1. tab' \in [Browsers -> Tabs(gens)] BY <2>5, <2>1, <3>0, <1>c, <1>e, RowType
    <3> QED BY <1>5, <3>1 DEF Event, WebOK, Tabs
  <2> QED BY <1>5, <2>4, <2>5 DEF Event, t, c
<1>6. ASSUME NEW b \in Browsers, StreamEnds(b) PROVE WebOK'
  <2>1. [tab[b] EXCEPT !.gen = None] \in Tabs(gens)
    <3>1. None \in 0 .. gens BY <1>c DEF None
    <3> QED BY <3>1, <1>c, <1>d, <1>e, RowType
  <2>2. tab' \in [Browsers -> Tabs(gens)] BY <1>6, <2>1, <1>c DEF StreamEnds
  <2> QED BY <1>6, <2>2 DEF StreamEnds, WebOK, Tabs
<1> QED BY <1>1, <1>2, <1>3, <1>4, <1>5, <1>6 DEF WebStep

-----------------------------------------------------------------------------
(* Numbers. *)

\* Nobody has an envelope it did not have before.
LEMMA NumDrops ==
    ASSUME BusOK, BusOK', NumInv, bus' = bus, seq' >= seq,
           \A a \in Actors : drawn'[a] = drawn[a] \/ drawn'[a] = NoEnv
    PROVE  NumInv'
<1> USE ActorFacts
<1>0. seq \in Nat /\ seq' \in Nat /\ (\A i \in DOMAIN bus : bus[i].s \in Nat)
      /\ \A a \in Actors : drawn[a] # NoEnv => drawn[a].s \in Nat
  <2>1. \A i \in DOMAIN bus : bus[i] \in Envelopes BY ElementOfSeq, LenProperties DEF BusOK
  <2> QED BY <2>1, EnvFacts DEF BusOK
<1>1. Inj(bus') /\ \A i \in DOMAIN bus' : bus'[i].s <= seq' /\ bus'[i].k = "bus" BY <1>0 DEF NumInv
<1>2. ASSUME NEW a \in Actors, drawn'[a] # NoEnv
      PROVE  /\ drawn'[a].s <= seq' /\ \A i \in DOMAIN bus' : bus'[i].s # drawn'[a].s
             /\ \A b \in Actors \ {a} : drawn'[b] # NoEnv => drawn'[b].s # drawn'[a].s
  <2>1. drawn'[a] = drawn[a] /\ drawn[a] # NoEnv BY <1>2
  <2>2. drawn[a].s <= seq /\ \A i \in DOMAIN bus : bus[i].s # drawn[a].s BY <2>1 DEF NumInv
  <2>3. \A b \in Actors \ {a} : drawn[b] # NoEnv => drawn[b].s # drawn[a].s BY <2>1 DEF NumInv
  <2>4. drawn[a].s \in Nat BY <2>1, <1>0
  <2>5. drawn'[a].s <= seq' BY <2>1, <2>2, <2>4, <1>0
  <2> QED BY <2>1, <2>2, <2>3, <2>5
<1>3. /\ \A a \in Producers : drawn'[a] # NoEnv => drawn'[a].k = "bus" /\ drawn'[a].n = 0
      /\ \A a \in Clients : drawn'[a] # NoEnv => drawn'[a].k \in {"bus", "direct"} /\ drawn'[a].n = 0
      /\ drawn'[Persister] # NoEnv => drawn'[Persister].k = "gap"
  BY DEF NumInv
<1> QED BY <1>1, <1>2, <1>3 DEF NumInv

\* A new number.
LEMMA NumDraws ==
    ASSUME BusOK, NumInv, bus' = bus, NEW a \in Actors, NEW k \in {"bus", "direct", "gap"}, NEW n \in Nat,
           NextSeq(a, k, n), a \in Producers => k = "bus" /\ n = 0,
           a \in Clients => k \in {"bus", "direct"} /\ n = 0, a = Persister => k = "gap"
    PROVE  NumInv'
<1> USE ActorFacts
<1>0. seq \in Nat /\ seq' = seq + 1 /\ (\A i \in DOMAIN bus : bus[i].s \in Nat)
      /\ \A b \in Actors : drawn[b] # NoEnv => drawn[b].s \in Nat
  <2>1. \A i \in DOMAIN bus : bus[i] \in Envelopes BY ElementOfSeq, LenProperties DEF BusOK
  <2> QED BY <2>1, EnvFacts DEF BusOK, NextSeq
<1>1. Inj(bus') /\ \A i \in DOMAIN bus' : bus'[i].s <= seq' /\ bus'[i].k = "bus" BY <1>0 DEF NumInv
<1> DEFINE e == [k |-> k, s |-> seq + 1, n |-> n]
<1>2. e.k = k /\ e.s = seq + 1 /\ e.n = n OBVIOUS
<1>3. drawn' = [drawn EXCEPT ![a] = e] BY DEF NextSeq
<1> HIDE DEF e
<1>4. drawn'[a] = e /\ \A b \in Actors \ {a} : drawn'[b] = drawn[b] BY <1>3 DEF BusOK
<1>5. \A b \in Actors : drawn[b] # NoEnv => drawn[b].s <= seq BY DEF NumInv
<1>6. \A i \in DOMAIN bus : bus[i].s <= seq BY DEF NumInv
<1>7. ASSUME NEW b \in Actors, drawn'[b] # NoEnv
      PROVE  /\ drawn'[b].s <= seq' /\ \A i \in DOMAIN bus' : bus'[i].s # drawn'[b].s
             /\ \A d \in Actors \ {b} : drawn'[d] # NoEnv => drawn'[d].s # drawn'[b].s
  <2>1. CASE b = a BY <2>1, <1>0, <1>2, <1>4, <1>5, <1>6
  <2>2. CASE b # a
    <3>1. drawn'[b] = drawn[b] /\ drawn[b] # NoEnv BY <2>2, <1>4, <1>7
    <3>2. drawn[b].s \in Nat /\ drawn[b].s <= seq BY <3>1, <1>0, <1>5
    <3>3. \A i \in DOMAIN bus : bus[i].s # drawn[b].s BY <3>1 DEF NumInv
    <3>4. \A d \in Actors \ {b} : drawn[d] # NoEnv => drawn[d].s # drawn[b].s BY <3>1 DEF NumInv
    <3>5. drawn'[a].s # drawn'[b].s BY <3>1, <3>2, <1>0, <1>2, <1>4
    <3>6. \A d \in Actors \ {b} : drawn'[d] # NoEnv => drawn'[d].s # drawn'[b].s BY <3>1, <3>4, <3>5, <1>4
    <3> QED BY <3>1, <3>2, <3>3, <3>6, <1>0
  <2> QED BY <2>1, <2>2
<1>8. /\ \A b \in Producers : drawn'[b] # NoEnv => drawn'[b].k = "bus" /\ drawn'[b].n = 0
      /\ \A b \in Clients : drawn'[b] # NoEnv => drawn'[b].k \in {"bus", "direct"} /\ drawn'[b].n = 0
      /\ drawn'[Persister] # NoEnv => drawn'[Persister].k = "gap"
  BY <1>2, <1>4 DEF NumInv
<1> QED BY <1>1, <1>7, <1>8 DEF NumInv

LEMMA NumSend ==
    ASSUME BusOK, NumInv, NEW a \in Actors, Send(a), menu' = menu, drawn[a].k = "bus"
    PROVE  NumInv'
<1> USE ActorFacts
<1> DEFINE e == drawn[a]
           n == Len(bus)
<1>1. /\ e \in Envelopes /\ e # NoEnv /\ bus' = Append(bus, e) /\ BusOK' /\ n \in Nat BY SendType
<1>2. DOMAIN bus = 1 .. n /\ DOMAIN bus' = 1 .. n + 1 /\ bus'[n + 1] = e /\ \A i \in 1 .. n : bus'[i] = bus[i]
  BY <1>1, AppendProperties, LenProperties DEF BusOK
<1>3. seq' = seq /\ drawn'[a] = NoEnv /\ \A b \in Actors \ {a} : drawn'[b] = drawn[b] BY DEF Send, BusOK
<1>4. e.s <= seq /\ (\A i \in DOMAIN bus : bus[i].s # e.s)
      /\ \A b \in Actors \ {a} : drawn[b] # NoEnv => drawn[b].s # e.s
  BY <1>1 DEF NumInv
<1>5. \A i \in DOMAIN bus : bus[i].s <= seq /\ bus[i].k = "bus" BY DEF NumInv
<1>6. \A i, j \in DOMAIN bus : bus[i] = bus[j] => i = j BY DEF NumInv, Inj
<1>7. e.k = "bus" OBVIOUS
<1> HIDE DEF e, n
<1>8. Inj(bus') BY <1>1, <1>2, <1>4, <1>6 DEF Inj
<1>9. \A i \in DOMAIN bus' : bus'[i].s <= seq' /\ bus'[i].k = "bus" BY <1>1, <1>2, <1>3, <1>4, <1>5, <1>7
<1>10. ASSUME NEW b \in Actors, drawn'[b] # NoEnv
       PROVE  /\ drawn'[b].s <= seq' /\ \A i \in DOMAIN bus' : bus'[i].s # drawn'[b].s
              /\ \A d \in Actors \ {b} : drawn'[d] # NoEnv => drawn'[d].s # drawn'[b].s
  <2>1. b # a /\ drawn'[b] = drawn[b] /\ drawn[b] # NoEnv BY <1>3, <1>10
  <2>2. drawn[b].s <= seq /\ \A i \in DOMAIN bus : bus[i].s # drawn[b].s BY <2>1 DEF NumInv
  <2>3. \A d \in Actors \ {b} : drawn[d] # NoEnv => drawn[d].s # drawn[b].s BY <2>1 DEF NumInv
  <2>4. \A i \in DOMAIN bus' : bus'[i].s # drawn'[b].s BY <1>1, <1>2, <1>4, <2>1, <2>2
  <2>5. \A d \in Actors \ {b} : drawn'[d] # NoEnv => drawn'[d].s # drawn'[b].s BY <2>1, <2>3, <1>3
  <2> QED BY <2>1, <2>2, <2>4, <2>5, <1>3
<1>11. /\ \A b \in Producers : drawn'[b] # NoEnv => drawn'[b].k = "bus" /\ drawn'[b].n = 0
       /\ \A b \in Clients : drawn'[b] # NoEnv => drawn'[b].k \in {"bus", "direct"} /\ drawn'[b].n = 0
       /\ drawn'[Persister] # NoEnv => drawn'[Persister].k = "gap"
  BY <1>3 DEF NumInv
<1> QED BY <1>8, <1>9, <1>10, <1>11 DEF NumInv

\* The bus stays, or an actor's event is sent.
LEMMA BusMoves ==
    ASSUME BusOK, NumInv, Next
    PROVE  bus' = bus \/ \E a \in Actors : Send(a) /\ drawn[a].k = "bus"
<1> USE ActorFacts, MenuFacts
<1>1. ASSUME NEW p \in menu.producers, Draw(p) \/ Send(p) PROVE bus' = bus \/ (Send(p) /\ drawn[p].k = "bus")
  BY <1>1 DEF Draw, Send, NumInv, BusOK
<1>2. CASE PersistStep BY <1>2 DEF PersistStep, PersistNext, PersistGap, PersistSentinel, busVars
<1>3. ASSUME NEW c \in Clients,
             \/ Hello(c) \/ BadHello(c) \/ Subscribe(c) \/ Bridge(c) \/ Pump(c) \/ DrawDirect(c)
             \/ SendDirect(c) \/ Answer(c) \/ Hangup(c)
      PROVE  bus' = bus
  BY <1>3 DEF Hello, BadHello, Subscribe, Bridge, Pump, DrawDirect, SendDirect, Answer, Hangup, busVars
<1>4. ASSUME NEW c \in Clients, AnswerSent(c) PROVE Send(c) /\ drawn[c].k = "bus" BY <1>4 DEF AnswerSent
<1>5. CASE Crash \/ WebStep BY <1>5 DEF Crash, WebStep, Fan, PumpEnds, busVars
<1>6. ASSUME NEW b \in Browsers, Open(b) \/ Connect(b) \/ Event(b) \/ StreamEnds(b) PROVE bus' = bus
  BY <1>6 DEF Open, Connect, Event, StreamEnds, busVars
<1>7. menu.producers \subseteq Actors BY DEF BusOK
<1> QED BY <1>1, <1>2, <1>3, <1>4, <1>5, <1>6, <1>7 DEF Next

LEMMA NumStep == ASSUME BusOK, BusOK', ConnOK, NumInv, [Next]_vars PROVE NumInv'
<1> USE ActorFacts, MenuFacts
<1>z. seq \in Nat BY DEF BusOK
<1>f. ASSUME UNCHANGED busVars PROVE NumInv' BY <1>f, <1>z, NumDrops DEF busVars
<1>0. CASE UNCHANGED vars BY <1>0, <1>f DEF vars
<1> SUFFICES ASSUME Next PROVE NumInv' BY <1>0
<1>a. menu' = menu /\ menu.producers \subseteq Producers BY DEF Next, BusOK
<1>1. ASSUME NEW p \in menu.producers, Draw(p) PROVE NumInv'
  <2>1. NextSeq(p, "bus", 0) /\ bus' = bus BY <1>1 DEF Draw
  <2> QED BY <2>1, <1>a, NumDraws
<1>2. ASSUME NEW p \in menu.producers, Send(p) PROVE NumInv'
  <2>1. drawn[p].k = "bus" BY <1>2, <1>a DEF Send, NumInv
  <2> QED BY <1>2, <1>a, <2>1, NumSend
<1>3. CASE PersistNext BY <1>3, <1>f DEF PersistNext
<1>4. CASE PersistGap
  <2> DEFINE n == Behind(Persister).n
  <2>1. n \in Nat BY <1>4, BehindType DEF PersistGap
  <2>2. NextSeq(Persister, "gap", n) /\ bus' = bus BY <1>4 DEF PersistGap
  <2> HIDE DEF n
  <2> QED BY <2>1, <2>2, NumDraws
<1>d. ASSUME NEW a \in Actors, drawn' = [drawn EXCEPT ![a] = NoEnv], UNCHANGED <<seq, bus>> PROVE NumInv'
  <2>1. \A b \in Actors : drawn'[b] = drawn[b] \/ drawn'[b] = NoEnv BY <1>d DEF BusOK
  <2> QED BY <2>1, <1>d, <1>z, NumDrops
<1>5. CASE PersistSentinel BY <1>5, <1>d DEF PersistSentinel
<1>e. ASSUME UNCHANGED <<drawn, bus>>, seq' \in {seq + 1, seq + 2} PROVE NumInv' BY <1>e, <1>z, NumDrops
<1>6. ASSUME NEW c \in Clients, Hello(c) \/ BadHello(c) PROVE NumInv' BY <1>6, <1>e DEF Hello, BadHello
<1>7. ASSUME NEW c \in Clients, Subscribe(c) \/ Bridge(c) \/ Pump(c) PROVE NumInv'
  BY <1>7, <1>f DEF Subscribe, Bridge, Pump
<1>8. ASSUME NEW c \in Clients, DrawDirect(c) PROVE NumInv'
  <2>1. NextSeq(c, "direct", 0) /\ bus' = bus BY <1>8 DEF DrawDirect
  <2> QED BY <2>1, NumDraws
<1>9. ASSUME NEW c \in Clients, Answer(c) PROVE NumInv'
  <2>1. NextSeq(c, "bus", 0) /\ bus' = bus BY <1>9 DEF Answer
  <2> QED BY <2>1, NumDraws
<1>10. ASSUME NEW c \in Clients, SendDirect(c) \/ Hangup(c) PROVE NumInv' BY <1>10, <1>d DEF SendDirect, Hangup
<1>11. ASSUME NEW c \in Clients, AnswerSent(c) PROVE NumInv' BY <1>11, <1>a, NumSend DEF AnswerSent
<1>12. CASE Crash
  <2>1. \A b \in Actors : drawn'[b] = NoEnv BY <1>12 DEF Crash
  <2> QED BY <2>1, <1>12, <1>z, NumDrops DEF Crash
<1>13. CASE WebStep BY <1>13, <1>f DEF WebStep, Fan, PumpEnds
<1>14. ASSUME NEW b \in Browsers, Open(b) \/ Event(b) \/ StreamEnds(b) PROVE NumInv'
  BY <1>14, <1>f DEF Open, Event, StreamEnds
<1>15. ASSUME NEW b \in Browsers, Connect(b) PROVE NumInv' BY <1>15, <1>e DEF Connect, DialWeb
<1> QED BY <1>1, <1>2, <1>3, <1>4, <1>5, <1>6, <1>7, <1>8, <1>9, <1>10, <1>11, <1>12, <1>13, <1>14, <1>15
        DEF Next, PersistStep

-----------------------------------------------------------------------------
(* One client: what is queued for it, what it was sent, its place on the bus. *)

ClientOK(b, q, w, p) == /\ Good(b, q) /\ Good(b, w) /\ AllBefore(b, w, q)
                        /\ p # None => Under(b, q, p) /\ Under(b, w, p)

LEMMA ClientIs ==
    ASSUME NEW c
    PROVE  ClientInv(c) <=> ClientOK(bus, queue[c], wire[c], pos[c]) /\ (conn[c] = "live" => pos[c] # None)
BY DEF ClientInv, ClientOK

LEMMA PlaceNat == ASSUME NEW b, NEW es, OnBus(b, es), NEW i \in DOMAIN es, es[i].k = "bus", Len(b) \in Nat
                  PROVE  PlaceOn(b, es[i]) \in Nat /\ PlaceOn(b, es[i]) <= Len(b)
BY DEF OnBus

LEMMA UnderFurther ==
    ASSUME NEW b, NEW es, OnBus(b, es), Len(b) \in Nat, NEW p \in Nat, NEW q \in Nat, p <= q, Under(b, es, p)
    PROVE  Under(b, es, q)
<1> SUFFICES ASSUME NEW i \in DOMAIN es, es[i].k = "bus" PROVE PlaceOn(b, es[i]) < q BY DEF Under
<1>1. PlaceOn(b, es[i]) \in Nat BY PlaceNat
<1>2. PlaceOn(b, es[i]) < p BY DEF Under
<1> QED BY <1>1, <1>2

LEMMA UnderEnd ==
    ASSUME NEW b, NEW es, OnBus(b, es), Len(b) \in Nat
    PROVE  Under(b, es, Len(b) + 1)
<1> SUFFICES ASSUME NEW i \in DOMAIN es, es[i].k = "bus" PROVE PlaceOn(b, es[i]) < Len(b) + 1 BY DEF Under
<1>1. PlaceOn(b, es[i]) \in Nat /\ PlaceOn(b, es[i]) <= Len(b) BY PlaceNat
<1> QED BY <1>1

LEMMA ClientSend ==
    ASSUME NEW b \in Seq(Envelopes), NEW x \in Envelopes, Inj(Append(b, x)), NEW q, NEW w, NEW p, ClientOK(b, q, w, p)
    PROVE  ClientOK(Append(b, x), q, w, p)
<1>1. OnBus(b, q) /\ OnBus(b, w) BY DEF ClientOK, Good
<1>2. Good(Append(b, x), q) /\ Good(Append(b, x), w) BY GoodStays DEF ClientOK
<1>3. AllBefore(Append(b, x), w, q) BY <1>1, BeforeStays DEF ClientOK
<1>4. p # None => Under(Append(b, x), q, p) /\ Under(Append(b, x), w, p) BY <1>1, UnderStays DEF ClientOK
<1> QED BY <1>2, <1>3, <1>4 DEF ClientOK

\* A message that is not an event, queued or written.
LEMMA ClientMessage ==
    ASSUME NEW b, NEW q \in Seq(Envelopes), NEW w \in Seq(Envelopes), NEW p, ClientOK(b, q, w, p),
           NEW e \in Envelopes, e.k # "bus"
    PROVE  ClientOK(b, Append(q, e), w, p) /\ ClientOK(b, q, Append(w, e), p)
<1>1. Good(b, q) /\ Good(b, w) /\ AllBefore(b, w, q) /\ (p # None => Under(b, q, p) /\ Under(b, w, p)) BY DEF ClientOK
<1>2. Good(b, Append(q, e)) /\ Good(b, Append(w, e)) BY <1>1, GoodAppend DEF Fits
<1>3. AllBefore(b, w, Append(q, e)) BY <1>1, BeforeAppendRight
<1>4. AllBefore(b, Append(w, e), q) BY <1>1, BeforeAppendLeft
<1>5. p # None => Under(b, Append(q, e), p) /\ Under(b, Append(w, e), p) BY <1>1, UnderAppend
<1> QED BY <1>1, <1>2, <1>3, <1>4, <1>5 DEF ClientOK

\* The pump's batch.
LEMMA ClientPump ==
    ASSUME NEW b, NEW q \in Seq(Envelopes), NEW w \in Seq(Envelopes), NEW p, ClientOK(b, q, w, p)
    PROVE  ClientOK(b, <<>>, w \o q, p)
<1>1. Good(b, q) /\ Good(b, w) /\ AllBefore(b, w, q) /\ (p # None => Under(b, q, p) /\ Under(b, w, p)) BY DEF ClientOK
<1> DEFINE v == w \o q
<1>2. Good(b, v) /\ (p # None => Under(b, v, p)) BY <1>1, GoodConcat
<1> HIDE DEF v
<1> QED BY <1>2, EmptyIsGood DEF ClientOK, v

\* The queue is lost, and perhaps the place on the bus.
LEMMA ClientLost ==
    ASSUME NEW b, NEW q, NEW w, NEW p, ClientOK(b, q, w, p)
    PROVE  ClientOK(b, <<>>, w, p) /\ ClientOK(b, <<>>, w, None)
BY EmptyIsGood DEF ClientOK

\* The next event of the bus is queued, or dropped.
LEMMA ClientTakes ==
    ASSUME NEW b, Inj(b), Len(b) \in Nat, DOMAIN b = 1 .. Len(b), NEW q \in Seq(Envelopes), NEW w, NEW p \in 1 .. Len(b),
           b[p] \in Envelopes, ClientOK(b, q, w, p)
    PROVE  ClientOK(b, Append(q, b[p]), w, p + 1) /\ ClientOK(b, q, w, p + 1)
<1> DEFINE e == b[p]
<1>1. PlaceOn(b, e) = p BY PlaceIs
<1>2. Good(b, q) /\ Good(b, w) /\ AllBefore(b, w, q) /\ Under(b, q, p) /\ Under(b, w, p) BY DEF ClientOK, None
<1> HIDE DEF e
<1>3. Good(b, Append(q, e)) BY <1>1, <1>2, GoodAppend DEF Fits, e
<1>4. AllBefore(b, w, Append(q, e)) BY <1>1, <1>2, BeforeAppendRight DEF e
<1>5. Under(b, q, p + 1) /\ Under(b, w, p + 1) BY <1>2, UnderFurther DEF Good
<1>6. Under(b, Append(q, e), p + 1) BY <1>1, <1>5, UnderAppend DEF e
<1> QED BY <1>2, <1>3, <1>4, <1>5, <1>6 DEF ClientOK, e

LEMMA ClientSkips ==
    ASSUME NEW b, Len(b) \in Nat, NEW q, NEW w, NEW p \in Nat, p # None, NEW r \in Nat, p <= r, ClientOK(b, q, w, p)
    PROVE  ClientOK(b, q, w, r)
BY UnderFurther DEF ClientOK, Good

LEMMA ClientSubscribes ==
    ASSUME NEW b, Len(b) \in Nat, NEW q, NEW w, NEW p, ClientOK(b, q, w, p)
    PROVE  ClientOK(b, q, w, Len(b) + 1)
BY UnderEnd DEF ClientOK, Good

LEMMA ClientFrame ==
    ASSUME NEW c, ClientInv(c), bus' = bus, queue'[c] = queue[c], wire'[c] = wire[c], pos'[c] = pos[c],
           conn'[c] = conn[c] \/ conn'[c] # "live"
    PROVE  ClientInv(c)'
BY DEF ClientInv

LEMMA ClientStep ==
    ASSUME BusOK, BusOK', ConnOK, NumInv, NumInv', NEW c \in Clients, ClientInv(c), [Next]_vars
    PROVE  ClientInv(c)'
<1> USE ActorFacts
<1>f. ASSUME UNCHANGED <<bus, pos, queue, wire, conn>> PROVE ClientInv(c)' BY <1>f, ClientFrame
<1>0. CASE UNCHANGED vars BY <1>0, <1>f DEF vars, busVars, connVars
<1> SUFFICES ASSUME Next PROVE ClientInv(c)' BY <1>0
<1>a. ClientOK(bus, queue[c], wire[c], pos[c]) /\ (conn[c] = "live" => pos[c] # None) BY ClientIs
<1>b. /\ bus \in Seq(Envelopes) /\ Len(bus) \in Nat /\ DOMAIN bus = 1 .. Len(bus) /\ Inj(bus)
      /\ queue[c] \in Seq(Envelopes) /\ wire[c] \in Seq(Envelopes) /\ pos[c] \in Nat
  BY LenProperties DEF BusOK, ConnOK, NumInv
<1>t. /\ conn \in [Clients -> {"off", "hello", "live"}] /\ queue \in [Clients -> Seq(Envelopes)]
      /\ wire \in [Clients -> Seq(Envelopes)] /\ pos \in [{Persister} \cup Clients -> Nat]
  BY DEF BusOK, ConnOK
<1>k. menu' = menu /\ menu.producers \subseteq Actors /\ menu.writers \subseteq Clients BY MenuFacts DEF Next, BusOK
<1>i. ASSUME ClientOK(bus', queue'[c], wire'[c], pos'[c]), conn'[c] = "live" => pos'[c] # None
      PROVE  ClientInv(c)'
  BY <1>i DEF ClientInv, ClientOK
<1>s. ASSUME NEW a \in Actors, Send(a) PROVE ClientInv(c)'
  <2>1. drawn[a] \in Envelopes /\ bus' = Append(bus, drawn[a]) BY <1>s, <1>k, SendType
  <2>2. UNCHANGED <<pos, queue, wire, conn>> BY <1>s DEF Send, connVars
  <2>3. Inj(Append(bus, drawn[a])) BY <2>1 DEF NumInv
  <2>4. ClientOK(Append(bus, drawn[a]), queue[c], wire[c], pos[c]) BY <2>1, <2>3, <1>a, <1>b, ClientSend
  <2>5. ClientOK(bus', queue'[c], wire'[c], pos'[c]) BY <2>1, <2>2, <2>4
  <2> QED BY <2>2, <2>5, <1>a, <1>i
<1>1. ASSUME NEW p \in menu.producers, Draw(p) \/ Send(p) PROVE ClientInv(c)'
  BY <1>1, <1>f, <1>s, <1>k DEF Draw, connVars
<1>2. CASE PersistStep
  <2>1. pos'[c] = pos[c] BY <1>2, <1>t DEF PersistStep, PersistNext, PersistGap, PersistSentinel
  <2>2. UNCHANGED <<bus, queue, wire, conn>>
    BY <1>2 DEF PersistStep, PersistNext, PersistGap, PersistSentinel, busVars, connVars
  <2> QED BY <2>1, <2>2, ClientFrame
\* A message that is not an event is queued for d.
<1>m. ASSUME NEW d \in Clients, NEW e \in Envelopes, e.k # "bus", UNCHANGED <<bus, pos, wire>>,
             conn'[c] = conn[c] \/ conn'[c] # "live",
             queue' = [queue EXCEPT ![d] = IF Len(@) < QueueCap THEN Append(@, e) ELSE @]
      PROVE  ClientInv(c)'
  <2>1. CASE queue'[c] = queue[c] BY <2>1, <1>m, ClientFrame
  <2>2. CASE queue'[c] = Append(queue[c], e)
    <3>1. ClientOK(bus, Append(queue[c], e), wire[c], pos[c]) BY <1>a, <1>b, <1>m, ClientMessage
    <3>2. ClientOK(bus', queue'[c], wire'[c], pos'[c]) BY <3>1, <2>2, <1>m
    <3> QED BY <3>2, <1>a, <1>m, <1>i
  <2> QED BY <2>1, <2>2, <1>m, <1>t
<1>3. ASSUME NEW d \in Clients, Hello(d) PROVE ClientInv(c)'
  <2>1. UNCHANGED <<bus, pos, wire>> BY <1>3 DEF Hello
  <2>2. conn'[c] = conn[c] \/ conn'[c] # "live" BY <1>3, <1>t DEF Hello
  <2>3. CASE d \in menu.writers /\ slot # None
    <3> DEFINE e == [k |-> "direct", s |-> seq + 2, n |-> 0]
    <3>1. e \in Envelopes /\ e.k # "bus" BY EnvFacts DEF BusOK
    <3>2. slot \in Clients BY <2>3, <1>k DEF ConnOK
    <3>3. queue' = [queue EXCEPT ![slot] = IF Len(@) < QueueCap THEN Append(@, e) ELSE @] BY <1>3, <2>3 DEF Hello
    <3> HIDE DEF e
    <3> QED BY <2>1, <2>2, <3>1, <3>2, <3>3, <1>m
  <2>4. CASE ~(d \in menu.writers /\ slot # None)
    <3>1. queue' = queue BY <1>3, <2>4 DEF Hello
    <3> QED BY <3>1, <2>1, <2>2, ClientFrame
  <2> QED BY <2>3, <2>4
\* A message is written to d's socket.
<1>w. ASSUME NEW d \in Clients, NEW e \in Envelopes, e.k # "bus", UNCHANGED <<bus, pos, queue, conn>>,
             wire' = [wire EXCEPT ![d] = Append(@, e)]
      PROVE  ClientInv(c)'
  <2>1. CASE d # c
    <3>1. wire'[c] = wire[c] BY <2>1, <1>w, <1>t
    <3> QED BY <3>1, <1>w, ClientFrame
  <2>2. CASE d = c
    <3>1. wire'[c] = Append(wire[c], e) BY <2>2, <1>w, <1>t
    <3>2. ClientOK(bus, queue[c], Append(wire[c], e), pos[c]) BY <1>a, <1>b, <1>w, ClientMessage
    <3>3. ClientOK(bus', queue'[c], wire'[c], pos'[c]) BY <3>1, <3>2, <1>w
    <3> QED BY <3>3, <1>a, <1>w, <1>i
  <2> QED BY <2>1, <2>2
<1>4. ASSUME NEW d \in Clients, BadHello(d) PROVE ClientInv(c)'
  <2> DEFINE e == [k |-> "direct", s |-> seq + 1, n |-> 0]
  <2>1. e \in Envelopes /\ e.k # "bus" BY EnvFacts DEF BusOK
  <2>2. wire' = [wire EXCEPT ![d] = Append(@, e)] BY <1>4 DEF BadHello
  <2> HIDE DEF e
  <2> QED BY <1>4, <2>1, <2>2, <1>w DEF BadHello
\* A step of another client.
<1>o. ASSUME NEW d \in Clients, d # c, Subscribe(d) \/ Bridge(d) \/ Pump(d) \/ Hangup(d) PROVE ClientInv(c)'
  <2>1. bus' = bus BY <1>o DEF Subscribe, Bridge, Pump, Hangup, busVars
  <2>2. pos'[c] = pos[c] /\ conn'[c] = conn[c] /\ wire'[c] = wire[c]
    BY <1>o, <1>t DEF Subscribe, Bridge, Pump, Hangup
  <2>3. queue'[c] = queue[c] BY <1>o, <1>t DEF Subscribe, Bridge, Offer, Pump, Hangup
  <2> QED BY <2>1, <2>2, <2>3, ClientFrame
<1>5. CASE Subscribe(c)
  <2>1. UNCHANGED <<bus, queue, wire>> /\ pos'[c] = Len(bus) + 1 BY <1>5, <1>t DEF Subscribe, busVars
  <2>2. ClientOK(bus, queue[c], wire[c], Len(bus) + 1) BY <1>a, <1>b, ClientSubscribes
  <2>3. ClientOK(bus', queue'[c], wire'[c], pos'[c]) BY <2>1, <2>2
  <2> QED BY <2>1, <2>3, <1>b, <1>i DEF None
<1>6. CASE Bridge(c)
  <2>0. UNCHANGED <<bus, wire, conn>> BY <1>6 DEF Bridge, busVars
  <2>1. CASE Receives(c) /\ Offer(c, bus[pos[c]]) /\ pos' = [pos EXCEPT ![c] = @ + 1]
    <3> DEFINE p == pos[c]
               e == bus[p]
    <3>1. p \in 1 .. Len(bus) /\ e \in Envelopes BY <2>1, ReceivesType
    <3>2. pos'[c] = p + 1 BY <2>1, <1>t
    <3>3. queue'[c] = queue[c] \/ queue'[c] = Append(queue[c], e) BY <2>1, <1>t DEF Offer
    <3>4. ClientOK(bus, Append(queue[c], e), wire[c], p + 1) /\ ClientOK(bus, queue[c], wire[c], p + 1)
      BY <3>1, <1>a, <1>b, ClientTakes
    <3> HIDE DEF p, e
    <3>5. ClientOK(bus', queue'[c], wire'[c], pos'[c]) BY <2>0, <3>2, <3>3, <3>4
    <3>6. pos'[c] # None BY <3>1, <3>2 DEF None
    <3> QED BY <3>5, <3>6, <1>i
  <2>2. CASE Lagged(c) /\ pos' = [pos EXCEPT ![c] = Behind(c).to] /\ UNCHANGED queue
    <3> DEFINE r == Behind(c).to
    <3>1. r \in 1 .. Len(bus) + 1 BY <2>2, BehindType
    <3>2. pos[c] # None /\ pos[c] < r BY <2>2 DEF Lagged, Behind
    <3>3. pos'[c] = r BY <2>2, <1>t
    <3> HIDE DEF r
    <3>4. r \in Nat /\ pos[c] <= r /\ r # None BY <3>1, <3>2, <1>b DEF None
    <3>5. ClientOK(bus, queue[c], wire[c], r) BY <3>2, <3>4, <1>a, <1>b, ClientSkips
    <3>6. ClientOK(bus', queue'[c], wire'[c], pos'[c]) BY <2>0, <2>2, <3>3, <3>5
    <3> QED BY <3>3, <3>4, <3>6, <1>i
  <2> QED BY <1>6, <2>1, <2>2 DEF Bridge
<1>7. CASE Pump(c)
  <2> DEFINE w == wire[c] \o queue[c]
             z == <<>>
  <2>1. UNCHANGED <<bus, pos, conn>> BY <1>7 DEF Pump, busVars
  <2>2. wire'[c] = w /\ queue'[c] = z BY <1>7, <1>t DEF Pump
  <2>3. ClientOK(bus, z, w, pos[c]) BY <1>a, <1>b, ClientPump
  <2> HIDE DEF w, z
  <2>4. ClientOK(bus', queue'[c], wire'[c], pos'[c]) BY <2>1, <2>2, <2>3
  <2> QED BY <2>1, <2>4, <1>a, <1>i
<1>8. ASSUME NEW d \in Clients, DrawDirect(d) \/ Answer(d) PROVE ClientInv(c)'
  BY <1>8, <1>f DEF DrawDirect, Answer, connVars
<1>9. ASSUME NEW d \in Clients, AnswerSent(d) PROVE ClientInv(c)' BY <1>9, <1>s DEF AnswerSent
<1>10. ASSUME NEW d \in Clients, drawn[d].k = "direct", SendDirect(d) PROVE ClientInv(c)'
  <2>1. drawn[d] \in Envelopes /\ drawn[d].k # "bus" BY <1>10 DEF SendDirect, BusOK
  <2>2. UNCHANGED <<bus, pos, conn>> BY <1>10 DEF SendDirect
  <2>3. CASE Offer(d, drawn[d]) /\ UNCHANGED wire BY <2>1, <2>2, <2>3, <1>m DEF Offer
  <2>4. CASE wire' = [wire EXCEPT ![d] = Append(@, drawn[d])] /\ UNCHANGED queue BY <2>1, <2>2, <2>4, <1>w
  <2> QED BY <1>10, <2>3, <2>4 DEF SendDirect
<1>l. ASSUME UNCHANGED <<bus, wire>>, queue'[c] = <<>>, pos'[c] = pos[c] \/ pos'[c] = None, conn'[c] = "off"
      PROVE  ClientInv(c)'
  <2> DEFINE z == <<>>
  <2>1. ClientOK(bus, z, wire[c], pos[c]) /\ ClientOK(bus, z, wire[c], None) BY <1>a, ClientLost
  <2>2. queue'[c] = z BY <1>l
  <2> HIDE DEF z
  <2>3. ClientOK(bus', queue'[c], wire'[c], pos'[c]) BY <2>1, <2>2, <1>l
  <2> QED BY <2>3, <1>l, <1>i
<1>11. CASE Hangup(c) BY <1>11, <1>l, <1>t DEF Hangup
<1>12. CASE Crash BY <1>12, <1>l DEF Crash
<1>13. CASE WebStep BY <1>13, <1>f DEF WebStep, Fan, PumpEnds, busVars, connVars
<1>14. ASSUME NEW b \in Browsers, Open(b) \/ Event(b) \/ StreamEnds(b) PROVE ClientInv(c)'
  BY <1>14, <1>f DEF Open, Event, StreamEnds, busVars, connVars
<1>15. ASSUME NEW b \in Browsers, Connect(b) PROVE ClientInv(c)'
  <2>1. conn'[c] = conn[c] \/ conn'[c] # "live" BY <1>15, <1>t DEF Connect, DialWeb
  <2> QED BY <1>15, <2>1, ClientFrame DEF Connect
<1> QED BY <1>1, <1>2, <1>3, <1>4, <1>o, <1>5, <1>6, <1>7, <1>8, <1>9, <1>10, <1>11, <1>12, <1>13, <1>14, <1>15 DEF Next

-----------------------------------------------------------------------------
(* The web server: w is its socket, of which n lines are read, ch its channels. *)

FannedBy(w, n, e) == \E m \in 1 .. n : w[m] = e
ChansOK(b, w, n, ch) == \A g \in DOMAIN ch : Good(b, ch[g]) /\ \A i \in DOMAIN ch[g] : FannedBy(w, n, ch[g][i])
Ahead(b, got, nx, c) == \A i \in DOMAIN got, k \in DOMAIN c : k >= nx =>
                            (got[i].k = "bus" /\ c[k].k = "bus" => PlaceOn(b, got[i]) < PlaceOn(b, c[k]))
RowOK(b, w, n, ch, t) == /\ Good(b, t.got) /\ \A i \in DOMAIN t.got : FannedBy(w, n, t.got[i])
                         /\ t.gen # None => Ahead(b, t.got, t.next, ch[t.gen])

LEMMA WebIs ==
    WebInv <=> /\ ChansOK(bus, wire[Web], pumped, chan)
               /\ \A x \in Browsers : RowOK(bus, wire[Web], pumped, chan, tab[x])
BY DEF WebInv, TabInv, Fanned, FannedBy, ChansOK, Ahead, RowOK, At

LEMMA FannedMore ==
    ASSUME NEW w, NEW n \in Nat, NEW v, NEW m \in Nat, n <= m, \A i \in 1 .. n : v[i] = w[i], NEW e, FannedBy(w, n, e)
    PROVE  FannedBy(v, m, e)
BY DEF FannedBy

\* The socket grows, or is read further.
LEMMA WebReads ==
    ASSUME NEW b, NEW w, NEW n \in Nat, NEW v, NEW m \in Nat, n <= m, \A i \in 1 .. n : v[i] = w[i], NEW ch
    PROVE  /\ ChansOK(b, w, n, ch) => ChansOK(b, v, m, ch)
           /\ \A t : RowOK(b, w, n, ch, t) => RowOK(b, v, m, ch, t)
<1>1. \A e : FannedBy(w, n, e) => FannedBy(v, m, e) BY FannedMore
<1> QED BY <1>1 DEF ChansOK, RowOK

\* An event is sent.
LEMMA WebSend ==
    ASSUME NEW b \in Seq(Envelopes), NEW x \in Envelopes, Inj(Append(b, x)), NEW w, NEW n, NEW ch, ChansOK(b, w, n, ch)
    PROVE  /\ ChansOK(Append(b, x), w, n, ch)
           /\ \A t : RowOK(b, w, n, ch, t) /\ (t.gen # None => t.gen \in DOMAIN ch) => RowOK(Append(b, x), w, n, ch, t)
<1>1. ChansOK(Append(b, x), w, n, ch) BY GoodStays DEF ChansOK
<1>2. ASSUME NEW t, RowOK(b, w, n, ch, t), t.gen # None => t.gen \in DOMAIN ch PROVE RowOK(Append(b, x), w, n, ch, t)
  <2>1. Good(b, t.got) /\ \A i \in DOMAIN t.got : FannedBy(w, n, t.got[i]) BY <1>2 DEF RowOK
  <2>2. Good(Append(b, x), t.got) BY <2>1, GoodStays
  <2>3. CASE t.gen # None
    <3> DEFINE c == ch[t.gen]
    <3>1. OnBus(b, c) BY <1>2, <2>3 DEF ChansOK, Good
    <3>2. OnBus(b, t.got) BY <2>1 DEF Good
    <3>3. Ahead(b, t.got, t.next, c) BY <1>2, <2>3 DEF RowOK
    <3> HIDE DEF c
    <3>4. Ahead(Append(b, x), t.got, t.next, c) BY <3>1, <3>2, <3>3, PlaceStays DEF Ahead, OnBus
    <3> QED BY <2>1, <2>2, <3>4 DEF RowOK, c
  <2> QED BY <2>1, <2>2, <2>3 DEF RowOK
<1> QED BY <1>1, <1>2

\* What was read before comes before what is read next.
LEMMA ReadLater ==
    ASSUME NEW b, NEW w \in Seq(Envelopes), Good(b, w), NEW n \in Nat, n < Len(w), NEW e, FannedBy(w, n, e),
           e.k = "bus", w[n + 1].k = "bus"
    PROVE  PlaceOn(b, e) < PlaceOn(b, w[n + 1])
<1>1. PICK m \in 1 .. n : w[m] = e BY DEF FannedBy
<1>2. m \in DOMAIN w /\ n + 1 \in DOMAIN w /\ m < n + 1 BY LenProperties
<1> QED BY <1>1, <1>2 DEF Good, Ordered

LEMMA WebFan ==
    ASSUME NEW b, NEW w \in Seq(Envelopes), Good(b, w), NEW n \in Nat, n < Len(w),
           NEW ch \in Seq(Seq(Envelopes)), NEW g \in DOMAIN ch, ChansOK(b, w, n, ch)
    PROVE  LET cs == [ch EXCEPT ![g] = Append(@, w[n + 1])] IN
           /\ ChansOK(b, w, n + 1, cs)
           /\ \A t : RowOK(b, w, n, ch, t) /\ (t.gen # None => t.gen \in DOMAIN ch) => RowOK(b, w, n + 1, cs, t)
<1> DEFINE e == w[n + 1]
           c == Append(ch[g], e)
           cs == [ch EXCEPT ![g] = c]
<1>1. Len(w) \in Nat /\ DOMAIN w = 1 .. Len(w) /\ n + 1 \in DOMAIN w BY LenProperties
<1>2. e \in Envelopes BY <1>1, ElementOfSeq
<1>3. ch[g] \in Seq(Envelopes) /\ Len(ch[g]) \in Nat /\ DOMAIN ch[g] = 1 .. Len(ch[g]) BY LenProperties, ElementOfSeq
<1>4. /\ DOMAIN c = 1 .. Len(ch[g]) + 1 /\ c[Len(ch[g]) + 1] = e /\ \A i \in 1 .. Len(ch[g]) : c[i] = ch[g][i]
  BY <1>2, <1>3, AppendProperties, LenProperties
<1>5. e.k = "bus" => PlaceOn(b, e) \in 1 .. Len(b) BY <1>1 DEF Good, OnBus
<1>6. \A d : FannedBy(w, n, d) => FannedBy(w, n + 1, d) BY FannedMore
<1>7. FannedBy(w, n + 1, e) BY DEF FannedBy
<1>8. \A d : FannedBy(w, n, d) /\ d.k = "bus" /\ e.k = "bus" => PlaceOn(b, d) < PlaceOn(b, e) BY ReadLater
<1> HIDE DEF e
<1>9. Good(b, ch[g]) /\ \A i \in DOMAIN ch[g] : FannedBy(w, n, ch[g][i]) BY DEF ChansOK
<1>10. Good(b, c)
  <2>1. Fits(b, ch[g], e) BY <1>5, <1>8, <1>9 DEF Fits, Under
  <2> QED BY <2>1, <1>2, <1>3, <1>9, GoodAppend
<1>11. \A i \in DOMAIN c : FannedBy(w, n + 1, c[i]) BY <1>3, <1>4, <1>6, <1>7, <1>9
<1> HIDE DEF c
<1>12. DOMAIN cs = DOMAIN ch /\ cs[g] = c /\ \A h \in DOMAIN ch \ {g} : cs[h] = ch[h] OBVIOUS
<1> HIDE DEF cs
<1>13. ChansOK(b, w, n + 1, cs)
  <2> SUFFICES ASSUME NEW h \in DOMAIN cs PROVE Good(b, cs[h]) /\ \A i \in DOMAIN cs[h] : FannedBy(w, n + 1, cs[h][i])
    BY DEF ChansOK
  <2>1. CASE h = g BY <2>1, <1>10, <1>11, <1>12
  <2>2. CASE h # g
    <3>1. cs[h] = ch[h] /\ h \in DOMAIN ch BY <2>2, <1>12
    <3>2. Good(b, ch[h]) /\ \A i \in DOMAIN ch[h] : FannedBy(w, n, ch[h][i]) BY <3>1 DEF ChansOK
    <3> QED BY <3>1, <3>2, <1>6
  <2> QED BY <2>1, <2>2
<1>14. ASSUME NEW t, RowOK(b, w, n, ch, t), t.gen # None => t.gen \in DOMAIN ch PROVE RowOK(b, w, n + 1, cs, t)
  <2>1. Good(b, t.got) /\ \A i \in DOMAIN t.got : FannedBy(w, n, t.got[i]) BY <1>14 DEF RowOK
  <2>2. \A i \in DOMAIN t.got : FannedBy(w, n + 1, t.got[i]) BY <2>1, <1>6
  <2>3. CASE t.gen = g /\ t.gen # None
    <3>1. Ahead(b, t.got, t.next, ch[g]) BY <2>3, <1>14 DEF RowOK
    <3>2. ASSUME NEW i \in DOMAIN t.got, NEW k \in DOMAIN c, k >= t.next, t.got[i].k = "bus", c[k].k = "bus"
          PROVE  PlaceOn(b, t.got[i]) < PlaceOn(b, c[k])
      <4>1. CASE k \in DOMAIN ch[g] BY <3>1, <3>2, <4>1, <1>3, <1>4 DEF Ahead
      <4>2. CASE k = Len(ch[g]) + 1 BY <2>1, <3>2, <4>2, <1>4, <1>8
      <4> QED BY <4>1, <4>2, <1>3, <1>4
    <3>3. Ahead(b, t.got, t.next, c) BY <3>2 DEF Ahead
    <3> QED BY <2>1, <2>2, <2>3, <3>3, <1>12 DEF RowOK
  <2>4. CASE t.gen # g /\ t.gen # None
    <3>1. cs[t.gen] = ch[t.gen] BY <2>4, <1>12, <1>14
    <3> QED BY <2>1, <2>2, <2>4, <3>1, <1>14 DEF RowOK
  <2>5. CASE t.gen = None BY <2>1, <2>2, <2>5 DEF RowOK
  <2> QED BY <2>3, <2>4, <2>5
<1> QED BY <1>13, <1>14 DEF cs, c, e

\* A browser is shown the next event of its channel, or goes on with the oldest one kept.
LEMMA WebShow ==
    ASSUME NEW b, NEW w, NEW n, NEW ch, ChansOK(b, w, n, ch), NEW m \in Nat, NEW t \in Tabs(m), t.gen \in DOMAIN ch,
           ch[t.gen] \in Seq(Envelopes), RowOK(b, w, n, ch, t), t.gen # None, t.next \in DOMAIN ch[t.gen]
    PROVE  RowOK(b, w, n, ch, [t EXCEPT !.next = t.next + 1, !.got = Append(t.got, ch[t.gen][t.next])])
<1> DEFINE c == ch[t.gen]
           e == c[t.next]
           got == Append(t.got, e)
           r == [t EXCEPT !.next = t.next + 1, !.got = got]
<1>1. t.got \in Seq(Envelopes) /\ t.next \in Nat /\ e \in Envelopes /\ Len(c) \in Nat /\ DOMAIN c = 1 .. Len(c)
  BY LenProperties, ElementOfSeq DEF Tabs
<1>2. Len(t.got) \in Nat /\ DOMAIN t.got = 1 .. Len(t.got) BY <1>1, LenProperties
<1>3. /\ DOMAIN got = 1 .. Len(t.got) + 1 /\ got[Len(t.got) + 1] = e /\ \A i \in 1 .. Len(t.got) : got[i] = t.got[i]
  BY <1>1, <1>2, AppendProperties, LenProperties
<1>4. Good(b, c) /\ \A i \in DOMAIN c : FannedBy(w, n, c[i]) BY DEF ChansOK
<1>5. /\ Good(b, t.got) /\ \A i \in DOMAIN t.got : FannedBy(w, n, t.got[i])
      /\ Ahead(b, t.got, t.next, c)
  BY DEF RowOK
<1>6. r.gen = t.gen /\ r.next = t.next + 1 /\ r.got = got BY DEF Tabs
<1>0. t.next \in DOMAIN c OBVIOUS
<1> HIDE DEF c, got, r
<1>7. e.k = "bus" => PlaceOn(b, e) \in 1 .. Len(b) BY <1>0, <1>4 DEF Good, OnBus
<1>8. Good(b, got)
  <2>1. Fits(b, t.got, e) BY <1>0, <1>1, <1>5, <1>7 DEF Fits, Under, Ahead
  <2> QED BY <2>1, <1>1, <1>5, GoodAppend DEF got
<1>9. ASSUME NEW i \in DOMAIN got PROVE FannedBy(w, n, got[i])
  <2>1. CASE i \in DOMAIN t.got
    <3>1. got[i] = t.got[i] BY <2>1, <1>2, <1>3
    <3> QED BY <2>1, <3>1, <1>5
  <2>2. CASE i = Len(t.got) + 1
    <3>1. got[i] = c[t.next] BY <2>2, <1>3
    <3> QED BY <3>1, <1>0, <1>4
  <2>3. i \in DOMAIN t.got \/ i = Len(t.got) + 1
    <3> DEFINE L == Len(t.got)
    <3>1. i \in 1 .. L + 1 /\ DOMAIN t.got = 1 .. L /\ L \in Nat BY <1>2, <1>3
    <3> HIDE DEF L
    <3>2. i \in 1 .. L \/ i = L + 1 BY <3>1
    <3> QED BY <3>1, <3>2 DEF L
  <2> QED BY <2>1, <2>2, <2>3
<1>10. Ahead(b, got, t.next + 1, c)
  <2> SUFFICES ASSUME NEW i \in DOMAIN got, NEW k \in DOMAIN c, k >= t.next + 1, got[i].k = "bus", c[k].k = "bus"
               PROVE  PlaceOn(b, got[i]) < PlaceOn(b, c[k])
    BY DEF Ahead
  <2>0. k \in Nat /\ k >= t.next /\ t.next < k BY <1>1
  <2>1. CASE i \in DOMAIN t.got
    <3>1. got[i] = t.got[i] BY <2>1, <1>2, <1>3
    <3> QED BY <2>0, <2>1, <3>1, <1>5 DEF Ahead
  <2>2. CASE i = Len(t.got) + 1
    <3>1. got[i] = c[t.next] BY <2>2, <1>3
    <3> QED BY <2>0, <3>1, <1>0, <1>4 DEF Good, Ordered
  <2> QED BY <2>1, <2>2, <1>2, <1>3
<1>11. RowOK(b, w, n, ch, r) BY <1>6, <1>8, <1>9, <1>10 DEF RowOK, c
<1> QED BY <1>11 DEF r, got, c

LEMMA AheadFurther ==
    ASSUME NEW b, NEW got, NEW p \in Nat, NEW q \in Nat, p <= q, NEW c \in Seq(Envelopes), Ahead(b, got, p, c)
    PROVE  Ahead(b, got, q, c)
<1>1. Len(c) \in Nat /\ DOMAIN c = 1 .. Len(c) BY LenProperties
<1> QED BY <1>1 DEF Ahead

LEMMA WebStepInv ==
    ASSUME BusOK, BusOK', ConnOK, WebOK, NumInv, NumInv', ClientInv(Web), WebInv, [Next]_vars
    PROVE  WebInv'
<1> USE ActorFacts
<1> DEFINE w == wire[Web]
           Row(t) == RowOK(bus, w, pumped, chan, t)
<1>a. ChansOK(bus, w, pumped, chan) /\ \A x \in Browsers : Row(tab[x]) BY WebIs
<1>b. /\ gens \in Nat /\ gen \in 0 .. gens /\ Len(chan) = gens /\ DOMAIN chan = 1 .. gens
      /\ chan \in Seq(Seq(Envelopes)) /\ \A g \in 1 .. gens : chan[g] \in Seq(Envelopes) /\ Len(chan[g]) \in Nat
      /\ pumped \in Nat /\ pumped <= Len(w) /\ w \in Seq(Envelopes) /\ Len(w) \in Nat
  BY LenProperties, ElementOfSeq DEF WebOK, ConnOK
<1>c. tab \in [Browsers -> Tabs(gens)] BY DEF WebOK, Tabs
<1>d. \A x \in Browsers : tab[x].gen # None => tab[x].gen \in DOMAIN chan BY <1>b, <1>c DEF Tabs, None
<1>g. Good(bus, w) BY DEF ClientInv
<1>i. ASSUME ChansOK(bus', wire'[Web], pumped', chan'),
             \A x \in Browsers : RowOK(bus', wire'[Web], pumped', chan', tab'[x])
      PROVE  WebInv'
  BY <1>i DEF WebInv, TabInv, Fanned, FannedBy, ChansOK, Ahead, RowOK, At
<1>w. WireGrows BY WireStep
<1>f. ASSUME UNCHANGED webVars, bus' = bus PROVE WebInv'
  <2> DEFINE v == wire'[Web]
  <2>1. \A i \in 1 .. pumped : v[i] = w[i] BY <1>b, <1>w DEF WireGrows
  <2> HIDE DEF v, w
  <2>3. pumped \in Nat /\ pumped <= pumped BY <1>b
  <2>2. ChansOK(bus, v, pumped, chan) /\ \A x \in Browsers : RowOK(bus, v, pumped, chan, tab[x])
    <3>1. /\ ChansOK(bus, w, pumped, chan) => ChansOK(bus, v, pumped, chan)
          /\ \A t : RowOK(bus, w, pumped, chan, t) => RowOK(bus, v, pumped, chan, t)
      BY <2>1, <2>3, WebReads
    <3> QED BY <3>1, <1>a
  <2> QED BY <2>2, <1>f, <1>i DEF webVars, v
<1>0. CASE UNCHANGED vars BY <1>0, <1>f DEF vars, busVars
<1> SUFFICES ASSUME Next PROVE WebInv' BY <1>0
<1>k. menu' = menu BY DEF Next
<1>s. ASSUME NEW a \in Actors, Send(a) PROVE WebInv'
  <2>1. drawn[a] \in Envelopes /\ bus' = Append(bus, drawn[a]) BY <1>s, <1>k, SendType
  <2>2. Inj(Append(bus, drawn[a])) /\ bus \in Seq(Envelopes) BY <2>1 DEF NumInv, BusOK
  <2>3. UNCHANGED <<wire, pumped, chan, tab>> BY <1>s DEF Send, connVars, webVars
  <2> DEFINE b == Append(bus, drawn[a])
  <2>4. ChansOK(b, w, pumped, chan) /\ \A x \in Browsers : RowOK(b, w, pumped, chan, tab[x])
    BY <2>1, <2>2, <1>a, <1>d, WebSend
  <2> HIDE DEF b
  <2> QED BY <2>1, <2>3, <2>4, <1>i DEF b
<1>1. CASE UNCHANGED webVars BY <1>1, <1>f, <1>s, BusMoves
<1>2. CASE Fan
  <2> DEFINE e == w[pumped + 1]
             cs == [chan EXCEPT ![gen] = Append(@, e)]
  <2>1. gen \in DOMAIN chan BY <1>2, <1>b DEF Fan, None
  <2>2. pumped < Len(w) /\ pumped' = pumped + 1 /\ chan' = cs /\ UNCHANGED <<bus, wire, tab>>
    BY <1>2 DEF Fan, NextLine, busVars, connVars
  <2>3. ChansOK(bus, w, pumped + 1, cs) /\ \A x \in Browsers : RowOK(bus, w, pumped + 1, cs, tab[x])
    BY <2>1, <2>2, <1>a, <1>b, <1>d, <1>g, WebFan
  <2> HIDE DEF cs
  <2> QED BY <2>2, <2>3, <1>i
<1>3. CASE PumpEnds
  <2>1. UNCHANGED <<bus, wire, pumped, chan, tab>> BY <1>3 DEF PumpEnds, busVars, connVars
  <2> QED BY <2>1, <1>a, <1>i
\* A browser's row changes, no more.
<1>r. ASSUME NEW x \in Browsers, NEW r, tab' = [tab EXCEPT ![x] = r], UNCHANGED <<bus, wire, pumped, chan>>, Row(r)
      PROVE  WebInv'
  <2>1. \A y \in Browsers : tab'[y] = r \/ tab'[y] = tab[y] BY <1>r, <1>c
  <2>2. \A y \in Browsers : Row(tab'[y]) BY <2>1, <1>r, <1>a
  <2> QED BY <2>2, <1>r, <1>a, <1>i
<1>4. ASSUME NEW x \in Browsers, Open(x) PROVE WebInv'
  <2> DEFINE nx == Len(chan[gen]) + 1
             r == [tab[x] EXCEPT !.gen = gen, !.next = nx]
  <2>1. tab' = [tab EXCEPT ![x] = r] /\ UNCHANGED <<bus, wire, pumped, chan>> BY <1>4 DEF Open, busVars, connVars
  <2>2. gen \in 1 .. gens
    <3>1. gen # 0 BY <1>4 DEF Open, None
    <3> QED BY <3>1, <1>b
  <2>3. r.gen = gen /\ r.got = tab[x].got /\ r.next = nx BY <1>c DEF Tabs
  <2>4. Ahead(bus, tab[x].got, nx, chan[gen])
    <3>1. DOMAIN chan[gen] = 1 .. Len(chan[gen]) /\ Len(chan[gen]) \in Nat BY <2>2, <1>b, LenProperties
    <3> QED BY <3>1 DEF Ahead
  <2> HIDE DEF r, nx
  <2>5. RowOK(bus, w, pumped, chan, tab[x]) BY <1>a
  <2>6. RowOK(bus, w, pumped, chan, r) BY <2>3, <2>4, <2>5 DEF RowOK
  <2> QED BY <2>1, <2>6, <1>r
<1>5. ASSUME NEW x \in Browsers, Connect(x) PROVE WebInv'
  <2> DEFINE g == gens + 1
             z == <<>>
             r == [tab[x] EXCEPT !.gen = g, !.next = 1]
             cs == Append(chan, z)
  <2>1. tab' = [tab EXCEPT ![x] = r] /\ chan' = cs /\ UNCHANGED <<bus, wire, pumped>> BY <1>5 DEF Connect
  <2>2. z \in Seq(Envelopes) /\ DOMAIN z = {} BY EmptySeq
  <2>3. Good(bus, z) BY EmptyIsGood
  <2> HIDE DEF z
  <2>4. DOMAIN cs = 1 .. g /\ cs[g] = z /\ \A h \in 1 .. gens : cs[h] = chan[h]
    BY <2>2, <1>b, AppendProperties, LenProperties
  <2>5. r.gen = g /\ r.got = tab[x].got /\ r.next = 1 BY <1>c DEF Tabs
  <2> HIDE DEF r, cs
  <2>6. ChansOK(bus, w, pumped, cs)
    <3> SUFFICES ASSUME NEW h \in DOMAIN cs PROVE Good(bus, cs[h]) /\ \A i \in DOMAIN cs[h] : FannedBy(w, pumped, cs[h][i])
      BY DEF ChansOK
    <3>1. CASE h = g BY <3>1, <2>2, <2>3, <2>4
    <3>2. CASE h # g
      <4>1. cs[h] = chan[h] /\ h \in DOMAIN chan BY <3>2, <2>4, <1>b
      <4> QED BY <4>1, <1>a DEF ChansOK
    <3> QED BY <3>1, <3>2
  <2>7. RowOK(bus, w, pumped, cs, r)
    <3>1. Ahead(bus, r.got, r.next, cs[r.gen]) BY <2>2, <2>4, <2>5 DEF Ahead
    <3>2. RowOK(bus, w, pumped, chan, tab[x]) BY <1>a
    <3> QED BY <2>5, <3>1, <3>2 DEF RowOK
  <2>8. ASSUME NEW y \in Browsers, y # x PROVE RowOK(bus, w, pumped, cs, tab[y])
    <3>1. RowOK(bus, w, pumped, chan, tab[y]) BY <1>a
    <3>2. tab[y].gen # None => cs[tab[y].gen] = chan[tab[y].gen] BY <2>4, <1>b, <1>d
    <3> QED BY <3>1, <3>2 DEF RowOK
  <2>9. tab'[x] = r /\ \A y \in Browsers \ {x} : tab'[y] = tab[y] BY <2>1, <1>c
  <2>10. \A y \in Browsers : RowOK(bus, w, pumped, cs, tab'[y]) BY <2>7, <2>8, <2>9
  <2> QED BY <2>1, <2>6, <2>10, <1>i
<1>6. ASSUME NEW x \in Browsers, Event(x) PROVE WebInv'
  <2> DEFINE t == tab[x]
             c == chan[t.gen]
             o == Oldest(c, WebCap)
  <2>0. t \in Tabs(gens) /\ Row(t) /\ t.next \in Nat BY <1>a, <1>c DEF Tabs
  <2>1. t.gen # None /\ t.gen \in DOMAIN chan BY <1>6, <1>d DEF Event
  <2>2. c \in Seq(Envelopes) /\ Len(c) \in Nat /\ DOMAIN c = 1 .. Len(c) BY <2>1, <1>b, LenProperties
  <2>3. o \in 1 .. Len(c) + 1 BY <2>2, OldestFacts, CapFacts
  <2>4. UNCHANGED <<bus, wire, pumped, chan>> BY <1>6 DEF Event, busVars, connVars
  <2>5. CASE /\ t.next \in o .. Len(c)
             /\ tab' = [tab EXCEPT ![x] = [t EXCEPT !.next = t.next + 1, !.got = Append(t.got, c[t.next])]]
    <3> DEFINE r == [t EXCEPT !.next = t.next + 1, !.got = Append(t.got, c[t.next])]
    <3>1. t.next \in DOMAIN c
      <4> HIDE DEF o, c, t
      <4> QED BY <2>0, <2>2, <2>3, <2>5
    <3>2. RowOK(bus, w, pumped, chan, r) BY <2>0, <2>1, <2>2, <3>1, <1>a, <1>b, WebShow
    <3> HIDE DEF r
    <3> QED BY <2>4, <2>5, <3>2, <1>r DEF r
  <2>6. CASE t.next < o /\ tab' = [tab EXCEPT ![x] = [t EXCEPT !.next = o]]
    <3> DEFINE r == [t EXCEPT !.next = o]
    <3>1. r.gen = t.gen /\ r.got = t.got /\ r.next = o BY <2>0 DEF Tabs
    <3>2. Ahead(bus, t.got, t.next, c) BY <2>0, <2>1 DEF RowOK
    <3>3. Ahead(bus, t.got, o, c)
      <4>1. o \in Nat /\ t.next <= o
        <5> HIDE DEF o, t, c
        <5> QED BY <2>0, <2>2, <2>3, <2>6
      <4> QED BY <3>2, <4>1, <2>0, <2>2, AheadFurther
    <3> HIDE DEF r
    <3>4. RowOK(bus, w, pumped, chan, r) BY <2>0, <3>1, <3>3 DEF RowOK
    <3> QED BY <2>4, <2>6, <3>4, <1>r DEF r
  <2> QED BY <1>6, <2>5, <2>6 DEF Event
<1>7. ASSUME NEW x \in Browsers, StreamEnds(x) PROVE WebInv'
  <2> DEFINE r == [tab[x] EXCEPT !.gen = None]
  <2>1. tab' = [tab EXCEPT ![x] = r] /\ UNCHANGED <<bus, wire, pumped, chan>> BY <1>7 DEF StreamEnds, busVars, connVars
  <2>2. r.gen = None /\ r.got = tab[x].got BY <1>c DEF Tabs
  <2> HIDE DEF r
  <2>3. RowOK(bus, w, pumped, chan, tab[x]) BY <1>a
  <2>4. RowOK(bus, w, pumped, chan, r) BY <2>2, <2>3 DEF RowOK
  <2> QED BY <2>1, <2>4, <1>r
<1> QED BY <1>1, <1>2, <1>3, <1>4, <1>5, <1>6, <1>7, WebSteps DEF WebStep

-----------------------------------------------------------------------------
(* The log: its lines are ordered, and behind the persistence task's place on the bus. *)

LinesOK(b, ls, p) == /\ \A i \in DOMAIN ls : Good(b, ls[i]) /\ Under(b, ls[i], p)
                     /\ \A i, j \in DOMAIN ls : i < j => AllBefore(b, ls[i], ls[j])

LEMMA LinesSend ==
    ASSUME NEW b \in Seq(Envelopes), NEW x \in Envelopes, Inj(Append(b, x)), NEW ls, NEW p, LinesOK(b, ls, p)
    PROVE  LinesOK(Append(b, x), ls, p)
<1>1. \A i \in DOMAIN ls : OnBus(b, ls[i]) BY DEF LinesOK, Good
<1>2. \A i \in DOMAIN ls : Good(Append(b, x), ls[i]) BY GoodStays DEF LinesOK
<1>3. \A i \in DOMAIN ls : Under(Append(b, x), ls[i], p) BY <1>1, UnderStays DEF LinesOK
<1>4. \A i, j \in DOMAIN ls : i < j => AllBefore(Append(b, x), ls[i], ls[j]) BY <1>1, BeforeStays DEF LinesOK
<1> QED BY <1>2, <1>3, <1>4 DEF LinesOK

LEMMA LinesFurther ==
    ASSUME NEW b, Len(b) \in Nat, NEW ls, NEW p \in Nat, NEW q \in Nat, p <= q, LinesOK(b, ls, p)
    PROVE  LinesOK(b, ls, q)
BY UnderFurther DEF LinesOK, Good

LEMMA OneOnLine ==
    ASSUME NEW b, NEW x, NEW q, x.k = "bus" => PlaceOn(b, x) \in 1 .. Len(b) /\ PlaceOn(b, x) < q
    PROVE  /\ Good(b, <<x>>) /\ Under(b, <<x>>, q)
           /\ \A es : (x.k = "bus" => Under(b, es, PlaceOn(b, x))) => AllBefore(b, es, <<x>>)
<1> DEFINE y == <<x>>
<1>1. DOMAIN y = {1} /\ y[1] = x OBVIOUS
<1> HIDE DEF y
<1>2. \A i \in DOMAIN y : y[i] = x BY <1>1
<1>3. Good(b, y) BY <1>1, <1>2 DEF Good, OnBus, Ordered
<1>4. Under(b, y, q) BY <1>2 DEF Under
<1>5. \A es : (x.k = "bus" => Under(b, es, PlaceOn(b, x))) => AllBefore(b, es, y) BY <1>2 DEF AllBefore, Under
<1> QED BY <1>3, <1>4, <1>5 DEF y

\* A piece is added: the event at place p, or something that is no event.
LEMMA LinesAdd ==
    ASSUME NEW b, Len(b) \in Nat, NEW ls, NEW p \in Nat, LinesOK(b, ls, p), NEW x \in Envelopes,
           x.k = "bus" => PlaceOn(b, x) = p /\ p \in 1 .. Len(b), NEW q \in Nat, p <= q, x.k = "bus" => p < q,
           NEW ms, NewLine(ls, x, ms) \/ Joined(ls, x, ms)
    PROVE  LinesOK(b, ms, q)
<1> DEFINE n == Len(ls)
<1>1. LinesOK(b, ls, q) BY LinesFurther
<1>2. n \in Nat /\ DOMAIN ls = 1 .. n /\ DOMAIN ms = 1 .. Len(ms) /\ Len(ms) \in Nat
  BY DEF NewLine, Joined, Files
<1>3. \A i \in DOMAIN ls : Good(b, ls[i]) /\ Under(b, ls[i], p) /\ Under(b, ls[i], q) BY <1>1 DEF LinesOK
<1>4. \A i, j \in DOMAIN ls : i < j => AllBefore(b, ls[i], ls[j]) BY DEF LinesOK
<1>5. CASE NewLine(ls, x, ms)
  <2> DEFINE y == <<x>>
  <2>1. Len(ms) = n + 1 /\ (\A i \in 1 .. n : ms[i] = ls[i]) /\ ms[n + 1] = y BY <1>5 DEF NewLine
  <2>2. /\ Good(b, y) /\ Under(b, y, q)
        /\ \A es : (x.k = "bus" => Under(b, es, PlaceOn(b, x))) => AllBefore(b, es, y)
    BY OneOnLine
  <2> HIDE DEF y, n
  <2>3. \A i \in DOMAIN ls : AllBefore(b, ls[i], y) BY <2>2, <1>3
  <2>4. ASSUME NEW i \in DOMAIN ms PROVE Good(b, ms[i]) /\ Under(b, ms[i], q)
    <3>1. CASE i \in 1 .. n BY <3>1, <2>1, <1>2, <1>3
    <3>2. CASE i = n + 1 BY <3>2, <2>1, <2>2
    <3>3. i \in 1 .. n \/ i = n + 1 BY <1>2, <2>1
    <3> QED BY <3>1, <3>2, <3>3
  <2>5. ASSUME NEW i \in DOMAIN ms, NEW j \in DOMAIN ms, i < j PROVE AllBefore(b, ms[i], ms[j])
    <3>0. i \in DOMAIN ls /\ (j \in 1 .. n \/ j = n + 1) BY <2>5, <1>2, <2>1
    <3>1. CASE j \in 1 .. n
      <4>1. ms[i] = ls[i] /\ ms[j] = ls[j] BY <3>0, <3>1, <2>1, <1>2
      <4> QED BY <3>0, <3>1, <4>1, <2>5, <1>2, <1>4
    <3>2. CASE j = n + 1
      <4>1. ms[i] = ls[i] /\ ms[j] = y BY <3>0, <3>2, <2>1, <1>2
      <4> QED BY <3>0, <4>1, <2>3
    <3> QED BY <3>0, <3>1, <3>2
  <2> QED BY <2>4, <2>5 DEF LinesOK
<1>6. CASE Joined(ls, x, ms)
  <2> DEFINE l == ls[n]
             y == Append(l, x)
  <2>1. n > 0 /\ Len(ms) = n /\ (\A i \in 1 .. n - 1 : ms[i] = ls[i]) /\ ms[n] = y /\ l \in Seq(Envelopes)
    BY <1>6 DEF Joined
  <2>2. n \in DOMAIN ls BY <2>1, <1>2
  <2>3. Good(b, l) /\ Under(b, l, p) /\ Under(b, l, q) BY <2>2, <1>3
  <2>4. Good(b, y)
    <3>1. Fits(b, l, x) BY <2>3 DEF Fits
    <3> QED BY <3>1, <2>1, <2>3, GoodAppend
  <2>5. Under(b, y, q)
    <3>1. x.k = "bus" => PlaceOn(b, x) < q OBVIOUS
    <3> QED BY <3>1, <2>1, <2>3, UnderAppend
  <2>6. ASSUME NEW i \in 1 .. n - 1 PROVE AllBefore(b, ls[i], y)
    <3>1. i \in DOMAIN ls /\ i < n BY <1>2
    <3>2. AllBefore(b, ls[i], l) BY <3>1, <2>2, <1>4
    <3>3. x.k = "bus" => Under(b, ls[i], PlaceOn(b, x)) BY <3>1, <1>3
    <3> QED BY <3>2, <3>3, <2>1, BeforeAppendRight
  <2> HIDE DEF l, y, n
  <2>7. ASSUME NEW i \in DOMAIN ms PROVE Good(b, ms[i]) /\ Under(b, ms[i], q)
    <3>1. CASE i \in 1 .. n - 1
      <4>1. i \in DOMAIN ls BY <3>1, <1>2
      <4> QED BY <3>1, <4>1, <2>1, <1>3
    <3>2. CASE i = n BY <3>2, <2>1, <2>4, <2>5
    <3>3. i \in 1 .. n - 1 \/ i = n BY <1>2, <2>1
    <3> QED BY <3>1, <3>2, <3>3
  <2>8. ASSUME NEW i \in DOMAIN ms, NEW j \in DOMAIN ms, i < j PROVE AllBefore(b, ms[i], ms[j])
    <3>0. i \in 1 .. n - 1 /\ i \in DOMAIN ls /\ (j \in 1 .. n - 1 \/ j = n) BY <2>8, <1>2, <2>1
    <3>1. CASE j \in 1 .. n - 1
      <4>1. ms[i] = ls[i] /\ ms[j] = ls[j] /\ j \in DOMAIN ls BY <3>0, <3>1, <2>1, <1>2
      <4> QED BY <3>0, <4>1, <2>8, <1>4
    <3>2. CASE j = n
      <4>1. ms[i] = ls[i] /\ ms[j] = y BY <3>0, <3>2, <2>1
      <4> QED BY <3>0, <4>1, <2>6
    <3> QED BY <3>0, <3>1, <3>2
  <2> QED BY <2>7, <2>8 DEF LinesOK
<1> QED BY <1>5, <1>6

\* The persistence task only goes forward.
LEMMA Forward ==
    ASSUME BusOK, BusOK', Next
    PROVE  pos[Persister] \in Nat /\ pos'[Persister] \in Nat /\ pos[Persister] <= pos'[Persister]
<1> USE ActorFacts
<1>t. pos \in [{Persister} \cup Clients -> Nat] /\ pos[Persister] \in Nat /\ pos'[Persister] \in Nat BY DEF BusOK
<1>1. CASE PersistNext BY <1>1, <1>t DEF PersistNext
<1>2. CASE PersistGap
  <2>1. pos[Persister] < Behind(Persister).to /\ pos'[Persister] = Behind(Persister).to
    BY <1>2, <1>t DEF PersistGap, Lagged, Behind
  <2> QED BY <2>1, <1>t
<1>3. CASE pos'[Persister] = pos[Persister] BY <1>3, <1>t
<1>4. ASSUME NEW p \in menu.producers, Draw(p) \/ Send(p) PROVE pos'[Persister] = pos[Persister] BY <1>4 DEF Draw, Send
<1>5. CASE PersistSentinel BY <1>5, <1>3 DEF PersistSentinel
<1>6. ASSUME NEW c \in Clients,
             \/ Hello(c) \/ BadHello(c) \/ Subscribe(c) \/ Bridge(c) \/ Pump(c) \/ DrawDirect(c)
             \/ SendDirect(c) \/ Answer(c) \/ AnswerSent(c) \/ Hangup(c)
      PROVE  pos'[Persister] = pos[Persister]
  BY <1>6, <1>t DEF Hello, BadHello, Subscribe, Bridge, Pump, DrawDirect, SendDirect, Answer, AnswerSent, Send, Hangup
<1>7. CASE Crash BY <1>7, <1>3 DEF Crash
<1>8. CASE WebStep BY <1>8, <1>3 DEF WebStep, Fan, PumpEnds
<1>9. ASSUME NEW b \in Browsers, Open(b) \/ Connect(b) \/ Event(b) \/ StreamEnds(b) PROVE pos'[Persister] = pos[Persister]
  BY <1>9 DEF Open, Connect, Event, StreamEnds
<1> QED BY <1>1, <1>2, <1>3, <1>4, <1>5, <1>6, <1>7, <1>8, <1>9 DEF Next, PersistStep

LEMMA LogStepInv ==
    ASSUME BusOK, BusOK', LogOK, NumInv, NumInv', LogInv, [Next]_vars
    PROVE  LogInv'
<1> USE ActorFacts
<1> DEFINE p == pos[Persister]
<1>a. LinesOK(bus, log, p) BY DEF LogInv, LinesOK
<1>i. ASSUME LinesOK(bus', log', pos'[Persister]) PROVE LogInv' BY <1>i DEF LogInv, LinesOK
<1>0. CASE UNCHANGED vars BY <1>0, <1>a, <1>i DEF vars, busVars, logVars
<1> SUFFICES ASSUME Next PROVE LogInv' BY <1>0
<1>b. p \in Nat /\ pos'[Persister] \in Nat /\ p <= pos'[Persister] BY Forward
<1>c. bus \in Seq(Envelopes) /\ Len(bus) \in Nat /\ DOMAIN bus = 1 .. Len(bus) /\ menu' = menu
  BY LenProperties DEF BusOK, Next
<1>1. ASSUME NEW a \in Actors, Send(a) PROVE LogInv'
  <2>1. drawn[a] \in Envelopes /\ bus' = Append(bus, drawn[a]) BY <1>1, <1>c, SendType
  <2>2. Inj(Append(bus, drawn[a])) BY <2>1 DEF NumInv
  <2>3. UNCHANGED <<log, pos>> BY <1>1 DEF Send, logVars
  <2>4. LinesOK(Append(bus, drawn[a]), log, p) BY <2>1, <2>2, <1>a, <1>c, LinesSend
  <2> QED BY <2>1, <2>3, <2>4, <1>i
<1>2. CASE bus' = bus /\ log' = log
  <2>1. LinesOK(bus, log, pos'[Persister]) BY <1>a, <1>b, <1>c, LinesFurther
  <2> QED BY <2>1, <1>2, <1>i
\* A write.
<1>3. ASSUME NEW e \in Envelopes, Persist(e), bus' = bus,
             e.k = "bus" => PlaceOn(bus, e) = p /\ p \in 1 .. Len(bus) /\ p < pos'[Persister]
      PROVE  LogInv'
  <2>1. CASE log' = log BY <2>1, <1>2, <1>3
  <2>2. ASSUME NEW torn \in BOOLEAN, log' = AddPiece(log, ended, PieceOf(e, torn)) PROVE LogInv'
    <3> DEFINE x == PieceOf(e, torn)
               ls == log'
    <3>1. x \in Envelopes /\ (x.k = "bus" => x = e)
      <4>1. x \in Envelopes /\ x.k = (IF torn THEN "torn" ELSE e.k) /\ PieceOf(e, FALSE) = e BY PieceFacts
      <4>2. CASE torn = TRUE BY <4>1, <4>2
      <4>3. CASE torn = FALSE BY <4>1, <4>3
      <4> QED BY <4>2, <4>3
    <3>2. Added(log, ended, x, ls) BY <2>2, LogAdds
    <3> HIDE DEF x, ls
    <3>3. NewLine(log, x, ls) \/ Joined(log, x, ls) BY <3>2 DEF Added
    <3> DEFINE q == pos'[Persister]
    <3>4. q \in Nat /\ p <= q /\ (x.k = "bus" => p < q) BY <1>b, <1>3, <3>1
    <3>5. x.k = "bus" => PlaceOn(bus, x) = p /\ p \in 1 .. Len(bus) BY <1>3, <3>1
    <3> HIDE DEF q
    <3>6. LinesOK(bus, ls, q) BY <3>1, <3>3, <3>4, <3>5, <1>a, <1>b, <1>c, LinesAdd
    <3> QED BY <3>6, <1>3, <1>i DEF q, ls
  <2> QED BY <2>1, <2>2, <1>3, PersistCases
<1>4. CASE PersistNext
  <2> DEFINE e == bus[p]
  <2>1. p \in 1 .. Len(bus) /\ e \in Envelopes BY <1>4, ReceivesType DEF PersistNext
  <2>2. PlaceOn(bus, e) = p BY <2>1, <1>c, PlaceIs DEF NumInv
  <2>3. Persist(e) /\ bus' = bus /\ pos'[Persister] = p + 1 BY <1>4 DEF PersistNext, busVars, BusOK
  <2> HIDE DEF e
  <2>4. p < pos'[Persister] BY <2>3, <1>b
  <2> QED BY <2>1, <2>2, <2>3, <2>4, <1>3
<1>5. CASE PersistSentinel
  <2>1. drawn[Persister] \in Envelopes /\ drawn[Persister].k # "bus" BY <1>5 DEF PersistSentinel, BusOK, NumInv
  <2> QED BY <1>5, <2>1, <1>3 DEF PersistSentinel
<1>6. ASSUME NEW e, Messages_(e), bus' = bus PROVE LogInv' BY <1>6, <1>3 DEF Messages_
<1> QED BY <1>1, <1>2, <1>4, <1>5, <1>6, LogSteps, BusMoves DEF logVars

-----------------------------------------------------------------------------
(* What a failed write costs. *)

BadOf(ls) == {i \in DOMAIN ls : ~ Readable(ls[i])}
LooseOf(ls, end) == IF ~ end /\ Readable(ls[Len(ls)]) THEN 1 ELSE 0

LEMMA BadFinite ==
    ASSUME NEW ls, Len(ls) \in Nat, DOMAIN ls = 1 .. Len(ls)
    PROVE  IsFiniteSet(BadOf(ls)) /\ Cardinality(BadOf(ls)) \in Nat
<1>1. IsFiniteSet(1 .. Len(ls)) BY FS_Interval
<1>2. BadOf(ls) \in SUBSET (1 .. Len(ls)) BY DEF BadOf
<1> QED BY <1>1, <1>2, FS_Subset, FS_CardinalityType

LEMMA BadNewLine ==
    ASSUME NEW ls, NEW x, NEW ms, NewLine(ls, x, ms)
    PROVE  /\ x.k = "torn" => BadOf(ms) = BadOf(ls) \cup {Len(ls) + 1} /\ ~ Readable(ms[Len(ms)])
           /\ x.k # "torn" => BadOf(ms) = BadOf(ls) /\ Readable(ms[Len(ms)])
<1> DEFINE y == <<x>>
           n == Len(ls)
<1>1. /\ n \in Nat /\ DOMAIN ls = 1 .. n /\ DOMAIN ms = 1 .. n + 1 /\ Len(ms) = n + 1
      /\ (\A i \in 1 .. n : ms[i] = ls[i]) /\ ms[n + 1] = y
  BY DEF NewLine, Files
<1>2. Readable(y) <=> x.k # "torn"
  <2>1. Len(y) = 1 /\ y[1] = x OBVIOUS
  <2> HIDE DEF y
  <2> QED BY <2>1 DEF Readable
<1> HIDE DEF y, n
<1>3. \A i \in DOMAIN ms : (i \in DOMAIN ls /\ ms[i] = ls[i]) \/ (i = n + 1 /\ ms[i] = y) BY <1>1
<1>4. DOMAIN ls \subseteq DOMAIN ms /\ n + 1 \in DOMAIN ms /\ n + 1 \notin DOMAIN ls BY <1>1
<1>5. CASE x.k = "torn" BY <1>1, <1>2, <1>3, <1>4, <1>5 DEF BadOf, n
<1>6. CASE x.k # "torn" BY <1>1, <1>2, <1>3, <1>4, <1>6 DEF BadOf, n
<1> QED BY <1>5, <1>6

LEMMA BadJoined ==
    ASSUME NEW ls, NEW x, NEW ms, Joined(ls, x, ms), ls[Len(ls)] # <<>>, x \in Envelopes
    PROVE  BadOf(ms) = BadOf(ls) \cup {Len(ls)} /\ ~ Readable(ms[Len(ms)]) /\ Len(ls) \in DOMAIN ls
<1> DEFINE n == Len(ls)
           l == ls[n]
           y == Append(l, x)
<1>1. /\ n \in Nat /\ n > 0 /\ DOMAIN ls = 1 .. n /\ DOMAIN ms = 1 .. n /\ Len(ms) = n
      /\ (\A i \in 1 .. n - 1 : ms[i] = ls[i]) /\ ms[n] = y /\ l \in Seq(Envelopes) /\ l # <<>>
  BY DEF Joined, Files
<1>2. Len(l) \in Nat /\ Len(l) # 0 /\ Len(y) = Len(l) + 1 BY <1>1, LenProperties, EmptySeq, AppendProperties
<1> HIDE DEF y, n, l
<1>3. ~ Readable(y) BY <1>2 DEF Readable
<1>4. n \in DOMAIN ls /\ DOMAIN ms = DOMAIN ls /\ \A i \in DOMAIN ls \ {n} : ms[i] = ls[i] BY <1>1
<1>5. BadOf(ms) = BadOf(ls) \cup {n} BY <1>1, <1>3, <1>4 DEF BadOf
<1> QED BY <1>1, <1>3, <1>4, <1>5 DEF n

LEMMA AddSize ==
    ASSUME NEW S, IsFiniteSet(S), NEW x
    PROVE  /\ Cardinality(S) \in Nat /\ Cardinality(S \cup {x}) \in Nat
           /\ Cardinality(S \cup {x}) <= Cardinality(S) + 1
           /\ x \in S => Cardinality(S \cup {x}) = Cardinality(S)
<1>1. Cardinality(S) \in Nat BY FS_CardinalityType
<1>2. Cardinality(S \cup {x}) = IF x \in S THEN Cardinality(S) ELSE Cardinality(S) + 1 BY FS_AddElement
<1> DEFINE C == Cardinality(S)
           D == Cardinality(S \cup {x})
<1> HIDE DEF C, D
<1>3. C \in Nat /\ D \in {C, C + 1} /\ (x \in S => D = C) BY <1>1, <1>2 DEF C, D
<1>4. D \in Nat /\ D <= C + 1 BY <1>3
<1> QED BY <1>3, <1>4 DEF C, D

LEMMA FaultStepInv ==
    ASSUME BusOK, LogOK, NumInv, FaultInv, [Next]_vars
    PROVE  FaultInv'
<1> USE ActorFacts
<1>a. Cardinality(BadOf(log)) + LooseOf(log, ended) <= faults BY DEF FaultInv, Bad, Loose, BadOf, LooseOf
<1>i. ASSUME Cardinality(BadOf(log')) + LooseOf(log', ended') <= faults' PROVE FaultInv'
  BY <1>i DEF FaultInv, Bad, Loose, BadOf, LooseOf
<1>b. log \in Seq(Seq(Envelopes)) /\ Len(log) \in Nat /\ DOMAIN log = 1 .. Len(log) /\ faults \in Nat
  BY LenProperties, MenuFacts DEF LogOK, BusOK
<1>c. IsFiniteSet(BadOf(log)) /\ Cardinality(BadOf(log)) \in Nat /\ LooseOf(log, ended) \in {0, 1}
  BY <1>b, BadFinite DEF LooseOf
<1>1. CASE UNCHANGED logVars BY <1>1, <1>a, <1>i DEF logVars
<1>2. ASSUME NEW e \in Envelopes, e.k # "torn", Persist(e) PROVE FaultInv'
  <2>1. CASE UNCHANGED <<log, ended>> /\ faults' = faults + 1 BY <2>1, <1>a, <1>b, <1>c, <1>i
  <2>2. ASSUME NEW torn \in BOOLEAN, log' = AddPiece(log, ended, PieceOf(e, torn)),
               \/ ended' = TRUE /\ faults' = faults /\ torn = FALSE
               \/ ended' = FALSE /\ faults < menu.faults /\ faults' = faults + 1
        PROVE  FaultInv'
    <3> DEFINE x == PieceOf(e, torn)
               ls == log'
               n == Len(log)
    <3>1. x \in Envelopes /\ (x.k = "torn" <=> torn = TRUE)
      <4>1. x \in Envelopes /\ x.k = (IF torn THEN "torn" ELSE e.k) BY PieceFacts
      <4>2. CASE torn = TRUE BY <4>1, <4>2
      <4>3. CASE torn = FALSE BY <4>1, <4>3, <1>2
      <4> QED BY <4>2, <4>3
    <3>2. Added(log, ended, x, ls) BY <2>2, LogAdds
    <3>3. LooseOf(ls, TRUE) = 0 /\ (~ Readable(ls[Len(ls)]) => LooseOf(ls, FALSE) = 0) /\ LooseOf(ls, FALSE) \in {0, 1}
      BY DEF LooseOf
    <3>g. ASSUME Cardinality(BadOf(ls)) + LooseOf(ls, ended') <= faults' PROVE FaultInv' BY <3>g, <1>i
    <3>4. CASE NewLine(log, x, ls)
      <4> HIDE DEF x, ls, n
      <4>1. CASE x.k = "torn"
        <5>1. BadOf(ls) = BadOf(log) \cup {Len(log) + 1} /\ ~ Readable(ls[Len(ls)]) BY <3>4, <4>1, BadNewLine
        <5>2. Cardinality(BadOf(ls)) <= Cardinality(BadOf(log)) + 1 BY <5>1, <1>c, AddSize
        <5>3. Cardinality(BadOf(ls)) \in Nat BY <5>1, <1>c, FS_AddElement, FS_CardinalityType
        <5>4. ended' = FALSE /\ faults' = faults + 1 BY <2>2, <3>1, <4>1
        <5>5. LooseOf(ls, ended') = 0 BY <5>1, <5>4, <3>3
        <5> QED BY <5>2, <5>3, <5>4, <5>5, <1>a, <1>b, <1>c, <3>g
      <4>2. CASE x.k # "torn"
        <5>1. BadOf(ls) = BadOf(log) BY <3>4, <4>2, BadNewLine
        <5> DEFINE B == Cardinality(BadOf(log))
                   M == LooseOf(log, ended)
        <5>0. B \in Nat /\ M \in {0, 1} /\ B + M <= faults /\ Cardinality(BadOf(ls)) = B BY <5>1, <1>a, <1>c
        <5> HIDE DEF B, M
        <5>2. CASE ended' = TRUE /\ faults' = faults
          <6>1. LooseOf(ls, ended') = 0 BY <5>2, <3>3
          <6>2. B + 0 <= faults BY <5>0, <1>b
          <6> QED BY <6>1, <6>2, <5>0, <5>2, <3>g
        <5>3. CASE ended' = FALSE /\ faults' = faults + 1
          <6> DEFINE K == LooseOf(ls, ended')
          <6>1. K \in {0, 1} BY <5>3, <3>3
          <6> HIDE DEF K
          <6>2. B + K <= faults + 1 BY <6>1, <5>0, <1>b
          <6> QED BY <6>2, <5>0, <5>3, <3>g DEF K
        <5> QED BY <5>2, <5>3, <2>2
      <4> QED BY <4>1, <4>2
    <3>5. CASE ~ ended /\ Joined(log, x, ls)
      <4>0. n > 0 /\ log[n] # <<>> BY <3>5, <1>b DEF LogOK, Joined
      <4> HIDE DEF x, ls
      <4>1. BadOf(ls) = BadOf(log) \cup {n} /\ ~ Readable(ls[Len(ls)]) /\ n \in DOMAIN log
        BY <3>1, <3>5, <4>0, BadJoined
      <4>2. LooseOf(ls, ended') = 0 BY <4>1, <3>3, <2>2
      <4>3. Cardinality(BadOf(ls)) <= Cardinality(BadOf(log)) + LooseOf(log, ended)
        <5>1. CASE Readable(log[n])
          <6>1. LooseOf(log, ended) = 1 BY <3>5, <5>1 DEF LooseOf
          <6>2. Cardinality(BadOf(ls)) <= Cardinality(BadOf(log)) + 1 BY <4>1, <1>c, AddSize
          <6> QED BY <6>1, <6>2
        <5>2. CASE ~ Readable(log[n])
          <6>1. n \in BadOf(log) BY <4>1, <5>2 DEF BadOf
          <6>2. Cardinality(BadOf(ls)) = Cardinality(BadOf(log)) BY <6>1, <4>1, <1>c, AddSize
          <6> QED BY <6>2, <1>c
        <5> QED BY <5>1, <5>2
      <4>4. Cardinality(BadOf(ls)) \in Nat BY <4>1, <1>c, FS_AddElement, FS_CardinalityType
      <4>5. faults' = faults \/ faults' = faults + 1 BY <2>2
      <4> QED BY <4>2, <4>3, <4>4, <4>5, <1>a, <1>b, <1>c, <3>g
    <3> QED BY <3>2, <3>4, <3>5 DEF Added
  <2> QED BY <1>2, <2>1, <2>2, PersistCases
<1>3. CASE PersistNext
  <2>1. pos[Persister] \in 1 .. Len(bus) /\ bus[pos[Persister]] \in Envelopes BY <1>3, ReceivesType DEF PersistNext
  <2>2. bus[pos[Persister]].k = "bus" BY <2>1, LenProperties DEF NumInv, BusOK
  <2> QED BY <1>3, <2>1, <2>2, <1>2 DEF PersistNext
<1>4. CASE PersistSentinel
  <2>1. drawn[Persister] \in Envelopes /\ drawn[Persister].k = "gap" BY <1>4 DEF PersistSentinel, BusOK, NumInv
  <2> QED BY <1>4, <2>1, <1>2 DEF PersistSentinel
<1>5. ASSUME NEW e, Messages_(e) PROVE FaultInv' BY <1>5, <1>2 DEF Messages_
<1>6. CASE UNCHANGED vars BY <1>6, <1>1 DEF vars
<1> QED BY <1>1, <1>3, <1>4, <1>5, <1>6, LogSteps

-----------------------------------------------------------------------------
(* The holes of the log. *)

LEMMA ToldNew ==
    ASSUME NEW ls, NEW x, NEW ms, NewLine(ls, x, ms)
    PROVE  /\ \A i \in 1 .. Len(ls) : Told(ms, i) = Told(ls, i)
           /\ Told(ms, Len(ls) + 1) = Told(ls, Len(ls)) \cup ({Len(ls) + 1} \X (1 .. Tells(x)))
<1> DEFINE y == <<x>>
           n == Len(ls)
           P(l, i) == {i} \X (1 .. Tells(l[i][1]))
<1>1. n \in Nat /\ (\A i \in 1 .. n : ms[i] = ls[i]) /\ ms[n + 1] = y /\ y[1] = x
  BY DEF NewLine, Files
<1>2. \A l, i : Told(l, i) = UNION {P(l, j) : j \in 1 .. i} BY DEF Told
<1> HIDE DEF n, y
<1>3. \A i \in 1 .. n : P(ms, i) = P(ls, i) BY <1>1
<1>4. P(ms, n + 1) = {n + 1} \X (1 .. Tells(x)) BY <1>1
<1> HIDE DEF P
<1>5. ASSUME NEW i \in 1 .. n PROVE Told(ms, i) = Told(ls, i)
  <2>1. \A j \in 1 .. i : j \in 1 .. n BY <1>1
  <2> QED BY <2>1, <1>2, <1>3
<1>6. UNION {P(ms, j) : j \in 1 .. n + 1} = (UNION {P(ls, j) : j \in 1 .. n}) \cup P(ms, n + 1)
  <2>1. \A j : j \in 1 .. n + 1 <=> j \in 1 .. n \/ j = n + 1 BY <1>1
  <2> QED BY <2>1, <1>3
<1> QED BY <1>2, <1>4, <1>5, <1>6 DEF n

LEMMA ToldJoined ==
    ASSUME NEW ls, NEW x \in Envelopes, NEW ms, Joined(ls, x, ms), ls[Len(ls)] # <<>>
    PROVE  Told(ms, Len(ms)) = Told(ls, Len(ls))
<1> DEFINE n == Len(ls)
           l == ls[n]
           y == Append(l, x)
           P(k, i) == {i} \X (1 .. Tells(k[i][1]))
<1>1. /\ n \in Nat /\ Len(ms) = n /\ (\A i \in 1 .. n - 1 : ms[i] = ls[i]) /\ ms[n] = y
      /\ l \in Seq(Envelopes) /\ l # <<>>
  BY DEF Joined, Files
<1>2. y[1] = l[1]
  <2>1. Len(l) \in Nat /\ Len(l) # 0 BY <1>1, LenProperties, EmptySeq
  <2>2. 1 \in 1 .. Len(l) BY <2>1
  <2> QED BY <1>1, <2>2, AppendProperties
<1>3. \A k, i : Told(k, i) = UNION {P(k, j) : j \in 1 .. i} BY DEF Told
<1> HIDE DEF y
<1>4. ms[n][1] = ls[n][1] BY <1>1, <1>2
<1> HIDE DEF n, l
<1>5. \A i \in 1 .. n : ms[i][1] = ls[i][1]
  <2>1. \A i \in 1 .. n : i \in 1 .. n - 1 \/ i = n BY <1>1
  <2> QED BY <2>1, <1>1, <1>4
<1>6. \A i \in 1 .. n : P(ms, i) = P(ls, i) BY <1>5
<1> HIDE DEF P
<1>7. Told(ms, n) = Told(ls, n) BY <1>3, <1>6
<1> QED BY <1>1, <1>7 DEF n

LEMMA TellsType == ASSUME NEW e \in Envelopes PROVE Tells(e) \in Nat
BY EnvFacts DEF Tells

\* A new line tells of Tells(x) more places.
LEMMA ToldMore ==
    ASSUME NEW ls, NEW x \in Envelopes, NEW ms, NewLine(ls, x, ms), IsFiniteSet(Told(ls, Len(ls)))
    PROVE  /\ IsFiniteSet(Told(ms, Len(ms))) /\ Cardinality(Told(ls, Len(ls))) \in Nat
           /\ Cardinality(Told(ms, Len(ms))) = Cardinality(Told(ls, Len(ls))) + Tells(x)
<1> DEFINE n == Len(ls)
           k == Tells(x)
           A == {n + 1} \X (1 .. k)
           S == Told(ls, n)
<1>1. k \in Nat BY TellsType
<1>2. Told(ms, n + 1) = S \cup A /\ Len(ms) = n + 1 BY ToldNew DEF NewLine
<1>3. n \in Nat BY DEF NewLine, Files
<1>4. IsFiniteSet(A) /\ Cardinality(A) = k
  <2>1. IsFiniteSet(1 .. k) /\ Cardinality(1 .. k) = k BY <1>1, FS_Interval
  <2>2. IsFiniteSet({n + 1}) /\ Cardinality({n + 1}) = 1 BY FS_Singleton
  <2> HIDE DEF k, n
  <2>3. Cardinality(A) = 1 * k /\ IsFiniteSet(A) BY <2>1, <2>2, FS_Product
  <2> QED BY <2>3, <1>1
<1>5. S \cap A = {}
  <2>1. \A t \in S : t[1] \in 1 .. n BY DEF Told
  <2>2. \A t \in A : t[1] = n + 1 OBVIOUS
  <2> HIDE DEF S, A, n
  <2>3. n + 1 \notin 1 .. n BY <1>3
  <2> QED BY <2>1, <2>2, <2>3
<1>6. IsFiniteSet(S) /\ Cardinality(S) \in Nat BY FS_CardinalityType
<1> HIDE DEF S, A, n, k
<1>7. IsFiniteSet(S \cup A) /\ Cardinality(S \cup A) = Cardinality(S) + k - Cardinality(S \cap A)
  BY <1>4, <1>6, FS_Union
<1>8. Cardinality(S \cap A) = 0 BY <1>5, FS_EmptySet
<1>9. Cardinality(S \cup A) = Cardinality(S) + k BY <1>1, <1>6, <1>7, <1>8
<1> QED BY <1>2, <1>6, <1>7, <1>9 DEF S, k, n

HolesOK(b, ls) == \A i \in DOMAIN ls : /\ Readable(ls[i])
                                       /\ ls[i][1].k = "bus" => PlaceOn(b, ls[i][1]) = Cardinality(Told(ls, i))

LEMMA HolesAdd ==
    ASSUME NEW b, NEW ls, NEW x \in Envelopes, x.k # "torn", NEW ms, NewLine(ls, x, ms), HolesOK(b, ls),
           x.k = "bus" => PlaceOn(b, x) = Cardinality(Told(ms, Len(ms)))
    PROVE  HolesOK(b, ms)
<1> DEFINE y == <<x>>
           n == Len(ls)
<1>1. /\ n \in Nat /\ DOMAIN ls = 1 .. n /\ DOMAIN ms = 1 .. n + 1 /\ Len(ms) = n + 1
      /\ (\A i \in 1 .. n : ms[i] = ls[i]) /\ ms[n + 1] = y
  BY DEF NewLine, Files
<1>2. Len(y) = 1 /\ y[1] = x OBVIOUS
<1>3. \A i \in 1 .. n : Told(ms, i) = Told(ls, i) BY ToldNew
<1> HIDE DEF y, n
<1> SUFFICES ASSUME NEW i \in DOMAIN ms
             PROVE  /\ Readable(ms[i])
                    /\ ms[i][1].k = "bus" => PlaceOn(b, ms[i][1]) = Cardinality(Told(ms, i))
  BY DEF HolesOK
<1>4. CASE i \in 1 .. n
  <2>1. i \in DOMAIN ls /\ ms[i] = ls[i] /\ Told(ms, i) = Told(ls, i) BY <1>1, <1>3, <1>4
  <2> QED BY <2>1 DEF HolesOK
<1>5. CASE i = n + 1
  <2>1. ms[i] = y /\ i = Len(ms) BY <1>1, <1>5
  <2> QED BY <2>1, <1>2 DEF Readable
<1>6. i \in 1 .. n \/ i = n + 1 BY <1>1
<1> QED BY <1>4, <1>5, <1>6

LEMMA HolesSend ==
    ASSUME NEW b \in Seq(Envelopes), NEW x \in Envelopes, Inj(Append(b, x)), NEW ls, HolesOK(b, ls),
           \A i \in DOMAIN ls : OnBus(b, ls[i])
    PROVE  HolesOK(Append(b, x), ls)
<1> SUFFICES ASSUME NEW i \in DOMAIN ls
             PROVE  /\ Readable(ls[i])
                    /\ ls[i][1].k = "bus" => PlaceOn(Append(b, x), ls[i][1]) = Cardinality(Told(ls, i))
  BY DEF HolesOK
<1>1. Readable(ls[i]) /\ (ls[i][1].k = "bus" => PlaceOn(b, ls[i][1]) = Cardinality(Told(ls, i))) BY DEF HolesOK
<1>2. ls[i][1].k = "bus" => PlaceOn(b, ls[i][1]) \in 1 .. Len(b)
  <2>1. OnBus(b, ls[i]) OBVIOUS
  <2>2. 1 \in DOMAIN ls[i] BY <1>1 DEF Readable
  <2> QED BY <2>1, <2>2 DEF OnBus
<1> QED BY <1>1, <1>2, PlaceStays

\* What the persistence task does when it does not write: nothing, announce a gap, or die.
LEMMA PersisterMoves ==
    ASSUME BusOK, NumInv, Next
    PROVE  \/ UNCHANGED up /\ pos'[Persister] = pos[Persister] /\ drawn'[Persister] = drawn[Persister]
           \/ PersistNext \/ PersistSentinel \/ PersistGap \/ up' = FALSE
<1> USE ActorFacts, MenuFacts
<1> DEFINE Still == UNCHANGED up /\ pos'[Persister] = pos[Persister] /\ drawn'[Persister] = drawn[Persister]
<1>t. pos \in [{Persister} \cup Clients -> Nat] /\ drawn \in [Actors -> Envelopes \cup {NoEnv}]
      /\ menu.producers \subseteq Producers
  BY DEF BusOK
<1>1. ASSUME NEW p \in menu.producers, Draw(p) \/ Send(p) PROVE Still
  <2>1. p # Persister /\ p \in Actors BY <1>t
  <2> QED BY <1>1, <2>1, <1>t DEF Draw, Send, NextSeq
<1>2. ASSUME NEW c \in Clients, Hello(c) \/ BadHello(c) PROVE Still BY <1>2 DEF Hello, BadHello
<1>3. ASSUME NEW c \in Clients, Subscribe(c) \/ Bridge(c) \/ Pump(c) PROVE Still
  BY <1>3, <1>t DEF Subscribe, Bridge, Pump, busVars
<1>4. ASSUME NEW c \in Clients, DrawDirect(c) \/ Answer(c) PROVE Still
  BY <1>4, <1>t DEF DrawDirect, Answer, NextSeq
<1>5. ASSUME NEW c \in Clients, SendDirect(c) \/ AnswerSent(c) \/ Hangup(c) PROVE Still
  BY <1>5, <1>t DEF SendDirect, AnswerSent, Send, Hangup
<1>6. CASE Crash BY <1>6 DEF Crash
<1>7. CASE WebStep BY <1>7 DEF WebStep, Fan, PumpEnds, busVars
<1>8. ASSUME NEW b \in Browsers, Open(b) \/ Connect(b) \/ Event(b) \/ StreamEnds(b) PROVE Still
  BY <1>8 DEF Open, Connect, DialWeb, Event, StreamEnds, busVars
<1> QED BY <1>1, <1>2, <1>3, <1>4, <1>5, <1>6, <1>7, <1>8 DEF Next, PersistStep

Balance == up => pos[Persister] - 1 = Cardinality(Told(log, Len(log))) + drawn[Persister].n

LEMMA HoleStep ==
    ASSUME BusOK, BusOK', LogOK, LogOK', NumInv, NumInv', LogInv, HoleInv, [Next]_vars
    PROVE  HoleInv'
<1> USE ActorFacts
<1> DEFINE S == Told(log, Len(log))
           p == pos[Persister]
           g == drawn[Persister]
<1>i. ASSUME IsFiniteSet(Told(log', Len(log'))), faults' = 0 => ended', faults' = 0 => HolesOK(bus', log') /\ Balance'
      PROVE  HoleInv'
  BY <1>i DEF HoleInv, HolesAreAnnounced, HolesOK, Balance, Before, At
<1>a. IsFiniteSet(S) /\ Cardinality(S) \in Nat /\ (faults = 0 => ended) /\ (faults = 0 => HolesOK(bus, log) /\ Balance)
  BY FS_CardinalityType DEF HoleInv, HolesAreAnnounced, HolesOK, Balance, Before, At
<1>0. CASE UNCHANGED vars BY <1>0, <1>a, <1>i DEF vars, busVars, logVars, Balance
<1> SUFFICES ASSUME Next PROVE HoleInv' BY <1>0
<1>b. faults \in Nat /\ faults' \in Nat /\ p \in Nat /\ menu' = menu BY MenuFacts DEF LogOK, BusOK, Next
<1>c. g \in Envelopes \cup {NoEnv} /\ g.n \in Nat BY EnvFacts DEF BusOK, NoEnv
<1>d. bus \in Seq(Envelopes) /\ Len(bus) \in Nat /\ DOMAIN bus = 1 .. Len(bus) /\ Inj(bus)
  BY LenProperties DEF BusOK, NumInv
\* A write; it fails, or the line is whole and the account stays balanced.
<1>w. ASSUME NEW e \in Envelopes, e.k # "torn", Persist(e), bus' = bus, up' = up,
             faults = 0 /\ up /\ e.k = "bus" => PlaceOn(bus, e) = Cardinality(S) + 1, e.k = "bus" => up,
             faults = 0 /\ up => pos'[Persister] - 1 = Cardinality(S) + Tells(e) + drawn'[Persister].n
      PROVE  HoleInv'
  <2>1. CASE UNCHANGED <<log, ended>> /\ faults' = faults + 1
    <3>1. faults' # 0 BY <2>1, <1>b
    <3> QED BY <2>1, <3>1, <1>a, <1>i
  <2>2. ASSUME NEW torn \in BOOLEAN, log' = AddPiece(log, ended, PieceOf(e, torn)),
               \/ ended' = TRUE /\ faults' = faults /\ torn = FALSE
               \/ ended' = FALSE /\ faults < menu.faults /\ faults' = faults + 1
        PROVE  HoleInv'
    <3> DEFINE x == PieceOf(e, torn)
               ls == log'
    <3>1. x \in Envelopes /\ (torn = FALSE => x = e) BY PieceFacts
    <3>2. Added(log, ended, x, ls) BY <2>2, LogAdds
    <3>3. IsFiniteSet(Told(ls, Len(ls)))
      <4>1. CASE NewLine(log, x, ls)
        <5> HIDE DEF x, ls
        <5> QED BY <4>1, <3>1, <1>a, ToldMore
      <4>2. CASE Joined(log, x, ls)
        <5>0. Len(log) \in DOMAIN log
          <6>1. Len(log) \in Nat /\ Len(log) > 0 /\ DOMAIN log = 1 .. Len(log) BY <4>2 DEF Joined, Files
          <6> QED BY <6>1
        <5>1. log[Len(log)] # <<>> BY <5>0 DEF LogOK
        <5> HIDE DEF x, ls
        <5>2. Told(ls, Len(ls)) = S BY <4>2, <5>1, <3>1, ToldJoined
        <5> QED BY <5>2, <1>a
      <4> QED BY <4>1, <4>2, <3>2 DEF Added
    <3>4. CASE faults' # 0 BY <3>3, <3>4, <1>i
    <3>5. CASE faults' = 0
      <4>1. faults = 0 /\ ended' = TRUE /\ torn = FALSE BY <2>2, <3>5, <1>b
      <4>2. ended /\ HolesOK(bus, log) BY <4>1, <1>a
      <4>3. x = e BY <3>1, <4>1
      <4>4. NewLine(log, e, ls) BY <3>2, <4>2, <4>3 DEF Added
      <4> HIDE DEF x, ls
      <4>5. Cardinality(Told(ls, Len(ls))) = Cardinality(S) + Tells(e) BY <4>4, <1>a, ToldMore
      <4>6. e.k = "bus" => PlaceOn(bus, e) = Cardinality(Told(ls, Len(ls))) BY <4>1, <4>5, <1>w DEF Tells
      <4>7. HolesOK(bus, ls) BY <4>2, <4>4, <4>6, <1>w, HolesAdd
      <4>8. up => pos'[Persister] - 1 = Cardinality(Told(ls, Len(ls))) + drawn'[Persister].n BY <4>1, <4>5, <1>w
      <4>9. Balance' BY <4>8, <1>w DEF Balance, ls
      <4> QED BY <3>3, <4>1, <4>7, <4>9, <1>w, <1>i DEF ls
    <3> QED BY <3>4, <3>5
  <2> QED BY <1>w, <2>1, <2>2, PersistCases
<1>1. CASE PersistNext
  <2> DEFINE e == bus[p]
  <2>1. p \in 1 .. Len(bus) /\ e \in Envelopes BY <1>1, ReceivesType DEF PersistNext
  <2>2. e.k = "bus" /\ PlaceOn(bus, e) = p BY <2>1, <1>d, PlaceIs DEF NumInv
  <2>3. Persist(e) /\ bus' = bus /\ up' = up /\ pos'[Persister] = p + 1 /\ drawn' = drawn /\ g = NoEnv
    BY <1>1 DEF PersistNext, busVars, BusOK
  <2>4. drawn'[Persister].n = 0 /\ g.n = 0 BY <2>3 DEF NoEnv
  <2>5. up BY <1>1 DEF PersistNext, Receives
  <2> HIDE DEF e
  <2>6. faults = 0 => p - 1 = Cardinality(S) + 0 BY <2>4, <2>5, <1>a DEF Balance
  <2>7. Tells(e) = 1 BY <2>2 DEF Tells
  <2>8. faults = 0 => PlaceOn(bus, e) = Cardinality(S) + 1 BY <2>2, <2>6, <1>a, <1>b
  <2>9. faults = 0 => pos'[Persister] - 1 = Cardinality(S) + Tells(e) + drawn'[Persister].n
    BY <2>3, <2>4, <2>6, <2>7, <1>a, <1>b
  <2> QED BY <2>1, <2>2, <2>3, <2>5, <2>8, <2>9, <1>w
<1>2. CASE PersistSentinel
  <2>1. g \in Envelopes /\ g.k = "gap" BY <1>2 DEF PersistSentinel, BusOK, NumInv
  <2>2. Persist(g) /\ bus' = bus /\ up' = up /\ up /\ pos' = pos BY <1>2 DEF PersistSentinel
  <2>3. drawn'[Persister] = NoEnv BY <1>2 DEF PersistSentinel, BusOK
  <2>4. drawn'[Persister].n = 0 BY <2>3 DEF NoEnv
  <2>5. Tells(g) = g.n BY <2>1 DEF Tells
  <2>6. faults = 0 => p - 1 = Cardinality(S) + g.n BY <2>2, <1>a DEF Balance
  <2> HIDE DEF g
  <2>7. faults = 0 => pos'[Persister] - 1 = Cardinality(S) + Tells(g) + drawn'[Persister].n
    BY <2>2, <2>4, <2>5, <2>6, <1>a, <1>b, <1>c
  <2> QED BY <2>1, <2>2, <2>7, <1>w
<1>3. ASSUME NEW e, Messages_(e), UNCHANGED <<bus, pos, up>>, drawn'[Persister] = g PROVE HoleInv'
  <2>1. e \in Envelopes /\ e.k = "direct" /\ Tells(e) = 0 /\ Persist(e) BY <1>3 DEF Messages_, Tells
  <2>2. faults = 0 /\ up => pos'[Persister] - 1 = Cardinality(S) + Tells(e) + drawn'[Persister].n
    BY <2>1, <1>3, <1>a, <1>b, <1>c DEF Balance
  <2> QED BY <2>1, <2>2, <1>3, <1>w
<1>4. CASE UNCHANGED logVars /\ ~ PersistNext /\ ~ PersistSentinel
  <2>1. UNCHANGED <<log, ended, faults>> BY <1>4 DEF logVars
  <2>2. faults = 0 => HolesOK(bus', log)
    <3>1. CASE bus' = bus BY <3>1, <1>a
    <3>2. ASSUME NEW a \in Actors, Send(a) PROVE faults = 0 => HolesOK(bus', log)
      <4>1. drawn[a] \in Envelopes /\ bus' = Append(bus, drawn[a]) BY <3>2, <1>b, SendType
      <4>2. Inj(Append(bus, drawn[a])) BY <4>1 DEF NumInv
      <4>3. \A i \in DOMAIN log : OnBus(bus, log[i]) BY DEF LogInv, Good
      <4>4. faults = 0 => HolesOK(Append(bus, drawn[a]), log) BY <4>1, <4>2, <4>3, <1>a, <1>d, HolesSend
      <4> QED BY <4>1, <4>4
    <3> QED BY <3>1, <3>2, BusMoves
  <2>3. faults = 0 => Balance'
    <3>1. CASE UNCHANGED up /\ pos'[Persister] = p /\ drawn'[Persister] = g BY <3>1, <2>1, <1>a DEF Balance
    <3>2. CASE PersistGap
      <4> DEFINE n == Behind(Persister).n
                 o == Behind(Persister).to
      <4>1. n \in Nat /\ o \in 1 .. Len(bus) + 1 BY <3>2, BehindType DEF PersistGap
      <4>2. o - p = n BY DEF Behind
      <4>3. pos'[Persister] = o /\ up' = up /\ up /\ g = NoEnv BY <3>2 DEF PersistGap, NextSeq, BusOK
      <4>4. drawn'[Persister].n = n BY <3>2 DEF PersistGap, NextSeq, BusOK
      <4>5. g.n = 0 BY <4>3 DEF NoEnv
      <4> HIDE DEF n, o
      <4>6. faults = 0 => p - 1 = Cardinality(S) + 0 BY <4>3, <4>5, <1>a DEF Balance
      <4>7. o \in Nat BY <4>1, <1>d
      <4>8. faults = 0 => o - 1 = Cardinality(S) + n BY <4>1, <4>2, <4>6, <4>7, <1>a, <1>b
      <4> QED BY <4>3, <4>4, <4>8, <2>1 DEF Balance
    <3>3. CASE up' = FALSE BY <3>3 DEF Balance
    <3> QED BY <3>1, <3>2, <3>3, <1>4, PersisterMoves
  <2> QED BY <2>1, <2>2, <2>3, <1>a, <1>i
<1> QED BY <1>1, <1>2, <1>3, <1>4, LogSteps

-----------------------------------------------------------------------------
(* The invariant of the stream. *)

LEMMA StreamInit == Init => StreamInv
<1> SUFFICES ASSUME Init PROVE StreamInv OBVIOUS
<1> USE ActorFacts
<1> DEFINE z == <<>>
<1>1. z \in Seq(Envelopes) /\ z \in Seq(Seq(Envelopes)) /\ Len(z) = 0 /\ DOMAIN z = {} BY EmptySeq
<1>2. /\ bus = z /\ log = z /\ chan = z /\ queue = [c \in Clients |-> z] /\ wire = [c \in Clients |-> z]
      /\ tab = [b \in Browsers |-> NoTab] /\ NoTab = [gen |-> None, next |-> 1, got |-> z]
  BY DEF Init, NoTab
<1>g. Good(bus, z) /\ (\A p : Under(bus, z, p)) /\ \A es : AllBefore(bus, es, z) /\ AllBefore(bus, z, es)
  BY EmptyIsGood
<1> HIDE DEF z
<1>3. BusOK BY <1>1, <1>2, CapFacts DEF BusOK, Init, None
<1>4. LogOK BY <1>1, <1>2, <1>3, MenuFacts DEF LogOK, Init, BusOK
<1>5. ConnOK
  <2>1. 0 \in 0 .. menu.dials BY <1>3, MenuFacts DEF BusOK
  <2> QED BY <1>1, <1>2, <2>1, CapFacts DEF ConnOK, Init
<1>6. WebOK
  <2>1. NoTab \in [gen : 0 .. 0, next : Nat, got : Seq(Envelopes)] BY <1>1, <1>2 DEF None
  <2>2. wire[Web] = z BY <1>2
  <2> QED BY <1>1, <1>2, <2>1, <2>2 DEF WebOK, Init, None
<1>7. NumInv
  <2>1. \A a \in Actors : drawn[a] = NoEnv BY DEF Init
  <2> QED BY <1>1, <1>2, <2>1 DEF NumInv, Inj
<1>8. ASSUME NEW c \in Clients PROVE ClientInv(c)
  <2>1. queue[c] = z /\ wire[c] = z /\ conn[c] = "off" BY <1>2 DEF Init
  <2> QED BY <2>1, <1>g DEF ClientInv
<1>9. WebInv
  <2>1. ASSUME NEW b \in Browsers PROVE TabInv(b)
    <3>1. tab[b].got = z /\ tab[b].gen = None BY <1>2
    <3> QED BY <3>1, <1>1, <1>g DEF TabInv
  <2> QED BY <2>1, <1>1, <1>2 DEF WebInv
<1>10. LogInv BY <1>1, <1>2 DEF LogInv
<1>11. HoleInv
  <2>1. Told(log, Len(log)) = {} BY <1>1, <1>2 DEF Told
  <2>2. IsFiniteSet(Told(log, Len(log))) /\ Cardinality(Told(log, Len(log))) = 0 BY <2>1, FS_EmptySet
  <2>3. ended = TRUE /\ pos[Persister] = 1 /\ drawn[Persister].n = 0 BY DEF Init, NoEnv
  <2>4. pos[Persister] - 1 = Before(Len(log)) + drawn[Persister].n BY <2>2, <2>3 DEF Before
  <2> QED BY <2>2, <2>3, <2>4, <1>1, <1>2 DEF HoleInv, HolesAreAnnounced
<1>12. FaultInv
  <2>1. Bad = {} BY <1>1, <1>2 DEF Bad
  <2>2. Cardinality(Bad) = 0 BY <2>1, FS_EmptySet
  <2>3. Loose = 0 /\ faults = 0 BY DEF Loose, Init
  <2> QED BY <2>2, <2>3 DEF FaultInv
<1> QED BY <1>3, <1>4, <1>5, <1>6, <1>7, <1>8, <1>9, <1>10, <1>11, <1>12 DEF StreamInv, StreamOK

LEMMA StreamStep == StreamInv /\ [Next]_vars => StreamInv'
<1> SUFFICES ASSUME StreamInv, [Next]_vars PROVE StreamInv' OBVIOUS
<1>1. /\ BusOK /\ LogOK /\ ConnOK /\ WebOK /\ NumInv /\ (\A c \in Clients : ClientInv(c)) /\ WebInv
      /\ LogInv /\ HoleInv /\ FaultInv
  BY DEF StreamInv, StreamOK
<1>2. BusOK' BY <1>1, BusStep
<1>3. LogOK' BY <1>1, LogOKStep
<1>4. ConnOK' BY <1>1, ConnStep
<1>5. WebOK' BY <1>1, WebOKStep
<1>6. NumInv' BY <1>1, <1>2, NumStep
<1>7. ASSUME NEW c \in Clients PROVE ClientInv(c)' BY <1>1, <1>2, <1>6, ClientStep
<1>8. WebInv' BY <1>1, <1>2, <1>6, WebStepInv, ActorFacts
<1>9. LogInv' BY <1>1, <1>2, <1>6, LogStepInv
<1>10. HoleInv' BY <1>1, <1>2, <1>3, <1>6, HoleStep
<1>11. FaultInv' BY <1>1, FaultStepInv
<1> QED BY <1>2, <1>3, <1>4, <1>5, <1>6, <1>7, <1>8, <1>9, <1>10, <1>11 DEF StreamInv, StreamOK

\* What is on its way to a reader is in the bus's order, ahead of its place on the bus and
\* behind what it was shown: through lags, full queues, lost connections and failed writes.
THEOREM StreamInvariant == Spec => []StreamInv
BY StreamInit, StreamStep, PTL DEF Spec

\* events.jsonl announces every hole where it is and how large, as long as no write failed,
\* and a failed write costs at most one line more (the persistence task of DispatchState::new).
THEOREM LogStaysTrue == Spec => []LogIsTrue
<1>1. StreamInv => LogIsTrue
  <2> SUFFICES ASSUME StreamInv PROVE LogIsTrue OBVIOUS
  <2>1. BusOK /\ LogOK /\ ConnOK /\ WebOK /\ HoleInv /\ FaultInv BY DEF StreamInv, StreamOK
  <2>2. TypeOK
    <3>1. /\ menu \in Menus /\ seq \in Nat /\ drawn \in [Actors -> Envelopes \cup {NoEnv}]
          /\ \A i \in DOMAIN bus : bus[i] \in Envelopes
      BY <2>1, LenProperties, ElementOfSeq DEF BusOK
    <3>2. pos \in [{Persister} \cup Clients -> Nat] /\ up \in BOOLEAN BY <2>1 DEF BusOK
    <3>3. \A i \in DOMAIN log : log[i] # <<>> /\ \A j \in DOMAIN log[i] : log[i][j] \in Envelopes
      <4>1. ASSUME NEW i \in DOMAIN log PROVE log[i] # <<>> /\ log[i] \in Seq(Envelopes)
        BY <2>1, LenProperties, ElementOfSeq DEF LogOK
      <4>2. ASSUME NEW i \in DOMAIN log, NEW j \in DOMAIN log[i] PROVE log[i][j] \in Envelopes
        BY <4>1, LenProperties, ElementOfSeq
      <4> QED BY <4>1, <4>2
    <3>4. ended \in BOOLEAN /\ faults \in 0 .. menu.faults BY <2>1 DEF LogOK
    <3>5. /\ conn \in [Clients -> {"off", "hello", "live"}] /\ dials \in [Clients -> 0 .. menu.dials]
          /\ (\A c \in Clients : Len(queue[c]) <= QueueCap) /\ slot \in menu.writers \cup {None}
      BY <2>1 DEF ConnOK
    <3>6. /\ gen \in 0 .. gens /\ gens \in Nat /\ pumped \in 0 .. Len(wire[Web])
          /\ \A b \in Browsers : tab[b].gen \in 0 .. gens
      BY <2>1 DEF WebOK
    <3> QED BY <3>1, <3>2, <3>3, <3>4, <3>5, <3>6 DEF TypeOK
  <2>3. HolesAreAnnounced BY <2>1 DEF HoleInv
  <2>4. FaultsStayLocal
    <3>1. Len(log) \in Nat /\ DOMAIN log = 1 .. Len(log) /\ faults \in Nat BY <2>1, LenProperties, MenuFacts DEF LogOK, BusOK
    <3>2. Cardinality(Bad) \in Nat BY <3>1, BadFinite DEF Bad, BadOf
    <3>3. Cardinality(Bad) + Loose <= faults /\ Loose \in {0, 1} BY <2>1 DEF FaultInv, Loose
    <3> DEFINE B == Cardinality(Bad)
    <3> HIDE DEF B
    <3>4. B <= faults BY <3>1, <3>2, <3>3 DEF B
    <3> QED BY <3>4 DEF FaultsStayLocal, Bad, B
  <2> QED BY <2>2, <2>3, <2>4 DEF LogIsTrue
<1> QED BY <1>1, StreamInvariant, PTL

-----------------------------------------------------------------------------
(* The refinement: what the readers have been shown. *)

Mark(b, ls, i, j) == [at |-> <<i, j>>, ev |-> PlaceOn(b, ls[i][j])]
Posn(ls, i, j) == i \in DOMAIN ls /\ j \in DOMAIN ls[i]

LEMMA ShownIs ==
    ASSUME NEW b, NEW ls, NEW x
    PROVE  x \in Shown(b, ls) <=> \E i \in DOMAIN ls : \E j \in DOMAIN ls[i] : ls[i][j].k = "bus" /\ x = Mark(b, ls, i, j)
<1>1. \A i : x \in OnLine(b, ls, i) <=> \E j \in DOMAIN ls[i] : ls[i][j].k = "bus" /\ x = Mark(b, ls, i, j)
  BY DEF OnLine, Mark
<1> QED BY <1>1 DEF Shown

\* A message that is sent moves nothing a reader has seen.
LEMMA ShownStays ==
    ASSUME NEW b \in Seq(Envelopes), NEW x \in Envelopes, Inj(Append(b, x)), NEW ls, \A i \in DOMAIN ls : OnBus(b, ls[i])
    PROVE  Shown(Append(b, x), ls) = Shown(b, ls)
<1>1. ASSUME NEW i \in DOMAIN ls, NEW j \in DOMAIN ls[i], ls[i][j].k = "bus" PROVE Mark(Append(b, x), ls, i, j) = Mark(b, ls, i, j)
  <2>1. PlaceOn(b, ls[i][j]) \in 1 .. Len(b) BY <1>1 DEF OnBus
  <2> QED BY <2>1, PlaceStays DEF Mark
<1>2. ASSUME NEW y PROVE y \in Shown(Append(b, x), ls) <=> y \in Shown(b, ls) BY <1>1, ShownIs
<1> QED BY <1>2

\* One stream is the other, and more behind it.
Extends(ls, ms) ==
    /\ \A i, j : Posn(ls, i, j) => Posn(ms, i, j) /\ ms[i][j] = ls[i][j]
    /\ \A i, j, k, l : Posn(ls, i, j) /\ Posn(ms, k, l) /\ ~ Posn(ls, k, l) => i < k \/ (i = k /\ j < l)

\* What EventFeed allows to a reader.
Grown(n, S, T) ==
    /\ S \subseteq T /\ \A x \in T \ S : x.ev \in 1 .. n
    /\ \A x \in T \ S, y \in S : Feed!Earlier(y.at, x.at) /\ y.ev < x.ev
    /\ \A x, y \in T \ S : Feed!Earlier(x.at, y.at) <=> x.ev < y.ev

LEMMA MarkFacts ==
    ASSUME NEW b, NEW ls, NEW i, NEW j
    PROVE  Mark(b, ls, i, j).at = <<i, j>> /\ Mark(b, ls, i, j).ev = PlaceOn(b, ls[i][j])
           /\ Mark(b, ls, i, j).at[1] = i /\ Mark(b, ls, i, j).at[2] = j
BY DEF Mark

\* In ordered lines the places tell the order of the events.
LEMMA PlacesTell ==
    ASSUME NEW b, Len(b) \in Nat, NEW ms \in Seq(Seq(Envelopes)), NEW p, LinesOK(b, ms, p),
           NEW i, NEW j, Posn(ms, i, j), NEW k, NEW l, Posn(ms, k, l), ms[i][j].k = "bus", ms[k][l].k = "bus"
    PROVE  (i < k \/ (i = k /\ j < l)) <=> PlaceOn(b, ms[i][j]) < PlaceOn(b, ms[k][l])
<1>1. /\ i \in DOMAIN ms /\ k \in DOMAIN ms /\ DOMAIN ms = 1 .. Len(ms) /\ Len(ms) \in Nat
      /\ j \in DOMAIN ms[i] /\ l \in DOMAIN ms[k]
  BY LenProperties DEF Posn
<1>2. ms[i] \in Seq(Envelopes) /\ ms[k] \in Seq(Envelopes) BY <1>1, ElementOfSeq
<1>3. j \in Nat /\ l \in Nat /\ i \in Nat /\ k \in Nat
  <2>1. DOMAIN ms[i] = 1 .. Len(ms[i]) /\ Len(ms[i]) \in Nat BY <1>2, LenProperties
  <2>2. DOMAIN ms[k] = 1 .. Len(ms[k]) /\ Len(ms[k]) \in Nat BY <1>2, LenProperties
  <2> QED BY <1>1, <2>1, <2>2
<1> DEFINE u == PlaceOn(b, ms[i][j])
           v == PlaceOn(b, ms[k][l])
<1>4. u \in Nat /\ v \in Nat
  <2>1. OnBus(b, ms[i]) /\ OnBus(b, ms[k]) BY <1>1 DEF LinesOK, Good
  <2> QED BY <2>1, <1>1, PlaceNat
<1>5. i < k => u < v BY <1>1 DEF LinesOK, AllBefore
<1>6. k < i => v < u BY <1>1 DEF LinesOK, AllBefore
<1>7. i = k /\ j < l => u < v BY <1>1 DEF LinesOK, Good, Ordered
<1>8. i = k /\ l < j => v < u BY <1>1 DEF LinesOK, Good, Ordered
<1>9. i = k /\ j = l => u = v OBVIOUS
<1> HIDE DEF u, v
<1> QED BY <1>3, <1>4, <1>5, <1>6, <1>7, <1>8, <1>9 DEF u, v

LEMMA ShownGrows ==
    ASSUME NEW b, Len(b) \in Nat, NEW ls, NEW ms \in Seq(Seq(Envelopes)), NEW p, LinesOK(b, ms, p), Extends(ls, ms)
    PROVE  Grown(Len(b), Shown(b, ls), Shown(b, ms))
<1> DEFINE S == Shown(b, ls)
           T == Shown(b, ms)
<1>1. \A i, j : Posn(ls, i, j) => Posn(ms, i, j) /\ ms[i][j] = ls[i][j] /\ Mark(b, ls, i, j) = Mark(b, ms, i, j)
  BY DEF Extends, Mark
<1>2. \A x : x \in S <=> \E i, j : Posn(ls, i, j) /\ ls[i][j].k = "bus" /\ x = Mark(b, ls, i, j) BY ShownIs DEF Posn
<1>3. \A x : x \in T <=> \E i, j : Posn(ms, i, j) /\ ms[i][j].k = "bus" /\ x = Mark(b, ms, i, j) BY ShownIs DEF Posn
<1> HIDE DEF S, T
<1>4. S \subseteq T BY <1>1, <1>2, <1>3
<1>5. ASSUME NEW x \in T \ S
      PROVE  \E i, j : Posn(ms, i, j) /\ ~ Posn(ls, i, j) /\ ms[i][j].k = "bus" /\ x = Mark(b, ms, i, j)
  BY <1>1, <1>2, <1>3
<1>6. ASSUME NEW x \in T \ S PROVE x.ev \in 1 .. Len(b)
  <2>1. PICK i, j : Posn(ms, i, j) /\ ms[i][j].k = "bus" /\ x = Mark(b, ms, i, j) BY <1>5
  <2>2. x.ev = PlaceOn(b, ms[i][j]) BY <2>1, MarkFacts
  <2> QED BY <2>1, <2>2 DEF LinesOK, Good, OnBus, Posn
<1>7. ASSUME NEW x \in T \ S, NEW y \in S PROVE Feed!Earlier(y.at, x.at) /\ y.ev < x.ev
  <2>1. PICK k, l : Posn(ms, k, l) /\ ~ Posn(ls, k, l) /\ ms[k][l].k = "bus" /\ x = Mark(b, ms, k, l) BY <1>5
  <2>2. PICK i, j : Posn(ls, i, j) /\ ls[i][j].k = "bus" /\ y = Mark(b, ls, i, j) BY <1>2
  <2>3. Posn(ms, i, j) /\ ms[i][j].k = "bus" /\ y = Mark(b, ms, i, j) BY <2>2, <1>1
  <2>4. i < k \/ (i = k /\ j < l) BY <2>1, <2>2 DEF Extends
  <2>5. PlaceOn(b, ms[i][j]) < PlaceOn(b, ms[k][l]) BY <2>1, <2>3, <2>4, PlacesTell
  <2>6. /\ x.at[1] = k /\ x.at[2] = l /\ x.ev = PlaceOn(b, ms[k][l])
        /\ y.at[1] = i /\ y.at[2] = j /\ y.ev = PlaceOn(b, ms[i][j])
    BY <2>1, <2>3, MarkFacts
  <2> QED BY <2>4, <2>5, <2>6 DEF Feed!Earlier
<1>8. ASSUME NEW x \in T \ S, NEW y \in T \ S PROVE Feed!Earlier(x.at, y.at) <=> x.ev < y.ev
  <2>1. PICK i, j : Posn(ms, i, j) /\ ms[i][j].k = "bus" /\ x = Mark(b, ms, i, j) BY <1>5
  <2>2. PICK k, l : Posn(ms, k, l) /\ ms[k][l].k = "bus" /\ y = Mark(b, ms, k, l) BY <1>5
  <2>3. (i < k \/ (i = k /\ j < l)) <=> PlaceOn(b, ms[i][j]) < PlaceOn(b, ms[k][l]) BY <2>1, <2>2, PlacesTell
  <2>4. /\ y.at[1] = k /\ y.at[2] = l /\ y.ev = PlaceOn(b, ms[k][l])
        /\ x.at[1] = i /\ x.at[2] = j /\ x.ev = PlaceOn(b, ms[i][j])
    BY <2>1, <2>2, MarkFacts
  <2> QED BY <2>3, <2>4 DEF Feed!Earlier
<1> QED BY <1>4, <1>6, <1>7, <1>8 DEF Grown, S, T

\* Streams with one envelope on a line.
LEMMA LinesAre ==
    ASSUME NEW es \in Seq(Envelopes)
    PROVE  /\ \A i, j : Posn(Lines(es), i, j) <=> i \in DOMAIN es /\ j = 1
           /\ \A i \in DOMAIN es : Lines(es)[i] = <<es[i]>> /\ Lines(es)[i][1] = es[i]
           /\ Lines(es) \in Seq(Seq(Envelopes)) /\ DOMAIN Lines(es) = DOMAIN es
<1>1. DOMAIN Lines(es) = DOMAIN es /\ \A i \in DOMAIN es : Lines(es)[i] = <<es[i]>> BY DEF Lines
<1>2. \A x : DOMAIN <<x>> = {1} /\ <<x>>[1] = x OBVIOUS
<1>3. \A i, j : Posn(Lines(es), i, j) <=> i \in DOMAIN es /\ j = 1
  <2>1. ASSUME NEW i \in DOMAIN es PROVE DOMAIN Lines(es)[i] = {1} BY <1>1
  <2> QED BY <1>1, <2>1 DEF Posn
<1>4. Lines(es) \in Seq(Seq(Envelopes))
  <2>1. Len(es) \in Nat /\ DOMAIN es = 1 .. Len(es) BY LenProperties
  <2>2. ASSUME NEW i \in 1 .. Len(es) PROVE <<es[i]>> \in Seq(Envelopes)
    <3>1. es[i] \in Envelopes BY <2>1, ElementOfSeq
    <3> QED BY <3>1
  <2>3. Lines(es) \in [1 .. Len(es) -> Seq(Envelopes)] BY <2>1, <2>2 DEF Lines
  <2> QED BY <2>1, <2>3, SeqDef
<1>5. \A i \in DOMAIN es : Lines(es)[i][1] = es[i] BY <1>1
<1> QED BY <1>1, <1>3, <1>4, <1>5

LEMMA LinesGood ==
    ASSUME NEW b, Len(b) \in Nat, NEW es \in Seq(Envelopes), Good(b, es)
    PROVE  LinesOK(b, Lines(es), Len(b) + 1)
<1> DEFINE ls == Lines(es)
<1>1. DOMAIN ls = DOMAIN es /\ \A i \in DOMAIN es : ls[i] = <<es[i]>> BY LinesAre
<1> HIDE DEF ls
<1>2. ASSUME NEW i \in DOMAIN es PROVE es[i].k = "bus" => PlaceOn(b, es[i]) \in 1 .. Len(b) /\ PlaceOn(b, es[i]) < Len(b) + 1
  BY DEF Good, OnBus
<1>3. ASSUME NEW i \in DOMAIN ls PROVE Good(b, ls[i]) /\ Under(b, ls[i], Len(b) + 1)
  <2> DEFINE y == <<es[i]>>
  <2>1. Good(b, y) /\ Under(b, y, Len(b) + 1) BY <1>1, <1>2, OneOnLine
  <2>2. ls[i] = y BY <1>1
  <2> HIDE DEF y
  <2> QED BY <2>1, <2>2
<1>4. ASSUME NEW i \in DOMAIN ls, NEW j \in DOMAIN ls, i < j PROVE AllBefore(b, ls[i], ls[j])
  <2> DEFINE y == <<es[i]>>
             z == <<es[j]>>
  <2>1. ls[i] = y /\ ls[j] = z BY <1>1
  <2>2. (\A k \in DOMAIN y : y[k] = es[i]) /\ \A k \in DOMAIN z : z[k] = es[j] OBVIOUS
  <2>3. es[i].k = "bus" /\ es[j].k = "bus" => PlaceOn(b, es[i]) < PlaceOn(b, es[j]) BY <1>1, <1>4 DEF Good, Ordered
  <2> HIDE DEF y, z
  <2>4. AllBefore(b, y, z) BY <2>2, <2>3 DEF AllBefore
  <2> QED BY <2>1, <2>4
<1> QED BY <1>3, <1>4 DEF LinesOK, ls

LEMMA ExtendsLines ==
    ASSUME NEW es \in Seq(Envelopes), NEW ds \in Seq(Envelopes), Len(es) <= Len(ds), \A i \in 1 .. Len(es) : ds[i] = es[i]
    PROVE  Extends(Lines(es), Lines(ds))
<1>1. Len(es) \in Nat /\ DOMAIN es = 1 .. Len(es) /\ Len(ds) \in Nat /\ DOMAIN ds = 1 .. Len(ds) BY LenProperties
<1> DEFINE ls == Lines(es)
           ms == Lines(ds)
<1>2. /\ \A i, j : Posn(ls, i, j) <=> i \in DOMAIN es /\ j = 1
      /\ \A i \in DOMAIN es : ls[i][1] = es[i]
  BY LinesAre
<1>3. /\ \A i, j : Posn(ms, i, j) <=> i \in DOMAIN ds /\ j = 1
      /\ \A i \in DOMAIN ds : ms[i][1] = ds[i]
  BY LinesAre
<1> HIDE DEF ls, ms
<1>4. ASSUME NEW i, NEW j, Posn(ls, i, j) PROVE Posn(ms, i, j) /\ ms[i][j] = ls[i][j]
  <2>1. i \in 1 .. Len(es) /\ j = 1 /\ i \in DOMAIN ds BY <1>1, <1>2, <1>4
  <2> QED BY <2>1, <1>1, <1>2, <1>3
<1>5. ASSUME NEW i, NEW j, NEW k, NEW l, Posn(ls, i, j), Posn(ms, k, l), ~ Posn(ls, k, l) PROVE i < k
  <2>1. i \in 1 .. Len(es) /\ k \in 1 .. Len(ds) /\ k \notin 1 .. Len(es) BY <1>1, <1>2, <1>3, <1>5
  <2> QED BY <2>1, <1>1
<1> QED BY <1>4, <1>5 DEF Extends, ls, ms

LEMMA ExtendsAdded ==
    ASSUME NEW ls, NEW x \in Envelopes, NEW ms, NewLine(ls, x, ms) \/ Joined(ls, x, ms)
    PROVE  /\ Extends(ls, ms) /\ ms \in Seq(Seq(Envelopes))
           /\ \A k, l : Posn(ms, k, l) /\ ~ Posn(ls, k, l) => ms[k][l] = x
<1> DEFINE n == Len(ls)
<1>1. CASE NewLine(ls, x, ms)
  <2> DEFINE y == <<x>>
  <2>1. /\ n \in Nat /\ DOMAIN ls = 1 .. n /\ DOMAIN ms = 1 .. n + 1 /\ (\A i \in 1 .. n : ms[i] = ls[i]) /\ ms[n + 1] = y
        /\ ms \in Seq(Seq(Envelopes))
    BY <1>1 DEF NewLine, Files
  <2>2. \A j \in DOMAIN y : y[j] = x OBVIOUS
  <2> HIDE DEF y, n
  <2>3. \A i, j : Posn(ls, i, j) => Posn(ms, i, j) /\ ms[i][j] = ls[i][j] BY <2>1 DEF Posn
  <2>4. ASSUME NEW k, NEW l, Posn(ms, k, l), ~ Posn(ls, k, l) PROVE k = n + 1 /\ ms[k][l] = x
    <3>1. k \in 1 .. n \/ k = n + 1 BY <2>1, <2>4 DEF Posn
    <3>2. k \notin 1 .. n BY <2>1, <2>4 DEF Posn
    <3> QED BY <3>1, <3>2, <2>1, <2>2, <2>4 DEF Posn
  <2>5. ASSUME NEW i, NEW j, NEW k, NEW l, Posn(ls, i, j), Posn(ms, k, l), ~ Posn(ls, k, l) PROVE i < k
    <3>1. i \in 1 .. n /\ k = n + 1 BY <2>1, <2>4, <2>5 DEF Posn
    <3> QED BY <3>1, <2>1
  <2> QED BY <2>1, <2>3, <2>4, <2>5 DEF Extends
<1>2. CASE Joined(ls, x, ms)
  <2> DEFINE l0 == ls[n]
             y == Append(l0, x)
             m == Len(l0)
  <2>1. /\ n \in Nat /\ n > 0 /\ DOMAIN ls = 1 .. n /\ DOMAIN ms = 1 .. n
        /\ (\A i \in 1 .. n - 1 : ms[i] = ls[i]) /\ ms[n] = y /\ l0 \in Seq(Envelopes) /\ ms \in Seq(Seq(Envelopes))
    BY <1>2 DEF Joined, Files
  <2>2. m \in Nat /\ DOMAIN l0 = 1 .. m /\ DOMAIN y = 1 .. m + 1 /\ (\A j \in 1 .. m : y[j] = l0[j]) /\ y[m + 1] = x
    BY <2>1, LenProperties, AppendProperties
  <2>3. ls[n] = l0 OBVIOUS
  <2> HIDE DEF y, m, l0, n
  <2>4. \A i \in DOMAIN ls : i = n \/ (i \in 1 .. n - 1 /\ ms[i] = ls[i] /\ i < n) BY <2>1
  <2>5. ASSUME NEW i, NEW j, Posn(ls, i, j) PROVE Posn(ms, i, j) /\ ms[i][j] = ls[i][j]
    <3>1. CASE i = n BY <3>1, <2>1, <2>2, <2>3, <2>5 DEF Posn
    <3>2. CASE i # n BY <3>2, <2>1, <2>4, <2>5 DEF Posn
    <3> QED BY <3>1, <3>2
  <2>6. ASSUME NEW k, NEW l, Posn(ms, k, l), ~ Posn(ls, k, l) PROVE k = n /\ l = m + 1 /\ ms[k][l] = x
    <3>1. k \in DOMAIN ls BY <2>1, <2>6 DEF Posn
    <3>2. k = n BY <3>1, <2>4, <2>6 DEF Posn
    <3>3. l \in 1 .. m + 1 /\ l \notin 1 .. m BY <3>1, <3>2, <2>1, <2>2, <2>3, <2>6 DEF Posn
    <3>4. l = m + 1 BY <3>3, <2>2
    <3> QED BY <3>2, <3>4, <2>1, <2>2
  <2>7. ASSUME NEW i, NEW j, NEW k, NEW l, Posn(ls, i, j), Posn(ms, k, l), ~ Posn(ls, k, l) PROVE i < k \/ (i = k /\ j < l)
    <3>1. k = n /\ l = m + 1 BY <2>6, <2>7
    <3>2. CASE i = n
      <4>1. j \in 1 .. m BY <3>2, <2>2, <2>3, <2>7 DEF Posn
      <4> QED BY <3>1, <3>2, <4>1, <2>2
    <3>3. CASE i # n BY <3>1, <3>3, <2>4, <2>7 DEF Posn
    <3> QED BY <3>2, <3>3
  <2> QED BY <2>1, <2>5, <2>6, <2>7 DEF Extends
<1> QED BY <1>1, <1>2

\* A reader sees no event in what is added when it is no event.
LEMMA NoNews ==
    ASSUME NEW b, NEW ls, NEW ms, Extends(ls, ms), \A k, l : Posn(ms, k, l) /\ ~ Posn(ls, k, l) => ms[k][l].k # "bus"
    PROVE  Shown(b, ms) = Shown(b, ls)
<1>1. \A i, j : Posn(ls, i, j) => Posn(ms, i, j) /\ ms[i][j] = ls[i][j] /\ Mark(b, ls, i, j) = Mark(b, ms, i, j)
  BY DEF Extends, Mark
<1>2. ASSUME NEW x PROVE x \in Shown(b, ls) <=> \E i, j : Posn(ls, i, j) /\ ls[i][j].k = "bus" /\ x = Mark(b, ls, i, j)
  BY ShownIs DEF Posn
<1>3. ASSUME NEW x PROVE x \in Shown(b, ms) <=> \E i, j : Posn(ms, i, j) /\ ms[i][j].k = "bus" /\ x = Mark(b, ms, i, j)
  BY ShownIs DEF Posn
<1>4. ASSUME NEW x PROVE x \in Shown(b, ms) <=> x \in Shown(b, ls) BY <1>1, <1>2, <1>3
<1> QED BY <1>4

LEMMA NoNewsLines ==
    ASSUME NEW b, NEW es \in Seq(Envelopes), NEW x \in Envelopes, x.k # "bus"
    PROVE  Shown(b, Lines(Append(es, x))) = Shown(b, Lines(es))
<1> DEFINE ds == Append(es, x)
           ls == Lines(es)
           ms == Lines(ds)
           n == Len(es)
<1>1. /\ n \in Nat /\ DOMAIN es = 1 .. n /\ ds \in Seq(Envelopes) /\ Len(ds) = n + 1 /\ DOMAIN ds = 1 .. n + 1
      /\ (\A i \in 1 .. n : ds[i] = es[i]) /\ ds[n + 1] = x
  BY AppendProperties, LenProperties
<1> HIDE DEF ds
<1>2. Extends(ls, ms) BY <1>1, ExtendsLines
<1>3. \A i, j : Posn(ls, i, j) <=> i \in DOMAIN es /\ j = 1 BY LinesAre
<1>4. (\A i, j : Posn(ms, i, j) <=> i \in DOMAIN ds /\ j = 1) /\ \A i \in DOMAIN ds : ms[i][1] = ds[i] BY <1>1, LinesAre
<1> HIDE DEF ls, ms, n
<1>5. ASSUME NEW k, NEW l, Posn(ms, k, l), ~ Posn(ls, k, l) PROVE ms[k][l].k # "bus"
  <2>1. k \in DOMAIN ds /\ l = 1 /\ k \notin DOMAIN es BY <1>3, <1>4, <1>5
  <2>2. k = n + 1 BY <2>1, <1>1
  <2> QED BY <2>1, <2>2, <1>1, <1>4
<1> QED BY <1>2, <1>5, NoNews DEF ls, ms, ds

-----------------------------------------------------------------------------
(* The refinement: steps. *)

LEMMA ReaderFacts ==
    /\ Persister \in Readers /\ Clients \subseteq Readers /\ Browsers \subseteq Readers
    /\ LinesOf(Persister) = log /\ LinesOf(Persister)' = log'
    /\ \A c \in Clients : c # Persister /\ LinesOf(c) = Lines(wire[c]) /\ LinesOf(c)' = Lines(wire'[c])
    /\ \A b \in Browsers : b # Persister /\ b \notin Clients
                           /\ LinesOf(b) = Lines(tab[b].got) /\ LinesOf(b)' = Lines(tab'[b].got)
BY ActorsDiffer DEF Readers, LinesOf, Lines, Clients

LEMMA SeenIs ==
    /\ \A r \in Readers : Seen[r] = Shown(bus, LinesOf(r))
    /\ \A r \in Readers : Seen'[r] = Shown(bus', LinesOf(r)')
BY DEF Seen

\* Nobody is shown anything: a stutter, or an event published.
LEMMA FeedStays ==
    ASSUME Len(bus) \in Nat, \A r \in Readers : Seen'[r] = Seen[r], bus' = bus \/ Len(bus') = Len(bus) + 1
    PROVE  [Feed!Next]_<<Len(bus), Seen>>
<1>1. Seen' = Seen
  <2>1. Seen' = [r \in Readers |-> Seen'[r]] /\ Seen = [r \in Readers |-> Seen[r]] BY DEF Seen
  <2> QED BY <2>1
<1>2. CASE bus' = bus BY <1>1, <1>2
<1>3. CASE Len(bus') = Len(bus) + 1 BY <1>1, <1>3 DEF Feed!Next, Feed!Publish
<1> QED BY <1>2, <1>3

\* One reader is shown more.
LEMMA FeedShows ==
    ASSUME NEW r \in Readers, \A q \in Readers \ {r} : Seen'[q] = Seen[q], Grown(Len(bus), Seen[r], Seen'[r]), bus' = bus
    PROVE  [Feed!Next]_<<Len(bus), Seen>>
<1> DEFINE new == Seen'[r] \ Seen[r]
<1>1. Seen'[r] = Seen[r] \cup new BY DEF Grown
<1>2. DOMAIN Seen' = Readers /\ DOMAIN Seen = Readers /\ Seen' = [q \in Readers |-> Seen'[q]] BY DEF Seen
<1>3. Seen' = [Seen EXCEPT ![r] = Seen[r] \cup new] BY <1>1, <1>2
<1>4. /\ \A x \in new : x.ev \in 1 .. Len(bus)
      /\ \A x \in new, y \in Seen[r] : Feed!Earlier(y.at, x.at) /\ y.ev < x.ev
      /\ \A x, y \in new : Feed!Earlier(x.at, y.at) <=> x.ev < y.ev
  BY DEF Grown
<1>5. Feed!Show(r) BY <1>3, <1>4 DEF Feed!Show
<1> QED BY <1>5 DEF Feed!Next

LEMMA SeenLog ==
    ASSUME BusOK, LogOK, NumInv, Next, bus' = bus, ~ PersistNext
    PROVE  Seen'[Persister] = Seen[Persister]
<1> USE ActorFacts
<1>g. ASSUME Shown(bus, log') = Shown(bus, log) PROVE Seen'[Persister] = Seen[Persister]
  BY <1>g, ReaderFacts, SeenIs
<1>1. CASE log' = log BY <1>1, <1>g
<1>2. ASSUME NEW e \in Envelopes, e.k # "bus", Persist(e) PROVE Seen'[Persister] = Seen[Persister]
  <2>1. ASSUME NEW torn \in BOOLEAN, log' = AddPiece(log, ended, PieceOf(e, torn)) PROVE Shown(bus, log') = Shown(bus, log)
    <3> DEFINE x == PieceOf(e, torn)
               ls == log'
    <3>1. x \in Envelopes /\ x.k # "bus"
      <4>1. x \in Envelopes /\ x.k = (IF torn THEN "torn" ELSE e.k) BY PieceFacts
      <4>2. CASE torn = TRUE BY <4>1, <4>2
      <4>3. CASE torn = FALSE BY <4>1, <4>3, <1>2
      <4> QED BY <4>2, <4>3
    <3>2. Added(log, ended, x, ls) BY <2>1, LogAdds
    <3> HIDE DEF x, ls
    <3>3. NewLine(log, x, ls) \/ Joined(log, x, ls) BY <3>2 DEF Added
    <3>4. Extends(log, ls) /\ \A k, l : Posn(ls, k, l) /\ ~ Posn(log, k, l) => ls[k][l] = x BY <3>1, <3>3, ExtendsAdded
    <3>5. Shown(bus, ls) = Shown(bus, log) BY <3>1, <3>4, NoNews
    <3> QED BY <3>5 DEF ls
  <2> QED BY <1>2, <2>1, <1>1, <1>g, PersistCases
<1>3. CASE PersistSentinel
  <2>1. drawn[Persister] \in Envelopes /\ drawn[Persister].k # "bus" BY <1>3 DEF PersistSentinel, BusOK, NumInv
  <2> QED BY <1>3, <2>1, <1>2 DEF PersistSentinel
<1>4. ASSUME NEW e, Messages_(e) PROVE Seen'[Persister] = Seen[Persister] BY <1>4, <1>2 DEF Messages_
<1> QED BY <1>1, <1>3, <1>4, LogSteps DEF logVars

LEMMA WireMoves ==
    ASSUME BusOK, ConnOK, NumInv, Next, NEW c \in Clients
    PROVE  \/ wire'[c] = wire[c] \/ Pump(c)
           \/ \E e \in Envelopes : e.k # "bus" /\ wire'[c] = Append(wire[c], e)
<1> USE ActorFacts
<1>t. wire \in [Clients -> Seq(Envelopes)] BY DEF ConnOK
<1>1. ASSUME NEW p \in menu.producers, Draw(p) \/ Send(p) PROVE wire' = wire BY <1>1 DEF Draw, Send, connVars
<1>2. CASE PersistStep \/ Crash \/ WebStep
  BY <1>2 DEF PersistStep, PersistNext, PersistGap, PersistSentinel, Crash, WebStep, Fan, PumpEnds, connVars
<1>3. ASSUME NEW d \in Clients,
             \/ Hello(d) \/ Subscribe(d) \/ Bridge(d) \/ DrawDirect(d) \/ Answer(d) \/ AnswerSent(d) \/ Hangup(d)
      PROVE  wire' = wire
  BY <1>3 DEF Hello, Subscribe, Bridge, DrawDirect, Answer, AnswerSent, Send, Hangup, connVars
<1>w. ASSUME NEW d \in Clients, NEW e \in Envelopes, e.k # "bus", wire' = [wire EXCEPT ![d] = Append(@, e)]
      PROVE  wire'[c] = wire[c] \/ \E x \in Envelopes : x.k # "bus" /\ wire'[c] = Append(wire[c], x)
  BY <1>w, <1>t
<1>4. ASSUME NEW d \in Clients, BadHello(d)
      PROVE  wire'[c] = wire[c] \/ \E x \in Envelopes : x.k # "bus" /\ wire'[c] = Append(wire[c], x)
  <2> DEFINE e == [k |-> "direct", s |-> seq + 1, n |-> 0]
  <2>1. e \in Envelopes /\ e.k # "bus" BY EnvFacts DEF BusOK
  <2>2. wire' = [wire EXCEPT ![d] = Append(@, e)] BY <1>4 DEF BadHello
  <2> HIDE DEF e
  <2> QED BY <2>1, <2>2, <1>w
<1>5. ASSUME NEW d \in Clients, drawn[d].k = "direct", SendDirect(d)
      PROVE  wire'[c] = wire[c] \/ \E x \in Envelopes : x.k # "bus" /\ wire'[c] = Append(wire[c], x)
  <2>1. drawn[d] \in Envelopes /\ drawn[d].k # "bus" BY <1>5 DEF SendDirect, BusOK
  <2> QED BY <1>5, <2>1, <1>w DEF SendDirect
<1>6. ASSUME NEW d \in Clients, Pump(d) PROVE wire'[c] = wire[c] \/ Pump(c) BY <1>6, <1>t DEF Pump
<1>7. ASSUME NEW b \in Browsers, Open(b) \/ Connect(b) \/ Event(b) \/ StreamEnds(b) PROVE wire' = wire
  BY <1>7 DEF Open, Connect, Event, StreamEnds, connVars
<1> QED BY <1>1, <1>2, <1>3, <1>4, <1>5, <1>6, <1>7 DEF Next

LEMMA SeenWire ==
    ASSUME BusOK, ConnOK, NumInv, Next, bus' = bus, NEW c \in Clients, ~ Pump(c)
    PROVE  Seen'[c] = Seen[c]
<1>g. ASSUME Shown(bus, Lines(wire'[c])) = Shown(bus, Lines(wire[c])) PROVE Seen'[c] = Seen[c]
  BY <1>g, ReaderFacts, SeenIs
<1>1. CASE wire'[c] = wire[c] BY <1>1, <1>g
<1>2. ASSUME NEW e \in Envelopes, e.k # "bus", wire'[c] = Append(wire[c], e) PROVE Seen'[c] = Seen[c]
  <2>1. wire[c] \in Seq(Envelopes) BY DEF ConnOK
  <2>2. Shown(bus, Lines(Append(wire[c], e))) = Shown(bus, Lines(wire[c])) BY <1>2, <2>1, NoNewsLines
  <2> QED BY <1>2, <2>2, <1>g
<1> QED BY <1>1, <1>2, WireMoves

LEMMA SeenTab ==
    ASSUME WebOK, Next, bus' = bus, NEW b \in Browsers, ~ Event(b)
    PROVE  Seen'[b] = Seen[b]
<1>t. tab \in [Browsers -> Tabs(gens)] BY DEF WebOK, Tabs
<1>1. tab'[b].got = tab[b].got
  <2>1. CASE UNCHANGED webVars BY <2>1 DEF webVars
  <2>2. CASE WebStep BY <2>2 DEF WebStep, Fan, PumpEnds
  <2>3. ASSUME NEW d \in Browsers, Open(d) \/ Connect(d) \/ StreamEnds(d) PROVE tab'[b].got = tab[b].got
    <3>1. CASE d # b BY <2>3, <3>1, <1>t DEF Open, Connect, StreamEnds
    <3>2. CASE d = b
      <4>1. tab[b] \in Tabs(gens) BY <1>t
      <4>2. \E r : tab' = [tab EXCEPT ![b] = r] /\ r.got = tab[b].got
        BY <2>3, <3>2, <4>1 DEF Open, Connect, StreamEnds, Tabs
      <4> QED BY <4>2, <1>t
    <3> QED BY <3>1, <3>2
  <2>4. ASSUME NEW d \in Browsers, Event(d) PROVE tab'[b] = tab[b]
    <3>1. d # b BY <2>4
    <3>2. \E r : tab' = [tab EXCEPT ![d] = r] BY <2>4 DEF Event
    <3> QED BY <3>1, <3>2, <1>t
  <2> QED BY <2>1, <2>2, <2>3, <2>4, WebSteps
<1> QED BY <1>1, ReaderFacts, SeenIs

\* Every step of the stream is a step of the feed, or leaves it alone.
LEMMA FeedStep ==
    ASSUME StreamInv, StreamInv', [Next]_vars
    PROVE  [Feed!Next]_<<Len(bus), Seen>>
<1> DEFINE Goal == [Feed!Next]_<<Len(bus), Seen>>
<1>a. /\ BusOK /\ BusOK' /\ LogOK /\ LogOK' /\ ConnOK /\ ConnOK' /\ WebOK /\ WebOK' /\ NumInv /\ NumInv'
      /\ (\A c \in Clients : ClientInv(c)) /\ WebInv /\ LogInv /\ LogInv' /\ WebInv'
  BY DEF StreamInv, StreamOK
<1>w. ASSUME NEW c \in Clients PROVE Good(bus, wire[c]) /\ Good(bus', wire'[c])
  <2>1. Good(bus, wire[c]) BY <1>a DEF ClientInv
  <2>2. (\A d \in Clients : ClientInv(d))' BY DEF StreamInv
  <2> QED BY <2>1, <2>2 DEF ClientInv
<1>t. ASSUME NEW b \in Browsers
      PROVE  Good(bus, tab[b].got) /\ Good(bus', tab'[b].got) /\ tab[b].got \in Seq(Envelopes) /\ tab'[b].got \in Seq(Envelopes)
  BY <1>a DEF WebInv, TabInv, WebOK
<1>b. bus \in Seq(Envelopes) /\ Len(bus) \in Nat /\ DOMAIN bus = 1 .. Len(bus) BY <1>a, LenProperties DEF BusOK
<1>0. CASE UNCHANGED vars
  <2>1. UNCHANGED <<bus, log, wire, tab>> BY <1>0 DEF vars, busVars, logVars, connVars, webVars
  <2>2. ASSUME NEW r \in Readers PROVE LinesOf(r)' = LinesOf(r) BY <2>1, ReaderFacts DEF Readers
  <2>3. \A r \in Readers : Seen'[r] = Seen[r] BY <2>1, <2>2, SeenIs
  <2> QED BY <2>1, <2>3, <1>b, FeedStays
<1> SUFFICES ASSUME Next PROVE Goal BY <1>0
<1>m. menu' = menu BY DEF Next
<1>1. ASSUME NEW a \in Actors, Send(a) PROVE Goal
  <2>1. drawn[a] \in Envelopes /\ bus' = Append(bus, drawn[a]) /\ Len(bus') = Len(bus) + 1 BY <1>1, <1>a, <1>m, SendType
  <2>2. Inj(Append(bus, drawn[a])) BY <2>1, <1>a DEF NumInv
  <2>3. UNCHANGED <<log, wire, tab>> BY <1>1 DEF Send, logVars, connVars, webVars
  <2>4. ASSUME NEW r \in Readers PROVE LinesOf(r)' = LinesOf(r) BY <2>3, ReaderFacts DEF Readers
  <2>5. ASSUME NEW r \in Readers, NEW i \in DOMAIN LinesOf(r) PROVE OnBus(bus, LinesOf(r)[i])
    <3>1. CASE r = Persister BY <2>5, <3>1, <1>a, ReaderFacts DEF LogInv, Good
    <3>2. CASE r \in Clients
      <4>1. LinesOK(bus, Lines(wire[r]), Len(bus) + 1) BY <3>2, <1>a, <1>b, <1>w, LinesGood DEF ConnOK
      <4>2. LinesOf(r) = Lines(wire[r]) BY <3>2, ReaderFacts
      <4> QED BY <2>5, <4>1, <4>2 DEF LinesOK, Good
    <3>3. CASE r \in Browsers
      <4>1. LinesOK(bus, Lines(tab[r].got), Len(bus) + 1) BY <3>3, <1>b, <1>t, LinesGood
      <4>2. LinesOf(r) = Lines(tab[r].got) BY <3>3, ReaderFacts
      <4> QED BY <2>5, <4>1, <4>2 DEF LinesOK, Good
    <3> QED BY <3>1, <3>2, <3>3 DEF Readers
  <2>6. ASSUME NEW r \in Readers PROVE Seen'[r] = Seen[r]
    <3> DEFINE ls == LinesOf(r)
    <3>1. \A i \in DOMAIN ls : OnBus(bus, ls[i]) BY <2>5
    <3>2. Seen[r] = Shown(bus, ls) /\ Seen'[r] = Shown(bus', ls) BY <2>4, SeenIs
    <3> HIDE DEF ls
    <3>3. Shown(Append(bus, drawn[a]), ls) = Shown(bus, ls) BY <2>1, <2>2, <3>1, <1>b, ShownStays
    <3> QED BY <2>1, <3>2, <3>3
  <2> QED BY <2>1, <2>6, <1>b, FeedStays
<1>2. ASSUME bus' = bus PROVE Goal
  <2>1. CASE PersistNext
    <3> DEFINE p == pos[Persister]
               e == bus[p]
    <3>1. p \in 1 .. Len(bus) /\ e \in Envelopes BY <2>1, <1>a, ReceivesType DEF PersistNext
    <3>2. Persist(e) /\ UNCHANGED <<wire, tab>> BY <2>1 DEF PersistNext, connVars, webVars
    <3>3. ASSUME NEW q \in Readers \ {Persister} PROVE Seen'[q] = Seen[q]
      <4>1. LinesOf(q)' = LinesOf(q) BY <3>2, ReaderFacts DEF Readers
      <4> QED BY <4>1, <1>2, SeenIs
    <3> HIDE DEF e
    <3>4. CASE log' = log
      <4>1. Seen'[Persister] = Seen[Persister] BY <3>4, <1>2, ReaderFacts, SeenIs
      <4> QED BY <3>3, <4>1, <1>2, <1>b, FeedStays
    <3>5. ASSUME NEW torn \in BOOLEAN, log' = AddPiece(log, ended, PieceOf(e, torn)) PROVE Goal
      <4> DEFINE x == PieceOf(e, torn)
                 ls == log'
                 q == pos'[Persister]
      <4>1. x \in Envelopes BY <3>1, PieceFacts
      <4>2. Added(log, ended, x, ls) BY <3>1, <3>5, <1>a, LogAdds
      <4>3. LinesOK(bus, ls, q) BY <1>2, <1>a DEF LogInv, LinesOK
      <4> HIDE DEF x, ls, q
      <4>4. NewLine(log, x, ls) \/ Joined(log, x, ls) BY <4>2 DEF Added
      <4>5. Extends(log, ls) /\ ls \in Seq(Seq(Envelopes)) BY <4>1, <4>4, ExtendsAdded
      <4>6. Grown(Len(bus), Shown(bus, log), Shown(bus, ls)) BY <4>3, <4>5, <1>b, ShownGrows
      <4>7. Seen[Persister] = Shown(bus, log) /\ Seen'[Persister] = Shown(bus, ls) BY <1>2, ReaderFacts, SeenIs DEF ls
      <4>8. Grown(Len(bus), Seen[Persister], Seen'[Persister]) BY <4>6, <4>7
      <4> QED BY <3>3, <4>8, <1>2, ReaderFacts, FeedShows
    <3> QED BY <3>1, <3>2, <3>4, <3>5, <1>a, PersistCases
  \* A stream is lengthened.
  <2>g. ASSUME NEW es \in Seq(Envelopes), NEW ds \in Seq(Envelopes), Len(es) <= Len(ds), \A i \in 1 .. Len(es) : ds[i] = es[i],
               Good(bus, ds)
        PROVE  Grown(Len(bus), Shown(bus, Lines(es)), Shown(bus, Lines(ds)))
    <3>1. Extends(Lines(es), Lines(ds)) BY <2>g, ExtendsLines
    <3>2. LinesOK(bus, Lines(ds), Len(bus) + 1) BY <2>g, <1>b, LinesGood
    <3>3. Lines(ds) \in Seq(Seq(Envelopes)) BY LinesAre
    <3> QED BY <3>1, <3>2, <3>3, <1>b, ShownGrows
  <2>2. ASSUME NEW c \in Clients, Pump(c) PROVE Goal
    <3>1. UNCHANGED <<log, tab>> /\ \A d \in Clients \ {c} : wire'[d] = wire[d]
      BY <2>2, <1>a DEF Pump, logVars, webVars, ConnOK
    <3>2. ASSUME NEW q \in Readers \ {c} PROVE Seen'[q] = Seen[q]
      <4>1. LinesOf(q)' = LinesOf(q) BY <3>1, ReaderFacts DEF Readers
      <4> QED BY <4>1, <1>2, SeenIs
    <3>3. wire[c] \in Seq(Envelopes) /\ wire'[c] \in Seq(Envelopes) BY <1>a DEF ConnOK
    <3>4. Len(wire[c]) <= Len(wire'[c]) /\ \A i \in 1 .. Len(wire[c]) : wire'[c][i] = wire[c][i]
      BY <1>a, WireStep DEF WireGrows
    <3>5. Good(bus, wire'[c]) BY <1>w, <1>2
    <3> DEFINE es == wire[c]
               ds == wire'[c]
    <3>6. Seen[c] = Shown(bus, Lines(es)) /\ Seen'[c] = Shown(bus, Lines(ds)) BY <1>2, ReaderFacts, SeenIs
    <3> HIDE DEF es, ds
    <3>7. Grown(Len(bus), Seen[c], Seen'[c]) BY <3>3, <3>4, <3>5, <3>6, <2>g DEF es, ds
    <3> QED BY <3>2, <3>7, <1>2, ReaderFacts, FeedShows
  <2>3. ASSUME NEW b \in Browsers, Event(b) PROVE Goal
    <3> DEFINE es == tab[b].got
               ds == tab'[b].got
    <3>0. tab \in [Browsers -> Tabs(gens)] /\ tab[b] \in Tabs(gens) BY <1>a DEF WebOK, Tabs
    <3>1. UNCHANGED <<log, wire>> /\ \A d \in Browsers \ {b} : tab'[d] = tab[d]
      <4>1. \E r : tab' = [tab EXCEPT ![b] = r] BY <2>3 DEF Event
      <4> QED BY <2>3, <3>0, <4>1 DEF Event, logVars, connVars
    <3>2. ASSUME NEW q \in Readers \ {b} PROVE Seen'[q] = Seen[q]
      <4>1. LinesOf(q)' = LinesOf(q) BY <3>1, ReaderFacts DEF Readers
      <4> QED BY <4>1, <1>2, SeenIs
    <3>3. es \in Seq(Envelopes) /\ ds \in Seq(Envelopes) /\ Good(bus, ds) BY <1>t, <1>2
    <3>4. ds = es \/ \E e : ds = Append(es, e)
      <4> DEFINE t == tab[b]
                 c == chan[t.gen]
      <4>1. CASE tab' = [tab EXCEPT ![b] = [t EXCEPT !.next = t.next + 1, !.got = Append(t.got, c[t.next])]]
        <5>1. [t EXCEPT !.next = t.next + 1, !.got = Append(t.got, c[t.next])].got = Append(es, c[t.next]) BY <3>0 DEF Tabs
        <5> QED BY <3>0, <4>1, <5>1
      <4>2. CASE tab' = [tab EXCEPT ![b] = [t EXCEPT !.next = Oldest(c, WebCap)]]
        <5>1. [t EXCEPT !.next = Oldest(c, WebCap)].got = es BY <3>0 DEF Tabs
        <5> QED BY <3>0, <4>2, <5>1
      <4> QED BY <2>3, <4>1, <4>2 DEF Event
    <3>5. Seen[b] = Shown(bus, Lines(es)) /\ Seen'[b] = Shown(bus, Lines(ds)) BY <1>2, ReaderFacts, SeenIs
    <3> HIDE DEF es, ds
    <3>6. Len(es) <= Len(ds) /\ \A i \in 1 .. Len(es) : ds[i] = es[i]
      <4>1. Len(es) \in Nat BY <3>3, LenProperties
      <4>2. CASE ds = es BY <4>1, <4>2
      <4>3. ASSUME NEW e, ds = Append(es, e) PROVE Len(es) <= Len(ds) /\ \A i \in 1 .. Len(es) : ds[i] = es[i]
        <5>1. es \in Seq(Envelopes \cup {e}) BY <3>3
        <5>2. Len(ds) = Len(es) + 1 /\ \A i \in 1 .. Len(es) : ds[i] = es[i] BY <4>3, <5>1, AppendProperties
        <5> QED BY <4>1, <5>2
      <4> QED BY <3>4, <4>2, <4>3
    <3>7. Grown(Len(bus), Seen[b], Seen'[b]) BY <3>3, <3>5, <3>6, <2>g
    <3> QED BY <3>2, <3>7, <1>2, ReaderFacts, FeedShows
  <2>4. CASE ~ PersistNext /\ (\A c \in Clients : ~ Pump(c)) /\ (\A b \in Browsers : ~ Event(b))
    <3>1. ASSUME NEW r \in Readers PROVE Seen'[r] = Seen[r]
      BY <2>4, <1>2, <1>a, SeenLog, SeenWire, SeenTab DEF Readers
    <3> QED BY <3>1, <1>2, <1>b, FeedStays
  <2> QED BY <2>1, <2>2, <2>3, <2>4
<1> QED BY <1>1, <1>2, <1>a, BusMoves

\* The queues, the log and the web server's second channel together keep the promise of
\* EventFeed: one order, nothing twice, nothing invented, for every reader, across lags,
\* reconnects and crashes (broadcast_control_event, bus_bridge, control_bridge.rs).
THEOREM StreamImplementsFeed == Spec => OneOrder
<1>1. Init => Feed!Init
  <2> SUFFICES ASSUME Init PROVE Feed!Init OBVIOUS
  <2> DEFINE z == <<>>
  <2>1. Len(z) = 0 /\ DOMAIN z = {} /\ Lines(z) = z BY DEF Lines
  <2>2. bus = z /\ log = z /\ (\A c \in Clients : wire[c] = z) /\ \A b \in Browsers : tab[b].got = z
    BY DEF Init, NoTab
  <2> HIDE DEF z
  <2>3. ASSUME NEW r \in Readers PROVE LinesOf(r) = z BY <2>1, <2>2, ReaderFacts DEF Readers
  <2>4. \A b : Shown(b, z) = {} BY <2>1 DEF Shown
  <2>5. Seen = [r \in Readers |-> {}] BY <2>3, <2>4 DEF Seen
  <2> QED BY <2>1, <2>2, <2>5 DEF Feed!Init
<1>2. StreamInv /\ StreamInv' /\ [Next]_vars => [Feed!Next]_<<Len(bus), Seen>> BY FeedStep
<1> QED BY <1>1, <1>2, StreamInvariant, PTL DEF Spec, OneOrder, Feed!Spec

=============================================================================
