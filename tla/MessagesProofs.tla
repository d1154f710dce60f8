--------------------------- MODULE MessagesProofs ---------------------------
(***************************************************************************)
(* Every answer a session gets follows the tree of actors, and what was    *)
(* answered is in the journal and on disk: Messages' invariants, for every *)
(* tree and every set of calls.                                            *)
(*                                                                         *)
(* The argument is about one call at a time. What a handler established    *)
(* when it looked at the tree, the mailbox or the journal stays true,      *)
(* since the recipient of a stored item is settled, grants are only added  *)
(* and the journal only grows; so a step of one call keeps what is known   *)
(* of every other.                                                         *)
(***************************************************************************)
EXTENDS Messages, FiniteSetTheorems, SequenceTheorems, TLAPS

Settled == {"journal", "done", "dead"}
Resting == {"idle", "done", "dead"}
JournalTools == {"message_send", "message_ack", "artifact_put", "artifact_grant"}

\* Where the handler of a tool can be.
Path(t) ==
    CASE t \in {"message_send", "artifact_grant"} -> {"resolve", "permit", "store", "journal"}
      [] t = "message_ack" -> {"store", "journal"}
      [] t = "artifact_put" -> {"file", "store", "remove", "journal"}
      [] t = "artifact_read" -> {"look", "fetch"}
      [] t \in {"message_read", "message_list", "artifact_list"} -> {"look"}
      [] t = "cancel_worker" -> {"authorize"}
      [] t \in {"kv_get", "kv_set"} -> {"route"}

\* The lines of the journal that parse.
Whole(j) == {i \in 1..Len(j) : ~ j[i].torn /\ (i # 1 => ~ j[i - 1].torn)}
JournalPuts == {c \in Calls : Call(c).tool = "artifact_put" /\ \E i \in Whole(journal) : journal[i].rec.call = c}

-----------------------------------------------------------------------------
(* The inductive invariant *)

\* The functions over the calls, and the tree within the scenario's.
TypeOK ==
    /\ menu \in Menus /\ up \in BOOLEAN
    /\ pc = [c \in Calls |-> pc[c]] /\ res = [c \in Calls |-> res[c]] /\ dest = [c \in Calls |-> dest[c]]
    /\ prior \in [Calls -> SUBSET Calls]
    /\ journal \in Seq({journal[i] : i \in 1..Len(journal)})
    /\ index \subseteq menu.workers /\ states \subseteq menu.workers
    /\ live \subseteq menu.subs /\ gone \subseteq menu.subs
    /\ sess \in [Sessions -> {"none", "live", "ended"}]

\* A live session has its dispatcher and its token, and a live sub-lead its layer.
TokenInv ==
    \A s \in Sessions : sess[s] = "live" =>
        /\ up /\ s \in tokens
        /\ Actor[s] \in Subs => Actor[s] \in live

\* The position of a handler, its answer, and what it names.
Stage(c) ==
    /\ pc[c] \in Path(Call(c).tool) \cup Resting /\ (~ up => pc[c] \in Resting)
    /\ res[c] # "" <=> pc[c] = "done"
    /\ res[c] # "invalid_token"
    /\ pc[c] # "idle" /\ Call(c).item \in Calls => pc[Call(c).item] \in Settled
    /\ pc[c] \notin Resting /\ Call(c).tool \in ArtifactItemTools => Call(c).item \in DOMAIN artifacts
    /\ \A d \in prior[c] : res[d] # ""
StageInv == \A c \in Calls : Stage(c)

Oversees(c, a) == Who(c) \in Overseers(a)
Sees(c, m) == Oversees(c, Who(m)) \/ Oversees(c, dest[m])
Fetches(c, x) == Oversees(c, Who(x)) \/ Who(c) \in Granted(x)

\* What a handler found when it looked, by the tool.
Permitted(c) ==
    LET t == Call(c).tool IN
    /\ t \in {"message_send", "artifact_grant"} /\ (pc[c] \in {"store", "journal"} \/ res[c] = "ok") =>
           Oversees(c, dest[c]) \/ dest[c] \in Overseers(Who(c))
    /\ t \in MessageItemTools /\ (pc[c] = "journal" \/ res[c] = "ok") => Sees(c, Call(c).item)
    /\ t = "message_list" /\ res[c] = "ok" =>
           \A m \in dest[c] : m \in Calls /\ pc[m] \in Settled /\ Sees(c, m)
    /\ t = "artifact_read" /\ (pc[c] = "fetch" \/ res[c] = "ok") => Fetches(c, Call(c).item)
    /\ t = "artifact_list" /\ res[c] = "ok" => \A x \in dest[c] : x \in Calls /\ Fetches(c, x)
    /\ t = "cancel_worker" /\ res[c] = "ok" => Oversees(c, Call(c).to)
    /\ t \in {"kv_get", "kv_set"} /\ res[c] = "ok" => dest[c] \in {"root"} \cup Overseers(Who(c))
AccessInv == \A c \in Calls : Permitted(c)

\* What is in the mailbox and among the artifacts is a settled call's.
ItemInv ==
    /\ \A m \in DOMAIN messages : m \in Calls /\ Call(m).tool = "message_send" /\ pc[m] \in Settled
    /\ \A x \in DOMAIN artifacts :
          /\ x \in Calls /\ Call(x).tool = "artifact_put" /\ pc[x] \in Settled
          /\ x \in files /\ artifacts[x] \subseteq Granted(x)
    /\ \A c \in Calls : Call(c).tool = "artifact_put" /\ pc[c] = "journal" => c \in DOMAIN artifacts

\* A call that was answered has its record in the journal, behind that of the item it names.
Kept(c) == res[c] = "ok" /\ c \notin spoilt
Written(c) ==
    \E i \in Whole(journal) :
        /\ journal[i].rec = Record(c)
        /\ Call(c).tool \in MessageItemTools \cup ArtifactItemTools
           /\ Call(c).item \in prior[c] /\ Kept(Call(c).item) =>
              \E k \in Whole(journal) : k <= i /\ journal[k].rec = Record(Call(c).item)
JournalInv ==
    /\ \A i \in 1..Len(journal) :
          \E c \in Calls : /\ c = journal[i].rec.call /\ journal[i].rec = Record(c)
                           /\ Call(c).tool \in JournalTools /\ res[c] = "ok"
    /\ \A c \in Calls : Call(c).tool \in JournalTools /\ Kept(c) => Written(c)

\* The files, and how many artifacts an actor has.
FileInv ==
    /\ \A x \in files :
          /\ x \in Calls /\ Call(x).tool = "artifact_put" /\ pc[x] \in {"store", "remove"} \cup Settled
          /\ pc[x] = "done" => \/ res[x] = "ok" /\ (up => x \in DOMAIN artifacts \cup spoilt)
                               \/ res[x] # "ok" /\ "disk" \in menu.faults
    /\ \A c \in Calls : Call(c).tool = "artifact_put" /\ pc[c] = "store" => c \in files
    /\ JournalPuts \subseteq files
    /\ up => JournalPuts \subseteq DOMAIN artifacts

People == Workers \cup Subs \cup {"root"}
CountInv ==
    \A a \in People : /\ Cardinality(OwnedBy(a)) <= menu.per_actor
                      /\ Cardinality({x \in JournalPuts : Who(x) = a}) <= menu.per_actor

\* A listing has visited the layers that were in a map when it read that map.
ListInv ==
    LET seen == ToSet(listing.layers) IN
    /\ listing.at \in {"root", "live", "terminated", "done"}
    /\ listing.layers \in Seq(Subs \cup {"root"}) /\ IsInjective(listing.layers)
    /\ listing.at = "root" => seen = {}
    /\ listing.at = "live" => seen = {"root"}
    /\ listing.at # "root" => "root" \in seen
    /\ listing.at = "terminated" => live \subseteq seen
    /\ listing.at = "done" => menu.subs \ listing.gap \subseteq seen
    /\ \A l \in seen : LayerRows(l) \subseteq listing.rows
    /\ \A x \in listing.rows : x.parent \subseteq Overseers(x.id) \ {x.id} /\ (x.parent = {} <=> x.id = "root")

MessagesInv ==
    /\ TypeOK /\ TokenInv /\ StageInv /\ AccessInv /\ ItemInv /\ JournalInv /\ FileInv /\ CountInv
    /\ ListInv

-----------------------------------------------------------------------------
(* The scenario *)

\* What MenuAssumption says of the scenario that was chosen.
LEMMA MenuIs ==
    ASSUME menu \in Menus
    PROVE  /\ menu.subs \subseteq Subs /\ menu.workers \subseteq Workers
           /\ \A w \in menu.workers : Owner[w] \in menu.subs \cup {"root"}
           /\ menu.sessions \subseteq Sessions
           /\ \A s \in menu.sessions : Actor[s] \in Subs => Actor[s] \in menu.subs
           /\ menu.after \subseteq Sessions /\ \A s \in menu.after : Actor[s] = "root"
           /\ menu.per_actor \in Nat /\ IsFiniteSet(Calls)
BY MenuAssumption DEF Calls

\* What it says of a call: its session and tool, and an item of the kind the tool takes.
LEMMA CallIs ==
    ASSUME menu \in Menus, NEW c \in Calls
    PROVE  /\ c # "" /\ Call(c).by \in Sessions /\ Call(c).tool \in Tools
           /\ Call(c).tool \in MessageItemTools =>
                 Call(c).item \in Calls /\ Call(Call(c).item).tool = "message_send"
           /\ Call(c).tool \in ArtifactItemTools =>
                 Call(c).item \in Calls /\ Call(Call(c).item).tool = "artifact_put"
           /\ Call(c).tool = "message_list" => Call(c).to \in MessageScopes
           /\ Call(c).tool = "artifact_list" => Call(c).to \in ArtifactScopes
BY MenuAssumption DEF Calls, Call

-----------------------------------------------------------------------------
(* The steps, by what they do *)

callVars == <<menu, pc, res, dest, prior, store, up>>
treeVars == <<index, states, live, gone, tokens, sess>>

\* A step of the handler of c.
Moves(c) ==
    /\ up /\ pc[c] \notin {"done", "dead"}
    /\ \A d \in Calls \ {c} : /\ pc'[d] = pc[d] /\ res'[d] = res[d]
                              /\ dest'[d] = dest[d] /\ prior'[d] = prior[d]
    /\ pc' = [d \in Calls |-> pc'[d]] /\ res' = [d \in Calls |-> res'[d]]
    /\ dest' = [d \in Calls |-> dest'[d]] /\ prior' \in [Calls -> SUBSET Calls]
    /\ pc[c] = "journal" => pc'[c] = "done" /\ res'[c] = "ok" /\ dest'[c] = dest[c]
    /\ pc[c] # "idle" => prior'[c] = prior[c]
    /\ UNCHANGED <<menu, treeVars, up, listing>>

\* What a handler keeps in the store, and which handlers write.
Stores(c) ==
    \/ StoreMessage(c) \/ handle_message_ack(c) \/ WriteFile(c) \/ StoreArtifact(c)
    \/ RemoveFile(c) \/ handle_artifact_grant(c) \/ journal_append(c)

\* A step of a handler moves its own call only, and leaves the tree and the listing alone.
LEMMA HandlersMove ==
    ASSUME TypeOK, NEW c \in Calls, Handler(c)
    PROVE  Moves(c) /\ (UNCHANGED store \/ Stores(c))
<1>a. UNCHANGED <<menu, treeVars, up, listing>>
  BY DEF Handler, CallTool, ResolveRecipient, Permit, StoreMessage, handle_message_ack, WriteFile,
     StoreArtifact, RemoveFile, handle_artifact_grant, handle_message_read, handle_message_list,
     handle_artifact_list, handle_artifact_read, FetchBytes, Authorize, Route, journal_append, tree, treeVars
<1>b. Calls' = Calls BY <1>a DEF Calls
<1> USE DEF TypeOK, Moves, Answer, Goto, At, tree, treeVars
<1>1. CASE CallTool(c)
  <2>1. pc[c] = "idle" /\ UNCHANGED <<dest, store>> /\ up BY <1>1 DEF CallTool
  <2>2. prior' = [prior EXCEPT ![c] = {d \in Calls : res[d] # ""}] BY <1>1 DEF CallTool
  <2>3. \E l : pc' = [pc EXCEPT ![c] = l] BY <1>1 DEF CallTool
  <2>4. res' = res \/ \E r : res' = [res EXCEPT ![c] = r] BY <1>1 DEF CallTool
  <2> QED BY <1>a, <2>1, <2>2, <2>3, <2>4
<1>2. CASE ResolveRecipient(c)
  <2>1. pc[c] = "resolve" /\ UNCHANGED <<prior, store>> /\ up BY <1>2 DEF ResolveRecipient
  <2>2. dest' = dest \/ \E t : dest' = [dest EXCEPT ![c] = t] BY <1>2 DEF ResolveRecipient
  <2>3. \E l : pc' = [pc EXCEPT ![c] = l] BY <1>2 DEF ResolveRecipient
  <2>4. res' = res \/ \E r : res' = [res EXCEPT ![c] = r] BY <1>2 DEF ResolveRecipient
  <2> QED BY <1>a, <2>1, <2>2, <2>3, <2>4
<1>3. CASE Permit(c) BY <1>a, <1>3 DEF Permit
<1>4. CASE StoreMessage(c) BY <1>a, <1>4 DEF StoreMessage, Stores
<1>5. CASE handle_message_ack(c) BY <1>a, <1>5 DEF handle_message_ack, Stores
<1>6. CASE WriteFile(c) BY <1>a, <1>6 DEF WriteFile, Stores
<1>7. CASE StoreArtifact(c) BY <1>a, <1>7 DEF StoreArtifact, Stores
<1>8. CASE RemoveFile(c) BY <1>a, <1>8 DEF RemoveFile, Stores
<1>9. CASE handle_artifact_grant(c) BY <1>a, <1>9 DEF handle_artifact_grant, Stores
<1>10. CASE handle_message_read(c) BY <1>a, <1>10 DEF handle_message_read
<1>11. CASE handle_message_list(c)
  <2>1. pc[c] = "look" /\ UNCHANGED <<prior, store>> /\ up BY <1>11 DEF handle_message_list
  <2>2. \E t : dest' = [dest EXCEPT ![c] = t] BY <1>11 DEF handle_message_list
  <2>3. \E r : res' = [res EXCEPT ![c] = r] BY <1>11 DEF handle_message_list
  <2>4. pc' = [pc EXCEPT ![c] = "done"] BY <1>11 DEF handle_message_list
  <2> QED BY <1>a, <2>1, <2>2, <2>3, <2>4
<1>12. CASE handle_artifact_list(c)
  <2>1. pc[c] = "look" /\ UNCHANGED <<prior, store>> /\ up BY <1>12 DEF handle_artifact_list
  <2>2. \E t : dest' = [dest EXCEPT ![c] = t] BY <1>12 DEF handle_artifact_list
  <2>3. \E r : res' = [res EXCEPT ![c] = r] BY <1>12 DEF handle_artifact_list
  <2>4. pc' = [pc EXCEPT ![c] = "done"] BY <1>12 DEF handle_artifact_list
  <2> QED BY <1>a, <2>1, <2>2, <2>3, <2>4
<1>13. CASE handle_artifact_read(c) BY <1>a, <1>13 DEF handle_artifact_read
<1>14. CASE FetchBytes(c) BY <1>a, <1>14 DEF FetchBytes
<1>15. CASE Authorize(c) BY <1>a, <1>15 DEF Authorize
<1>16. CASE Route(c)
  <2>1. pc[c] = "route" /\ UNCHANGED <<prior, store>> /\ up BY <1>16 DEF Route
  <2>2. dest' = dest \/ \E t : dest' = [dest EXCEPT ![c] = t] BY <1>16 DEF Route
  <2>3. \E r : res' = [res EXCEPT ![c] = r] BY <1>16 DEF Route
  <2>4. pc' = [pc EXCEPT ![c] = "done"] BY <1>16 DEF Route
  <2> QED BY <1>a, <2>1, <2>2, <2>3, <2>4
<1>17. CASE journal_append(c)
  <2>1. pc[c] = "journal" /\ UNCHANGED <<prior, dest>> /\ up BY <1>17 DEF journal_append
  <2>2. pc' = [pc EXCEPT ![c] = "done"] /\ res' = [res EXCEPT ![c] = "ok"] BY <1>17 DEF journal_append
  <2> QED BY <1>a, <1>17, <2>1, <2>2 DEF Stores
<1> QED BY <1>1, <1>2, <1>3, <1>4, <1>5, <1>6, <1>7, <1>8, <1>9, <1>10, <1>11, <1>12, <1>13, <1>14,
    <1>15, <1>16, <1>17 DEF Handler

\* Every other step leaves the calls and the store alone, or is a crash or what follows it.
LEMMA StepIs ==
    ASSUME [Next]_vars
    PROVE  (\E c \in Calls : Handler(c)) \/ UNCHANGED callVars \/ Crash \/ Reopen
BY DEF Next, vars, callVars, store, tree, SessionEnds, WorkerSettles, WorkerResumes, SubleadLeaves,
   SubleadFiled, ListWorkers

-----------------------------------------------------------------------------
(* What is settled stays *)

\* The recipient of a settled call, and an answer, never change.
Fixed ==
    \A d \in Calls :
        /\ pc[d] \in Settled => pc'[d] \in Settled /\ dest'[d] = dest[d]
        /\ pc[d] \in Settled /\ res[d] \in {"", "ok"} => res'[d] \in {"", "ok"}
        /\ res[d] # "" => res'[d] = res[d]
        /\ pc[d] = "done" => pc'[d] = "done"
        /\ pc[d] # "idle" => pc'[d] # "idle" /\ prior'[d] = prior[d]

\* Every step, a crash included, leaves what is settled alone.
LEMMA AnswersSettle ==
    ASSUME TypeOK, StageInv, [Next]_vars
    PROVE  Fixed /\ menu' = menu
<1>1. ASSUME NEW c \in Calls, Handler(c) PROVE Fixed /\ menu' = menu
  <2>1. Moves(c) BY <1>1, HandlersMove
  <2>2. pc[c] # "idle" => pc'[c] # "idle"
    BY <1>1, CallIs DEF Handler, TypeOK, At, Answer, Goto, CallTool, ResolveRecipient, Permit, StoreMessage,
       handle_message_ack, WriteFile, StoreArtifact, RemoveFile, handle_artifact_grant, handle_message_read,
       handle_message_list, handle_artifact_list, handle_artifact_read, FetchBytes, Authorize, Route,
       journal_append
  <2>3. res[c] = "" BY <2>1 DEF StageInv, Stage, Moves
  <2> QED BY <2>1, <2>2, <2>3 DEF Moves, Fixed, Settled
<1>2. CASE UNCHANGED callVars BY <1>2 DEF callVars, Fixed
<1>3. CASE Crash BY <1>3 DEF Crash, Fixed, Settled
<1>4. CASE Reopen BY <1>4 DEF Reopen, Fixed
<1> QED BY <1>1, <1>2, <1>3, <1>4, StepIs

\* A grant that was stored is never taken back.
LEMMA GrantsGrow ==
    ASSUME Fixed, menu' = menu, NEW x
    PROVE  Granted(x) \subseteq Granted(x)'
<1>1. Calls' = Calls /\ \A d \in Calls : Call(d)' = Call(d) BY DEF Calls, Call
<1> SUFFICES ASSUME NEW w \in Granted(x) PROVE w \in Granted(x)' OBVIOUS
<1>2. PICK d \in Calls : /\ Call(d).tool = "artifact_grant" /\ Call(d).item = x /\ w = dest[d]
                         /\ pc[d] \in Settled /\ res[d] \in {"", "ok"}
  BY DEF Granted, Settled
<1>3. pc'[d] \in Settled /\ dest'[d] = w /\ res'[d] \in {"", "ok"} BY <1>2 DEF Fixed
<1> QED BY <1>1, <1>2, <1>3 DEF Granted, Settled

\* A call that does not move keeps what it was permitted.
LEMMA PermittedStays ==
    ASSUME TypeOK, StageInv, Fixed, menu' = menu, NEW d \in Calls, Permitted(d),
           pc'[d] = pc[d] \/ pc'[d] = "dead", res'[d] = res[d], dest'[d] = dest[d]
    PROVE  Permitted(d)'
<1> DEFINE t == Call(d).tool
           m == Call(d).item
<1>1. Calls' = Calls /\ \A c \in Calls : Call(c)' = Call(c) BY DEF Calls, Call
<1>2. Call(d).tool \in MessageItemTools \cup ArtifactItemTools => m \in Calls
  BY CallIs DEF TypeOK
<1>3. \A c \in Calls : Who(c)' = Who(c) BY <1>1 DEF Who
<1>4. \A x \in Calls : pc[x] \in Settled /\ Sees(d, x) => Sees(d, x)'
  BY <1>3 DEF Fixed, Sees, Oversees, Overseers
<1>5. \A x \in Calls : Fetches(d, x) => Fetches(d, x)'
  BY <1>3, GrantsGrow DEF Fetches, Oversees, Overseers
<1>6. pc[d] # "idle" /\ m \in Calls => pc[m] \in Settled BY DEF StageInv, Stage
<1>7. res[d] = "ok" => pc[d] # "idle" BY DEF StageInv, Stage
<1>8. (t \in {"message_send", "artifact_grant"} /\ (pc[d] \in {"store", "journal"} \/ res[d] = "ok") =>
           Oversees(d, dest[d]) \/ dest[d] \in Overseers(Who(d)))'
  BY <1>1, <1>3 DEF Permitted, Oversees, Overseers
<1>9. (t \in MessageItemTools /\ (pc[d] = "journal" \/ res[d] = "ok") => Sees(d, m))'
  BY <1>1, <1>2, <1>4, <1>6, <1>7 DEF Permitted
<1>10. (t = "message_list" /\ res[d] = "ok" =>
           \A x \in dest[d] : x \in Calls /\ pc[x] \in Settled /\ Sees(d, x))'
  BY <1>1, <1>4 DEF Permitted, Fixed
<1>11. (t = "artifact_read" /\ (pc[d] = "fetch" \/ res[d] = "ok") => Fetches(d, m))'
  BY <1>1, <1>2, <1>5 DEF Permitted, ArtifactItemTools
<1>12. (t = "artifact_list" /\ res[d] = "ok" => \A x \in dest[d] : x \in Calls /\ Fetches(d, x))'
  BY <1>1, <1>5 DEF Permitted
<1>13. (t = "cancel_worker" /\ res[d] = "ok" => Oversees(d, Call(d).to))'
  BY <1>1, <1>3 DEF Permitted, Oversees, Overseers
<1>14. (t \in {"kv_get", "kv_set"} /\ res[d] = "ok" => dest[d] \in {"root"} \cup Overseers(Who(d)))'
  BY <1>1, <1>3 DEF Permitted, Overseers
<1> QED BY <1>8, <1>9, <1>10, <1>11, <1>12, <1>13, <1>14 DEF Permitted

-----------------------------------------------------------------------------
(* The positions of the handlers *)

\* No handler takes a message or an artifact out of the store.
LEMMA DomainsGrow ==
    ASSUME NEW c \in Calls, UNCHANGED store \/ Stores(c)
    PROVE  DOMAIN messages \subseteq DOMAIN messages' /\ DOMAIN artifacts \subseteq DOMAIN artifacts'
BY DEF store, Stores, StoreMessage, handle_message_ack, WriteFile, StoreArtifact, RemoveFile,
   handle_artifact_grant, journal_append

\* Where the step of a handler leads, and with which answer.
Advances(c) ==
    /\ pc'[c] \in Path(Call(c).tool) \cup {"done"}
    /\ res'[c] # "" <=> pc'[c] = "done"
    /\ res'[c] # "invalid_token"
    /\ pc[c] = "idle" =>
          /\ Call(c).item # "" => Call(c).item \in DOMAIN messages \cup DOMAIN artifacts
          /\ \A d \in prior'[c] : d \in Calls /\ res[d] # ""
    /\ pc[c] # "idle" => pc[c] \in Path(Call(c).tool)

\* A handler goes along its tool's path, and a live session's call is never refused its token.
LEMMA HandlersAdvance ==
    ASSUME TypeOK, TokenInv, StageInv, NEW c \in Calls, Handler(c)
    PROVE  Advances(c)
<1>1. Call(c).by \in Sessions /\ Call(c).tool \in Tools BY CallIs DEF TypeOK
<1>2. Stage(c) BY DEF StageInv
<1>3. DOMAIN pc = Calls /\ DOMAIN res = Calls BY DEF TypeOK
<1>4. pc[c] # "idle" => pc[c] \in Path(Call(c).tool)
  <2>1. Moves(c) BY HandlersMove
  <2> QED BY <1>2, <2>1 DEF Stage, Moves, Resting
<1>5. pc[c] # "done" => res[c] = "" BY <1>2 DEF Stage
<1> USE DEF At, Answer, Goto
<1>6. CASE CallTool(c)
  <2>1. pc[c] = "idle" /\ (Call(c).item # "" => Call(c).item \in DOMAIN messages \cup DOMAIN artifacts)
    BY <1>6 DEF CallTool
  <2>2. \A d \in prior'[c] : d \in Calls /\ res[d] # "" BY <1>6 DEF CallTool, TypeOK
  <2>3. Heard(Call(c).by) BY <1>1, <1>6 DEF CallTool, TokenInv, Heard
  <2>4. FirstCheck(c) \in {"", "communication_disabled", "too_large"} BY DEF FirstCheck
  <2>5. FirstStep(Call(c).tool) \in Path(Call(c).tool)
    BY <1>1 DEF FirstStep, Path, Tools, CommunicationTools
  <2>6. \/ pc'[c] = "done" /\ res'[c] = FirstCheck(c) /\ FirstCheck(c) # ""
        \/ pc'[c] = FirstStep(Call(c).tool) /\ res'[c] = res[c]
    BY <1>3, <1>6, <2>3 DEF CallTool
  <2>7. "done" \notin Path(Call(c).tool) BY <1>1 DEF Path, Tools, CommunicationTools
  <2> QED BY <1>5, <2>1, <2>2, <2>4, <2>5, <2>6, <2>7 DEF Advances
<1>7. CASE ResolveRecipient(c)
  <2>1. pc[c] = "resolve" BY <1>7 DEF ResolveRecipient
  <2>2. \/ pc'[c] = "permit" /\ res'[c] = res[c]
        \/ pc'[c] = "done" /\ res'[c] = "unknown_actor"
    BY <1>3, <1>7 DEF ResolveRecipient
  <2>3. "permit" \in Path(Call(c).tool) BY <1>1, <1>4, <2>1 DEF Path, Tools, CommunicationTools
  <2> QED BY <1>4, <1>5, <2>1, <2>2, <2>3 DEF Advances
<1>8. CASE Permit(c)
  <2>1. pc[c] = "permit" BY <1>8 DEF Permit
  <2>2. (pc'[c] = "store" /\ res'[c] = res[c]) \/ (pc'[c] = "done" /\ res'[c] = "forbidden")
    BY <1>3, <1>8 DEF Permit
  <2>3. "store" \in Path(Call(c).tool) BY <1>1, <1>4, <2>1 DEF Path, Tools, CommunicationTools
  <2> QED BY <1>4, <1>5, <2>1, <2>2, <2>3 DEF Advances
<1>9. CASE StoreMessage(c)
  <2>1. pc[c] = "store" /\ pc'[c] = "journal" /\ res'[c] = res[c] BY <1>3, <1>9 DEF StoreMessage
  <2>3. "journal" \in Path(Call(c).tool) BY <1>9 DEF Path, StoreMessage
  <2> QED BY <1>4, <1>5, <2>1, <2>3 DEF Advances
<1>10. CASE handle_message_ack(c)
  <2>1. pc[c] = "store" BY <1>10 DEF handle_message_ack
  <2>2. (pc'[c] = "journal" /\ res'[c] = res[c]) \/ (pc'[c] = "done" /\ res'[c] = "forbidden")
    BY <1>3, <1>10 DEF handle_message_ack
  <2>3. "journal" \in Path(Call(c).tool) BY <1>10 DEF Path, handle_message_ack
  <2> QED BY <1>4, <1>5, <2>1, <2>2, <2>3 DEF Advances
<1>11. CASE WriteFile(c)
  <2>1. pc[c] = "file" BY <1>11 DEF WriteFile
  <2>2. (pc'[c] = "store" /\ res'[c] = res[c]) \/ (pc'[c] = "done" /\ res'[c] = "storage_error")
    BY <1>3, <1>11 DEF WriteFile
  <2>3. "store" \in Path(Call(c).tool) BY <1>1, <1>4, <2>1 DEF Path, Tools, CommunicationTools
  <2> QED BY <1>4, <1>5, <2>1, <2>2, <2>3 DEF Advances
<1>12. CASE StoreArtifact(c)
  <2>1. pc[c] = "store" /\ pc'[c] \in {"remove", "journal"} /\ res'[c] = res[c]
    BY <1>3, <1>12 DEF StoreArtifact
  <2>3. {"remove", "journal"} \subseteq Path(Call(c).tool) BY <1>12 DEF Path, StoreArtifact
  <2> QED BY <1>4, <1>5, <2>1, <2>3 DEF Advances
<1>13. CASE RemoveFile(c)
  <2>1. pc[c] = "remove" /\ pc'[c] = "done" /\ res'[c] = "artifact_count_exceeded"
    BY <1>3, <1>13 DEF RemoveFile
  <2> QED BY <1>4, <2>1 DEF Advances
<1>14. CASE handle_artifact_grant(c)
  <2>1. pc[c] = "store" BY <1>14 DEF handle_artifact_grant
  <2>2. (pc'[c] = "journal" /\ res'[c] = res[c]) \/ (pc'[c] = "done" /\ res'[c] = "forbidden")
    BY <1>3, <1>14 DEF handle_artifact_grant
  <2>3. "journal" \in Path(Call(c).tool) BY <1>14 DEF Path, handle_artifact_grant
  <2> QED BY <1>4, <1>5, <2>1, <2>2, <2>3 DEF Advances
<1>15. CASE handle_message_read(c)
  <2>1. pc[c] = "look" /\ pc'[c] = "done" /\ res'[c] \in {"ok", "forbidden"}
    BY <1>3, <1>15 DEF handle_message_read
  <2> QED BY <1>4, <2>1 DEF Advances
<1>16. CASE handle_message_list(c)
  <2>1. pc[c] = "look" /\ pc'[c] = "done" /\ res'[c] \in {"ok", "forbidden"}
    BY <1>3, <1>16 DEF handle_message_list, ListAnswer
  <2> QED BY <1>4, <2>1 DEF Advances
<1>17. CASE handle_artifact_list(c)
  <2>1. pc[c] = "look" /\ pc'[c] = "done" /\ res'[c] \in {"ok", "forbidden"}
    BY <1>3, <1>17 DEF handle_artifact_list, ListAnswer
  <2> QED BY <1>4, <2>1 DEF Advances
<1>18. CASE handle_artifact_read(c)
  <2>1. pc[c] = "look" BY <1>18 DEF handle_artifact_read
  <2>2. (pc'[c] = "fetch" /\ res'[c] = res[c]) \/ (pc'[c] = "done" /\ res'[c] = "forbidden")
    BY <1>3, <1>18 DEF handle_artifact_read
  <2>3. "fetch" \in Path(Call(c).tool) BY <1>18 DEF Path, handle_artifact_read
  <2> QED BY <1>4, <1>5, <2>1, <2>2, <2>3 DEF Advances
<1>19. CASE FetchBytes(c)
  <2>1. pc[c] = "fetch" /\ pc'[c] = "done" /\ res'[c] \in {"ok", "storage_error"}
    BY <1>3, <1>19 DEF FetchBytes
  <2> QED BY <1>4, <2>1 DEF Advances
<1>20. CASE Authorize(c)
  <2>1. pc[c] = "authorize" /\ pc'[c] = "done" /\ res'[c] \in {"ok", "forbidden"}
    BY <1>3, <1>20 DEF Authorize
  <2> QED BY <1>4, <2>1 DEF Advances
<1>21. CASE Route(c)
  <2>1. pc[c] = "route" /\ pc'[c] = "done" /\ res'[c] \in {"ok", "forbidden", "unknown_layer"}
    BY <1>3, <1>21 DEF Route
  <2> QED BY <1>4, <2>1 DEF Advances
<1>22. CASE journal_append(c)
  <2>1. pc[c] = "journal" /\ pc'[c] = "done" /\ res'[c] = "ok" BY <1>3, <1>22 DEF journal_append
  <2> QED BY <1>4, <2>1 DEF Advances
<1> QED BY <1>6, <1>7, <1>8, <1>9, <1>10, <1>11, <1>12, <1>13, <1>14, <1>15, <1>16, <1>17, <1>18,
    <1>19, <1>20, <1>21, <1>22 DEF Handler

\* Every step keeps the position, the answer and the item of every call.
LEMMA NextStage ==
    ASSUME TypeOK, TokenInv, StageInv, ItemInv, [Next]_vars
    PROVE  StageInv'
<1>a. Fixed /\ menu' = menu BY AnswersSettle
<1>b. Calls' = Calls /\ \A d \in Calls : Call(d)' = Call(d) BY <1>a DEF Calls, Call
<1>1. ASSUME NEW c \in Calls, Handler(c) PROVE StageInv'
  <2>1. Moves(c) /\ Advances(c) BY <1>1, HandlersMove, HandlersAdvance
  <2>2. DOMAIN messages \subseteq DOMAIN messages' /\ DOMAIN artifacts \subseteq DOMAIN artifacts'
    BY <1>1, HandlersMove, DomainsGrow
  <2>3. ASSUME NEW d \in Calls \ {c} PROVE Stage(d)'
    <3>1. Stage(d) /\ d \in Calls BY DEF StageInv
    <3>2. pc'[d] = pc[d] /\ res'[d] = res[d] /\ prior'[d] = prior[d] BY <2>1, <2>3 DEF Moves
    <3>3. \A e \in prior[d] : e \in Calls /\ res'[e] # "" BY <1>a, <3>1 DEF Stage, Fixed, TypeOK
    <3> QED BY <1>a, <1>b, <2>1, <2>2, <3>1, <3>2, <3>3 DEF Stage, Fixed, Moves
  <2>4. Stage(c)'
    <3>1. Stage(c) BY DEF StageInv
    <3>2. pc'[c] \in Path(Call(c).tool) \cup Resting /\ (res'[c] # "" <=> pc'[c] = "done")
          /\ res'[c] # "invalid_token"
      BY <2>1 DEF Advances, Resting
    <3>3. Call(c).item \in Calls => pc'[Call(c).item] \in Settled
      <4>1. CASE pc[c] = "idle"
        <5>1. Call(c).item \in Calls => Call(c).item # "" BY CallIs DEF TypeOK
        <5>2. Call(c).item \in Calls => pc[Call(c).item] \in Settled
          BY <2>1, <4>1, <5>1 DEF Advances, ItemInv
        <5> QED BY <1>a, <5>2 DEF Fixed
      <4>2. CASE pc[c] # "idle" BY <1>a, <3>1, <4>2 DEF Stage, Fixed
      <4> QED BY <4>1, <4>2
    <3>4. pc'[c] \notin Resting /\ Call(c).tool \in ArtifactItemTools => Call(c).item \in DOMAIN artifacts'
      <4> SUFFICES ASSUME pc'[c] \notin Resting, Call(c).tool \in ArtifactItemTools
                   PROVE  Call(c).item \in DOMAIN artifacts'
        OBVIOUS
      <4>1. Call(c).item \in Calls /\ Call(Call(c).item).tool = "artifact_put" /\ Call(c).item # ""
        BY CallIs DEF TypeOK
      <4>2. CASE pc[c] = "idle" BY <2>1, <2>2, <4>1, <4>2 DEF Advances, ItemInv
      <4>3. CASE pc[c] # "idle"
        <5>1. pc[c] \notin Resting BY <2>1, <4>3 DEF Moves, Resting
        <5> QED BY <2>2, <3>1, <5>1 DEF Stage
      <4> QED BY <4>2, <4>3
    <3>5. \A d \in prior'[c] : res'[d] # ""
      <4>1. CASE pc[c] = "idle" BY <1>a, <2>1, <4>1 DEF Advances, Fixed
      <4>2. CASE pc[c] # "idle"
        <5>1. prior'[c] = prior[c] /\ prior[c] \subseteq Calls BY <2>1, <4>2 DEF Moves, TypeOK
        <5> QED BY <1>a, <3>1, <5>1 DEF Stage, Fixed
      <4> QED BY <4>1, <4>2
    <3> QED BY <1>b, <2>1, <3>2, <3>3, <3>4, <3>5 DEF Stage, Moves
  <2> QED BY <1>b, <2>3, <2>4 DEF StageInv
<1>2. CASE UNCHANGED callVars
  <2>1. UNCHANGED <<menu, up, pc, res, prior, artifacts>> BY <1>2 DEF callVars, store
  <2> QED BY <1>b, <2>1 DEF StageInv, Stage
<1>3. CASE Crash
  <2>1. UNCHANGED <<res, prior>> /\ \A d \in Calls : pc'[d] = IF pc[d] \in {"idle", "done"} THEN pc[d] ELSE "dead"
    BY <1>3 DEF Crash
  <2> SUFFICES ASSUME NEW c \in Calls PROVE Stage(c)' BY <1>b DEF StageInv
  <2>2. Stage(c) BY DEF StageInv
  <2>3. pc'[c] \in Resting /\ res'[c] = res[c] /\ prior'[c] = prior[c] /\ (pc'[c] = "done" <=> pc[c] = "done")
        /\ (pc'[c] # "idle" <=> pc[c] # "idle")
    BY <2>1 DEF Resting
  <2>4. Call(c)' = Call(c) BY <1>b
  <2>5. \A d \in Calls : pc[d] \in Settled => pc'[d] \in Settled BY <1>a DEF Fixed
  <2>6. \A d \in prior[c] : res'[d] # "" BY <2>1, <2>2 DEF Stage
  <2>7. pc[c] # "idle" /\ Call(c).item \in Calls => pc'[Call(c).item] \in Settled BY <2>2, <2>5 DEF Stage
  <2> QED BY <1>b, <2>2, <2>3, <2>4, <2>6, <2>7 DEF Stage
<1>4. CASE Reopen
  <2>1. UNCHANGED <<pc, res, prior>> /\ ~ up BY <1>4 DEF Reopen
  <2> SUFFICES ASSUME NEW c \in Calls PROVE Stage(c)' BY <1>b DEF StageInv
  <2>2. Stage(c) /\ pc[c] \in Resting BY <2>1 DEF StageInv, Stage
  <2> QED BY <1>4, <1>b, <2>1, <2>2 DEF Stage, Reopen
<1> QED BY <1>1, <1>2, <1>3, <1>4, StepIs

-----------------------------------------------------------------------------
(* Access *)

\* The bridge's signature is that of the session that called.
LEMMA CallerIs == \A c : Caller(c) = Who(c)
BY DEF Caller, Who, inject_meta

\* What the code's look at the tree allows, the true tree allows.
LEMMA RolesAre == \A a : (Role(a) = "lead" => a = "root") /\ (Role(a) = "sublead" => a \in Subs)
BY DEF Role

\* The parent the code looks up, in the index or in a layer, is the true one.
LEMMA ParentsAre ==
    ASSUME NEW a, NEW p, worker_parent(a) = {p}
    PROVE  p \in Overseers(a)
<1>1. a \in Workers /\ Owner[a] = p BY DEF worker_parent
<1> QED BY <1>1 DEF Overseers

\* Who can_observe_actor lets through oversees the target by the true tree.
LEMMA ObserversOversee ==
    ASSUME NEW a, NEW t, can_observe_actor(a, t)
    PROVE  a \in Overseers(t)
<1>1. CASE a = t \/ Role(a) = "lead" BY <1>1, RolesAre DEF Overseers
<1>2. CASE worker_parent(t) = {a} BY <1>2, ParentsAre
<1> QED BY <1>1, <1>2 DEF can_observe_actor

\* ensure_can_send lets a message go only along an edge of the true tree.
LEMMA SendersAreLinked ==
    ASSUME NEW a, NEW t, ensure_can_send(a, t)
    PROVE  a \in Overseers(t) \/ t \in Overseers(a)
<1>1. CASE Role(a) = "lead" BY <1>1, RolesAre DEF Overseers
<1>2. CASE Role(a) = "sublead"
  <2>1. t \in {"root", a} \/ worker_parent(t) = {a} BY <1>2 DEF ensure_can_send
  <2> QED BY <2>1, ParentsAre DEF Overseers
<1>3. CASE Role(a) = "worker"
  <2>1. t = a \/ parent_for_actor(a) = {t} BY <1>3 DEF ensure_can_send
  <2>2. parent_for_actor(a) = worker_parent(a) BY <1>3 DEF parent_for_actor
  <2> QED BY <2>1, <2>2, ParentsAre DEF Overseers
<1> QED BY <1>1, <1>2, <1>3 DEF Role

\* authorize_target lets an actor steer itself and its own workers, and the lead anyone.
LEMMA SteersOwn ==
    ASSUME index \subseteq Workers, NEW a, NEW t, authorize_target(a, t)
    PROVE  a \in Overseers(t)
BY RolesAre DEF authorize_target, Overseers

\* A kv call reaches the root's store or that of the caller's own layer.
LEMMA RoutesHome ==
    ASSUME index \subseteq Workers, NEW a, NEW l \in resolve_layer_for_caller(a)
    PROVE  l \in {"root"} \cup Overseers(a)
<1>1. CASE Role(a) = "lead" BY <1>1 DEF resolve_layer_for_caller
<1>2. CASE Role(a) = "sublead" BY <1>2 DEF resolve_layer_for_caller, Overseers
<1>3. CASE Role(a) = "worker" BY <1>3 DEF resolve_layer_for_caller, Overseers
<1> QED BY <1>1, <1>2, <1>3 DEF Role

\* Who may read a message oversees one of its parties.
LEMMA ReadersSee ==
    ASSUME NEW c, NEW m, can_read_message(Caller(c), m)
    PROVE  Sees(c, m)
<1>1. Caller(c) = Who(c) /\ From(m) = Who(m) BY CallerIs DEF From
<1>2. CASE Caller(c) \in {From(m), dest[m]} BY <1>1, <1>2 DEF Sees, Oversees, Overseers
<1>3. CASE can_observe_actor(Caller(c), From(m)) BY <1>1, <1>3, ObserversOversee DEF Sees, Oversees
<1>4. CASE can_observe_actor(Caller(c), dest[m]) BY <1>1, <1>4, ObserversOversee DEF Sees, Oversees
<1> QED BY <1>2, <1>3, <1>4 DEF can_read_message

\* Who may read an artifact oversees its owner or was granted it.
LEMMA ReadersFetch ==
    ASSUME ItemInv, NEW c, NEW x \in DOMAIN artifacts, can_read_artifact(Caller(c), x)
    PROVE  Fetches(c, x)
<1>1. Caller(c) = Who(c) /\ From(x) = Who(x) BY CallerIs DEF From
<1>2. CASE Caller(c) = From(x) BY <1>1, <1>2 DEF Fetches, Oversees, Overseers
<1>3. CASE Caller(c) \in artifacts[x] BY <1>1, <1>3 DEF Fetches, ItemInv
<1>4. CASE can_observe_actor(Caller(c), From(x)) BY <1>1, <1>4, ObserversOversee DEF Fetches, Oversees
<1> QED BY <1>2, <1>3, <1>4 DEF can_read_artifact

\* A list shows what its caller may read.
LEMMA ListsSee ==
    ASSUME TypeOK, ItemInv, NEW c \in Calls, handle_message_list(c), res'[c] = "ok"
    PROVE  \A m \in dest'[c] : m \in Calls /\ pc[m] \in Settled /\ Sees(c, m)
<1> DEFINE out == {m \in DOMAIN messages : MessageInScope(Caller(c), Call(c).to, m)}
           ans == ListAnswer(c, DOMAIN messages)
<1>1. res'[c] = ans /\ dest'[c] = IF ans = "ok" THEN out ELSE {}
  BY DEF handle_message_list, Answer, TypeOK
<1>2. dest'[c] = out BY <1>1
<1> SUFFICES ASSUME NEW m \in DOMAIN messages, MessageInScope(Caller(c), Call(c).to, m)
             PROVE  m \in Calls /\ pc[m] \in Settled /\ Sees(c, m)
  BY <1>2
<1>3. m \in Calls /\ pc[m] \in Settled BY DEF ItemInv
<1>4. Call(c).to \in MessageScopes BY CallIs DEF handle_message_list, TypeOK
<1>5. Caller(c) = Who(c) /\ From(m) = Who(m) BY CallerIs DEF From
<1>6. CASE Call(c).to = "inbox" BY <1>3, <1>5, <1>6 DEF MessageInScope, Sees, Oversees, Overseers
<1>7. CASE Call(c).to = "sent" BY <1>3, <1>5, <1>7 DEF MessageInScope, Sees, Oversees, Overseers
<1>8. CASE Call(c).to = "visible" BY <1>3, <1>8, ReadersSee DEF MessageInScope
<1>9. CASE Call(c).to = "all"
  <2>1. Role(Caller(c)) = "lead" BY <1>1, <1>9 DEF ListAnswer
  <2> QED BY <1>3, <1>5, <2>1, RolesAre DEF Sees, Oversees, Overseers
<1> QED BY <1>4, <1>6, <1>7, <1>8, <1>9 DEF MessageScopes

\* A list of artifacts returns only what its caller may fetch.
LEMMA ListsFetch ==
    ASSUME TypeOK, ItemInv, NEW c \in Calls, handle_artifact_list(c), res'[c] = "ok"
    PROVE  \A x \in dest'[c] : x \in Calls /\ Fetches(c, x)
<1> DEFINE out == {x \in DOMAIN artifacts : ArtifactInScope(Caller(c), Call(c).to, x)}
           ans == ListAnswer(c, DOMAIN artifacts)
<1>1. res'[c] = ans /\ dest'[c] = IF ans = "ok" THEN out ELSE {}
  BY DEF handle_artifact_list, Answer, TypeOK
<1>2. dest'[c] = out BY <1>1
<1> SUFFICES ASSUME NEW x \in DOMAIN artifacts, ArtifactInScope(Caller(c), Call(c).to, x)
             PROVE  x \in Calls /\ Fetches(c, x)
  BY <1>2
<1>3. x \in Calls /\ artifacts[x] \subseteq Granted(x) BY DEF ItemInv
<1>4. Call(c).to \in ArtifactScopes BY CallIs DEF handle_artifact_list, TypeOK
<1>5. Caller(c) = Who(c) /\ From(x) = Who(x) BY CallerIs DEF From
<1>6. CASE Call(c).to = "owned" BY <1>3, <1>5, <1>6 DEF ArtifactInScope, Fetches, Oversees, Overseers
<1>7. CASE Call(c).to = "granted" BY <1>3, <1>5, <1>7 DEF ArtifactInScope, Fetches
<1>8. CASE Call(c).to = "visible" BY <1>3, <1>8, ReadersFetch DEF ArtifactInScope
<1>9. CASE Call(c).to = "all"
  <2>1. Role(Caller(c)) = "lead" BY <1>1, <1>9 DEF ListAnswer
  <2> QED BY <1>3, <1>5, <2>1, RolesAre DEF Fetches, Oversees, Overseers
<1> QED BY <1>4, <1>6, <1>7, <1>8, <1>9 DEF ArtifactScopes

\* What the handler of c has found when its step is done.
Found(c) ==
    LET t == Call(c).tool IN
    /\ t \in {"message_send", "artifact_grant"} /\ (pc'[c] \in {"store", "journal"} \/ res'[c] = "ok") =>
           Oversees(c, dest'[c]) \/ dest'[c] \in Overseers(Who(c))
    /\ t \in MessageItemTools /\ (pc'[c] = "journal" \/ res'[c] = "ok") => Sees(c, Call(c).item)
    /\ t = "message_list" /\ res'[c] = "ok" =>
           \A m \in dest'[c] : m \in Calls /\ pc[m] \in Settled /\ Sees(c, m)
    /\ t = "artifact_read" /\ (pc'[c] = "fetch" \/ res'[c] = "ok") => Fetches(c, Call(c).item)
    /\ t = "artifact_list" /\ res'[c] = "ok" => \A x \in dest'[c] : x \in Calls /\ Fetches(c, x)
    /\ t = "cancel_worker" /\ res'[c] = "ok" => Oversees(c, Call(c).to)
    /\ t \in {"kv_get", "kv_set"} /\ res'[c] = "ok" => dest'[c] \in {"root"} \cup Overseers(Who(c))

\* A handler that goes on, or answers with success, found its permission in the tree.
LEMMA HandlersFind ==
    ASSUME TypeOK, TokenInv, StageInv, AccessInv, ItemInv, NEW c \in Calls, Handler(c)
    PROVE  Found(c)
<1>1. /\ Call(c).tool \in Tools
      /\ Call(c).tool \in ArtifactItemTools => Call(c).item \in Calls
  BY CallIs DEF TypeOK
<1>2. Stage(c) /\ Permitted(c) BY DEF StageInv, AccessInv
<1>3. DOMAIN pc = Calls /\ DOMAIN res = Calls /\ DOMAIN dest = Calls BY DEF TypeOK
<1>4. pc[c] # "idle" => pc[c] \in Path(Call(c).tool)
  BY HandlersAdvance DEF Advances
<1>5. index \subseteq Workers BY MenuIs DEF TypeOK
<1>6. Caller(c) = Who(c) BY CallerIs
<1> USE DEF At, Answer, Goto
<1>7. CASE CallTool(c)
  <2>1. Heard(Call(c).by) BY <1>7, CallIs DEF CallTool, TokenInv, Heard, TypeOK
  <2>2. FirstCheck(c) # "ok" BY DEF FirstCheck
  <2>3. FirstStep(Call(c).tool) \notin {"journal", "fetch"} BY <1>1 DEF FirstStep, Tools, CommunicationTools
  <2>4. Call(c).tool \in {"message_send", "artifact_grant"} => FirstStep(Call(c).tool) = "resolve"
    BY DEF FirstStep
  <2>5. pc[c] = "idle" /\ res[c] = "" BY <1>2, <1>7 DEF CallTool, Stage
  <2>6. \/ pc'[c] = "done" /\ res'[c] = FirstCheck(c)
        \/ pc'[c] = FirstStep(Call(c).tool) /\ res'[c] = ""
    BY <1>3, <1>7, <2>1, <2>5 DEF CallTool
  <2> QED BY <2>2, <2>3, <2>4, <2>6 DEF Found
<1>8. CASE ResolveRecipient(c)
  <2>1. (pc'[c] = "permit" /\ res'[c] = res[c]) \/ (pc'[c] = "done" /\ res'[c] = "unknown_actor")
    BY <1>3, <1>8 DEF ResolveRecipient
  <2>2. res[c] = "" BY <1>2, <1>8 DEF ResolveRecipient, Stage
  <2> QED BY <2>1, <2>2 DEF Found
<1>9. CASE Permit(c)
  <2>1. pc[c] = "permit" /\ dest' = dest BY <1>9 DEF Permit
  <2>2. Call(c).tool \in {"message_send", "artifact_grant"}
    BY <1>1, <1>4, <2>1 DEF Path, Tools, CommunicationTools
  <2>3. CASE ensure_can_send(Caller(c), dest[c])
    <3>1. Oversees(c, dest[c]) \/ dest[c] \in Overseers(Who(c))
      BY <1>6, <2>3, SendersAreLinked DEF Oversees
    <3> QED BY <2>1, <2>2, <3>1 DEF Found, MessageItemTools
  <2>4. CASE ~ ensure_can_send(Caller(c), dest[c])
    <3>1. pc'[c] = "done" /\ res'[c] = "forbidden" BY <1>3, <1>9, <2>4 DEF Permit
    <3> QED BY <3>1 DEF Found
  <2> QED BY <2>3, <2>4
<1>10. CASE StoreMessage(c)
  <2>1. pc[c] = "store" /\ dest' = dest /\ Call(c).tool = "message_send" BY <1>10 DEF StoreMessage
  <2> QED BY <1>2, <2>1 DEF Found, MessageItemTools, Permitted
<1>11. CASE handle_message_ack(c)
  <2>1. Call(c).tool = "message_ack" BY <1>11 DEF handle_message_ack
  <2>2. CASE can_read_message(Caller(c), Call(c).item)
    <3>1. Sees(c, Call(c).item) BY <2>2, ReadersSee
    <3> QED BY <2>1, <3>1 DEF Found
  <2>3. CASE ~ can_read_message(Caller(c), Call(c).item)
    <3>1. pc'[c] = "done" /\ res'[c] = "forbidden" BY <1>3, <1>11, <2>3 DEF handle_message_ack
    <3> QED BY <3>1 DEF Found
  <2> QED BY <2>2, <2>3
<1>12. CASE WriteFile(c)
  <2>1. pc[c] = "file" BY <1>12 DEF WriteFile
  <2>2. Call(c).tool = "artifact_put" BY <1>1, <1>4, <2>1 DEF Path, Tools, CommunicationTools
  <2> QED BY <2>2 DEF Found, MessageItemTools
<1>13. CASE StoreArtifact(c) BY <1>13 DEF StoreArtifact, Found, MessageItemTools
<1>14. CASE RemoveFile(c)
  <2>1. pc'[c] = "done" /\ res'[c] = "artifact_count_exceeded" BY <1>3, <1>14 DEF RemoveFile
  <2> QED BY <2>1 DEF Found
<1>15. CASE handle_artifact_grant(c)
  <2>1. pc[c] = "store" /\ dest' = dest /\ Call(c).tool = "artifact_grant" BY <1>15 DEF handle_artifact_grant
  <2> QED BY <1>2, <2>1 DEF Found, MessageItemTools, Permitted
<1>16. CASE handle_message_read(c)
  <2>1. Call(c).tool = "message_read" /\ pc'[c] = "done"
        /\ res'[c] = IF can_read_message(Caller(c), Call(c).item) THEN "ok" ELSE "forbidden"
    BY <1>3, <1>16 DEF handle_message_read
  <2>2. res'[c] = "ok" => Sees(c, Call(c).item) BY <2>1, ReadersSee
  <2> QED BY <2>1, <2>2 DEF Found
<1>17. CASE handle_message_list(c)
  <2>1. Call(c).tool = "message_list" BY <1>17 DEF handle_message_list
  <2>2. res'[c] = "ok" => \A m \in dest'[c] : m \in Calls /\ pc[m] \in Settled /\ Sees(c, m)
    BY <1>17, ListsSee
  <2> QED BY <2>1, <2>2 DEF Found, MessageItemTools
<1>18. CASE handle_artifact_list(c)
  <2>1. Call(c).tool = "artifact_list" BY <1>18 DEF handle_artifact_list
  <2>2. res'[c] = "ok" => \A x \in dest'[c] : x \in Calls /\ Fetches(c, x)
    BY <1>18, ListsFetch
  <2> QED BY <2>1, <2>2 DEF Found, MessageItemTools
<1>19. CASE handle_artifact_read(c)
  <2>1. Call(c).tool = "artifact_read" /\ pc[c] = "look" BY <1>19 DEF handle_artifact_read
  <2>2. Call(c).item \in DOMAIN artifacts BY <1>2, <2>1 DEF Stage, Resting, ArtifactItemTools
  <2>3. CASE can_read_artifact(Caller(c), Call(c).item)
    <3>1. Fetches(c, Call(c).item) BY <2>2, <2>3, ReadersFetch
    <3> QED BY <2>1, <3>1 DEF Found, MessageItemTools
  <2>4. CASE ~ can_read_artifact(Caller(c), Call(c).item)
    <3>1. pc'[c] = "done" /\ res'[c] = "forbidden" BY <1>3, <1>19, <2>4 DEF handle_artifact_read
    <3> QED BY <3>1 DEF Found
  <2> QED BY <2>3, <2>4
<1>20. CASE FetchBytes(c)
  <2>1. pc[c] = "fetch" BY <1>20 DEF FetchBytes
  <2>2. Call(c).tool = "artifact_read" BY <1>1, <1>4, <2>1 DEF Path, Tools, CommunicationTools
  <2> QED BY <1>2, <2>1, <2>2 DEF Found, Permitted, MessageItemTools
<1>21. CASE Authorize(c)
  <2>1. pc[c] = "authorize" BY <1>21 DEF Authorize
  <2>2. Call(c).tool = "cancel_worker" BY <1>1, <1>4, <2>1 DEF Path, Tools, CommunicationTools
  <2>3. res'[c] = IF authorize_target(Caller(c), Call(c).to) THEN "ok" ELSE "forbidden"
    BY <1>3, <1>21 DEF Authorize
  <2>4. res'[c] = "ok" => Oversees(c, Call(c).to) BY <1>5, <1>6, <2>3, SteersOwn DEF Oversees
  <2> QED BY <2>2, <2>4 DEF Found, MessageItemTools
<1>22. CASE Route(c)
  <2>1. pc[c] = "route" BY <1>22 DEF Route
  <2>2. Call(c).tool \in {"kv_get", "kv_set"} BY <1>1, <1>4, <2>1 DEF Path, Tools, CommunicationTools
  <2>3. \/ res'[c] \in {"unknown_layer", "forbidden"}
        \/ \E l \in resolve_layer_for_caller(Caller(c)) : dest'[c] = l
    BY <1>3, <1>22 DEF Route
  <2>4. res'[c] = "ok" => dest'[c] \in {"root"} \cup Overseers(Who(c)) BY <1>5, <1>6, <2>3, RoutesHome
  <2> QED BY <2>2, <2>4 DEF Found, MessageItemTools
<1>23. CASE journal_append(c)
  <2>1. pc[c] = "journal" /\ dest' = dest /\ pc'[c] = "done" /\ res'[c] = "ok" BY <1>3, <1>23 DEF journal_append
  <2>2. Call(c).tool \in JournalTools BY <1>1, <1>4, <2>1 DEF Path, Tools, CommunicationTools, JournalTools
  <2> QED BY <1>2, <2>1, <2>2 DEF Found, Permitted, MessageItemTools, JournalTools
<1> QED BY <1>7, <1>8, <1>9, <1>10, <1>11, <1>12, <1>13, <1>14, <1>15, <1>16, <1>17, <1>18, <1>19,
    <1>20, <1>21, <1>22, <1>23 DEF Handler

\* Every step keeps what every call was permitted: tree edges may go, true edges do not.
LEMMA NextAccess ==
    ASSUME TypeOK, TokenInv, StageInv, AccessInv, ItemInv, [Next]_vars
    PROVE  AccessInv'
<1>a. Fixed /\ menu' = menu BY AnswersSettle
<1>b. Calls' = Calls /\ \A d \in Calls : Call(d)' = Call(d) /\ Who(d)' = Who(d)
  BY <1>a DEF Calls, Call, Who
<1>1. ASSUME NEW c \in Calls, Handler(c) PROVE AccessInv'
  <2>1. Moves(c) /\ Found(c) BY <1>1, HandlersMove, HandlersFind
  <2>2. \A d \in Calls \ {c} : Permitted(d)' BY <1>a, <2>1, PermittedStays DEF Moves, AccessInv
  <2>3. Permitted(c)'
    <3>1. \A x \in Calls : pc[x] \in Settled /\ Sees(c, x) => Sees(c, x)'
      BY <1>a, <1>b DEF Fixed, Sees, Oversees, Overseers
    <3>2. \A x \in Calls : Fetches(c, x) => Fetches(c, x)'
      BY <1>a, <1>b, GrantsGrow DEF Fetches, Oversees, Overseers
    <3>3. Call(c).tool \in MessageItemTools \cup ArtifactItemTools => Call(c).item \in Calls
      BY CallIs DEF TypeOK
    <3>4. pc'[c] # "idle" BY <1>1, HandlersAdvance, CallIs DEF Advances, Path, Tools, CommunicationTools, TypeOK
    <3>5. Call(c).item \in Calls => pc[Call(c).item] \in Settled
      <4>1. CASE pc[c] = "idle"
        <5>1. Call(c).item \in Calls => Call(c).item # "" BY CallIs DEF TypeOK
        <5>2. Advances(c) BY <1>1, HandlersAdvance
        <5> QED BY <4>1, <5>1, <5>2 DEF Advances, ItemInv
      <4>2. CASE pc[c] # "idle" BY <4>2 DEF StageInv, Stage
      <4> QED BY <4>1, <4>2
    <3> DEFINE t == Call(c).tool
               m == Call(c).item
    <3>6. (t \in {"message_send", "artifact_grant"} /\ (pc[c] \in {"store", "journal"} \/ res[c] = "ok") =>
               Oversees(c, dest[c]) \/ dest[c] \in Overseers(Who(c)))'
      BY <1>b, <2>1 DEF Found, Oversees, Overseers
    <3>7. (t \in MessageItemTools /\ (pc[c] = "journal" \/ res[c] = "ok") => Sees(c, m))'
      BY <1>b, <2>1, <3>1, <3>3, <3>5 DEF Found
    <3>8. (t = "message_list" /\ res[c] = "ok" =>
               \A x \in dest[c] : x \in Calls /\ pc[x] \in Settled /\ Sees(c, x))'
      BY <1>a, <1>b, <2>1, <3>1 DEF Found, Fixed
    <3>9. (t = "artifact_read" /\ (pc[c] = "fetch" \/ res[c] = "ok") => Fetches(c, m))'
      BY <1>b, <2>1, <3>2, <3>3 DEF Found, ArtifactItemTools
    <3>10. (t = "artifact_list" /\ res[c] = "ok" => \A x \in dest[c] : x \in Calls /\ Fetches(c, x))'
      BY <1>b, <2>1, <3>2 DEF Found
    <3>11. (t = "cancel_worker" /\ res[c] = "ok" => Oversees(c, Call(c).to))'
      BY <1>b, <2>1 DEF Found, Oversees, Overseers
    <3>12. (t \in {"kv_get", "kv_set"} /\ res[c] = "ok" => dest[c] \in {"root"} \cup Overseers(Who(c)))'
      BY <1>b, <2>1 DEF Found, Overseers
    <3> QED BY <3>6, <3>7, <3>8, <3>9, <3>10, <3>11, <3>12 DEF Permitted
  <2> QED BY <1>b, <2>2, <2>3 DEF AccessInv
<1>2. ASSUME \A d \in Calls : (pc'[d] = pc[d] \/ pc'[d] = "dead") /\ res'[d] = res[d] /\ dest'[d] = dest[d]
      PROVE  AccessInv'
  BY <1>a, <1>b, <1>2, PermittedStays DEF AccessInv
<1>3. CASE UNCHANGED callVars BY <1>2, <1>3 DEF callVars
<1>4. CASE Crash BY <1>2, <1>4 DEF Crash
<1>5. CASE Reopen BY <1>2, <1>5 DEF Reopen
<1> QED BY <1>1, <1>3, <1>4, <1>5, StepIs

-----------------------------------------------------------------------------
(* The mailbox and the artifacts *)

\* What is read back from the journal is what its whole records say.
LEMMA ReadBack ==
    ASSUME journal \in Seq({journal[i] : i \in 1..Len(journal)}), NEW x
    PROVE  /\ DOMAIN Lines(journal) = Whole(journal)
           /\ \A i \in Whole(journal) : Lines(journal)[i] = journal[i].rec
BY DEF Lines, Whole

\* A message that opening the journal gives is one whose send was answered.
LEMMA MessagesReadBack ==
    ASSUME TypeOK, JournalInv
    PROVE  \A m \in DOMAIN MessagesIn(Lines(journal)) :
              m \in Calls /\ Call(m).tool = "message_send" /\ res[m] = "ok"
<1> DEFINE rs == Lines(journal)
<1>1. DOMAIN rs = Whole(journal) /\ \A i \in Whole(journal) : rs[i] = journal[i].rec
  BY ReadBack DEF TypeOK
<1> HIDE DEF rs
<1>2. DOMAIN MessagesIn(rs) = {rs[i].id : i \in {k \in DOMAIN rs : rs[k].op = "message_send"}}
  BY DEF MessagesIn
<1> SUFFICES ASSUME NEW i \in DOMAIN rs, rs[i].op = "message_send"
             PROVE  rs[i].id \in Calls /\ Call(rs[i].id).tool = "message_send" /\ res[rs[i].id] = "ok"
  BY <1>2 DEF rs
<1>3. i \in 1..Len(journal) /\ rs[i] = journal[i].rec BY <1>1 DEF Whole
<1>4. PICK c \in Calls : res[c] = "ok" /\ journal[i].rec = Record(c) BY <1>3 DEF JournalInv
<1>5. rs[i].op = Call(c).tool /\ rs[i].id = IF c \in Items THEN c ELSE Call(c).item BY <1>3, <1>4 DEF Record
<1>6. c \in Items BY <1>5 DEF Items
<1> QED BY <1>4, <1>5, <1>6

\* The artifacts read back are the puts in the journal, with grants that were made.
LEMMA ArtifactsReadBack ==
    ASSUME TypeOK, StageInv, JournalInv
    PROVE  /\ DOMAIN ArtifactsIn(Lines(journal)) = JournalPuts
           /\ \A x \in JournalPuts : /\ x \in Calls /\ Call(x).tool = "artifact_put" /\ res[x] = "ok"
                                     /\ ArtifactsIn(Lines(journal))[x] \subseteq Granted(x)
<1> DEFINE rs == Lines(journal)
<1>1. DOMAIN rs = Whole(journal) /\ \A i \in Whole(journal) : rs[i] = journal[i].rec
  BY ReadBack DEF TypeOK
<1> HIDE DEF rs
<1>2. \A i \in DOMAIN rs :
          \E c \in Calls : /\ c = rs[i].call /\ res[c] = "ok" /\ rs[i].op = Call(c).tool
                           /\ rs[i].id = (IF c \in Items THEN c ELSE Call(c).item)
                           /\ rs[i].who = (IF Call(c).tool = "artifact_grant" THEN dest[c] ELSE Caller(c))
  <2> SUFFICES ASSUME NEW i \in DOMAIN rs
               PROVE  \E c \in Calls : /\ c = rs[i].call /\ res[c] = "ok" /\ rs[i].op = Call(c).tool
                           /\ rs[i].id = (IF c \in Items THEN c ELSE Call(c).item)
                           /\ rs[i].who = (IF Call(c).tool = "artifact_grant" THEN dest[c] ELSE Caller(c))
    OBVIOUS
  <2>1. i \in 1..Len(journal) /\ rs[i] = journal[i].rec BY <1>1 DEF Whole
  <2>2. PICK c \in Calls : res[c] = "ok" /\ journal[i].rec = Record(c) BY <2>1 DEF JournalInv
  <2> QED BY <2>1, <2>2 DEF Record
<1> DEFINE puts == {k \in DOMAIN rs : rs[k].op = "artifact_put"}
<1>3. DOMAIN ArtifactsIn(rs) = {rs[i].id : i \in puts} BY DEF ArtifactsIn
<1>4. \A i \in puts : rs[i].id = rs[i].call /\ rs[i].call \in Calls /\ Call(rs[i].call).tool = "artifact_put"
                      /\ res[rs[i].call] = "ok"
  BY <1>2 DEF Items
<1>5. JournalPuts = {rs[i].call : i \in puts}
  <2>1. ASSUME NEW c \in JournalPuts PROVE c \in {rs[i].call : i \in puts}
    <3>1. PICK i \in Whole(journal) : journal[i].rec.call = c BY DEF JournalPuts
    <3>2. i \in DOMAIN rs /\ rs[i].call = c BY <1>1, <3>1
    <3>3. rs[i].op = "artifact_put" BY <1>2, <3>2 DEF JournalPuts
    <3> QED BY <3>2, <3>3
  <2>2. ASSUME NEW i \in puts PROVE rs[i].call \in JournalPuts
    BY <1>1, <1>4 DEF JournalPuts
  <2> QED BY <2>1, <2>2
<1>6. DOMAIN ArtifactsIn(rs) = JournalPuts BY <1>3, <1>4, <1>5
<1>7. \A x \in JournalPuts : x \in Calls /\ Call(x).tool = "artifact_put" /\ res[x] = "ok" BY <1>4, <1>5
<1>8. ASSUME NEW x \in JournalPuts, NEW w \in ArtifactsIn(rs)[x] PROVE w \in Granted(x)
  <2>1. x \in {rs[i].id : i \in puts} BY <1>3, <1>6
  <2>2. ArtifactsIn(rs)[x] =
            {rs[i].who : i \in {k \in DOMAIN rs : rs[k].op = "artifact_grant" /\ rs[k].id = x
                                                  /\ Before(rs, k, "artifact_put", x)}}
    BY <2>1 DEF ArtifactsIn
  <2>3. PICK i \in DOMAIN rs : rs[i].op = "artifact_grant" /\ rs[i].id = x /\ w = rs[i].who BY <2>2
  <2>4. PICK c \in Calls : /\ res[c] = "ok" /\ rs[i].op = Call(c).tool
                           /\ rs[i].id = (IF c \in Items THEN c ELSE Call(c).item)
                           /\ rs[i].who = (IF Call(c).tool = "artifact_grant" THEN dest[c] ELSE Caller(c))
    BY <1>2
  <2>5. Call(c).tool = "artifact_grant" /\ Call(c).item = x /\ w = dest[c] BY <2>3, <2>4 DEF Items
  <2>6. pc[c] = "done" BY <2>4 DEF StageInv, Stage
  <2> QED BY <2>4, <2>5, <2>6 DEF Granted
<1> QED BY <1>6, <1>7, <1>8 DEF rs

\* The steps of a put, and those of the other calls.
LEMMA PutSteps ==
    ASSUME TypeOK, TokenInv, StageInv, NEW c \in Calls, Handler(c), Call(c).tool = "artifact_put"
    PROVE  \/ CallTool(c) /\ pc'[c] \in {"file", "done"} /\ res'[c] # "ok"
           \/ WriteFile(c) \/ StoreArtifact(c) \/ RemoveFile(c) \/ journal_append(c)
<1>1. pc[c] # "idle" => pc[c] \in {"file", "store", "remove", "journal"}
  BY HandlersAdvance DEF Advances, Path
<1>2. CASE pc[c] = "idle"
  <2>1. CallTool(c)
    BY <1>2 DEF Handler, At, CallTool, ResolveRecipient, Permit, StoreMessage, handle_message_ack, WriteFile,
       StoreArtifact, RemoveFile, handle_artifact_grant, handle_message_read, handle_message_list,
       handle_artifact_list, handle_artifact_read, FetchBytes, Authorize, Route, journal_append
  <2>2. res[c] = "" BY <1>2 DEF StageInv, Stage
  <2>3. FirstStep(Call(c).tool) = "file" /\ FirstCheck(c) # "ok" BY DEF FirstStep, FirstCheck
  <2>4. pc'[c] \in {"file", "done"} /\ res'[c] # "ok"
    BY <2>1, <2>2, <2>3 DEF CallTool, Answer, Goto, TypeOK
  <2> QED BY <2>1, <2>4
<1>3. CASE pc[c] # "idle"
  BY <1>1, <1>3 DEF Handler, At, CallTool, ResolveRecipient, Permit, StoreMessage, handle_message_ack, WriteFile,
     StoreArtifact, RemoveFile, handle_artifact_grant, handle_message_read, handle_message_list,
     handle_artifact_list, handle_artifact_read, FetchBytes, Authorize, Route, journal_append
<1> QED BY <1>2, <1>3

\* Calls other than a put leave the files and the set of artifacts alone; a grant adds to one.
LEMMA OtherSteps ==
    ASSUME TypeOK, TokenInv, StageInv, NEW c \in Calls, Handler(c), Call(c).tool # "artifact_put"
    PROVE  /\ files' = files /\ DOMAIN artifacts' = DOMAIN artifacts
           /\ \/ artifacts' = artifacts
              \/ /\ Call(c).tool = "artifact_grant" /\ pc'[c] = "journal" /\ res'[c] = ""
                 /\ dest' = dest
                 /\ artifacts' = [artifacts EXCEPT ![Call(c).item] = @ \cup {dest[c]}]
<1>1. pc[c] # "idle" => pc[c] \in Path(Call(c).tool) BY HandlersAdvance DEF Advances
<1>2. Call(c).tool \in Tools BY CallIs DEF TypeOK
<1>3. pc[c] \notin {"file", "remove"} BY <1>1, <1>2 DEF Path, Tools, CommunicationTools
<1>4. CASE UNCHANGED store BY <1>4 DEF store
<1>5. CASE Stores(c)
  <2>1. CASE handle_artifact_grant(c)
    <3>1. pc[c] = "store" /\ Call(c).tool = "artifact_grant" /\ files' = files /\ dest' = dest
      BY <2>1 DEF handle_artifact_grant, At
    <3>2. res[c] = "" BY <3>1 DEF StageInv, Stage
    <3>3. \/ artifacts' = artifacts
          \/ /\ artifacts' = [artifacts EXCEPT ![Call(c).item] = @ \cup {dest[c]}]
             /\ Goto(c, "journal")
      BY <2>1 DEF handle_artifact_grant
    <3> QED BY <3>1, <3>2, <3>3 DEF Goto, TypeOK
  <2>2. CASE ~ handle_artifact_grant(c)
    BY <1>3, <1>5, <2>2 DEF Stores, StoreMessage, handle_message_ack, WriteFile, StoreArtifact, RemoveFile,
       journal_append, At
  <2> QED BY <2>1, <2>2
<1> QED BY <1>4, <1>5, HandlersMove

\* Every step keeps the mailbox and the artifacts those of settled calls, with their files.
LEMMA NextItems ==
    ASSUME TypeOK, TokenInv, StageInv, ItemInv, JournalInv, FileInv, [Next]_vars
    PROVE  ItemInv'
<1>a. Fixed /\ menu' = menu BY AnswersSettle
<1>b. Calls' = Calls /\ \A d \in Calls : Call(d)' = Call(d) BY <1>a DEF Calls, Call
<1>c. \A x : Granted(x) \subseteq Granted(x)' BY <1>a, GrantsGrow
<1> DEFINE Mail == \A m \in DOMAIN messages : m \in Calls /\ Call(m).tool = "message_send" /\ pc[m] \in Settled
           Arts == \A x \in DOMAIN artifacts :
                      /\ x \in Calls /\ Call(x).tool = "artifact_put" /\ pc[x] \in Settled
                      /\ x \in files /\ artifacts[x] \subseteq Granted(x)
           Puts == \A c \in Calls : Call(c).tool = "artifact_put" /\ pc[c] = "journal" => c \in DOMAIN artifacts
<1>d. Mail /\ Arts /\ Puts BY DEF ItemInv
<1>e. \A d \in Calls : pc[d] \in Settled => pc'[d] \in Settled BY <1>a DEF Fixed
<1>f. Mail BY <1>d
<1>g. \A x \in DOMAIN artifacts : artifacts[x] \subseteq Granted(x)' BY <1>c, <1>d
<1>1. ASSUME NEW c \in Calls, Handler(c) PROVE ItemInv'
  <2>1. Moves(c) BY <1>1, HandlersMove
  <2>2. Mail'
    <3>1. DOMAIN messages' = DOMAIN messages \/ StoreMessage(c)
      BY <1>1, HandlersMove DEF store, Stores, StoreMessage, handle_message_ack, WriteFile, StoreArtifact,
         RemoveFile, handle_artifact_grant, journal_append
    <3>2. CASE DOMAIN messages' = DOMAIN messages BY <1>b, <1>e, <1>f, <3>2
    <3>3. CASE StoreMessage(c)
      <4>1. DOMAIN messages' = DOMAIN messages \cup {c} /\ Call(c).tool = "message_send" /\ pc'[c] = "journal"
        BY <3>3 DEF StoreMessage, Goto, TypeOK
      <4>2. pc'[c] \in Settled BY <4>1 DEF Settled
      <4> QED BY <1>b, <1>e, <1>f, <4>1, <4>2
    <3> QED BY <3>1, <3>2, <3>3
  <2>3. CASE Call(c).tool # "artifact_put"
    <3>1. files' = files /\ DOMAIN artifacts' = DOMAIN artifacts BY <1>1, <2>3, OtherSteps
    <3>2. Puts' BY <1>b, <1>d, <2>1, <2>3, <3>1 DEF Moves
    <3>3. CASE artifacts' = artifacts
      <4>1. Arts' BY <1>a, <1>b, <1>c, <1>d, <3>1, <3>3 DEF Fixed
      <4> QED BY <2>2, <3>2, <4>1 DEF ItemInv
    <3>4. CASE /\ Call(c).tool = "artifact_grant" /\ pc'[c] = "journal" /\ res'[c] = ""
               /\ dest' = dest
               /\ artifacts' = [artifacts EXCEPT ![Call(c).item] = @ \cup {dest[c]}]
      <4>1. \A x : x = Call(c).item => dest[c] \in Granted(x)' BY <1>b, <3>4 DEF Granted
      <4>2. \A x \in DOMAIN artifacts : artifacts'[x] \subseteq Granted(x)'
        <5> SUFFICES ASSUME NEW x \in DOMAIN artifacts PROVE artifacts'[x] \subseteq Granted(x)' OBVIOUS
        <5>1. CASE x = Call(c).item
          <6>1. artifacts'[x] = artifacts[x] \cup {dest[c]} BY <3>4, <5>1
          <6> QED BY <1>g, <4>1, <5>1, <6>1
        <5>2. CASE x # Call(c).item
          <6>1. artifacts'[x] = artifacts[x] BY <3>4, <5>2
          <6> QED BY <1>g, <6>1
        <5> QED BY <5>1, <5>2
      <4>3. Arts' BY <1>a, <1>b, <1>d, <3>1, <4>2 DEF Fixed
      <4> QED BY <2>2, <3>2, <4>3 DEF ItemInv
    <3> QED BY <1>1, <2>3, <3>3, <3>4, OtherSteps
  <2>4. CASE Call(c).tool = "artifact_put"
    <3>1. CASE \/ CallTool(c) /\ pc'[c] \in {"file", "done"} /\ res'[c] # "ok"
               \/ WriteFile(c)
      <4>1. artifacts' = artifacts /\ files \subseteq files' /\ pc'[c] # "journal"
        BY <3>1 DEF CallTool, WriteFile, store, Goto, Answer, TypeOK
      <4>2. Arts' BY <1>a, <1>b, <1>c, <1>d, <4>1 DEF Fixed
      <4>3. Puts' BY <1>b, <1>d, <2>1, <4>1 DEF Moves
      <4> QED BY <2>2, <4>2, <4>3 DEF ItemInv
    <3>2. CASE StoreArtifact(c)
      <4>1. pc[c] = "store" /\ files' = files BY <3>2 DEF StoreArtifact, At
      <4>2. c \in files BY <2>4, <4>1 DEF FileInv
      <4>3. c \notin DOMAIN artifacts BY <1>d, <4>1 DEF Settled
      <4>4. CASE AtArtifactLimit(Caller(c))
        <5>1. artifacts' = artifacts /\ pc'[c] = "remove" BY <3>2, <4>4 DEF StoreArtifact, Goto, TypeOK
        <5>2. Arts' BY <1>a, <1>b, <1>c, <1>d, <4>1, <5>1 DEF Fixed
        <5>3. Puts' BY <1>b, <1>d, <2>1, <5>1 DEF Moves
        <5> QED BY <2>2, <5>2, <5>3 DEF ItemInv
      <4>5. CASE ~ AtArtifactLimit(Caller(c))
        <5>1. /\ artifacts' = [x \in DOMAIN artifacts \cup {c} |-> IF x = c THEN {} ELSE artifacts[x]]
              /\ pc'[c] = "journal"
          BY <3>2, <4>5 DEF StoreArtifact, Goto, TypeOK
        <5>2. /\ DOMAIN artifacts' = DOMAIN artifacts \cup {c} /\ artifacts'[c] = {}
              /\ \A x \in DOMAIN artifacts : artifacts'[x] = artifacts[x]
          BY <4>3, <5>1
        <5>3. Arts'
          <6>1. pc'[c] \in Settled BY <5>1 DEF Settled
          <6> SUFFICES ASSUME NEW x \in DOMAIN artifacts'
                       PROVE  (/\ x \in Calls /\ Call(x).tool = "artifact_put" /\ pc[x] \in Settled
                               /\ x \in files /\ artifacts[x] \subseteq Granted(x))'
            OBVIOUS
          <6>2. CASE x = c BY <1>b, <2>4, <4>1, <4>2, <5>2, <6>1, <6>2
          <6>3. CASE x \in DOMAIN artifacts BY <1>b, <1>d, <1>e, <1>g, <4>1, <5>2, <6>3
          <6> QED BY <5>2, <6>2, <6>3
        <5>4. Puts' BY <1>b, <1>d, <2>1, <5>2 DEF Moves
        <5> QED BY <2>2, <5>3, <5>4 DEF ItemInv
      <4> QED BY <4>4, <4>5
    <3>3. CASE RemoveFile(c)
      <4>1. pc[c] = "remove" /\ artifacts' = artifacts /\ files \ {c} \subseteq files' /\ pc'[c] = "done"
        BY <3>3 DEF RemoveFile, At, Answer, TypeOK
      <4>2. c \notin DOMAIN artifacts BY <1>d, <4>1 DEF Settled
      <4>3. Arts' BY <1>a, <1>b, <1>c, <1>d, <4>1, <4>2 DEF Fixed
      <4>4. Puts' BY <1>b, <1>d, <2>1, <4>1 DEF Moves
      <4> QED BY <2>2, <4>3, <4>4 DEF ItemInv
    <3>4. CASE journal_append(c)
      <4>1. artifacts' = artifacts /\ files' = files /\ pc'[c] = "done"
        BY <3>4 DEF journal_append, Answer, TypeOK
      <4>2. Arts' BY <1>a, <1>b, <1>c, <1>d, <4>1 DEF Fixed
      <4>3. Puts' BY <1>b, <1>d, <2>1, <4>1 DEF Moves
      <4> QED BY <2>2, <4>2, <4>3 DEF ItemInv
    <3> QED BY <1>1, <2>4, <3>1, <3>2, <3>3, <3>4, PutSteps
  <2> QED BY <2>3, <2>4
<1>2. CASE UNCHANGED callVars
  <2>1. UNCHANGED <<pc, messages, artifacts, files>> BY <1>2 DEF callVars, store
  <2> QED BY <1>b, <1>c, <1>d, <2>1 DEF ItemInv
<1>3. CASE Crash
  <2>1. DOMAIN messages' = {} /\ DOMAIN artifacts' = {} BY <1>3 DEF Crash
  <2>2. \A c \in Calls : pc'[c] # "journal" BY <1>3 DEF Crash
  <2> QED BY <1>b, <2>1, <2>2 DEF ItemInv
<1>4. CASE Reopen
  <2>1. /\ messages' = MessagesIn(Lines(journal)) /\ artifacts' = ArtifactsIn(Lines(journal))
        /\ files' = files /\ pc' = pc /\ ~ up
    BY <1>4 DEF Reopen
  <2>2. \A c \in Calls : /\ pc[c] # "journal" /\ (res[c] = "ok" => pc[c] = "done")
    BY <2>1 DEF StageInv, Stage, Resting
  <2>3. Mail' BY <1>b, <2>1, <2>2, MessagesReadBack DEF Settled
  <2>4. Arts' BY <1>b, <1>c, <2>1, <2>2, ArtifactsReadBack DEF Settled, FileInv
  <2>5. Puts' BY <1>b, <2>1, <2>2
  <2> QED BY <2>3, <2>4, <2>5 DEF ItemInv
<1> QED BY <1>1, <1>2, <1>3, <1>4, StepIs

-----------------------------------------------------------------------------
(* The journal *)

\* A sequence is one of its own elements.
LEMMA OwnElements ==
    ASSUME NEW S, NEW q \in Seq(S)
    PROVE  q \in Seq({q[i] : i \in 1..Len(q)})
<1> DEFINE T == {q[i] : i \in 1..Len(q)}
<1>1. Len(q) \in Nat /\ q \in [1..Len(q) -> S] BY LenProperties
<1>2. \A i \in 1..Len(q) : q[i] \in T OBVIOUS
<1> HIDE DEF T
<1>3. q \in [1..Len(q) -> T] BY <1>1, <1>2
<1>4. q \in Seq(T) BY <1>1, <1>3, SeqDef
<1> QED BY <1>4 DEF T

\* A sequence with one more element.
LEMMA AppendIs ==
    ASSUME NEW j, j \in Seq({j[i] : i \in 1..Len(j)}), NEW e, NEW k, k = Append(j, e)
    PROVE  /\ Len(j) \in Nat /\ Len(k) = Len(j) + 1
           /\ k \in Seq({k[i] : i \in 1..Len(k)})
           /\ \A i \in 1..Len(j) : k[i] = j[i]
           /\ k[Len(j) + 1] = e
<1> DEFINE S == {j[i] : i \in 1..Len(j)} \cup {e}
<1>1. Len(j) \in Nat /\ \A i \in 1..Len(j) : j[i] \in S OBVIOUS
<1>2. j \in Seq(S) BY <1>1
<1>3. /\ k \in Seq(S) /\ Len(k) = Len(j) + 1 /\ k[Len(j) + 1] = e
      /\ \A i \in 1..Len(j) : k[i] = j[i]
  BY <1>2
<1>4. k \in Seq({k[i] : i \in 1..Len(k)})
  <2> HIDE DEF S
  <2> QED BY <1>3, OwnElements
<1> QED BY <1>1, <1>3, <1>4

\* The lines that parse stay, and the new one parses if it is whole and does not follow a piece.
LEMMA WholeGrows ==
    ASSUME NEW j, j \in Seq({j[i] : i \in 1..Len(j)}), NEW e, NEW k, k = Append(j, e)
    PROVE  /\ \A i \in Whole(j) : i \in Whole(k) /\ k[i] = j[i] /\ i <= Len(j)
           /\ \A i \in Whole(k) : i \in Whole(j) \/ i = Len(j) + 1
           /\ ~ e.torn /\ (Len(j) = 0 \/ ~ Last(j).torn) => Len(j) + 1 \in Whole(k)
<1>1. /\ Len(j) \in Nat /\ Len(k) = Len(j) + 1 /\ k[Len(j) + 1] = e
      /\ \A i \in 1..Len(j) : k[i] = j[i]
  BY AppendIs
<1>2. \A i \in 1..Len(j) : i # 1 => i - 1 \in 1..Len(j) /\ k[i - 1] = j[i - 1] BY <1>1
<1>3. \A i \in 1..Len(j) : i \in Whole(j) <=> i \in Whole(k) BY <1>1, <1>2 DEF Whole
<1>4. \A i \in Whole(k) : i \in 1..Len(j) \/ i = Len(j) + 1 BY <1>1 DEF Whole
<1>5. ASSUME ~ e.torn, Len(j) = 0 \/ ~ Last(j).torn PROVE Len(j) + 1 \in Whole(k)
  <2>1. Len(j) + 1 # 1 => Len(j) \in 1..Len(j) /\ k[Len(j)] = Last(j) BY <1>1 DEF Last
  <2> DEFINE n == Len(j) + 1
  <2>2. n - 1 = Len(j) /\ n \in 1..Len(k) BY <1>1
  <2>3. n # 1 => Len(j) # 0 BY <1>1
  <2>4. ~ k[n].torn BY <1>1, <1>5
  <2> HIDE DEF n
  <2>5. n # 1 => ~ k[n - 1].torn BY <1>5, <2>1, <2>2, <2>3 DEF n
  <2>6. n \in Whole(k) BY <2>2, <2>4, <2>5 DEF Whole
  <2> QED BY <2>6 DEF n
<1>6. Whole(j) \subseteq 1..Len(j) BY DEF Whole
<1> QED BY <1>1, <1>3, <1>4, <1>5, <1>6

\* What a step leaves in the journal.
Extends ==
    /\ spoilt \subseteq spoilt'
    /\ \A i \in Whole(journal) : i \in Whole(journal') /\ journal'[i] = journal[i]

\* An append leaves its record whole, or remembers the call as spoilt.
LEMMA AppendLeaves ==
    ASSUME TypeOK, NEW c \in Calls, journal_append(c)
    PROVE  /\ Extends
           /\ journal' \in Seq({journal'[i] : i \in 1..Len(journal')})
           /\ \A i \in Whole(journal') : i \in Whole(journal) \/ journal'[i].rec = Record(c)
           /\ \A i \in 1..Len(journal') : (i \in 1..Len(journal) /\ journal'[i] = journal[i])
                                          \/ journal'[i].rec = Record(c)
           /\ c \notin spoilt' => \E i \in Whole(journal') : /\ journal'[i].rec = Record(c)
                                                             /\ \A k \in Whole(journal) : k <= i
<1>1. CASE UNCHANGED journal
  <2>1. ~ (Len(journal') > Len(journal)) BY <1>1 DEF TypeOK
  <2>2. spoilt' = spoilt \cup {c} BY <2>1 DEF journal_append
  <2> QED BY <1>1, <2>2 DEF Extends, TypeOK
<1>2. ASSUME NEW b \in BOOLEAN, journal' = Append(journal, [rec |-> Record(c), torn |-> b])
      PROVE  /\ Extends
             /\ journal' \in Seq({journal'[i] : i \in 1..Len(journal')})
             /\ \A i \in Whole(journal') : i \in Whole(journal) \/ journal'[i].rec = Record(c)
             /\ \A i \in 1..Len(journal') : (i \in 1..Len(journal) /\ journal'[i] = journal[i])
                                            \/ journal'[i].rec = Record(c)
             /\ c \notin spoilt' => \E i \in Whole(journal') : /\ journal'[i].rec = Record(c)
                                                               /\ \A k \in Whole(journal) : k <= i
  <2> DEFINE e == [rec |-> Record(c), torn |-> b]
             k == journal'
             n == Len(journal) + 1
  <2>1. e.rec = Record(c) /\ e.torn = b OBVIOUS
  <2>2. k = Append(journal, e) BY <1>2
  <2> HIDE DEF e, k
  <2>3. journal \in Seq({journal[i] : i \in 1..Len(journal)}) BY DEF TypeOK
  <2>4. /\ Len(journal) \in Nat /\ Len(k) = n /\ k \in Seq({k[i] : i \in 1..Len(k)})
        /\ (\A i \in 1..Len(journal) : k[i] = journal[i]) /\ k[n] = e
    BY <2>2, <2>3, AppendIs
  <2>5. /\ \A i \in Whole(journal) : i \in Whole(k) /\ k[i] = journal[i] /\ i <= Len(journal)
        /\ \A i \in Whole(k) : i \in Whole(journal) \/ i = n
        /\ ~ e.torn /\ (Len(journal) = 0 \/ ~ Last(journal).torn) => n \in Whole(k)
    BY <2>2, <2>3, WholeGrows
  <2>6. Last(k) = e BY <2>4 DEF Last
  <2>7. spoilt' = IF Len(k) > Len(journal) /\ ~ Last(k).torn /\ (Len(journal) = 0 \/ ~ Last(journal).torn)
                    THEN spoilt ELSE spoilt \cup {c}
    BY DEF journal_append, k
  <2>8. c \notin spoilt' => n \in Whole(k) BY <2>5, <2>6, <2>7
  <2>9. \A i \in Whole(journal) : i <= n BY <2>4, <2>5 DEF Whole
  <2>10. \A i \in 1..Len(k) : i \in 1..Len(journal) \/ i = n BY <2>4
  <2>11. Extends BY <2>5, <2>7 DEF Extends, k
  <2>12. \A i \in Whole(k) : i \in Whole(journal) \/ k[i].rec = Record(c) BY <2>1, <2>4, <2>5
  <2>13. \A i \in 1..Len(k) : (i \in 1..Len(journal) /\ k[i] = journal[i]) \/ k[i].rec = Record(c)
    BY <2>1, <2>4, <2>10
  <2>14. c \notin spoilt' => \E i \in Whole(k) : k[i].rec = Record(c) /\ \A m \in Whole(journal) : m <= i
    BY <2>1, <2>4, <2>8, <2>9
  <2> QED BY <2>4, <2>11, <2>12, <2>13, <2>14 DEF k
<1> QED BY <1>1, <1>2 DEF journal_append

\* The record of a settled call does not change.
LEMMA RecordStays ==
    ASSUME Fixed, menu' = menu, NEW c \in Calls, pc[c] \in Settled
    PROVE  Record(c)' = Record(c)
<1>1. dest'[c] = dest[c] BY DEF Fixed
<1> QED BY <1>1 DEF Record, Call, Items, Calls, Caller, inject_meta

\* A call that was answered stays written.
LEMMA WrittenStays ==
    ASSUME TypeOK, StageInv, JournalInv, Fixed, menu' = menu, Extends,
           NEW d \in Calls, Call(d).tool \in JournalTools, res[d] = "ok", Kept(d)'
    PROVE  Written(d)'
<1>1. pc[d] = "done" BY DEF StageInv, Stage
<1>2. Kept(d) BY DEF Kept, Extends
<1>3. prior'[d] = prior[d] /\ Record(d)' = Record(d) BY <1>1, RecordStays DEF Fixed, Settled
<1>4. Call(d)' = Call(d) BY DEF Call
<1> DEFINE m == Call(d).item
<1>5. PICK i \in Whole(journal) :
          /\ journal[i].rec = Record(d)
          /\ Call(d).tool \in MessageItemTools \cup ArtifactItemTools /\ m \in prior[d] /\ Kept(m) =>
                \E k \in Whole(journal) : k <= i /\ journal[k].rec = Record(m)
  BY <1>2 DEF JournalInv, Written
<1>6. i \in Whole(journal') /\ journal'[i].rec = Record(d)' BY <1>3, <1>5 DEF Extends
<1>7. ASSUME Call(d).tool \in MessageItemTools \cup ArtifactItemTools, m \in prior[d], Kept(m)'
      PROVE  \E k \in Whole(journal') : k <= i /\ journal'[k].rec = Record(m)'
  <2>1. m \in Calls /\ res[m] # "" BY <1>7 DEF StageInv, Stage, TypeOK
  <2>2. res'[m] = res[m] /\ pc[m] \in Settled BY <2>1 DEF Fixed, StageInv, Stage, Settled
  <2>3. Kept(m) BY <1>4, <1>7, <2>2 DEF Kept, Extends
  <2>4. Record(m)' = Record(m)
    <3>1. \A x \in Calls : pc[x] \in Settled => Record(x)' = Record(x) BY RecordStays
    <3> HIDE DEF m
    <3>2. \A x \in Calls : x = m => Record(x)' = Record(m) BY <2>2, <3>1
    <3> QED BY <1>4, <2>1, <3>2 DEF m
  <2>5. PICK k \in Whole(journal) : k <= i /\ journal[k].rec = Record(m) BY <1>5, <1>7, <2>3
  <2>6. k \in Whole(journal') /\ journal'[k] = journal[k] BY DEF Extends
  <2> QED BY <2>4, <2>5, <2>6
<1> QED BY <1>3, <1>4, <1>6, <1>7 DEF Written

\* Of the calls that have a record, the append answers with success.
LEMMA OnlyAppendsSucceed ==
    ASSUME TypeOK, TokenInv, StageInv, NEW c \in Calls, Handler(c), Call(c).tool \in JournalTools,
           res'[c] = "ok"
    PROVE  journal_append(c)
<1>1. Stage(c) /\ Moves(c) BY HandlersMove DEF StageInv
<1>2. res[c] = "" /\ DOMAIN res = Calls BY <1>1 DEF Stage, Moves, TypeOK
<1>3. pc[c] # "idle" => pc[c] \in Path(Call(c).tool) BY HandlersAdvance DEF Advances
<1>4. pc[c] \notin {"look", "fetch", "authorize", "route"} BY <1>3 DEF Path, JournalTools
<1>5. FirstCheck(c) # "ok" BY DEF FirstCheck
<1>6. ~ CallTool(c) BY <1>2, <1>5 DEF CallTool, Answer, Goto
<1>7. ~ ResolveRecipient(c) BY <1>2 DEF ResolveRecipient, Answer, Goto
<1>8. ~ Permit(c) BY <1>2 DEF Permit, Answer, Goto
<1>9. ~ StoreMessage(c) /\ ~ handle_message_ack(c)
  BY <1>2 DEF StoreMessage, handle_message_ack, Answer, Goto
<1>10. ~ WriteFile(c) /\ ~ StoreArtifact(c) BY <1>2 DEF WriteFile, StoreArtifact, Answer, Goto
<1>11. ~ RemoveFile(c) /\ ~ handle_artifact_grant(c)
  BY <1>2 DEF RemoveFile, handle_artifact_grant, Answer, Goto
<1>12. ~ handle_message_read(c) /\ ~ handle_message_list(c) /\ ~ handle_artifact_list(c)
       /\ ~ handle_artifact_read(c) /\ ~ FetchBytes(c) /\ ~ Authorize(c) /\ ~ Route(c)
  BY <1>4 DEF handle_message_read, handle_message_list, handle_artifact_list, handle_artifact_read, FetchBytes,
     Authorize, Route, At
<1> QED BY <1>6, <1>7, <1>8, <1>9, <1>10, <1>11, <1>12 DEF Handler

\* Other steps leave the journal alone.
LEMMA JournalStays ==
    ASSUME NEW c \in Calls, Handler(c), ~ journal_append(c), UNCHANGED store \/ Stores(c)
    PROVE  UNCHANGED <<journal, spoilt>>
BY DEF Stores, store, StoreMessage, handle_message_ack, WriteFile, StoreArtifact, RemoveFile,
   handle_artifact_grant

\* The call of an append had its tool's record to write.
LEMMA AppendersAre ==
    ASSUME TypeOK, TokenInv, StageInv, NEW c \in Calls, journal_append(c)
    PROVE  Call(c).tool \in JournalTools /\ pc[c] = "journal" /\ res[c] = "" /\ dest' = dest
           /\ res'[c] = "ok" /\ pc'[c] = "done"
<1>1. pc[c] = "journal" /\ dest' = dest BY DEF journal_append, At
<1>2. res'[c] = "ok" /\ pc'[c] = "done" BY DEF journal_append, Answer, TypeOK
<1>3. pc[c] \in Path(Call(c).tool) /\ res[c] = "" BY <1>1 DEF StageInv, Stage, Resting
<1>4. Call(c).tool \in Tools BY CallIs DEF TypeOK
<1>5. Call(c).tool \in JournalTools BY <1>1, <1>3, <1>4 DEF Path, Tools, CommunicationTools, JournalTools
<1> QED BY <1>1, <1>2, <1>3, <1>5

\* Every step keeps the records true and those of answered calls readable, behind their items'.
LEMMA NextJournal ==
    ASSUME TypeOK, TokenInv, StageInv, JournalInv, [Next]_vars
    PROVE  JournalInv'
<1>a. Fixed /\ menu' = menu BY AnswersSettle
<1>b. Calls' = Calls /\ \A d \in Calls : Call(d)' = Call(d) BY <1>a DEF Calls, Call
\* A record that stands stays true.
<1>d. ASSUME NEW i \in 1..Len(journal)
      PROVE  \E d \in Calls : /\ d = journal[i].rec.call /\ journal[i].rec = Record(d)'
                              /\ Call(d)'.tool \in JournalTools /\ res'[d] = "ok"
  <2>1. PICK d \in Calls : /\ d = journal[i].rec.call /\ Call(d).tool \in JournalTools
                           /\ res[d] = "ok" /\ journal[i].rec = Record(d)
    BY DEF JournalInv
  <2>2. pc[d] = "done" BY <2>1 DEF StageInv, Stage
  <2>3. Record(d)' = Record(d) /\ res'[d] = "ok" BY <1>a, <2>1, <2>2, RecordStays DEF Fixed, Settled
  <2> QED BY <1>b, <2>1, <2>3
<1>1. ASSUME UNCHANGED <<journal, spoilt>>, \A d \in Calls : Call(d).tool \in JournalTools /\ res'[d] = "ok" => res[d] = "ok"
      PROVE  JournalInv'
  <2>1. Extends BY <1>1 DEF Extends
  <2>2. \A d \in Calls : Call(d).tool \in JournalTools /\ Kept(d)' => Written(d)'
    BY <1>1, <1>a, <2>1, WrittenStays DEF Kept
  <2> QED BY <1>1, <1>b, <1>d, <2>2 DEF JournalInv
<1>2. ASSUME NEW c \in Calls, Handler(c) PROVE JournalInv'
  <2>1. Moves(c) /\ (UNCHANGED store \/ Stores(c)) BY <1>2, HandlersMove
  <2>2. CASE ~ journal_append(c)
    <3>1. UNCHANGED <<journal, spoilt>> BY <1>2, <2>1, <2>2, JournalStays
    <3>2. \A d \in Calls : Call(d).tool \in JournalTools /\ res'[d] = "ok" => res[d] = "ok"
      BY <1>2, <2>1, <2>2, OnlyAppendsSucceed DEF Moves
    <3> QED BY <1>1, <3>1, <3>2
  <2>3. CASE journal_append(c)
    <3>1. /\ Call(c).tool \in JournalTools /\ pc[c] = "journal" /\ res[c] = "" /\ dest' = dest
          /\ res'[c] = "ok" /\ pc'[c] = "done"
      BY <2>3, AppendersAre
    <3>2. /\ Extends
          /\ \A i \in 1..Len(journal') : (i \in 1..Len(journal) /\ journal'[i] = journal[i])
                                         \/ journal'[i].rec = Record(c)
          /\ c \notin spoilt' => \E i \in Whole(journal') : /\ journal'[i].rec = Record(c)
                                                            /\ \A k \in Whole(journal) : k <= i
      BY <2>3, AppendLeaves
    <3>3. Record(c)' = Record(c) BY <1>a, <3>1, RecordStays DEF Settled
    <3>4. Record(c).call = c BY DEF Record
    <3>5. \A d \in Calls \ {c} : Call(d).tool \in JournalTools /\ Kept(d)' => Written(d)'
      BY <1>a, <2>1, <3>2, WrittenStays DEF Kept, Moves
    <3>6. ASSUME Kept(c)' PROVE Written(c)'
      <4> DEFINE m == Call(c).item
      <4>1. PICK i \in Whole(journal') : journal'[i].rec = Record(c) /\ \A k \in Whole(journal) : k <= i
        BY <3>2, <3>6 DEF Kept
      <4>2. prior'[c] = prior[c] BY <1>a, <3>1 DEF Fixed
      <4>3. ASSUME Call(c).tool \in MessageItemTools \cup ArtifactItemTools, m \in prior[c], Kept(m)'
            PROVE  \E k \in Whole(journal') : k <= i /\ journal'[k].rec = Record(m)'
        <5>1. m \in Calls /\ res[m] # "" BY <4>3 DEF StageInv, Stage, TypeOK
        <5>2. Call(m).tool \in JournalTools
          BY <4>3, CallIs DEF TypeOK, MessageItemTools, ArtifactItemTools, JournalTools
        <5>3. res'[m] = res[m] /\ pc[m] \in Settled BY <1>a, <5>1 DEF Fixed, StageInv, Stage, Settled
        <5>4. m' = m BY <1>b
        <5>5. Kept(m) BY <3>2, <4>3, <5>3, <5>4 DEF Kept, Extends
        <5>6. PICK k \in Whole(journal) : journal[k].rec = Record(m) BY <5>1, <5>2, <5>5 DEF JournalInv, Written
        <5>7. k <= i /\ k \in Whole(journal') /\ journal'[k] = journal[k] BY <3>2, <4>1 DEF Extends
        <5>8. Record(m)' = Record(m)
          <6>1. \A x \in Calls : pc[x] \in Settled => Record(x)' = Record(x) BY <1>a, RecordStays
          <6> HIDE DEF m
          <6>2. \A x \in Calls : x = m => Record(x)' = Record(m) BY <5>3, <6>1
          <6> QED BY <5>1, <5>4, <6>2
        <5> QED BY <5>6, <5>7, <5>8
      <4> QED BY <1>b, <3>3, <4>1, <4>2, <4>3 DEF Written
    <3>7. ASSUME NEW i \in 1..Len(journal')
          PROVE  \E d \in Calls : /\ d = journal'[i].rec.call /\ journal'[i].rec = Record(d)'
                                  /\ Call(d)'.tool \in JournalTools /\ res'[d] = "ok"
      <4>1. CASE i \in 1..Len(journal) /\ journal'[i] = journal[i] BY <1>d, <4>1
      <4>2. CASE journal'[i].rec = Record(c)
        <5>1. journal'[i].rec.call = c BY <3>4, <4>2
        <5>2. c \in Calls /\ Call(c)'.tool \in JournalTools /\ res'[c] = "ok" /\ journal'[i].rec = Record(c)'
          BY <1>b, <3>1, <3>3, <4>2
        <5> QED BY <5>1, <5>2
      <4> QED BY <3>2, <4>1, <4>2
    <3> QED BY <1>b, <3>1, <3>5, <3>6, <3>7 DEF JournalInv
  <2> QED BY <2>2, <2>3
<1>3. CASE UNCHANGED callVars BY <1>1, <1>3 DEF callVars, store
<1>4. CASE Crash BY <1>1, <1>4 DEF Crash
<1>5. CASE Reopen BY <1>1, <1>5 DEF Reopen
<1> QED BY <1>2, <1>3, <1>4, <1>5, StepIs

-----------------------------------------------------------------------------
(* The files *)

\* Only an append adds a put to the journal's.
LEMMA PutsStay ==
    ASSUME menu' = menu, journal' = journal
    PROVE  JournalPuts' = JournalPuts
BY DEF JournalPuts, Calls, Call

\* An append adds its own put to the journal's and no other.
LEMMA PutsGrow ==
    ASSUME TypeOK, JournalInv, menu' = menu, NEW c \in Calls, journal_append(c)
    PROVE  JournalPuts' \subseteq JournalPuts \cup (IF Call(c).tool = "artifact_put" THEN {c} ELSE {})
<1> SUFFICES ASSUME NEW d \in JournalPuts' PROVE d \in JournalPuts \/ (d = c /\ Call(c).tool = "artifact_put")
  OBVIOUS
<1>1. d \in Calls /\ Call(d).tool = "artifact_put" BY DEF JournalPuts, Calls, Call
<1>2. PICK i \in Whole(journal') : journal'[i].rec.call = d BY DEF JournalPuts
<1>3. i \in Whole(journal) \/ journal'[i].rec = Record(c) BY AppendLeaves
<1>4. CASE i \in Whole(journal)
  <2>1. journal'[i] = journal[i] BY <1>4, AppendLeaves DEF Extends
  <2> QED BY <1>1, <1>2, <1>4, <2>1 DEF JournalPuts
<1>5. CASE journal'[i].rec = Record(c)
  <2>1. Record(c).call = c BY DEF Record
  <2> QED BY <1>1, <1>2, <1>5, <2>1
<1> QED BY <1>3, <1>4, <1>5

\* Every step keeps a file behind every artifact, and accounts for a file without one.
LEMMA NextFiles ==
    ASSUME TypeOK, TokenInv, StageInv, ItemInv, JournalInv, FileInv, [Next]_vars
    PROVE  FileInv'
<1>a. Fixed /\ menu' = menu BY AnswersSettle
<1>b. Calls' = Calls /\ \A d \in Calls : Call(d)' = Call(d) BY <1>a DEF Calls, Call
<1> DEFINE Backed(x) ==
              /\ x \in Calls /\ Call(x).tool = "artifact_put" /\ pc[x] \in {"store", "remove"} \cup Settled
              /\ pc[x] = "done" => \/ res[x] = "ok" /\ (up => x \in DOMAIN artifacts \cup spoilt)
                                   \/ res[x] # "ok" /\ "disk" \in menu.faults
           Filed(c) == Call(c).tool = "artifact_put" /\ pc[c] = "store" => c \in files
<1>c. (\A x \in files : Backed(x)) /\ (\A c \in Calls : Filed(c)) /\ JournalPuts \subseteq files
      /\ (up => JournalPuts \subseteq DOMAIN artifacts)
  BY DEF FileInv
<1>d. JournalPuts \subseteq Calls /\ \A x \in JournalPuts : Call(x).tool = "artifact_put" /\ res[x] = "ok"
  BY ArtifactsReadBack
<1>1. ASSUME NEW c \in Calls, Handler(c) PROVE FileInv'
  <2>1. Moves(c) /\ (UNCHANGED store \/ Stores(c)) BY <1>1, HandlersMove
  <2>2. DOMAIN artifacts \subseteq DOMAIN artifacts' BY <2>1, DomainsGrow
  <2>3. spoilt \subseteq spoilt'
    <3>1. CASE journal_append(c) BY <3>1, AppendLeaves DEF Extends
    <3>2. CASE ~ journal_append(c) BY <1>1, <2>1, <3>2, JournalStays
    <3> QED BY <3>1, <3>2
  <2>4. up /\ up' /\ res[c] # "ok" BY <2>1 DEF Moves, StageInv, Stage
  <2>5. \A x \in files \ {c} : Backed(x)'
    <3> SUFFICES ASSUME NEW x \in files \ {c} PROVE Backed(x)' OBVIOUS
    <3>1. Backed(x) BY <1>c
    <3>2. x \in Calls /\ pc'[x] = pc[x] /\ res'[x] = res[x] BY <2>1, <3>1 DEF Moves
    <3> QED BY <1>a, <1>b, <2>2, <2>3, <2>4, <3>1, <3>2
  <2>6. \A d \in Calls \ {c} : pc'[d] = pc[d] BY <2>1 DEF Moves
  <2>7. CASE Call(c).tool # "artifact_put"
    <3>1. files' = files BY <1>1, <2>7, OtherSteps
    <3>2. JournalPuts' \subseteq JournalPuts
      <4>1. CASE journal_append(c) BY <1>a, <2>7, <4>1, PutsGrow
      <4>2. CASE ~ journal_append(c) BY <1>1, <1>a, <2>1, <4>2, JournalStays, PutsStay
      <4> QED BY <4>1, <4>2
    <3>3. c \notin files BY <1>c, <2>7
    <3>4. \A x \in files' : Backed(x)' BY <2>5, <3>1, <3>3
    <3>5. \A d \in Calls : Filed(d)' BY <1>b, <1>c, <2>6, <2>7, <3>1
    <3>6. JournalPuts' \subseteq files' /\ JournalPuts' \subseteq DOMAIN artifacts'
      BY <1>c, <2>2, <2>4, <3>1, <3>2
    <3> QED BY <1>b, <3>4, <3>5, <3>6 DEF FileInv
  <2>8. CASE Call(c).tool = "artifact_put"
    <3>1. ASSUME ~ journal_append(c) PROVE JournalPuts' = JournalPuts /\ c \notin JournalPuts
      BY <1>1, <1>a, <1>d, <2>1, <2>4, <3>1, JournalStays, PutsStay
    <3>2. CASE CallTool(c) /\ pc'[c] \in {"file", "done"} /\ res'[c] # "ok"
      <4>1. pc[c] = "idle" /\ files' = files /\ ~ journal_append(c)
        BY <3>2 DEF CallTool, At, store, journal_append
      <4>2. c \notin files BY <1>c, <4>1 DEF Settled
      <4>3. \A x \in files' : Backed(x)' BY <2>5, <4>1, <4>2
      <4>4. \A d \in Calls : Filed(d)' BY <1>b, <1>c, <2>6, <3>2, <4>1
      <4>5. JournalPuts' \subseteq files' /\ JournalPuts' \subseteq DOMAIN artifacts'
        BY <1>c, <2>2, <2>4, <3>1, <4>1
      <4> QED BY <1>b, <4>3, <4>4, <4>5 DEF FileInv
    <3>3. CASE WriteFile(c)
      <4>1. pc[c] = "file" /\ ~ journal_append(c) BY <3>3 DEF WriteFile, At, journal_append
      <4>2. c \notin files BY <1>c, <4>1 DEF Settled
      <4>3. \/ files' = files \cup {c} /\ pc'[c] = "store"
            \/ files' = files /\ pc'[c] = "done"
        BY <3>3 DEF WriteFile, Goto, Answer, TypeOK
      <4>4. c \in files' => Backed(c)' BY <1>b, <2>8, <4>2, <4>3
      <4>5. \A x \in files' : Backed(x)' BY <2>5, <4>3, <4>4
      <4>6. \A d \in Calls : Filed(d)' BY <1>b, <1>c, <2>6, <4>3
      <4>7. JournalPuts' \subseteq files' /\ JournalPuts' \subseteq DOMAIN artifacts'
        BY <1>c, <2>2, <2>4, <3>1, <4>1, <4>3
      <4> QED BY <1>b, <4>5, <4>6, <4>7 DEF FileInv
    <3>4. CASE StoreArtifact(c)
      <4>1. files' = files /\ pc'[c] \in {"remove", "journal"} /\ ~ journal_append(c)
        BY <3>4 DEF StoreArtifact, Goto, TypeOK, At, journal_append
      <4>2. Backed(c)' BY <1>b, <2>8, <4>1 DEF Settled
      <4>3. \A x \in files' : Backed(x)' BY <2>5, <4>1, <4>2
      <4>4. \A d \in Calls : Filed(d)' BY <1>b, <1>c, <2>6, <4>1
      <4>5. JournalPuts' \subseteq files' /\ JournalPuts' \subseteq DOMAIN artifacts'
        BY <1>c, <2>2, <2>4, <3>1, <4>1
      <4> QED BY <1>b, <4>3, <4>4, <4>5 DEF FileInv
    <3>5. CASE RemoveFile(c)
      <4>1. pc'[c] = "done" /\ res'[c] = "artifact_count_exceeded" /\ ~ journal_append(c)
        BY <3>5 DEF RemoveFile, Answer, TypeOK, At, journal_append
      <4>2. files' = files \ {c} \/ (files' = files /\ "disk" \in menu.faults) BY <3>5 DEF RemoveFile
      <4>3. c \in files' => Backed(c)' BY <1>a, <1>b, <2>8, <4>1, <4>2 DEF Settled
      <4>4. \A x \in files' : Backed(x)' BY <2>5, <4>2, <4>3
      <4>5. \A d \in Calls : Filed(d)' BY <1>b, <1>c, <2>6, <4>1, <4>2
      <4>6. JournalPuts' \subseteq files' /\ JournalPuts' \subseteq DOMAIN artifacts'
        BY <1>c, <2>2, <2>4, <3>1, <4>1, <4>2
      <4> QED BY <1>b, <4>4, <4>5, <4>6 DEF FileInv
    <3>6. CASE journal_append(c)
      <4>1. files' = files /\ pc[c] = "journal" /\ pc'[c] = "done" /\ res'[c] = "ok" /\ artifacts' = artifacts
        BY <3>6 DEF journal_append, Answer, TypeOK, At
      <4>2. c \in DOMAIN artifacts /\ c \in files BY <2>8, <4>1 DEF ItemInv
      <4>3. Backed(c)' BY <1>b, <2>8, <4>1, <4>2 DEF Settled
      <4>4. \A x \in files' : Backed(x)' BY <2>5, <4>1, <4>3
      <4>5. \A d \in Calls : Filed(d)' BY <1>b, <1>c, <2>6, <4>1
      <4>6. JournalPuts' \subseteq JournalPuts \cup {c} BY <1>a, <2>8, <3>6, PutsGrow
      <4>7. JournalPuts' \subseteq files' /\ JournalPuts' \subseteq DOMAIN artifacts'
        BY <1>c, <2>4, <4>1, <4>2, <4>6
      <4> QED BY <1>b, <4>4, <4>5, <4>7 DEF FileInv
    <3> QED BY <1>1, <2>8, <3>2, <3>3, <3>4, <3>5, <3>6, PutSteps
  <2> QED BY <2>7, <2>8
<1>2. CASE UNCHANGED callVars
  <2>1. UNCHANGED <<pc, res, artifacts, files, spoilt, up, journal>> BY <1>2 DEF callVars, store
  <2>2. JournalPuts' = JournalPuts BY <1>a, <2>1, PutsStay
  <2> QED BY <1>a, <1>b, <1>c, <2>1, <2>2 DEF FileInv
<1>3. CASE Crash
  <2>1. UNCHANGED <<res, files, spoilt, journal>> /\ ~ up' BY <1>3 DEF Crash
  <2>2. \A d \in Calls : pc'[d] = IF pc[d] \in {"idle", "done"} THEN pc[d] ELSE "dead" BY <1>3 DEF Crash
  <2>3. JournalPuts' = JournalPuts BY <1>a, <2>1, PutsStay
  <2>4. \A x \in files : Backed(x)' BY <1>a, <1>b, <1>c, <2>1, <2>2 DEF Settled
  <2>5. \A d \in Calls : Filed(d)' BY <1>b, <2>2
  <2> QED BY <1>b, <1>c, <2>1, <2>3, <2>4, <2>5 DEF FileInv
<1>4. CASE Reopen
  <2>1. UNCHANGED <<pc, res, files, spoilt, journal>> /\ artifacts' = ArtifactsIn(Lines(journal)) /\ ~ up
    BY <1>4 DEF Reopen
  <2>2. DOMAIN artifacts' = JournalPuts BY <2>1, ArtifactsReadBack
  <2>3. JournalPuts' = JournalPuts BY <1>a, <2>1, PutsStay
  <2>4. ASSUME NEW x \in files, res[x] = "ok", x \notin spoilt PROVE x \in JournalPuts
    <3>1. x \in Calls /\ Call(x).tool = "artifact_put" BY <1>c
    <3>2. Written(x) BY <2>4, <3>1 DEF JournalInv, Kept, JournalTools
    <3>3. PICK i \in Whole(journal) : journal[i].rec = Record(x) BY <3>2 DEF Written
    <3>4. journal[i].rec.call = x BY <3>3 DEF Record
    <3> QED BY <3>1, <3>4 DEF JournalPuts
  <2>5. \A x \in files : Backed(x)' BY <1>a, <1>b, <1>c, <2>1, <2>2, <2>4
  <2> QED BY <1>b, <1>c, <2>1, <2>2, <2>3, <2>5 DEF FileInv
<1> QED BY <1>1, <1>2, <1>3, <1>4, StepIs

\* An actor has as many artifacts as the limit allows, in memory and in the journal: a put
\* counts them under the lock that stores its own, and a journal's puts are all in memory.
LEMMA NextCount ==
    ASSUME TypeOK, TokenInv, StageInv, ItemInv, JournalInv, FileInv, CountInv, ItemInv', FileInv', [Next]_vars
    PROVE  CountInv'
<1>a. Fixed /\ menu' = menu BY AnswersSettle
<1>b. Calls' = Calls BY <1>a DEF Calls
<1>c. \A d : Who(d)' = Who(d) BY <1>a DEF Who, Call
<1>d. IsFiniteSet(Calls) /\ menu.per_actor \in Nat BY MenuIs DEF TypeOK
<1> DEFINE Own(a) == {x \in DOMAIN artifacts : Who(x) = a}
           New(a) == {x \in DOMAIN artifacts' : Who(x) = a}
           Puts(a) == {x \in JournalPuts : Who(x) = a}
           NewPuts(a) == {x \in JournalPuts' : Who(x) = a}
<1>e. \A a : OwnedBy(a) = Own(a) BY CallerIs DEF OwnedBy, From
<1>f. \A a : OwnedBy(a)' = New(a) BY <1>a DEF OwnedBy, From, Caller, inject_meta, Who, Call
<1>g. DOMAIN artifacts \subseteq Calls /\ DOMAIN artifacts' \subseteq Calls BY <1>b DEF ItemInv
<1>h. JournalPuts \subseteq Calls /\ JournalPuts' \subseteq Calls BY <1>b DEF JournalPuts
<1>i. \A a : Own(a) \subseteq Calls /\ New(a) \subseteq Calls /\ Puts(a) \subseteq Calls BY <1>g, <1>h
<1>j. \A a : IsFiniteSet(Own(a)) /\ IsFiniteSet(New(a)) /\ IsFiniteSet(Puts(a)) BY <1>d, <1>i, FS_Subset
<1>k. \A a : /\ Cardinality(Own(a)) \in Nat /\ Cardinality(New(a)) \in Nat /\ Cardinality(Puts(a)) \in Nat
  BY <1>j, FS_CardinalityType
<1> SUFFICES ASSUME NEW a \in People
             PROVE  Cardinality(New(a)) <= menu.per_actor /\ Cardinality(NewPuts(a)) <= menu.per_actor
  <2>1. People' = People BY DEF People
  <2>2. \A a \in People : {x \in JournalPuts' : Who(x)' = a} = NewPuts(a) BY <1>c
  <2> QED BY <1>a, <1>f, <2>1, <2>2 DEF CountInv
<1>l. Cardinality(Own(a)) <= menu.per_actor /\ Cardinality(Puts(a)) <= menu.per_actor
  BY <1>e DEF CountInv
<1>m. ASSUME up', Cardinality(New(a)) <= menu.per_actor PROVE Cardinality(NewPuts(a)) <= menu.per_actor
  <2>1. JournalPuts' \subseteq DOMAIN artifacts' BY <1>m DEF FileInv
  <2>2. NewPuts(a) \subseteq New(a) BY <2>1
  <2>3. IsFiniteSet(NewPuts(a)) /\ Cardinality(NewPuts(a)) <= Cardinality(New(a)) BY <1>j, <2>2, FS_Subset
  <2>4. Cardinality(NewPuts(a)) \in Nat BY <2>3, FS_CardinalityType
  <2>5. Cardinality(New(a)) \in Nat BY <1>k
  <2> DEFINE n == Cardinality(New(a))
             p == Cardinality(NewPuts(a))
  <2>6. n \in Nat /\ p \in Nat /\ p <= n /\ n <= menu.per_actor BY <1>m, <2>3, <2>4, <2>5
  <2> HIDE DEF n, p
  <2>7. p <= menu.per_actor BY <1>d, <2>6
  <2> QED BY <2>7 DEF p
<1>1. ASSUME NEW c \in Calls, Handler(c) PROVE Cardinality(New(a)) <= menu.per_actor /\ up'
  <2>1. Moves(c) /\ (UNCHANGED store \/ Stores(c)) BY <1>1, HandlersMove
  <2>2. up' BY <2>1 DEF Moves
  <2>3. CASE DOMAIN artifacts' = DOMAIN artifacts
    <3>1. New(a) = Own(a) BY <2>3
    <3> QED BY <1>l, <2>2, <3>1
  <2>4. CASE StoreArtifact(c) /\ ~ AtArtifactLimit(Caller(c))
    <3>1. DOMAIN artifacts' = DOMAIN artifacts \cup {c} BY <2>4 DEF StoreArtifact
    <3>2. CASE Who(c) # a
      <4>1. New(a) = Own(a) BY <3>1, <3>2
      <4> QED BY <1>l, <2>2, <4>1
    <3>3. CASE Who(c) = a
      <4>1. New(a) = Own(a) \cup {c} BY <3>1, <3>3
      <4>2. ~ (Cardinality(Own(a)) >= menu.per_actor) BY <1>e, <2>4, <3>3, CallerIs DEF AtArtifactLimit
      <4> DEFINE O == Own(a)
                 n == Cardinality(O)
                 m == Cardinality(O \cup {c})
      <4>3. IsFiniteSet(O) /\ n \in Nat BY <1>j, <1>k
      <4>4. New(a) = O \cup {c} /\ ~ (n >= menu.per_actor) BY <4>1, <4>2
      <4> HIDE DEF O
      <4>5. m = IF c \in O THEN n ELSE n + 1 BY <4>3, FS_AddElement
      <4>6. Cardinality(New(a)) = m BY <4>4
      <4> HIDE DEF m, n
      <4>7. m <= menu.per_actor BY <1>d, <4>3, <4>4, <4>5
      <4> QED BY <2>2, <4>6, <4>7
    <3> QED BY <3>2, <3>3
  <2>5. DOMAIN artifacts' = DOMAIN artifacts \/ (StoreArtifact(c) /\ ~ AtArtifactLimit(Caller(c)))
    <3>1. CASE Call(c).tool # "artifact_put" BY <1>1, <3>1, OtherSteps
    <3>2. CASE Call(c).tool = "artifact_put"
      <4>1. CASE CallTool(c) BY <4>1 DEF CallTool, store
      <4>2. CASE WriteFile(c) BY <4>2 DEF WriteFile
      <4>3. CASE StoreArtifact(c) BY <4>3 DEF StoreArtifact
      <4>4. CASE RemoveFile(c) BY <4>4 DEF RemoveFile
      <4>5. CASE journal_append(c) BY <4>5 DEF journal_append
      <4> QED BY <1>1, <3>2, <4>1, <4>2, <4>3, <4>4, <4>5, PutSteps
    <3> QED BY <3>1, <3>2
  <2> QED BY <2>3, <2>4, <2>5
<1>2. CASE UNCHANGED callVars
  <2>1. artifacts' = artifacts /\ journal' = journal BY <1>2 DEF callVars, store
  <2>2. JournalPuts' = JournalPuts BY <1>a, <2>1, PutsStay
  <2>3. New(a) = Own(a) /\ NewPuts(a) = Puts(a) BY <2>1, <2>2
  <2> QED BY <1>l, <2>3
<1>3. CASE Crash
  <2>1. artifacts' = <<>> /\ journal' = journal BY <1>3 DEF Crash
  <2>2. JournalPuts' = JournalPuts BY <1>a, <2>1, PutsStay
  <2>3. New(a) = {} /\ NewPuts(a) = Puts(a) BY <2>1, <2>2
  <2>4. Cardinality({}) <= menu.per_actor BY <1>d, FS_EmptySet
  <2> QED BY <1>l, <2>3, <2>4
<1>4. CASE Reopen
  <2>1. artifacts' = ArtifactsIn(Lines(journal)) /\ journal' = journal BY <1>4 DEF Reopen
  <2>2. DOMAIN artifacts' = JournalPuts BY <2>1, ArtifactsReadBack
  <2>3. JournalPuts' = JournalPuts BY <1>a, <2>1, PutsStay
  <2>4. New(a) = Puts(a) /\ NewPuts(a) = Puts(a) BY <2>2, <2>3
  <2> QED BY <1>l, <2>4
<1> QED BY <1>1, <1>2, <1>3, <1>4, <1>m, StepIs

-----------------------------------------------------------------------------
(* The functions and the tree *)

\* The steps that are not a call's, a crash or what follows it.
TreeSteps ==
    \/ \E s \in Sessions : SessionEnds(s) \/ WorkerSettles(s) \/ WorkerResumes(s)
    \/ \E a \in Subs : SubleadLeaves(a) \/ SubleadFiled(a)
    \/ ListWorkers \/ UNCHANGED vars

\* Every step is a call's, the tree's, a crash or the opening that follows it.
LEMMA NextIs ==
    ASSUME [Next]_vars
    PROVE  (\E c \in Calls : Handler(c)) \/ TreeSteps \/ Crash \/ Reopen
BY DEF Next, TreeSteps

\* Every step keeps the functions functions over the calls, and the tree in the scenario's.
LEMMA NextType ==
    ASSUME TypeOK, [Next]_vars
    PROVE  TypeOK'
<1>1. ASSUME NEW c \in Calls, Handler(c) PROVE TypeOK'
  <2>1. Moves(c) /\ (UNCHANGED store \/ Stores(c)) BY <1>1, HandlersMove
  <2>2. Calls' = Calls BY <2>1 DEF Moves, Calls
  <2>3. journal' \in Seq({journal'[i] : i \in 1..Len(journal')})
    <3>1. CASE journal_append(c) BY <3>1, AppendLeaves
    <3>2. CASE ~ journal_append(c)
      <4>1. journal' = journal BY <1>1, <2>1, <3>2, JournalStays
      <4> QED BY <4>1 DEF TypeOK
    <3> QED BY <3>1, <3>2
  <2> QED BY <2>1, <2>2, <2>3 DEF TypeOK, Moves, treeVars
<1>2. ASSUME TreeSteps PROVE TypeOK'
  <2>1. UNCHANGED <<menu, up, pc, res, dest, prior, journal, states>>
    BY <1>2 DEF TreeSteps, vars, store, tree, SessionEnds, WorkerSettles, WorkerResumes, SubleadLeaves,
       SubleadFiled, ListWorkers
  <2>2. Calls' = Calls BY <2>1 DEF Calls
  <2>3. index' \subseteq index /\ live' \subseteq live
    BY <1>2 DEF TreeSteps, vars, tree, SessionEnds, WorkerSettles, WorkerResumes, SubleadLeaves,
       SubleadFiled, ListWorkers
  <2>4. gone' \subseteq gone \cup menu.subs
    BY <1>2 DEF TreeSteps, vars, tree, SessionEnds, WorkerSettles, WorkerResumes, SubleadLeaves,
       SubleadFiled, ListWorkers
  <2>5. sess' \in [Sessions -> {"none", "live", "ended"}]
    <3>1. \/ sess' = sess
          \/ \E s \in Sessions : sess' = [sess EXCEPT ![s] = "ended"] \/ sess' = [sess EXCEPT ![s] = "live"]
      BY <1>2 DEF TreeSteps, vars, tree, SessionEnds, WorkerSettles, WorkerResumes, SubleadLeaves,
         SubleadFiled, ListWorkers
    <3> QED BY <3>1 DEF TypeOK
  <2> QED BY <2>1, <2>2, <2>3, <2>4, <2>5 DEF TypeOK
<1>3. CASE Crash
  <2>1. Calls' = Calls BY <1>3 DEF Crash, Calls
  <2> QED BY <1>3, <2>1 DEF Crash, TypeOK
<1>4. CASE Reopen
  <2>1. Calls' = Calls BY <1>4 DEF Reopen, Calls
  <2> QED BY <1>4, <2>1 DEF Reopen, TypeOK
<1> QED BY <1>1, <1>2, <1>3, <1>4, NextIs

\* A token goes only with a session that has ended: the tail of a killed incarnation takes
\* its own, and a sub-lead is filed after its sessions.
LEMMA NextToken ==
    ASSUME TypeOK, TokenInv, [Next]_vars
    PROVE  TokenInv'
<1>1. ASSUME NEW c \in Calls, Handler(c) PROVE TokenInv'
  <2>1. Moves(c) BY <1>1, HandlersMove
  <2> QED BY <2>1 DEF Moves, treeVars, TokenInv
<1>2. ASSUME NEW s \in Sessions, SessionEnds(s) PROVE TokenInv'
  BY <1>2 DEF SessionEnds, TokenInv, TypeOK
<1>3. ASSUME NEW s \in Sessions, WorkerSettles(s) PROVE TokenInv'
  BY <1>3 DEF WorkerSettles, revoke_token, TokenInv, TypeOK
<1>4. ASSUME NEW s \in Sessions, WorkerResumes(s) PROVE TokenInv'
  <2>1. Actor[s] \in Workers BY <1>4, MenuIs DEF WorkerResumes, TypeOK
  <2>2. Actor[s] \notin Subs BY <2>1, TreeAssumption
  <2> QED BY <1>4, <2>2 DEF WorkerResumes, mint_token, TokenInv, TypeOK
<1>5. ASSUME NEW a \in Subs, SubleadLeaves(a) PROVE TokenInv'
  BY <1>5 DEF SubleadLeaves, TokenInv
<1>6. ASSUME NEW a \in Subs, SubleadFiled(a) PROVE TokenInv'
  <2>1. up' = up /\ a \notin live /\ live' = live /\ sess' = sess /\ tokens' = {s \in tokens : Actor[s] # a}
    BY <1>6 DEF SubleadFiled, revoke_tokens_for_actor
  <2> QED BY <2>1 DEF TokenInv
<1>7. CASE ListWorkers BY <1>7 DEF ListWorkers, tree, TokenInv
<1>8. CASE UNCHANGED vars BY <1>8 DEF vars, tree, TokenInv
<1>9. CASE Crash BY <1>9 DEF Crash, TokenInv
<1>10. CASE Reopen
  <2>1. ASSUME NEW s \in Sessions, sess'[s] = "live" PROVE up' /\ s \in tokens' /\ (Actor[s] \in Subs => Actor[s] \in live')
    <3>1. CASE s \in menu.after
      <4>1. Actor[s] = "root" BY <3>1, MenuIs DEF TypeOK
      <4> QED BY <1>10, <3>1, <4>1, TreeAssumption DEF Reopen
    <3>2. CASE s \notin menu.after
      <4>1. sess[s] = "live" BY <1>10, <2>1, <3>2 DEF Reopen
      <4> QED BY <1>10, <4>1 DEF TokenInv, Reopen
    <3> QED BY <3>1, <3>2
  <2> QED BY <2>1 DEF TokenInv
<1> QED BY <1>1, <1>2, <1>3, <1>4, <1>5, <1>6, <1>7, <1>8, <1>9, <1>10, NextIs DEF TreeSteps

-----------------------------------------------------------------------------
(* The list of workers *)

\* The sequence of a finite set names every member once.
LEMMA SetToSeqIs ==
    ASSUME NEW S, IsFiniteSet(S)
    PROVE  SetToSeq(S) \in Seq(S) /\ IsInjective(SetToSeq(S)) /\ ToSet(SetToSeq(S)) = S
<1> DEFINE n == Cardinality(S)
           f == SetToSeq(S)
<1>1. n \in Nat /\ ExistsBijection(1..n, S) BY FS_CardinalityType
<1>2. \E g \in [1..n -> S] : IsInjective(g)
  BY <1>1 DEF ExistsBijection, Bijection, Injection, IsInjective
<1>3. f \in [1..n -> S] /\ IsInjective(f) BY <1>2 DEF SetToSeq
<1> HIDE DEF n, f
<1>4. f \in Seq(S) BY <1>1, <1>3 DEF Seq
<1>5. ASSUME NEW x \in S, \A i \in 1..n : f[i] # x PROVE FALSE
  <2>1. f \in [1..n -> S \ {x}] BY <1>3, <1>5
  <2>2. IsFiniteSet(S \ {x}) /\ Cardinality(S \ {x}) = n - 1 BY FS_RemoveElement DEF n
  <2>3. IsFiniteSet(1..n) /\ Cardinality(1..n) = n
    <3>1. 1 \in Int /\ n \in Int BY <1>1
    <3>2. IsFiniteSet(1..n) /\ Cardinality(1..n) = IF 1 > n THEN 0 ELSE n - 1 + 1
      BY <3>1, FS_Interval
    <3> QED BY <1>1, <3>2
  <2>4. Cardinality(S \ {x}) < Cardinality(1..n) BY <1>1, <2>2, <2>3
  <2>5. \E i, j \in 1..n : i # j /\ f[i] = f[j] BY <2>1, <2>2, <2>3, <2>4, FS_PigeonHole
  <2> QED BY <1>3, <2>5 DEF IsInjective
<1>6. ToSet(f) = S BY <1>3, <1>5 DEF ToSet
<1> QED BY <1>3, <1>4, <1>6 DEF f

\* Two sequences without repetition that share nothing, one behind the other.
LEMMA ConcatIs ==
    ASSUME NEW T, NEW p \in Seq(T), NEW q \in Seq(T), IsInjective(p), IsInjective(q),
           ToSet(p) \cap ToSet(q) = {}
    PROVE  p \o q \in Seq(T) /\ IsInjective(p \o q) /\ ToSet(p \o q) = ToSet(p) \cup ToSet(q)
<1> DEFINE r == p \o q
<1>1. /\ r \in Seq(T) /\ Len(r) = Len(p) + Len(q)
      /\ \A i \in 1..Len(r) : r[i] = IF i <= Len(p) THEN p[i] ELSE q[i - Len(p)]
  OBVIOUS
<1>2. DOMAIN p = 1..Len(p) /\ DOMAIN q = 1..Len(q) /\ Len(p) \in Nat /\ Len(q) \in Nat OBVIOUS
<1>3. DOMAIN r = 1..Len(r) BY <1>1
<1> HIDE DEF r
<1>4. \A i \in DOMAIN r : (i \in DOMAIN p /\ r[i] = p[i]) \/ (i - Len(p) \in DOMAIN q /\ r[i] = q[i - Len(p)])
  BY <1>1, <1>2, <1>3
<1>5. \A i \in DOMAIN p : i \in DOMAIN r /\ r[i] = p[i] BY <1>1, <1>2, <1>3
<1>6. \A i \in DOMAIN q : i + Len(p) \in DOMAIN r /\ r[i + Len(p)] = q[i] BY <1>1, <1>2, <1>3
<1>7. ToSet(r) = ToSet(p) \cup ToSet(q)
  <2>1. \A i \in DOMAIN r : r[i] \in ToSet(p) \cup ToSet(q) BY <1>4 DEF ToSet
  <2>2. \A i \in DOMAIN p : p[i] \in ToSet(r) BY <1>5 DEF ToSet
  <2>3. \A i \in DOMAIN q : q[i] \in ToSet(r) BY <1>6 DEF ToSet
  <2> QED BY <2>1, <2>2, <2>3 DEF ToSet
<1>8. ASSUME NEW i \in DOMAIN r, NEW j \in DOMAIN r, r[i] = r[j] PROVE i = j
  <2>1. i \in Int /\ j \in Int BY <1>1, <1>2, <1>3
  <2>2. CASE i \in DOMAIN p /\ r[i] = p[i] /\ j \in DOMAIN p /\ r[j] = p[j] BY <1>8, <2>2 DEF IsInjective
  <2>3. CASE i - Len(p) \in DOMAIN q /\ r[i] = q[i - Len(p)] /\ j - Len(p) \in DOMAIN q /\ r[j] = q[j - Len(p)]
    <3>1. i - Len(p) = j - Len(p) BY <1>8, <2>3 DEF IsInjective
    <3> QED BY <1>2, <2>1, <3>1
  <2>4. CASE i \in DOMAIN p /\ r[i] = p[i] /\ j - Len(p) \in DOMAIN q /\ r[j] = q[j - Len(p)]
    BY <1>8, <2>4 DEF ToSet
  <2>5. CASE j \in DOMAIN p /\ r[j] = p[j] /\ i - Len(p) \in DOMAIN q /\ r[i] = q[i - Len(p)]
    BY <1>8, <2>5 DEF ToSet
  <2> QED BY <1>4, <2>2, <2>3, <2>4, <2>5
<1>9. IsInjective(r) BY <1>8 DEF IsInjective
<1> QED BY <1>1, <1>7, <1>9 DEF r

\* A row stands under the true parent.
RowOK(x) == x.parent \subseteq Overseers(x.id) \ {x.id} /\ (x.parent = {} <=> x.id = "root")

\* The rows that collect_layer_workers adds for a layer are of that kind.
LEMMA RowsAreTrue ==
    ASSUME TypeOK, NEW l \in Subs \cup {"root"}, NEW x \in LayerRows(l)
    PROVE  RowOK(x)
<1>1. CASE x = [id |-> l, parent |-> IF l = "root" THEN {} ELSE {"root"}]
  <2>1. x.id = l /\ x.parent = IF l = "root" THEN {} ELSE {"root"} BY <1>1
  <2> HIDE <1>1
  <2> QED BY <2>1 DEF RowOK, Overseers
<1>2. ASSUME NEW w \in states, Owner[w] = l, x = [id |-> w, parent |-> {l}] PROVE RowOK(x)
  <2>1. w \in Workers BY MenuIs DEF TypeOK
  <2>2. w # l /\ w # "root" BY <2>1, TreeAssumption
  <2>3. x.id = w /\ x.parent = {l} BY <1>2
  <2> QED BY <1>2, <2>1, <2>2, <2>3 DEF RowOK, Overseers
<1> QED BY <1>1, <1>2 DEF LayerRows

\* A visit of layers not seen yet adds them and their rows.
LEMMA VisitIs ==
    ASSUME TypeOK, ListInv, NEW L, L \subseteq Subs \cup {"root"}, IsFiniteSet(L),
           L \cap ToSet(listing.layers) = {}, NEW then, Visit(L, then), states' = states
    PROVE  /\ listing'.at = then
           /\ listing'.layers \in Seq(Subs \cup {"root"}) /\ IsInjective(listing'.layers)
           /\ ToSet(listing'.layers) = ToSet(listing.layers) \cup L
           /\ listing'.gap = IF then = "done" THEN menu.subs \ (live \cup gone) ELSE {}
           /\ \A l \in ToSet(listing'.layers) : LayerRows(l)' \subseteq listing'.rows
           /\ \A x \in listing'.rows : RowOK(x)
<1> DEFINE p == listing.layers
           q == SetToSeq(L)
           T == Subs \cup {"root"}
<1>1. /\ listing'.at = then /\ listing'.layers = p \o q
      /\ listing'.rows = listing.rows \cup UNION {LayerRows(l) : l \in L}
      /\ listing'.gap = IF then = "done" THEN menu.subs \ (live \cup gone) ELSE {}
  BY DEF Visit
<1>2. p \in Seq(T) /\ IsInjective(p) BY DEF ListInv
<1>3. q \in Seq(L) /\ IsInjective(q) /\ ToSet(q) = L BY SetToSeqIs
<1>4. q \in Seq(T)
  <2> HIDE DEF q, T
  <2>1. L \subseteq T BY DEF T
  <2> QED BY <1>3, <2>1
<1>5. p \o q \in Seq(T) /\ IsInjective(p \o q) /\ ToSet(p \o q) = ToSet(p) \cup L
  <2> HIDE DEF p, q, T
  <2>1. ToSet(p) \cap ToSet(q) = {} BY <1>3 DEF p
  <2> QED BY <1>2, <1>3, <1>4, <2>1, ConcatIs
<1>6. \A l : LayerRows(l)' = LayerRows(l) BY DEF LayerRows
<1>7. \A l \in ToSet(p) : LayerRows(l) \subseteq listing.rows BY DEF ListInv
<1>8. \A x \in listing.rows : RowOK(x) BY DEF ListInv, RowOK
<1>9. \A l \in L : \A x \in LayerRows(l) : RowOK(x) BY RowsAreTrue
<1>10. \A l \in ToSet(listing'.layers) : LayerRows(l)' \subseteq listing'.rows BY <1>1, <1>5, <1>6, <1>7
<1>11. \A x \in listing'.rows : RowOK(x) BY <1>1, <1>8, <1>9
<1> QED BY <1>1, <1>5, <1>10, <1>11

\* A list of workers visits the root, the sub-leads alive and, once that map is given back,
\* those that have ended: a sub-lead in either is seen once.
LEMMA NextList ==
    ASSUME TypeOK, ListInv, [Next]_vars
    PROVE  ListInv'
<1>a. live \subseteq menu.subs /\ gone \subseteq menu.subs /\ menu.subs \subseteq Subs
  BY MenuIs DEF TypeOK
<1>b. IsFiniteSet(live) /\ IsFiniteSet(gone) /\ "root" \notin Subs
  BY <1>a, TreeAssumption, FS_Subset
<1>c. \A x : RowOK(x)' <=> RowOK(x) BY DEF RowOK, Overseers
<1>1. ASSUME listing' = listing, menu' = menu, live' \subseteq live, states' = states PROVE ListInv'
  <2>1. \A l : LayerRows(l)' = LayerRows(l) BY <1>1 DEF LayerRows
  <2> QED BY <1>1, <2>1 DEF ListInv, Overseers
<1>2. ASSUME NEW c \in Calls, Handler(c) PROVE ListInv'
  <2>1. Moves(c) BY <1>2, HandlersMove
  <2> QED BY <1>1, <2>1 DEF Moves, treeVars
<1>3. ASSUME TreeSteps, ~ ListWorkers PROVE ListInv'
  <2>1. listing' = listing /\ menu' = menu /\ live' \subseteq live /\ states' = states
    BY <1>3 DEF TreeSteps, vars, tree, SessionEnds, WorkerSettles, WorkerResumes, SubleadLeaves, SubleadFiled
  <2> QED BY <1>1, <2>1
<1>4. CASE ListWorkers
  <2> DEFINE seen == ToSet(listing.layers)
  <2>1. menu' = menu /\ states' = states /\ live' = live BY <1>4 DEF ListWorkers, tree
  <2>2. ASSUME NEW L, L \subseteq Subs \cup {"root"}, IsFiniteSet(L), L \cap seen = {},
               NEW then \in {"live", "terminated", "done"}, Visit(L, then),
               "root" \in seen \cup L,
               then = "live" => seen \cup L = {"root"},
               then = "terminated" => live \subseteq seen \cup L,
               then = "done" => live \cup gone \subseteq seen \cup L
        PROVE  ListInv'
    <3>1. /\ listing'.at = then
          /\ listing'.layers \in Seq(Subs \cup {"root"}) /\ IsInjective(listing'.layers)
          /\ ToSet(listing'.layers) = seen \cup L
          /\ listing'.gap = IF then = "done" THEN menu.subs \ (live \cup gone) ELSE {}
          /\ \A l \in ToSet(listing'.layers) : LayerRows(l)' \subseteq listing'.rows
          /\ \A x \in listing'.rows : RowOK(x)
      BY <2>1, <2>2, VisitIs
    <3>2. then = "done" => menu.subs \ listing'.gap \subseteq ToSet(listing'.layers)
      BY <2>2, <3>1
    <3>3. \A x \in listing'.rows : x.parent \subseteq Overseers(x.id)' \ {x.id} /\ (x.parent = {} <=> x.id = "root")
      BY <3>1 DEF RowOK, Overseers
    <3> HIDE DEF seen
    <3> QED BY <2>1, <2>2, <3>1, <3>2, <3>3 DEF ListInv
  <2>3. CASE listing.at = "root" /\ Visit({"root"}, "live")
    <3>1. seen = {} BY <2>3 DEF ListInv
    <3>2. IsFiniteSet({"root"}) BY FS_Singleton
    <3> QED BY <2>2, <2>3, <3>1, <3>2
  <2>4. CASE listing.at = "live" /\ Visit(live, "terminated")
    <3>1. seen = {"root"} BY <2>4 DEF ListInv
    <3>2. live \cap seen = {} BY <1>a, <1>b, <3>1
    <3> QED BY <1>a, <1>b, <2>2, <2>4, <3>1, <3>2
  <2>5. CASE listing.at = "terminated" /\ Visit(gone \ seen, "done")
    <3>1. live \subseteq seen /\ "root" \in seen BY <2>5 DEF ListInv
    <3>2. IsFiniteSet(gone \ seen) BY <1>b, FS_Difference
    <3>3. gone \ seen \subseteq Subs \cup {"root"} /\ (gone \ seen) \cap seen = {}
          /\ live \cup gone \subseteq seen \cup (gone \ seen) /\ "root" \in seen \cup (gone \ seen)
      BY <1>a, <3>1
    <3> HIDE DEF seen
    <3> QED BY <2>2, <2>5, <3>2, <3>3
  <2> QED BY <1>4, <2>3, <2>4, <2>5 DEF ListWorkers
<1>5. CASE Crash
  <2>1. listing' = [at |-> "root", layers |-> <<>>, rows |-> {}, gap |-> {}] BY <1>5 DEF Crash, NoListing
  <2>2. listing'.at = "root" /\ listing'.layers = <<>> /\ listing'.rows = {} BY <2>1
  <2>3. ToSet(listing'.layers) = {} BY <2>2 DEF ToSet
  <2>4. listing'.layers \in Seq(Subs \cup {"root"}) /\ IsInjective(listing'.layers) BY <2>2 DEF IsInjective
  <2> QED BY <2>2, <2>3, <2>4 DEF ListInv
<1>6. CASE Reopen BY <1>1, <1>6 DEF Reopen
<1> QED BY <1>2, <1>3, <1>4, <1>5, <1>6, NextIs

-----------------------------------------------------------------------------
(* The theorems *)

\* At the start no call has been made and nothing is stored.
LEMMA InitHolds == Init => MessagesInv
<1> SUFFICES ASSUME Init PROVE MessagesInv OBVIOUS
<1>1. menu \in Menus /\ Calls = DOMAIN menu.calls BY DEF Init, Calls
<1>2. \A c \in Calls : pc[c] = "idle" /\ res[c] = "" /\ dest[c] = "" /\ prior[c] = {} BY <1>1 DEF Init
<1>3. messages = <<>> /\ artifacts = <<>> /\ files = {} /\ journal = <<>> /\ up = TRUE BY DEF Init
<1>4. Len(journal) = 0 /\ DOMAIN messages = {} /\ DOMAIN artifacts = {} BY <1>3
<1>5. 1..Len(journal) = {} BY <1>4
<1>6. Whole(journal) = {} /\ JournalPuts = {} BY <1>5 DEF Whole, JournalPuts
<1>7. TypeOK
  <2>1. journal \in Seq({journal[i] : i \in 1..Len(journal)}) BY <1>3
  <2>2. prior \in [Calls -> SUBSET Calls] BY <1>1 DEF Init
  <2>3. pc = [c \in Calls |-> pc[c]] /\ res = [c \in Calls |-> res[c]] /\ dest = [c \in Calls |-> dest[c]]
    BY <1>1 DEF Init
  <2>4. /\ index \subseteq menu.workers /\ states \subseteq menu.workers
        /\ live \subseteq menu.subs /\ gone \subseteq menu.subs
    BY DEF Init
  <2>5. sess \in [Sessions -> {"none", "live", "ended"}] BY DEF Init
  <2> QED BY <1>1, <1>3, <2>1, <2>2, <2>3, <2>4, <2>5 DEF TypeOK
<1>8. TokenInv BY <1>1, MenuIs DEF TokenInv, Init
<1>9. StageInv BY <1>2, <1>3 DEF StageInv, Stage, Resting
<1>10. AccessInv BY <1>2 DEF AccessInv, Permitted
<1>11. ItemInv BY <1>2, <1>4 DEF ItemInv
<1>12. JournalInv BY <1>2, <1>5 DEF JournalInv, Kept
<1>13. FileInv BY <1>2, <1>3, <1>6 DEF FileInv
<1>14. CountInv
  <2>1. \A a : OwnedBy(a) = {} /\ {x \in JournalPuts : Who(x) = a} = {} BY <1>4, <1>6 DEF OwnedBy
  <2>2. menu.per_actor \in Nat BY <1>1, MenuIs
  <2>3. Cardinality({}) <= menu.per_actor BY <2>2, FS_EmptySet
  <2> QED BY <2>1, <2>3 DEF CountInv
<1>15. ListInv
  <2>1. listing.at = "root" /\ listing.layers = <<>> /\ listing.rows = {} BY DEF Init, NoListing
  <2>2. ToSet(listing.layers) = {} BY <2>1 DEF ToSet
  <2>3. listing.layers \in Seq(Subs \cup {"root"}) /\ IsInjective(listing.layers) BY <2>1 DEF IsInjective
  <2> QED BY <2>1, <2>2, <2>3 DEF ListInv
<1> QED BY <1>7, <1>8, <1>9, <1>10, <1>11, <1>12, <1>13, <1>14, <1>15 DEF MessagesInv

\* What is known of the calls, the journal, the files and the tree together is kept by every
\* step of every handler, the ends of actors, a crash and the reopening of the store.
THEOREM MessagesInvariant == Spec => []MessagesInv
<1>1. Init => MessagesInv BY InitHolds
<1>2. MessagesInv /\ [Next]_vars => MessagesInv'
  <2> SUFFICES ASSUME MessagesInv, [Next]_vars PROVE MessagesInv' OBVIOUS
  <2>1. /\ TypeOK /\ TokenInv /\ StageInv /\ AccessInv /\ ItemInv /\ JournalInv /\ FileInv /\ CountInv
        /\ ListInv
    BY DEF MessagesInv
  <2>2. TypeOK' /\ TokenInv' /\ ListInv' BY <2>1, NextType, NextToken, NextList
  <2>3. StageInv' /\ AccessInv' BY <2>1, NextStage, NextAccess
  <2>4. ItemInv' /\ JournalInv' /\ FileInv' BY <2>1, NextItems, NextJournal, NextFiles
  <2>5. CountInv' BY <2>1, <2>4, NextCount
  <2> QED BY <2>2, <2>3, <2>4, <2>5 DEF MessagesInv
<1> QED BY <1>1, <1>2, PTL DEF Spec

\* A finished list of workers lacks only what was in neither map of layers.
LEMMA ListsAreWhole ==
    ASSUME TypeOK, ListInv
    PROVE  ListIsWhole
<1> SUFFICES ASSUME listing.at = "done" PROVE ListIsWhole BY DEF ListIsWhole
<1> DEFINE seen == ToSet(listing.layers)
<1>1. /\ IsInjective(listing.layers) /\ "root" \in seen /\ menu.subs \ listing.gap \subseteq seen
      /\ \A l \in seen : LayerRows(l) \subseteq listing.rows
      /\ \A x \in listing.rows : x.parent \subseteq Overseers(x.id) \ {x.id} /\ (x.parent = {} <=> x.id = "root")
  BY DEF ListInv
<1> HIDE DEF seen
<1>2. ASSUME NEW w \in states, Owner[w] \notin listing.gap PROVE \E x \in listing.rows : x.id = w
  <2>1. Owner[w] \in menu.subs \cup {"root"} BY MenuIs DEF TypeOK
  <2>2. Owner[w] \in seen BY <1>1, <1>2, <2>1
  <2>3. [id |-> w, parent |-> {Owner[w]}] \in LayerRows(Owner[w]) BY DEF LayerRows
  <2>4. [id |-> w, parent |-> {Owner[w]}] \in listing.rows BY <1>1, <2>2, <2>3
  <2> QED BY <2>4
<1>3. ASSUME NEW a \in menu.subs \ listing.gap PROVE \E x \in listing.rows : x.id = a
  <2>1. a \in seen BY <1>1
  <2>2. [id |-> a, parent |-> IF a = "root" THEN {} ELSE {"root"}] \in LayerRows(a) BY DEF LayerRows
  <2>3. [id |-> a, parent |-> IF a = "root" THEN {} ELSE {"root"}] \in listing.rows BY <1>1, <2>1, <2>2
  <2> QED BY <2>3
<1> QED BY <1>1, <1>2, <1>3 DEF ListIsWhole

\* Every answer that a session gets follows the true tree: what it may read, ack, list,
\* address, steer and reach, and the list of workers, whatever ended, moved, was resumed or
\* crashed between the steps of the handler.
THEOREM AccessStaysInTree == Spec => []AccessFollowsTree
<1>1. MessagesInv => AccessFollowsTree
  <2> SUFFICES ASSUME MessagesInv PROVE AccessFollowsTree OBVIOUS
  <2>1. TypeOK /\ ListInv /\ \A c \in Calls : Permitted(c) BY DEF MessagesInv, AccessInv
  <2>2. \A m, p : p \in Parties(m) <=> p = Who(m) \/ p = dest[m] BY DEF Parties, Who
  <2>3. \A c, m : Sees(c, m) => Who(c) \in UNION {Overseers(p) : p \in Parties(m)}
    BY <2>2 DEF Sees, Oversees
  <2>4. \A c \in Ok("message_read") \cup Ok("message_ack") :
           Who(c) \in UNION {Overseers(p) : p \in Parties(Call(c).item)}
    BY <2>1, <2>3 DEF Ok, Permitted, MessageItemTools
  <2>5. \A c \in Ok("message_list") : \A m \in dest[c] : Who(c) \in UNION {Overseers(p) : p \in Parties(m)}
    BY <2>1, <2>3 DEF Ok, Permitted
  <2>6. \A x \in Items : Readers(x) \subseteq Overseers(Who(x)) \cup Granted(x)
    BY <2>1 DEF Ok, Readers, Permitted, Fetches, Oversees
  <2>7. \A c \in Ok("message_send") \cup Ok("artifact_grant") :
           Who(c) \in Overseers(dest[c]) \/ dest[c] \in Overseers(Who(c))
    BY <2>1 DEF Ok, Permitted, Oversees
  <2>8. \A c \in Ok("cancel_worker") : Who(c) \in Overseers(Call(c).to) BY <2>1 DEF Ok, Permitted, Oversees
  <2>9. \A c \in Ok("kv_get") \cup Ok("kv_set") : dest[c] \in {"root"} \cup Overseers(Who(c))
    BY <2>1 DEF Ok, Permitted
  <2>10. ListIsWhole BY <2>1, ListsAreWhole
  <2> QED BY <2>4, <2>5, <2>6, <2>7, <2>8, <2>9, <2>10 DEF AccessFollowsTree
<1> QED BY <1>1, MessagesInvariant, PTL

\* No call of a live session is refused for its token: a tail, a filed sub-lead or a crash
\* takes only the token of a session that has ended.
THEOREM LiveSessionsStayHeard == Spec => []LiveSessionsAreHeard
<1>1. MessagesInv => LiveSessionsAreHeard BY DEF MessagesInv, StageInv, Stage, LiveSessionsAreHeard
<1> QED BY <1>1, MessagesInvariant, PTL

\* The record of an answered call is among those that opening the journal reads back.
LEMMA ReadsBack ==
    ASSUME TypeOK, JournalInv, NEW c \in Calls, Call(c).tool \in JournalTools, Kept(c)
    PROVE  \E i \in DOMAIN Lines(journal) :
             /\ Lines(journal)[i] = Record(c)
             /\ Call(c).tool \in MessageItemTools \cup ArtifactItemTools
                /\ Call(c).item \in prior[c] /\ Kept(Call(c).item) =>
                   \E k \in DOMAIN Lines(journal) : k <= i /\ Lines(journal)[k] = Record(Call(c).item)
<1>1. PICK i \in Whole(journal) :
         /\ journal[i].rec = Record(c)
         /\ Call(c).tool \in MessageItemTools \cup ArtifactItemTools
            /\ Call(c).item \in prior[c] /\ Kept(Call(c).item) =>
               \E k \in Whole(journal) : k <= i /\ journal[k].rec = Record(Call(c).item)
  BY DEF JournalInv, Written
<1>2. DOMAIN Lines(journal) = Whole(journal) /\ \A k \in Whole(journal) : Lines(journal)[k] = journal[k].rec
  BY ReadBack DEF TypeOK
<1> QED BY <1>1, <1>2

\* What a journal's record says of its call.
LEMMA RecordIs ==
    ASSUME menu \in Menus, NEW c \in Calls, Call(c).tool \in JournalTools
    PROVE  /\ Record(c).op = Call(c).tool
           /\ Record(c).id = IF Call(c).tool \in {"message_send", "artifact_put"} THEN c ELSE Call(c).item
           /\ Record(c).who = IF Call(c).tool = "artifact_grant" THEN dest[c] ELSE Who(c)
BY CallerIs DEF Record, Items

\* What was answered is kept: opening the journal gives back every send and put that was
\* answered and every ack and grant that followed the answer, no artifact is without its
\* file, and no actor has more than the limit, whatever overlapped or crashed.
THEOREM AnswersStayKept == Spec => []AnsweredIsKept
<1>1. MessagesInv => AnsweredIsKept
  <2> SUFFICES ASSUME MessagesInv PROVE AnsweredIsKept OBVIOUS
  <2>1. TypeOK /\ StageInv /\ ItemInv /\ JournalInv /\ FileInv /\ CountInv BY DEF MessagesInv
  <2> DEFINE rs == Lines(journal)
  <2>2. menu \in Menus BY <2>1 DEF TypeOK
  <2>3. ASSUME NEW c \in Ok("message_send"), Kept(c) PROVE c \in DOMAIN MessagesIn(rs)
    <3>1. c \in Calls /\ Call(c).tool = "message_send" BY DEF Ok
    <3>2. PICK i \in DOMAIN rs : rs[i] = Record(c) BY <2>1, <2>3, <3>1, ReadsBack DEF JournalTools
    <3>3. rs[i].op = "message_send" /\ rs[i].id = c BY <2>2, <3>1, <3>2, RecordIs DEF JournalTools
    <3> HIDE DEF rs
    <3> QED BY <3>3 DEF MessagesIn
  <2>4. ASSUME NEW c \in Ok("artifact_put"), Kept(c) PROVE c \in DOMAIN ArtifactsIn(rs)
    <3>1. c \in Calls /\ Call(c).tool = "artifact_put" BY DEF Ok
    <3>2. PICK i \in DOMAIN rs : rs[i] = Record(c) BY <2>1, <2>4, <3>1, ReadsBack DEF JournalTools
    <3>3. rs[i].op = "artifact_put" /\ rs[i].id = c BY <2>2, <3>1, <3>2, RecordIs DEF JournalTools
    <3> HIDE DEF rs
    <3> QED BY <3>3 DEF ArtifactsIn
  <2>5. ASSUME NEW c \in Ok("message_ack"), Kept(c), Call(c).item \in prior[c], Kept(Call(c).item)
        PROVE  Who(c) \in MessagesIn(rs)[Call(c).item]
    <3> DEFINE m == Call(c).item
    <3>1. c \in Calls /\ Call(c).tool = "message_ack" BY DEF Ok
    <3>2. m \in Calls /\ Call(m).tool = "message_send" BY <2>2, <3>1, CallIs DEF MessageItemTools
    <3>3. PICK i \in DOMAIN rs : rs[i] = Record(c) /\ \E k \in DOMAIN rs : k <= i /\ rs[k] = Record(m)
      BY <2>1, <2>5, <3>1, ReadsBack DEF JournalTools, MessageItemTools
    <3>4. PICK k \in DOMAIN rs : k <= i /\ rs[k] = Record(m) BY <3>3
    <3>5. rs[i].op = "message_ack" /\ rs[i].id = m /\ rs[i].who = Who(c)
      BY <2>2, <3>1, <3>3, RecordIs DEF JournalTools
    <3>6. rs[k].op = "message_send" /\ rs[k].id = m
      <4> HIDE DEF m
      <4> QED BY <2>2, <3>2, <3>4, RecordIs DEF JournalTools
    <3> HIDE DEF rs, m
    <3>7. Before(rs, i, "message_send", m) BY <3>4, <3>6 DEF Before
    <3>8. m \in DOMAIN MessagesIn(rs) BY <3>6 DEF MessagesIn
    <3>9. MessagesIn(rs)[m] = {rs[j].who : j \in {l \in DOMAIN rs : rs[l].op = "message_ack" /\ rs[l].id = m
                                                                    /\ Before(rs, l, "message_send", m)}}
      BY <3>8 DEF MessagesIn
    <3>10. Who(c) \in MessagesIn(rs)[m] BY <3>5, <3>7, <3>9
    <3> QED BY <3>10 DEF m
  <2>6. ASSUME NEW c \in Ok("artifact_grant"), Kept(c), Call(c).item \in prior[c], Kept(Call(c).item)
        PROVE  dest[c] \in ArtifactsIn(rs)[Call(c).item]
    <3> DEFINE x == Call(c).item
    <3>1. c \in Calls /\ Call(c).tool = "artifact_grant" BY DEF Ok
    <3>2. x \in Calls /\ Call(x).tool = "artifact_put" BY <2>2, <3>1, CallIs DEF ArtifactItemTools
    <3>3. PICK i \in DOMAIN rs : rs[i] = Record(c) /\ \E k \in DOMAIN rs : k <= i /\ rs[k] = Record(x)
      BY <2>1, <2>6, <3>1, ReadsBack DEF JournalTools, ArtifactItemTools
    <3>4. PICK k \in DOMAIN rs : k <= i /\ rs[k] = Record(x) BY <3>3
    <3>5. rs[i].op = "artifact_grant" /\ rs[i].id = x /\ rs[i].who = dest[c]
      BY <2>2, <3>1, <3>3, RecordIs DEF JournalTools
    <3>6. rs[k].op = "artifact_put" /\ rs[k].id = x
      <4> HIDE DEF x
      <4> QED BY <2>2, <3>2, <3>4, RecordIs DEF JournalTools
    <3> HIDE DEF rs, x
    <3>7. Before(rs, i, "artifact_put", x) BY <3>4, <3>6 DEF Before
    <3>8. x \in DOMAIN ArtifactsIn(rs) BY <3>6 DEF ArtifactsIn
    <3>9. ArtifactsIn(rs)[x] = {rs[j].who : j \in {l \in DOMAIN rs : rs[l].op = "artifact_grant" /\ rs[l].id = x
                                                                     /\ Before(rs, l, "artifact_put", x)}}
      BY <3>8 DEF ArtifactsIn
    <3>10. dest[c] \in ArtifactsIn(rs)[x] BY <3>5, <3>7, <3>9
    <3> QED BY <3>10 DEF x
  <2>7. JournalKeepsAnswered
    <3> HIDE DEF rs
    <3>1. rs = Lines(journal) BY DEF rs
    <3> QED BY <2>3, <2>4, <2>5, <2>6, <3>1 DEF JournalKeepsAnswered, Kept
  <2>8. ArtifactsAreBacked
    <3>1. DOMAIN artifacts \subseteq files BY <2>1 DEF ItemInv
    <3>2. DOMAIN ArtifactsIn(Lines(journal)) \subseteq files BY <2>1, ArtifactsReadBack DEF FileInv
    <3>3. \A a \in Workers \cup Subs \cup {"root"} : Cardinality(OwnedBy(a)) <= menu.per_actor
      BY <2>1 DEF CountInv, People
    <3>4. ASSUME NEW y \in files \ DOMAIN artifacts
          PROVE  pc[y] \in {"store", "remove", "dead"} \/ "disk" \in menu.faults \/ y \in spoilt \/ ~ up
      <4>1. /\ y \in Calls /\ Call(y).tool = "artifact_put" /\ pc[y] \in {"store", "remove"} \cup Settled
            /\ pc[y] = "done" => \/ res[y] = "ok" /\ (up => y \in DOMAIN artifacts \cup spoilt)
                                 \/ res[y] # "ok" /\ "disk" \in menu.faults
        BY <2>1 DEF FileInv
      <4>2. pc[y] # "journal" BY <2>1, <4>1 DEF ItemInv
      <4> QED BY <4>1, <4>2 DEF Settled
    <3> QED BY <3>1, <3>2, <3>3, <3>4 DEF ArtifactsAreBacked
  <2> QED BY <2>7, <2>8 DEF AnsweredIsKept
<1> QED BY <1>1, MessagesInvariant, PTL
=============================================================================
