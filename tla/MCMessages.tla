----------------------------- MODULE MCMessages -----------------------------
(***************************************************************************)
(* Scenarios for Messages: a root lead with a worker w0, a sub-lead s1 with *)
(* w1, and a sub-lead s2 with w2.                                          *)
(***************************************************************************)
EXTENDS Messages, TLC

MCActor == "root" :> "root" @@ "root2" :> "root" @@ "s1" :> "s1" @@ "s2" :> "s2" @@
           "w0" :> "w0" @@ "w1" :> "w1" @@ "w1b" :> "w1" @@ "w2" :> "w2"
MCOwner == "w0" :> "root" @@ "w1" :> "s1" @@ "w2" :> "s2"

Do(tool, by, item, to) == [tool |-> tool, by |-> by, item |-> item, to |-> to, size |-> 1]
Send(by, to) == Do("message_send", by, "", to)
Ack(by, item) == Do("message_ack", by, item, "")
Put(by) == Do("artifact_put", by, "", "")

Menu == [calls |-> <<>>, workers |-> {"w0", "w1", "w2"}, subs |-> {"s1", "s2"},
         sessions |-> {"root", "s1", "s2", "w0", "w1", "w2"}, after |-> {}, events |-> {}, faults |-> {},
         disabled |-> FALSE, limit |-> 1, per_actor |-> 1]

Actors == {"root", "s1", "s2", "w0", "w1", "w2"}
\* Sessions of some actors; a worker's sub-lead has its layer whether its session is among them or not.
Only(who) == [Menu EXCEPT !.sessions = who, !.workers = who \cap Workers, !.events = {"ends"},
                  !.subs = (who \cup {Owner[w] : w \in who \cap Workers}) \cap Subs]

\* One call by each to each, while its caller, its addressee or their sub-leads end.
MenusSend == {[Only({p, "s1", "w1"} \cup ({q} \cap Actors)) EXCEPT !.calls = "m" :> Send(p, q)] :
    p \in {"root", "s1", "w1", "w0"}, q \in {"self", "parent", "root", "s1", "s2", "w1", "w2", "nobody"}}
MenusSteer == {[Only({"s1", "w1"} \cup {p, q}) EXCEPT !.events = {"ends", "resume"},
                    !.calls = "k" :> Do("cancel_worker", p, "", q) @@ "v" :> Do("kv_get", p, "", q) @@
                              "u" :> Do("kv_set", p, "", "")] :
    p \in {"root", "s1", "s2", "w1", "w1b"}, q \in {"w1", "w2"}}

\* A message of a worker to its sub-lead and an artifact granted by the lead:
\* who can read them.
MenusRead == {[Only({"root", "s1", "w1"} \cup {p}) EXCEPT
                    !.calls = "m" :> Send("w1", "parent") @@ "r" :> Do("message_read", p, "m", "")
                              @@ "l" :> Do("message_list", p, "", scope)] :
    p \in Actors, scope \in {"inbox", "sent", "visible", "all"}}
MenusFetch == {[Only({"root", "s1", "w1"} \cup {p}) EXCEPT
                    !.calls = "x" :> Put("w1") @@ "g" :> Do("artifact_grant", "root", "x", "w2")
                              @@ "r" :> Do("artifact_read", p, "x", "") @@ "l" :> Do("artifact_list", p, "", scope)] :
    p \in {"root", "s1", "s2", "w1", "w2"}, scope \in {"owned", "granted", "visible", "all"}}

\* Acks and grants beside the send and the put they follow, over a disk that fails and a crash.
MenuJournal == [Only({"root", "s1", "w1"}) EXCEPT
    !.calls = "m" :> Send("w1", "parent") @@ "a" :> Ack("s1", "m") @@ "n" :> Send("root", "w1") @@
              "z" :> Do("message_list", "root2", "", "all"),
    !.events = {"crash"}, !.faults = {"torn", "skipped"}, !.after = {"root2"}]
MenuGrants == [Only({"root", "s1", "w1"}) EXCEPT
    !.calls = "x" :> Put("w1") @@ "g" :> Do("artifact_grant", "s1", "x", "root") @@
              "h" :> Do("artifact_grant", "w1", "x", "parent") @@
              "z" :> Do("artifact_read", "root2", "x", "") @@ "y" :> Put("root2"),
    !.events = {"crash"}, !.faults = {"torn", "skipped"}, !.after = {"root2"}]

\* Puts that race for the last place, and limits of size and mode.
MenuLimit == [Only({"w1"}) EXCEPT !.per_actor = 2,
    !.calls = [i \in {"x1", "x2", "x3"} |-> Put("w1")] @@ "r" :> Do("artifact_read", "w1", "x3", ""),
    !.faults = {"disk"}, !.events = {"crash"}]
MenuClean == [MenuLimit EXCEPT !.faults = {}]
MenuLarge == [Menu EXCEPT !.calls = "m" :> [Send("w1", "parent") EXCEPT !.size = 2] @@ "x" :> [Put("w1") EXCEPT !.size = 2]]
MenuOff == [MenuLarge EXCEPT !.disabled = TRUE]

\* A worker is killed and resumed while the tail of its first session is still to come.
MenuResume == [Only({"s1", "w1"}) EXCEPT !.events = {"ends", "resume"},
    !.calls = "m" :> Send("w1", "parent") @@ "n" :> Send("w1b", "parent") @@ "k" :> Do("kv_set", "w1b", "", "") @@
              "o" :> Do("kv_get", "w1b", "", "w1")]

\* A console asks for the list while sub-leads end.
MenuList == [Only({"root", "s1", "s2", "w0", "w1"}) EXCEPT !.events = {"ends", "list"}]

MCMenus == MenusSend \cup MenusSteer \cup MenusRead \cup MenusFetch
    \cup {MenuJournal, MenuGrants, MenuLimit, MenuClean, MenuLarge, MenuOff, MenuResume, MenuList}
=============================================================================
