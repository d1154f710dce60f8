------------------------------ MODULE MCRunEnd ------------------------------
(* One root worker, one sub-lead with a worker of its own, one wait. A channel *)
(* that holds one message lags as soon as two actors end.                      *)
EXTENDS RunEnd

CONSTANTS w1, w2, s1, root

MCLayerOf == [w \in {w1, w2} |-> IF w = w1 THEN root ELSE s1]

Actor(a) == {[op |-> "actor", ids |-> {a}]}
Any(S) == {[op |-> "any", ids |-> S]}

Menu == [who |-> {w1, w2, s1}, fail |-> FALSE, waits |-> {}, disk |-> {TRUE}, reprompts |-> 0,
         trips |-> {}]

MenuWaits == [Menu EXCEPT !.who = {w2, s1}, !.waits = Any({w1, w2})]
MenuWaitWorker == [Menu EXCEPT !.who = {w1}, !.waits = Actor(w1)]
MenuWaitSub == [Menu EXCEPT !.who = {s1}, !.waits = Actor(s1)]
MenuFail == [Menu EXCEPT !.who = {w1}, !.fail = TRUE, !.disk = BOOLEAN]
MenuSubFail == [Menu EXCEPT !.who = {w2, s1}, !.fail = TRUE]
MenuReprompt == [Menu EXCEPT !.who = {s1}, !.reprompts = 1]
MenuTrips == [Menu EXCEPT !.who = {s1}, !.trips = Trips]
MenuBreach == [Menu EXCEPT !.who = {w1}, !.fail = TRUE, !.trips = {"breach"}]

MCMenus == {MenuWaits, MenuWaitSub, MenuWaitWorker, MenuFail, MenuSubFail, MenuReprompt, MenuTrips,
            MenuBreach}
=============================================================================
