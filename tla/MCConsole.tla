------------------------------ MODULE MCConsole ------------------------------
(***************************************************************************)
(* The instances of Console that TLC checks: one scenario for each part of *)
(* the consoles, small enough to be explored in full.                      *)
(***************************************************************************)
EXTENDS Console

MCTaskOrder == <<"lead", "w1", "w2">>
MCSubleads == <<"s1", "s2">>
MCTemplate == [m1 |-> "t1", m2 |-> "t1", m3 |-> "t2"]

\* A console on one run, nobody at the keyboard, nothing happening.
Base ==
    [open |-> "r1", static |-> [r1 |-> <<"lead">>], tasks |-> [r1 |-> {"lead", "w1"}],
     known |-> <<"r1">>, resolved |-> TRUE, rows |-> 0, recs |-> 0, oks |-> {TRUE}, cools |-> FALSE,
     reqs |-> [r1 |-> {}], leads |-> {}, rival |-> FALSE, rules |-> <<"block">>,
     keys |-> {}, presses |-> 0, mouse |-> FALSE,
     ends |-> FALSE, live |-> FALSE, requests |-> 0, web |-> <<>>, filters |-> {}]

\* Tasks come, end and leave the grid while the operator moves, kills and pauses.
MenuFocus == [Base EXCEPT !.recs = 1, !.cools = TRUE, !.presses = 1, !.keys = {"right", "x", "p"}]
\* The run directory is opened before resolved.json is written; snapshots are lost.
MenuEarly == [Base EXCEPT !.live = TRUE, !.ends = TRUE, !.resolved = FALSE, !.tasks = [r1 |-> {"w1"}],
                          !.recs = 2, !.rows = 1, !.oks = {FALSE}]
\* Requests for approval, with the connection lost or taken over.
MenuApprove == [Base EXCEPT !.tasks = [r1 |-> {}], !.reqs = [r1 |-> {"q1", "q2"}],
                            !.presses = 3, !.keys = {"A", "Enter", "down", "y", "n", "Esc"}]
MenuRival == [Base EXCEPT !.live = TRUE, !.tasks = [r1 |-> {}], !.reqs = [r1 |-> {"q1"}], !.ends = TRUE,
                          !.rival = TRUE, !.presses = 2, !.keys = {"n", "F2"}]
\* From one run to another and back.
MenuSwitch == [Base EXCEPT !.static = [r1 |-> <<"lead">>, r2 |-> <<"lead">>],
                           !.tasks = [r1 |-> {}, r2 |-> {}],
                           !.known = <<"r2">>, !.reqs = [r1 |-> {"q1"}, r2 |-> {}],
                           !.presses = 3, !.keys = {"o", "Enter", "y", "p"}]
MenuLeave == [MenuSwitch EXCEPT !.live = TRUE, !.reqs = [r1 |-> {}, r2 |-> {}],
                                !.mouse = TRUE, !.presses = 2, !.keys = {"o", "Enter"}]
\* The Completed page and the detail view.
MenuCompleted == [Base EXCEPT !.tasks = [r1 |-> {"lead"}], !.recs = 1, !.cools = TRUE, !.presses = 3,
                              !.mouse = TRUE, !.keys = {"C", "Enter", "Esc", "down", "s"}]
MenuDetail == [Base EXCEPT !.tasks = [r1 |-> {"lead"}], !.rows = 2, !.presses = 2, !.mouse = TRUE,
                           !.keys = {"Enter", "up", "G"}]
\* The policy editor, the help page, a reprompt.
MenuPolicy == [Base EXCEPT !.tasks = [r1 |-> {}], !.presses = 4,
                           !.keys = {"P", "n", "d", "Enter", "s", "up", "q"}]
MenuReprompt == [Base EXCEPT !.tasks = [r1 |-> {}], !.reqs = [r1 |-> {"q1"}], !.presses = 4,
                             !.keys = {"r", "char", "Backspace", "F2", "e", "?", "Ctrl-C"}]
\* Sub-trees.
MenuTrees == [Base EXCEPT !.tasks = [r1 |-> {}], !.leads = {"s1"}, !.presses = 3,
                          !.keys = {"Tab", "Enter", "X", "y"}]

\* The insights pages: three runs of two manifests.
WebTask(t, status, reason, text, at) ==
    [task |-> t, status |-> status, reason |-> reason, text |-> text, at |-> at]
WebRun(id, name, status, start, tasks) ==
    [id |-> id, name |-> name, path |-> "none", status |-> status, start |-> start,
     final |-> FALSE, tasks |-> tasks]
AnyFilter == [manifest |-> "any", status |-> "any", kind |-> "any", since |-> 0, until |-> 0]
MenuWeb ==
    [Base EXCEPT !.open = "none", !.requests = 2,
        !.web = <<WebRun(1, "m", "complete", 1,
                              <<WebTask("t1", "failed", "network_error", "m1", 2),
                                WebTask("t2", "failed", "none", "none", 3),
                                WebTask("t3", "success", "none", "none", 4)>>),
                 WebRun(2, "m", "cancelled", 2,
                              <<WebTask("t1", "failed", "network_error", "m2", 1),
                                WebTask("t2", "failed", "network_error", "m3", 5)>>),
                 WebRun(3, "n", "running", 3, <<>>)>>,
        !.filters = {AnyFilter, [AnyFilter EXCEPT !.kind = "network_error"],
                     [AnyFilter EXCEPT !.manifest = "m", !.since = 2],
                     [AnyFilter EXCEPT !.status = "cancelled", !.until = 2]}]

MCMenus == {MenuFocus, MenuEarly, MenuApprove, MenuRival, MenuSwitch, MenuLeave, MenuCompleted, MenuDetail, MenuPolicy,
            MenuReprompt, MenuTrees, MenuWeb}
=============================================================================
