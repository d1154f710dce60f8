--------------------------- MODULE MCEventStream ---------------------------
(* Two producers, two consoles, the web server and one browser; channels that hold one *)
(* event each lag as soon as two are sent.                                             *)
EXTENDS EventStream

CONSTANTS p1, p2, c1, c2, web, b1

Menu == [events |-> 3, direct |-> 0, dials |-> 1, faults |-> 0, producers |-> {p1}, clients |-> {},
         browsers |-> {}, writers |-> {}, crash |-> FALSE]

MenuLog == [Menu EXCEPT !.producers = {p1, p2}, !.faults = 2]
MenuConsole == [Menu EXCEPT !.clients = {c1}, !.dials = 2, !.crash = TRUE]
MenuDirect == [Menu EXCEPT !.events = 2, !.direct = 1, !.clients = {c1}]
MenuTakeover == [Menu EXCEPT !.events = 2, !.clients = {c1, c2}, !.writers = {c1, c2}]
MenuWeb == [Menu EXCEPT !.events = 2, !.clients = {web}, !.browsers = {b1}, !.dials = 2, !.crash = TRUE]

MCMenus == {MenuLog, MenuConsole, MenuDirect, MenuTakeover, MenuWeb}
=============================================================================
