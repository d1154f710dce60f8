--------------------------- MODULE MCSharedStore ---------------------------
(* SharedStore with two callers at a time.                                  *)
EXTENDS SharedStore

CONSTANTS R, S1, S2, A, B, C, D, k1, k2, k3, n1, n2

\* A and B in the first sub-tree, C and D in the root layer.
TreeLayer == [a \in {A, B, C, D} |-> IF a \in {A, B} THEN S1 ELSE R]

Menu(who, ops, keys, names, pre, subs, max) ==
    [who |-> who, ops |-> ops, keys |-> keys, names |-> names, pre |-> pre,
     subs |-> subs, max |-> max]

\* A wants a lease of its sub-tree that it already holds, C one of the root layer,
\* and a sub-lead is spawned.
ConvoyMenu == {Menu({A, C}, {"acquire"}, {}, {n1}, {S1}, {S2}, 3)}

\* Writes against the limits; writes and waits in a sub-tree that is removed; leases
\* of the root layer with releases, with disconnects and with two names; run-global
\* leases across layers, with ends of sessions and of connections; the convoy.
StoreMenus ==
    {Menu({A, B}, {"set", "cas"}, {k1, k2, k3}, {}, {S1}, {}, 3),
     Menu({A, B}, {"set", "wait"}, {k1, k2}, {}, {S1}, {S1}, 3),
     Menu({C, D}, {"acquire", "release"}, {}, {n1}, {}, {}, 4),
     Menu({C, D}, {"acquire", "drop"}, {}, {n1}, {}, {}, 3),
     Menu({C, D}, {"acquire", "try"}, {}, {n1, n2}, {}, {}, 3),
     Menu({A, C}, {"run", "drop", "tail"}, {}, {n1}, {S1}, {}, 3)} \cup ConvoyMenu
=============================================================================
