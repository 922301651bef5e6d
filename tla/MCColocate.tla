----------------------------- MODULE MCColocate -----------------------------
(* Small instances of ColocateManager: slots 1..4 belong to task a, whose    *)
(* strategy is asynchronous, and the others to task s.                       *)
EXTENDS ColocateManager

Slots == [g \in Gids |-> IF g <= 4 THEN "a" ELSE "s"]
OneEach == [t \in Tasks |-> 1]
OneForA == [t \in Tasks |-> IF t = "a" THEN 1 ELSE 0]
TailOfTwo == [t \in Tasks |-> IF t = "a" THEN 2 ELSE -1]
NoLimit == [t \in Tasks |-> 0]
=============================================================================
