----------------------------- MODULE MCHandover -----------------------------
(* Two hooks, of one release, of two, or of a release and a development     *)
(* build; a daemon of some version or none at the start; and one event from *)
(* outside.                                                                 *)
EXTENDS Handover

CONSTANTS h1, h2

Plan(first, v1, v2, spawns, event) ==
    [first |-> first, spawns |-> spawns, exact |-> {}, event |-> event,
     version |-> [h \in Hooks |-> IF h = h1 THEN v1 ELSE v2]]

Events == {"none", "idle", "command", "signal", "crash", "cancel"}

(* 1 and 2 are releases, 9 is a development build                          *)
MCPlans ==
         {Plan(1, 1, 2, Hooks, e) : e \in Events}
    \cup {Plan(1, 2, 2, Hooks, e) : e \in {"none", "idle"}}
    \cup {Plan(2, 1, 2, {h1}, e) : e \in Events}
    \cup {Plan(0, 1, 2, Hooks, "none"), Plan(1, 9, 2, Hooks, "none"),
          Plan(0, 2, 2, {h1}, "cancel"),
          [Plan(2, 1, 2, Hooks, "none") EXCEPT !.exact = {h1}]}

MCDaemons == 1..4
MCOpaque == {9}
=============================================================================
