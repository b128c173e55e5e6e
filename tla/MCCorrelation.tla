--------------------------- MODULE MCCorrelation ---------------------------
(* Small instances of Correlation for TLC.  Processes are numbered: 1 is the  *)
(* agent of p, 4 another it may move to, 2 the agent of q, which runs below   *)
(* p's, 3 a child's of its own, 9 the shell above; hooks have more than 100.  *)
EXTENDS Correlation

OwnSession == [k \in Keys |-> k]
Agents == [k \in Keys |-> IF k = "p" THEN {<<1, 9>>, <<4, 9>>} ELSE {<<2, 1, 9>>}]

\* The child runs below p, below q, next to p, or in p's process.
BelowP == <<3, 1, 9>>
BelowQ == <<3, 2, 1, 9>>
Beside == <<3, 9>>
Within == <<1, 9>>

Scene(agents, events, ofChild, behind) ==
  [keys |-> {"p"}, agents |-> agents, command |-> TRUE, blind |-> FALSE, forced |-> FALSE,
   moves |-> FALSE, events |-> events, child |-> ofChild, behind |-> behind,
   crashes |-> 0, failures |-> 0, retires |-> 0]
Quiet == {Scene({BelowP}, 5, 2, 2), Scene({Within}, 4, 2, 2),
          [Scene({BelowQ}, 5, 2, 1) EXCEPT !.keys = Keys],
          [Scene({BelowP, Beside}, 4, 1, 2) EXCEPT !.command = FALSE],
          [Scene({BelowP}, 4, 2, 1) EXCEPT !.blind = TRUE],
          [Scene({BelowP}, 4, 2, 1) EXCEPT !.forced = TRUE]}
Faulty == {[Scene({BelowP}, 4, 2, 1) EXCEPT !.crashes = 1],
           [Scene({BelowP}, 4, 2, 1) EXCEPT !.failures = 1],
           [Scene({BelowP, Beside}, 4, 2, 1) EXCEPT !.retires = 1, !.moves = TRUE]}
Instances == Quiet \cup Faulty
AllProcesses == {1, 2, 3, 4, 9} \cup {100 + i : i \in 0..MaxEvents}
=============================================================================
