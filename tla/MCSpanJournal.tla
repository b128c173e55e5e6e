--------------------------- MODULE MCSpanJournal ---------------------------
(* Small instances of SpanJournal for TLC. *)
EXTENDS SpanJournal

\* Operations per input: one that is published in two chunks, or several.
OneEach == <<1, 1, 1>>
OneInput == <<2>>

\* Every operation published for a route is eventually accepted by its
\* backend and acknowledged, although deliveries fail, cursors are cancelled
\* and the daemon restarts (the fairness is SpanJournal's Fairness); a sink
\* that still defers its rows keeps them until more is delivered.
Deferred(r, p) == phase[r] = "receive" /\ \E d \in DOMAIN pend[r] : p \in pend[r][d].items
OwedIsDelivered ==
  \A r \in Routes : \A p \in 1..3 :
    p \in owed[r] ~> \/ p \in exported[r] /\ p <= head[r]
                     \/ Deferred(r, p)
=============================================================================
