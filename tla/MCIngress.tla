----------------------------- MODULE MCIngress -----------------------------
(* Small instances of Ingress for TLC. *)
EXTENDS Ingress

\* Two sessions share the buffer or one has two records; two hooks, or a hook
\* and a transcript observer, capture; with a crash, a shutdown, or both.
Plan(captures, first, second, crashes, stops) ==
  [captures |-> captures, records |-> [s \in Sources |-> IF s = "s1" THEN first ELSE second],
   faults |-> crashes, shutdowns |-> stops]
Capturing == {Plan({"h1", "h2"}, 1, 1, 0, 0), Plan({"h1"}, 2, 1, 0, 0),
              Plan({"h1", "h2"}, 2, 0, 1, 0), Plan({"h1"}, 1, 1, 1, 0),
              Plan({"h1", "o1"}, 2, 0, 0, 1), Plan({"h1"}, 2, 0, 1, 1)}

\* An acknowledged event is eventually translated, through overflow of the
\* buffer, dropped wake-ups, shutdowns and crashes (fairness: Ingress).  Nothing
\* leaves acked: again and again, all of it is translated.
AcknowledgedIsTranslated ==
  []<>(\A s \in Sources : \A p \in 1..2 : Entry(s, p) \in acked => p <= committed[s])
=============================================================================
