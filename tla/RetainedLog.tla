---------------------------- MODULE RetainedLog ----------------------------
(***************************************************************************)
(* What the span journal promises to its routes: a log whose records are   *)
(* kept until every registered route has acknowledged them, and in which a *)
(* route acknowledges only a run of records its backend has accepted.      *)
(***************************************************************************)
EXTENDS Integers

CONSTANT Routes

VARIABLES
  published,  \* number of records in the log
  trimmed,    \* records 1..trimmed are gone
  acked,      \* records 1..acked[r] need no delivery to r; -1 if unknown
  exported    \* records the backend of r accepted

vars == <<published, trimmed, acked, exported>>

Init ==
  /\ published = 0
  /\ trimmed = 0
  /\ acked = [r \in Routes |-> -1]
  /\ exported = [r \in Routes |-> {}]

Publish ==
  /\ published' \in Nat
  /\ published' > published
  /\ UNCHANGED <<trimmed, acked, exported>>

\* A route may only skip records it does not owe, never point below the trim.
Register(r) ==
  /\ acked[r] = -1
  /\ acked'[r] \in trimmed..published
  /\ acked' = [acked EXCEPT ![r] = acked'[r]]
  /\ UNCHANGED <<published, trimmed, exported>>

\* Only records still retained can be sent.
Export(r) ==
  /\ exported'[r] \subseteq exported[r] \cup (trimmed + 1)..published
  /\ exported[r] \subseteq exported'[r]
  /\ exported' = [exported EXCEPT ![r] = exported'[r]]
  /\ UNCHANGED <<published, trimmed, acked>>

Covered(n, known) == \A r \in Routes : known[r] # -1 => n <= known[r]

\* An acknowledgement may release records.
Acknowledge(r) ==
  /\ acked[r] # -1
  /\ acked'[r] \in (acked[r] + 1)..published
  /\ acked' = [acked EXCEPT ![r] = acked'[r]]
  /\ (acked[r] + 1)..acked'[r] \subseteq exported[r]
  /\ trimmed' \in trimmed..published
  /\ Covered(trimmed', acked')
  /\ UNCHANGED <<published, exported>>

Trim ==
  /\ trimmed' \in trimmed..published
  /\ \E r \in Routes : acked[r] # -1
  /\ Covered(trimmed', acked)
  /\ UNCHANGED <<published, acked, exported>>

Next ==
  \/ Publish
  \/ Trim
  \/ \E r \in Routes : Register(r) \/ Export(r) \/ Acknowledge(r)

Spec == Init /\ [][Next]_vars
=============================================================================
