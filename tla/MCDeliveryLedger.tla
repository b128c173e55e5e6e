-------------------------- MODULE MCDeliveryLedger --------------------------
(* Small instances of DeliveryLedger for TLC: a session root that aggregates  *)
(* late updates, and a tool call, captured live and imported again.           *)
EXTENDS DeliveryLedger

Op(span, insert, ends) ==
  [span |-> span, insert |-> insert, ends |-> ends, key |-> NoKey,
   version |-> NoVersion]
Late(span, key, ts, native) ==
  [span |-> span, insert |-> FALSE, ends |-> FALSE, key |-> key,
   version |-> [ts |-> ts, native |-> native]]

\* A route whose updates of the root arrive out of their native order, the last
\* of them an enrichment of the newest turn, and an import of its tool call.
Reordered ==
  [w \in Writers |->
     IF w \in Routes
     THEN <<Op("root", TRUE, FALSE), Late("root", "a", 2, "turn 2"),
            Op("tool", TRUE, TRUE), Late("root", "b", 1, "turn 1"),
            Late("root", "c", 1, "turn 2")>>
     ELSE <<Op("tool", TRUE, TRUE)>>]

Sharing == [faults |-> 1, aborts |-> 0]
Aborting == [faults |-> 0, aborts |-> 1]
SharingOrAborting == {Sharing, Aborting}
OnlyAborting == {Aborting}

FreshOrUpgraded == {{}, {"root"}}
Fresh == {{}}
=============================================================================
