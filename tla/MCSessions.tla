------------------------------ MODULE MCSessions ------------------------------
(* Small instances of Sessions for TLC.                                       *)
EXTENDS Sessions

Alone == [r \in Routes |-> r]
Linked == [r \in Routes |-> CHOOSE parent \in Routes : TRUE]
Plan(c, r, g, n, f, d, link) ==
  [captures |-> c, retirements |-> r, collections |-> g, refusals |-> n,
   faults |-> f, deadlines |-> d, linked |-> link]
Lives == {Plan(3, 2, 1, 0, 0, 1, Alone), Plan(2, 2, 1, 0, 1, 1, Alone),
          Plan(3, 1, 0, 1, 0, 0, Alone), Plan(2, 1, 0, 1, 1, 0, Alone),
          Plan(2, 1, 1, 0, 1, 0, Linked)}
===============================================================================
