------------------------------ MODULE SpanTree ------------------------------
(* The span tree that the operations of a translator build at a destination, *)
(* and what the tracing contract promises about it                           *)
(* (docs/coding-agent-tracing-plugin-spec.md, section 6).                     *)
(*                                                                            *)
(* A translator of translate/ is a function from its state and an event to a  *)
(* state and span operations.  Its module keeps the state in one record, with *)
(* the fields this module reads:                                              *)
(*   rows     the rows at the destination, by span id;                        *)
(*   done     the operations of the agent that really produced a result;      *)
(*   left     those that went on when the agent ended their turn or session;  *)
(*   home     the prompt of the user that caused an operation;                *)
(*   retired  whether the last thing that happened was the retirement of the  *)
(*            session.                                                        *)
(* A span id is a tuple of the parts the code hashes (ids::span_id), an       *)
(* operation of the agent (a prompt, a tool call, a model response) a tuple   *)
(* that says which.                                                           *)
EXTENDS Naturals, FiniteSets, TLC

None == <<>>
Root == <<"root">>

\* A row at the destination.  `of` is a history: the operations for which its
\* span id was ever inserted.
NoRow == [inserted |-> FALSE, parent |-> None, turn |-> None, ended |-> FALSE,
          marks |-> {}, of |-> {}]
RowIn(rows, id) == IF id \in DOMAIN rows THEN rows[id] ELSE NoRow
RowOf(s, id) == RowIn(s.rows, id)

\* SpanOp::Insert replaces the row of its span.  The owner is the row's
\* turn_span_id, which TurnLineage publishes.
Insert(s, id, parent, owner, of, ended, marks) ==
  [s EXCEPT !.rows =
     (id :> [inserted |-> TRUE, parent |-> parent, turn |-> owner,
             ended |-> ended, marks |-> marks,
             of |-> RowIn(@, id).of \cup {of}]) @@ @]
Open(s, id, parent, owner, of) == Insert(s, id, parent, owner, of, FALSE, {})
Record(s, id, parent, owner, of, marks) ==
  Insert(s, id, parent, owner, of, TRUE, marks)

\* SpanOp::Merge updates it, and creates it when the destination has none.
Merge(s, id, ended, marks) ==
  [s EXCEPT !.rows =
     (id :> [RowIn(@, id) EXCEPT !.ended = @ \/ ended,
                                 !.marks = @ \cup marks]) @@ @]
Update(s, id) == Merge(s, id, FALSE, {})
Finish(s, id, marks) == Merge(s, id, TRUE, marks)
FinishAll(s, ids, marks) ==
  [s EXCEPT !.rows =
     [id \in ids |-> [RowIn(@, id) EXCEPT !.ended = TRUE,
                                          !.marks = @ \cup marks]] @@ @]

Put(f, k, v) == (k :> v) @@ f
DropAll(f, ks) == [i \in DOMAIN f \ ks |-> f[i]]
Drop(f, k) == DropAll(f, {k})
Nothing == [k \in {} |-> None]

Output(real) == IF real THEN {"output"} ELSE {}
Error(failed) == IF failed THEN {"error"} ELSE {}

NoRows == [i \in {} |-> NoRow]

\* An event is delivered once, or, when a client's connection breaks before
\* the answer and it tries again, twice (js-daemon-client log, client.rs).
Delivered(Handler(_), s, again) ==
  LET after[n \in 0..2] == IF n = 0 THEN s ELSE Handler(after[n - 1])
  IN  [after[IF again THEN 2 ELSE 1] EXCEPT !.retired = FALSE]

\* The session is retired: finalize's operations are published, and the next
\* event meets a translator that replay rebuilt, which has not finalized.
Retired(s, finalized) == [s EXCEPT !.rows = finalized.rows, !.retired = TRUE]
-----------------------------------------------------------------------------
(* The contract.                                                              *)

\* A span, its parent, the parent's parent, and so on.
Ancestors(s, id) ==
  LET depth == 0..Cardinality(DOMAIN s.rows)
      above[n \in depth] == IF n = 0 THEN id ELSE RowOf(s, above[n - 1]).parent
  IN  {above[n] : n \in depth} \ {None}

\* Completion data is merged into a span that exists (section 6.1: "merge
\* completion data into an existing span rather than creating a second
\* logical operation"), and a span's parent was written before it.
SpansAreWhole(s) ==
  \A id \in DOMAIN s.rows :
    /\ s.rows[id].inserted
    /\ s.rows[id].parent # None => RowOf(s, s.rows[id].parent).inserted

\* A span id stands for one operation of the agent, and an operation has one
\* span, whatever is repeated (section 7: stable identifiers).
SpansAreOperations(s) ==
  /\ \A id \in DOMAIN s.rows : Cardinality(s.rows[id].of) <= 1
  /\ \A i, j \in DOMAIN s.rows :
       i # j => s.rows[i].of \cap s.rows[j].of = {}

\* Output, when it is written, is what the agent produced (section 6.4:
\* "without fabricating successful output").
OutputIsReal(s, t) ==
  \A id \in DOMAIN t.rows :
    "output" \in t.rows[id].marks \ RowOf(s, id).marks => t.rows[id].of \subseteq t.done

\* The turn that a span is accounted to is above it.
OwnerIsAncestor(s) ==
  \A id \in DOMAIN s.rows :
    s.rows[id].turn # None => s.rows[id].turn \in Ancestors(s, id)

\* A retired session leaves no span open, except those given and of operations
\* that went on when the agent ended what they belonged to.
ClosedWhenRetired(s, except) ==
  s.retired => \A id \in DOMAIN s.rows \ except :
                 s.rows[id].ended \/ s.rows[id].of \cap s.left # {}

\* A span, except those given, is accounted to the prompt of the user that
\* caused its operation.
AccountedToItsPrompt(s, except) ==
  \A id \in DOMAIN s.rows \ except :
    \A op \in s.rows[id].of \cap DOMAIN s.home :
      s.rows[id].turn # None => s.home[op] \in RowOf(s, s.rows[id].turn).of

\* No step opens a closed operation again, moves it, or withdraws its
\* output; the session root may be opened again.
KeepsHistory(s, t) ==
  \A id \in DOMAIN s.rows \ {Root} :
    /\ s.rows[id].ended => t.rows[id].ended
    /\ t.rows[id].parent = s.rows[id].parent
    /\ s.rows[id].marks \cap {"output"} \subseteq t.rows[id].marks
=============================================================================
