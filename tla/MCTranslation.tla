--------------------------- MODULE MCTranslation ---------------------------
(* Small instances of Translation for TLC. *)
EXTENDS Translation

Root(id) == [id |-> id, span |-> "root", parents |-> <<>>, insert |-> TRUE,
             defer |-> TRUE]
Update(id) == [id |-> id, span |-> "root", parents |-> <<>>, insert |-> FALSE,
               defer |-> FALSE]
Turn(id) == [id |-> id, span |-> "turn", parents |-> <<"root">>,
             insert |-> TRUE, defer |-> FALSE]

\* A session root that stays empty, an update and, in a chunk of its own, the
\* first turn, which releases the root; then a lone update.
RootThenTurn ==
  [p \in 1..MaxRecords |->
     CASE p = 1 -> <<<<Root(1)>>>>
       [] p = 2 -> <<<<Update(2)>>, <<Turn(3)>>>>
       [] OTHER -> <<<<Update(p + 1)>>>>]

NewOrReleased == {<<>>, <<"foreign", "legacy">>}
Fresh == {<<>>}

\* The producer catches up again and again with what is captured, through
\* failures, restarts and commands dropped in recovery, unless a failure
\* waits for a new release.
CapturedIsTranslated ==
  []<>(Larger(committed, position) = Len(file) \/ fail = "revision")
=============================================================================
