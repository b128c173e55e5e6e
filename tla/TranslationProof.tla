-------------------------- MODULE TranslationProof --------------------------
(***************************************************************************)
(* Machine-checked proofs about Translation: in every instance, with any   *)
(* window, mailbox, history and translator output, nothing is translated   *)
(* ahead of its dispatch, and what a barrier or a control confirms has     *)
(* been committed.                                                         *)
(***************************************************************************)
EXTENDS Translation, SequenceTheorems, TLAPS

-----------------------------------------------------------------------------
(* The inductive invariant.                                                *)

CommandSet == [op : {"advance", "barrier"} \cup Controls, through : Nat]
ClientSet == [reply : {"none", "waiting", "ok", "error"}, asked : Nat]
PubFields == {"input", "chunk", "ordinal", "ops", "prepared", "complete"}

TypeOK ==
  /\ file \in Seq(Kinds)
  /\ committed \in Nat /\ requested \in Nat /\ goal \in Nat /\ position \in Nat
  /\ base \in Nat /\ dispatched \in Nat /\ sending \in Nat /\ sent \in Nat
  /\ taken \in Nat /\ reader \in Nat \cup {NoReader}
  /\ queue \in Seq(CommandSet)
  /\ client \in ClientSet
  /\ kind \in Controls
  /\ evidence \in {"none", "delay", "revision"}
  /\ DOMAIN pub = PubFields /\ pub = [f \in PubFields |-> pub[f]]
  /\ pub.input \in Nat /\ (pub.input = 0 => pub = NoPublication)

\* The furthest record that anything was asked to translate, or has been.
Reach == Larger(requested, committed)

\* The producer stays within what was requested, and that ends where dispatch
\* was or at a control that no event precedes undispatched.
ReachInv ==
  /\ goal <= Reach /\ position <= Reach /\ taken <= Reach /\ reader <= Reach
  /\ pub.input <= Reach
  /\ sending <= requested /\ sent <= requested /\ client.asked <= requested
  /\ \A k \in 1..Len(queue) : queue[k].through <= requested
  /\ Reach <= Len(file) /\ base <= Len(file)
  /\ \A p \in 1..Reach : file[p] = "event" => p <= Larger(base, dispatched)

\* Where the steps of the producer are.
StageInv ==
  /\ at \in {"wait", "open", "input", "record", "publish", "control", "clear"}
  /\ job \in {"advance", "control", "controlled", "recover"}
  /\ fail \in {"none", "delay", "revision"}
  /\ fail # "none" => at = "wait"
  /\ at = "wait" => job = "advance"
  /\ at = "record" <=> taken # 0
  /\ at = "control" => job = "control"
  /\ at = "clear" => job = "recover"
  /\ at = "publish" => pub.input # 0
  /\ pub.input # 0 => at = "publish" \/ (at = "wait" /\ fail # "none")
  /\ at = "record" => taken <= goal /\ reader \in {taken, NoReader}

\* The boundaries below which every record of this source is committed.
Finished == {n \in 0..Len(file) :
               \A p \in 1..n : file[p] # "foreign" => p <= committed}

\* Nothing is left behind where the producer is, nor where its reader follows,
\* unless a record that was read is still in hand or has to be read again.
BehindInv ==
  /\ position \in Finished
  /\ at = "record" => taken - 1 \in Finished
  /\ \/ reader \in Finished \cup {NoReader}
     \/ at = "record"
     \/ pub.input # 0 /\ reader = pub.input
     \/ fail # "none" /\ pub.input = 0

\* The boundaries that the running work comes to, if nothing fails.
Underway ==
  {n \in 0..requested :
     \/ fail # "none"
     \/ job = "recover" /\ at \in {"open", "publish"}
     \/ /\ n <= goal
        /\ \/ job = "recover" /\ at \in {"input", "record"}
           \/ job = "advance" /\ at \in {"open", "input", "record", "publish"}}
Received == Finished \cup Underway

Before(n, k) ==
  \E j \in 1..k : queue[j].op = "advance" /\ queue[j].through >= n

\* A boundary that was sent is finished, underway or still in the channel, and
\* for the caller that waits it is there before the caller's command.
AnswerInv ==
  /\ sent \in Received \/ Before(sent, Len(queue))
  /\ client.reply = "ok" => client.asked \in Finished
  /\ job \in {"control", "controlled"} =>
       client.reply = "waiting" /\ client.asked \in Finished
  /\ \A k \in 1..Len(queue) : queue[k].op # "advance" =>
       /\ client.reply = "waiting"
       /\ client.asked \in Received \/ Before(client.asked, k - 1)
       /\ job \notin {"control", "controlled"}
       /\ \A i \in 1..Len(queue) : queue[i].op # "advance" => i = k

IInv == TypeOK /\ ReachInv /\ StageInv /\ BehindInv /\ AnswerInv /\ faults \in Nat
-----------------------------------------------------------------------------
(* What the operators of the model do.                                     *)

\* The larger of two numbers is one of them and not below either.
LEMMA LargerFacts ==
  ASSUME NEW a \in Nat, NEW b \in Nat
  PROVE  /\ Larger(a, b) \in Nat /\ Larger(a, b) \in {a, b}
         /\ a <= Larger(a, b) /\ b <= Larger(a, b)
BY DEF Larger

\* The reach is a bound of what was requested and of what is committed.
LEMMA ReachFacts ==
  ASSUME TypeOK
  PROVE  /\ Reach \in Nat /\ Reach \in {requested, committed}
         /\ requested <= Reach /\ committed <= Reach
BY LargerFacts DEF TypeOK, Reach

\* A reply changes only what the caller was told.
LEMMA ReplyFacts ==
  ASSUME client \in ClientSet, NEW r \in {"none", "waiting", "ok", "error"}, Reply(r)
  PROVE  /\ client' \in ClientSet
         /\ client'.reply = r /\ client'.asked = client.asked
BY DEF Reply, ClientSet

\* A control is appended behind a producer that has reached the end, or not.
LEMMA ControlFacts ==
  ASSUME TypeOK, NEW k \in Controls, AppendControl(k)
  PROVE  \/ UNCHANGED <<file, requested>>
         \/ /\ Len(file) <= position /\ Len(file) < MaxRecords
            /\ file' = Append(file, k) /\ file' \in Seq(Kinds)
            /\ Len(file') = Len(file) + 1
            /\ \A p \in 1..Len(file) : file'[p] = file[p]
            /\ file'[Len(file) + 1] = k
            /\ requested' = Larger(requested, Len(file) + 1)
<1>1. k \in Kinds /\ file \in Seq(Kinds) /\ position \in Nat /\ Len(file) \in Nat
  BY DEF TypeOK, Kinds
<1>2. CASE Len(file) > position
  BY <1>2 DEF AppendControl
<1>3. CASE Len(file) <= position
  <2>1. /\ file' = Append(file, k) /\ Len(file) < MaxRecords
        /\ requested' = Larger(requested, Len(file) + 1)
    BY <1>1, <1>3 DEF AppendControl
  <2> QED BY <1>1, <1>3, <2>1
<1> QED BY <1>1, <1>2, <1>3

\* The next boundary is one of the journal, at or past the last one.
LEMMA DispatchFacts ==
  ASSUME TypeOK, NEW p, NEW live, Dispatch(p, live)
  PROVE  /\ p \in Nat /\ p <= Len(file) /\ dispatched' = p /\ sending' = p
         /\ requested' = Larger(requested, p)
         /\ Larger(base, dispatched) <= Larger(base, p)
<1>1. p \in NextDispatch /\ p \in 1..Len(file)
      /\ dispatched' = p /\ sending' = p /\ requested' = Larger(requested, p)
  BY DEF Dispatch, NextDispatch
<1>2. (p = base /\ dispatched < base) \/ p > dispatched
  BY <1>1 DEF NextDispatch
<1>3. Len(file) \in Nat /\ base \in Nat /\ dispatched \in Nat /\ p \in Nat
  BY <1>1 DEF TypeOK
<1> QED BY <1>1, <1>2, <1>3 DEF Larger

\* Every failure of the producer ends its command in the same way.
LEMMA FailFacts ==
  ASSUME StorageFails \/ TranslatorFails
  PROVE  \E f \in {"delay", "revision"} : Failed(f)
BY Zenon DEF StorageFails, TranslatorFails

\* What is finished stays finished, and so does all that lies below.
LEMMA FinishedGrows ==
  ASSUME TypeOK, TypeOK', Len(file) <= Len(file'), committed <= committed',
         \A p \in 1..Len(file) : file'[p] = file[p]
  PROVE  Finished \subseteq Finished'
<1>0. /\ file \in Seq(Kinds) /\ file' \in Seq(Kinds)
      /\ committed \in Nat /\ committed' \in Nat
  BY Zenon DEF TypeOK
<1>1. Len(file) \in Nat /\ Len(file') \in Nat /\ committed \in Nat /\ committed' \in Nat
  BY <1>0
<1> SUFFICES ASSUME NEW n \in Finished PROVE n \in Finished'
  OBVIOUS
<1>2. n \in 0..Len(file) /\ \A p \in 1..n : file[p] # "foreign" => p <= committed
  BY DEF Finished
<1>3. ASSUME NEW p \in 1..n, file'[p] # "foreign" PROVE p <= committed'
  BY <1>1, <1>2, <1>3
<1> QED BY <1>1, <1>2, <1>3 DEF Finished

\* What lies below a finished boundary or the committed one is finished.
LEMMA FinishedBelow ==
  ASSUME TypeOK, NEW n \in Nat, n <= Len(file),
         n <= committed \/ \E m \in Finished : n <= m
  PROVE  n \in Finished
<1>1. Len(file) \in Nat /\ committed \in Nat
  BY DEF TypeOK
<1>2. CASE n <= committed
  BY <1>1, <1>2 DEF Finished
<1>3. CASE \E m \in Finished : n <= m
  <2>1. PICK m \in Finished : n <= m
    BY <1>3
  <2>2. m \in 0..Len(file) /\ \A p \in 1..m : file[p] # "foreign" => p <= committed
    BY DEF Finished
  <2> QED BY <1>1, <2>1, <2>2 DEF Finished
<1> QED BY <1>2, <1>3

\* Once the record after a finished boundary is passed over or committed, the
\* boundary moves behind it.
LEMMA FinishedNext ==
  ASSUME TypeOK, NEW n \in Nat \ {0}, n <= Len(file), n - 1 \in Finished,
         file[n] = "foreign" \/ n <= committed
  PROVE  n \in Finished
<1>1. Len(file) \in Nat /\ committed \in Nat
  BY DEF TypeOK
<1>2. \A p \in 1..(n - 1) : file[p] # "foreign" => p <= committed
  BY DEF Finished
<1>3. ASSUME NEW p \in 1..n, file[p] # "foreign" PROVE p <= committed
  BY <1>1, <1>2, <1>3
<1> QED BY <1>1, <1>3 DEF Finished
-----------------------------------------------------------------------------
(* Types, reach and stages are kept.                                       *)

\* The numbers of a state.
LEMMA Numbers ==
  ASSUME TypeOK
  PROVE  /\ file \in Seq(Kinds) /\ Len(file) \in Nat
         /\ committed \in Nat /\ requested \in Nat /\ goal \in Nat /\ position \in Nat
         /\ base \in Nat /\ dispatched \in Nat /\ sending \in Nat /\ sent \in Nat
         /\ taken \in Nat /\ reader \in Nat \cup {NoReader}
         /\ queue \in Seq(CommandSet) /\ Len(queue) \in Nat
         /\ \A k \in 1..Len(queue) : queue[k] \in CommandSet /\ queue[k].through \in Nat
         /\ client \in ClientSet /\ client.asked \in Nat /\ pub.input \in Nat
<1>1. /\ file \in Seq(Kinds) /\ queue \in Seq(CommandSet) /\ client \in ClientSet
      /\ committed \in Nat /\ requested \in Nat /\ goal \in Nat /\ position \in Nat
      /\ base \in Nat /\ dispatched \in Nat /\ sending \in Nat /\ sent \in Nat
      /\ taken \in Nat /\ reader \in Nat \cup {NoReader} /\ pub.input \in Nat
  BY Zenon DEF TypeOK
<1>2. \A k \in 1..Len(queue) : queue[k] \in CommandSet
  BY <1>1
<1> QED BY <1>1, <1>2 DEF CommandSet, ClientSet

\* A publication keeps its shape, and its input, while it goes on.
LEMMA PubFacts ==
  ASSUME DOMAIN pub = PubFields, pub = [f \in PubFields |-> pub[f]], pub.input \in Nat \ {0},
         PrepareChunk \/ AppendOp \/ DrainPending
  PROVE  /\ DOMAIN pub' = PubFields /\ pub' = [f \in PubFields |-> pub'[f]]
         /\ pub'.input = pub.input
<1>1. CASE PrepareChunk
  BY <1>1 DEF PrepareChunk, PubFields
<1>2. CASE AppendOp
  BY <1>2 DEF AppendOp, PubFields
<1>3. CASE DrainPending
  BY <1>3 DEF DrainPending, PubFields
<1> QED BY <1>1, <1>2, <1>3

\* A boundary that is opened, reached or left is a number.
LEMMA TypeStep ==
  ASSUME IInv, [Next]_vars
  PROVE  TypeOK'
<1> USE TranslationAssumption DEF IInv
<1>1. ASSUME Capture PROVE TypeOK'
  BY <1>1 DEF TypeOK, Capture, callers, inputs, run, source, failing, Kinds
<1>2. ASSUME NEW p \in 1..MaxRecords, NEW live \in BOOLEAN, Dispatch(p, live) PROVE TypeOK'
  <2>1. Larger(requested, p) \in Nat
    BY LargerFacts, SMTT(30) DEF TypeOK
  <2> QED BY <1>2, <2>1, DispatchFacts DEF TypeOK, Dispatch, durable, run, source, failing
<1>3. ASSUME SendAdvance PROVE TypeOK'
  BY <1>3 DEF TypeOK, SendAdvance, CommandSet, durable, run, source, failing
<1>4. ASSUME NEW op \in {"barrier"} \cup Controls, Ask(op) PROVE TypeOK'
  BY <1>4 DEF TypeOK, Ask, CommandSet, ClientSet, durable, run, source, failing
<1>5. ASSUME ReceiveAdvance PROVE TypeOK'
  <2>1. queue # <<>> /\ queue' = Tail(queue) /\ Head(queue).through \in Nat
    <3>1. queue # <<>> /\ queue' = Tail(queue) /\ queue \in Seq(CommandSet)
      BY <1>5, Zenon DEF TypeOK, ReceiveAdvance, Receive
    <3>2. Head(queue) \in CommandSet
      BY <3>1
    <3> QED BY <3>1, <3>2 DEF CommandSet
  <2> QED BY <1>5, <2>1, SMTT(30) DEF TypeOK, ReceiveAdvance, Command, durable, callers, source, run
<1>6. ASSUME ReceiveBarrier PROVE TypeOK'
  <2>1. client' \in ClientSet
    BY <1>6, ReplyFacts DEF TypeOK, ReceiveBarrier
  <2> QED BY <1>6, <2>1 DEF TypeOK, ReceiveBarrier, Receive, durable, source, run
<1>7. ASSUME ReceiveControl PROVE TypeOK'
  BY <1>7 DEF TypeOK, ReceiveControl, Receive, durable, callers, source, run
<1>8. ASSUME Refuse PROVE TypeOK'
  <2>1. client' \in ClientSet
    BY <1>8, ReplyFacts DEF TypeOK, Refuse
  <2>2. file' \in Seq(Kinds) /\ requested' \in Nat
    <3>1. CASE Command.op \in Controls
      <4>1. AppendControl(Command.op)
        BY <1>8, <3>1 DEF Refuse
      <4>2. Larger(requested, Len(file) + 1) \in Nat
        <5>1. requested \in Nat /\ Len(file) + 1 \in Nat
          BY Numbers
        <5> QED BY <5>1, LargerFacts
      <4> QED BY <3>1, <4>1, <4>2, ControlFacts DEF TypeOK
    <3>2. CASE Command.op \notin Controls
      BY <1>8, <3>2 DEF Refuse, TypeOK
    <3> QED BY <3>1, <3>2
  <2> QED BY <1>8, <2>1, <2>2 DEF TypeOK, Refuse, Receive, source, run
<1>9. ASSUME Open PROVE TypeOK'
  <2>1. goal' \in Nat
    BY <1>9, LargerFacts DEF TypeOK, Open
  <2>2. position' \in Nat /\ reader' \in Nat \cup {NoReader}
    BY <1>9 DEF TypeOK, Open, Initialize
  <2> QED BY <1>9, <2>1, <2>2 DEF TypeOK, Open, durable, callers, inputs
<1>10. ASSUME TakeLive PROVE TypeOK'
  <2>1. taken' \in Nat
    BY <1>10, SMTT(30) DEF TypeOK, TakeLive, Live
  <2> QED BY <1>10, <2>1 DEF TypeOK, TakeLive, durable, callers
<1>11. ASSUME ReadNext PROVE TypeOK'
  <2>1. Following \in Nat
    <3>1. position \in Nat /\ reader \in Nat \cup {NoReader}
      BY Zenon DEF TypeOK
    <3> QED BY <3>1 DEF Following, NoReader
  <2> QED BY <1>11, <2>1 DEF TypeOK, ReadNext, durable, callers
<1>12. ASSUME Reached PROVE TypeOK'
  <2>1. goal' \in Nat /\ kind' \in Controls
    BY <1>12 DEF TypeOK, Reached, Rest, Controls
  <2>2. client' \in ClientSet
    BY <1>12, ReplyFacts DEF TypeOK, Reached
  <2> QED BY <1>12, <2>1, <2>2 DEF TypeOK, Reached, durable, source
<1>13. ASSUME Handle PROVE TypeOK'
  <2>1. taken \in Nat \ {0}
    BY <1>13 DEF TypeOK, Handle, StageInv
  <2> QED BY <1>13, <2>1 DEF TypeOK, Handle, durable, callers, inputs, NoPublication, PubFields
<1>14. ASSUME PassOver PROVE TypeOK'
  <2>1. committed' \in Nat
    BY <1>14, LargerFacts DEF TypeOK, PassOver
  <2> QED BY <1>14, <2>1 DEF TypeOK, PassOver, callers, inputs
<1>15. ASSUME PrepareChunk \/ AppendOp \/ DrainPending PROVE TypeOK'
  <2>1. at = "publish" /\ pub.input \in Nat \ {0}
    BY <1>15 DEF PrepareChunk, AppendOp, DrainPending, TypeOK, StageInv
  <2>2. /\ DOMAIN pub' = PubFields /\ pub' = [f \in PubFields |-> pub'[f]]
        /\ pub'.input = pub.input
    BY <1>15, <2>1, PubFacts DEF TypeOK
  <2>3. UNCHANGED <<file, committed, evidence, callers, inputs, run, source>>
    BY <1>15, Zenon DEF PrepareChunk, AppendOp, DrainPending, durable
  <2> QED BY <2>1, <2>2, <2>3 DEF TypeOK, callers, inputs, run, source
<1>16. ASSUME CommitInput PROVE TypeOK'
  <2>1. committed' \in Nat
    BY <1>16, LargerFacts DEF TypeOK, CommitInput
  <2> QED BY <1>16, <2>1 DEF TypeOK, CommitInput, callers, inputs, NoPublication, PubFields
<1>17. ASSUME FinishControl PROVE TypeOK'
  <2>1. file' \in Seq(Kinds) /\ requested' \in Nat
    <3>1. Larger(requested, Len(file) + 1) \in Nat
      <4>1. requested \in Nat /\ Len(file) + 1 \in Nat
        BY Numbers
      <4> QED BY <4>1, LargerFacts
    <3> QED BY <1>17, <3>1, ControlFacts DEF TypeOK, FinishControl
  <2>2. client' \in ClientSet /\ goal' \in Nat /\ kind' \in Controls
    BY <1>17, <2>1, ReplyFacts, SMTT(30) DEF TypeOK, FinishControl, Rest, Controls
  <2> QED BY <1>17, <2>1, <2>2 DEF TypeOK, FinishControl, source
<1>18. ASSUME NEW f \in {"delay", "revision"}, Failed(f) PROVE TypeOK'
  <2>1. client' \in ClientSet
    BY <1>18, ReplyFacts DEF TypeOK, Failed
  <2> QED BY <1>18, <2>1 DEF TypeOK, Failed, Rest, durable, inputs, Controls
<1>19. ASSUME RecordEvidence PROVE TypeOK'
  BY <1>19 DEF TypeOK, RecordEvidence, StageInv, callers, inputs, run, source
<1>20. ASSUME Retry PROVE TypeOK'
  BY <1>20, SMTT(30) DEF TypeOK, Retry, durable, callers, inputs
<1>21. ASSUME ClearEvidence PROVE TypeOK'
  BY <1>21 DEF TypeOK, ClearEvidence, Rest, callers, inputs, source, Controls
<1>22. ASSUME Restart PROVE TypeOK'
  BY <1>22 DEF TypeOK, Restart, Rest, durable, ClientSet, CommandSet, Controls, NoPublication,
     PubFields
<1>23. ASSUME UNCHANGED vars PROVE TypeOK'
  BY <1>23 DEF TypeOK, vars, durable, callers, inputs, run, source
<1> QED BY <1>1, <1>2, <1>3, <1>4, <1>5, <1>6, <1>7, <1>8, <1>9, <1>10, <1>11, <1>12, <1>13, <1>14,
           <1>15, <1>16, <1>17, <1>18, <1>19, <1>20, <1>21, <1>22, <1>23, FailFacts
        DEF Next, Hand, Work

\* What is committed within the reach does not move it.
LEMMA ReachKept ==
  ASSUME TypeOK, TypeOK', ReachInv, UNCHANGED <<requested, base, dispatched>>,
         \/ UNCHANGED committed
         \/ \E x \in Nat : x <= Reach /\ committed' = Larger(committed, x),
         Len(file) <= Len(file') /\ \A p \in 1..Len(file) : file'[p] = file[p]
  PROVE  /\ Reach' = Reach
         /\ Reach' <= Len(file') /\ base' <= Len(file')
         /\ \A p \in 1..Reach' : file'[p] = "event" => p <= Larger(base', dispatched')
<1>1. /\ Len(file) \in Nat /\ Len(file') \in Nat /\ base \in Nat
      /\ committed \in Nat /\ requested \in Nat
  BY Numbers
<1>2. Len(file') \in Nat
  <2>1. file' \in Seq(Kinds)
    BY Zenon DEF TypeOK
  <2> QED BY <2>1
<1>3. Reach' = Reach
  BY <1>1 DEF Reach, Larger
<1>4. /\ Reach <= Len(file) /\ base <= Len(file)
      /\ \A p \in 1..Reach : file[p] = "event" => p <= Larger(base, dispatched)
  BY DEF ReachInv
<1>5. Reach \in Nat
  BY ReachFacts
<1> QED BY <1>1, <1>2, <1>3, <1>4, <1>5

\* So a step that requests nothing keeps the invariant if what it moves stays
\* within the reach.
LEMMA WithinReach ==
  ASSUME TypeOK, TypeOK', ReachInv,
         UNCHANGED <<requested, base, dispatched, client.asked>>,
         \/ UNCHANGED committed
         \/ \E x \in Nat : x <= Reach /\ committed' = Larger(committed, x),
         \/ UNCHANGED file
         \/ Len(file) <= Len(file') /\ \A p \in 1..Len(file) : file'[p] = file[p],
         goal' <= Reach, position' <= Reach, taken' <= Reach, reader' <= Reach,
         pub'.input <= Reach, sending' <= requested, sent' <= requested,
         \A k \in 1..Len(queue') : queue'[k].through <= requested
  PROVE  ReachInv'
<1>1. Len(file) <= Len(file') /\ \A p \in 1..Len(file) : file'[p] = file[p]
  BY Numbers
<1>2. /\ Reach' = Reach
      /\ Reach' <= Len(file') /\ base' <= Len(file')
      /\ \A p \in 1..Reach' : file'[p] = "event" => p <= Larger(base', dispatched')
  BY <1>1, ReachKept
<1>3. client'.asked <= requested'
  BY DEF ReachInv
<1> QED BY <1>2, <1>3 DEF ReachInv

\* Taking a command off the channel leaves only commands that were there.
LEMMA ChannelTail ==
  ASSUME queue \in Seq(CommandSet), queue # <<>>, queue' = Tail(queue)
  PROVE  /\ Len(queue) \in Nat \ {0} /\ Len(queue') = Len(queue) - 1
         /\ Head(queue) = queue[1] /\ queue[1] \in CommandSet
         /\ \A k \in 1..Len(queue') : k + 1 \in 1..Len(queue) /\ queue'[k] = queue[k + 1]
OBVIOUS

\* Sending appends to it.
LEMMA ChannelAppend ==
  ASSUME queue \in Seq(CommandSet), NEW c, queue' = Append(queue, c)
  PROVE  /\ Len(queue) \in Nat /\ Len(queue') = Len(queue) + 1
         /\ queue'[Len(queue) + 1] = c
         /\ \A k \in 1..Len(queue) : queue'[k] = queue[k]
OBVIOUS

\* A control is appended where the producer has come to the end: it is the
\* new reach, and what it passes was dispatched.
LEMMA ControlReach ==
  ASSUME TypeOK, TypeOK', ReachInv, NEW k \in Controls, AppendControl(k),
         UNCHANGED <<committed, base, dispatched>>
  PROVE  /\ Reach <= Reach' /\ requested <= requested' /\ Len(file) <= Len(file')
         /\ Reach' <= Len(file') /\ base' <= Len(file')
         /\ \A p \in 1..Len(file) : file'[p] = file[p]
         /\ \A p \in 1..Reach' : file'[p] = "event" => p <= Larger(base', dispatched')
         /\ file' # file => Len(file') <= requested'
<1>1. CASE UNCHANGED <<file, requested>>
  <2>1. file' = file /\ requested' = requested
    BY <1>1
  <2>2. Len(file) <= Len(file') /\ \A p \in 1..Len(file) : file'[p] = file[p]
    BY <2>1, Numbers
  <2>3. /\ Reach' = Reach
        /\ Reach' <= Len(file') /\ base' <= Len(file')
        /\ \A p \in 1..Reach' : file'[p] = "event" => p <= Larger(base', dispatched')
    BY <2>1, <2>2, ReachKept
  <2> QED BY <2>1, <2>2, <2>3, Numbers, ReachFacts
<1>2. CASE /\ Len(file) <= position
           /\ file' = Append(file, k) /\ file' \in Seq(Kinds)
           /\ Len(file') = Len(file) + 1
           /\ \A p \in 1..Len(file) : file'[p] = file[p]
           /\ file'[Len(file) + 1] = k
           /\ requested' = Larger(requested, Len(file) + 1)
  <2>1. /\ Len(file) \in Nat /\ base \in Nat /\ committed \in Nat /\ requested \in Nat
        /\ position \in Nat
    BY Numbers
  <2>2. /\ position <= Reach /\ Reach <= Len(file) /\ base <= Len(file)
        /\ \A p \in 1..Reach : file[p] = "event" => p <= Larger(base, dispatched)
    BY DEF ReachInv
  <2>3. Reach \in Nat /\ requested <= Reach /\ committed <= Reach
    BY ReachFacts
  <2>4. Reach = Len(file)
    BY <1>2, <2>1, <2>2, <2>3
  <2>5. requested' = Len(file) + 1
    BY <1>2, <2>1, <2>2, <2>3 DEF Larger
  <2>6. Reach' = Len(file) + 1
    BY <2>1, <2>2, <2>3, <2>5 DEF Reach, Larger
  <2>7. k # "event"
    BY DEF Controls
  <2>8. ASSUME NEW p \in 1..Reach', file'[p] = "event"
        PROVE  p <= Larger(base', dispatched')
    <3>1. p \in 1..Len(file)
      BY <1>2, <2>1, <2>6, <2>7, <2>8
    <3>2. file[p] = "event"
      BY <1>2, <2>8, <3>1
    <3> QED BY <2>2, <2>4, <3>1, <3>2
  <2> QED BY <1>2, <2>1, <2>2, <2>3, <2>4, <2>5, <2>6, <2>8
<1> QED BY <1>1, <1>2, ControlFacts

\* The numbers of the next state.
LEMMA ReachStepNumbers ==
  ASSUME TypeOK'
  PROVE  /\ Reach' \in Nat /\ requested' \in Nat /\ committed' \in Nat
         /\ requested' <= Reach' /\ committed' <= Reach'
         /\ file' \in Seq(Kinds) /\ Len(file') \in Nat
         /\ queue' \in Seq(CommandSet) /\ Len(queue') \in Nat
<1>1. /\ requested' \in Nat /\ committed' \in Nat /\ file' \in Seq(Kinds)
      /\ queue' \in Seq(CommandSet)
  BY Zenon DEF TypeOK
<1> QED BY <1>1 DEF Reach, Larger

\* Where a step may lead the producer, its reader and its channel: nowhere
\* past what was requested or committed, and events lie behind dispatch there.
LEMMA ReachStep ==
  ASSUME IInv, [Next]_vars
  PROVE  ReachInv'
<1>1. TypeOK /\ TypeOK' /\ ReachInv /\ StageInv
  BY TypeStep DEF IInv
<1>2. /\ Reach \in Nat /\ Reach \in {requested, committed}
      /\ requested <= Reach /\ committed <= Reach
  BY <1>1, ReachFacts
<1>3. /\ file \in Seq(Kinds) /\ Len(file) \in Nat
      /\ committed \in Nat /\ requested \in Nat /\ goal \in Nat /\ position \in Nat
      /\ base \in Nat /\ dispatched \in Nat /\ sending \in Nat /\ sent \in Nat
      /\ taken \in Nat /\ reader \in Nat \cup {NoReader}
      /\ queue \in Seq(CommandSet) /\ Len(queue) \in Nat
      /\ \A k \in 1..Len(queue) : queue[k] \in CommandSet /\ queue[k].through \in Nat
      /\ client \in ClientSet /\ client.asked \in Nat /\ pub.input \in Nat
  BY <1>1, Numbers
<1>4. /\ goal <= Reach /\ position <= Reach /\ taken <= Reach /\ reader <= Reach
      /\ pub.input <= Reach
      /\ sending <= requested /\ sent <= requested /\ client.asked <= requested
      /\ \A k \in 1..Len(queue) : queue[k].through <= requested
      /\ Reach <= Len(file) /\ base <= Len(file)
  BY <1>1 DEF ReachInv
<1>5. 0 <= Reach /\ -1 <= Reach
  BY <1>2
<1>a. ASSUME Capture PROVE ReachInv'
  <2>1. Len(file) <= Len(file') /\ \A p \in 1..Len(file) : file'[p] = file[p]
    BY <1>3, <1>a DEF Capture
  <2>2. UNCHANGED <<committed, callers, inputs, goal, source, pub>>
    BY <1>a DEF Capture, run
  <2> QED BY <1>1, <1>4, <2>1, <2>2, WithinReach DEF callers, inputs, source
<1>b. ASSUME NEW p \in 1..MaxRecords, NEW live \in BOOLEAN, Dispatch(p, live) PROVE ReachInv'
  <2>1. /\ p \in Nat /\ p <= Len(file) /\ dispatched' = p /\ sending' = p
        /\ requested' = Larger(requested, p)
        /\ Larger(base, dispatched) <= Larger(base, p)
    BY <1>1, <1>b, DispatchFacts
  <2>2. UNCHANGED <<durable, base, sent, client, queue, run, source, pub>>
    BY <1>b DEF Dispatch
  <2>3. /\ Larger(base, p) \in Nat /\ p <= Larger(base, p) /\ Larger(base, dispatched) \in Nat
        /\ requested <= requested' /\ requested' \in {requested, p} /\ p <= requested'
    BY <1>3, <2>1, LargerFacts
  <2>4. Reach' \in Nat /\ Reach' \in {Reach, p} /\ Reach <= Reach'
    BY <1>3, <2>1, <2>2, <2>3 DEF Reach, Larger, durable
  <2>5. ASSUME NEW q \in 1..Reach', file[q] = "event" PROVE q <= Larger(base, p)
    <3>1. CASE q <= Reach
      <4>1. q <= Larger(base, dispatched)
        BY <1>1, <2>4, <2>5, <3>1 DEF ReachInv
      <4> QED BY <2>1, <2>3, <2>4, <4>1
    <3>2. CASE q > Reach
      BY <1>2, <2>1, <2>3, <2>4, <3>2
    <3> QED BY <1>2, <2>4, <3>1, <3>2
  <2>6. \A k \in 1..Len(queue') : queue'[k].through <= requested'
    BY <1>3, <1>4, <2>2, <2>3, SMTT(30)
  <2>7. /\ goal' <= Reach' /\ position' <= Reach' /\ taken' <= Reach' /\ reader' <= Reach'
        /\ pub'.input <= Reach' /\ sending' <= requested' /\ sent' <= requested'
        /\ client'.asked <= requested'
        /\ Reach' <= Len(file') /\ base' <= Len(file')
    BY <1>2, <1>3, <1>4, <2>1, <2>2, <2>3, <2>4 DEF durable, run, source, NoReader
  <2> QED BY <2>1, <2>2, <2>5, <2>6, <2>7 DEF ReachInv, durable
<1>c. ASSUME SendAdvance PROVE ReachInv'
  <2>1. /\ queue' = Append(queue, [op |-> "advance", through |-> sending])
        /\ sent' = sending /\ sending' = 0
        /\ UNCHANGED <<durable, base, dispatched, client, requested, run, source, pub>>
    BY <1>c DEF SendAdvance
  <2>2. \A k \in 1..Len(queue') : queue'[k].through <= requested
    <3>1. /\ Len(queue') = Len(queue) + 1
          /\ queue'[Len(queue) + 1] = [op |-> "advance", through |-> sending]
          /\ \A k \in 1..Len(queue) : queue'[k] = queue[k]
      BY <1>3, <2>1, ChannelAppend
    <3> QED BY <1>3, <1>4, <3>1, SMTT(30)
  <2> QED BY <1>1, <1>3, <1>4, <2>1, <2>2, WithinReach DEF durable, run, source
<1>d. ASSUME NEW op \in {"barrier"} \cup Controls, Ask(op) PROVE ReachInv'
  <2>1. /\ queue' = Append(queue, [op |-> op, through |-> 0])
        /\ client'.asked = sent
        /\ UNCHANGED <<durable, base, dispatched, sending, sent, requested, run, source, pub>>
    BY <1>d DEF Ask
  <2>2. \A k \in 1..Len(queue') : queue'[k].through <= requested
    <3>1. /\ Len(queue') = Len(queue) + 1
          /\ queue'[Len(queue) + 1].through = 0
          /\ \A k \in 1..Len(queue) : queue'[k].through = queue[k].through
      BY <1>3, <2>1, ChannelAppend
    <3> SUFFICES ASSUME NEW k \in 1..Len(queue') PROVE queue'[k].through <= requested
      OBVIOUS
    <3>2. k = Len(queue) + 1 \/ k \in 1..Len(queue)
      BY <1>3, <3>1
    <3>3. 0 <= requested
      BY <1>3
    <3> QED BY <1>4, <3>1, <3>2, <3>3, Zenon
  <2>3. Len(file) <= Len(file') /\ \A p \in 1..Len(file) : file'[p] = file[p]
    BY <1>3, <2>1 DEF durable
  <2>4. /\ Reach' = Reach
        /\ Reach' <= Len(file') /\ base' <= Len(file')
        /\ \A p \in 1..Reach' : file'[p] = "event" => p <= Larger(base', dispatched')
    BY <1>1, <2>1, <2>3, ReachKept DEF durable
  <2> QED BY <1>4, <2>1, <2>2, <2>4 DEF ReachInv, durable, run, source
<1>e. ASSUME ReceiveAdvance \/ ReceiveBarrier \/ ReceiveControl \/ Refuse PROVE ReachInv'
  <2>1. queue # <<>> /\ queue' = Tail(queue)
    BY <1>e, Zenon DEF ReceiveAdvance, ReceiveBarrier, ReceiveControl, Refuse, Receive
  <2>2. \A k \in 1..Len(queue') : queue'[k].through <= requested
    BY <1>3, <1>4, <2>1, ChannelTail
  <2>3. client'.asked = client.asked
    BY <1>e, <1>3, ReplyFacts
       DEF ReceiveAdvance, ReceiveBarrier, ReceiveControl, Refuse, callers
  <2>4. CASE ReceiveAdvance \/ ReceiveBarrier \/ ReceiveControl
    <3>1. UNCHANGED <<durable, base, dispatched, sending, sent, requested, source, pub>>
      BY <2>4, Zenon DEF ReceiveAdvance, ReceiveBarrier, ReceiveControl, callers
    <3>2. goal' = goal \/ goal' = Head(queue).through
      BY <2>4, Zenon DEF ReceiveAdvance, ReceiveBarrier, ReceiveControl, Command, run
    <3>3. goal' <= Reach
      BY <1>2, <1>3, <1>4, <2>1, <3>2, ChannelTail
    <3> QED BY <1>1, <1>4, <2>2, <2>3, <3>1, <3>3, WithinReach DEF durable, source
  <2>5. CASE Refuse
    <3>1. UNCHANGED <<committed, base, dispatched, sending, sent, run, source, pub>>
      BY <2>5, Zenon DEF Refuse
    <3>2. CASE Command.op \in Controls
      <4>1. AppendControl(Command.op)
        BY <2>5, <3>2 DEF Refuse
      <4>2. /\ Reach <= Reach' /\ requested <= requested' /\ Len(file) <= Len(file')
            /\ Reach' <= Len(file') /\ base' <= Len(file')
            /\ \A p \in 1..Reach' : file'[p] = "event" => p <= Larger(base', dispatched')
        BY <1>1, <3>1, <3>2, <4>1, ControlReach, Zenon
      <4>3. Reach' \in Nat /\ requested' \in Nat /\ Len(queue') \in Nat
        BY <1>1, ReachStepNumbers
      <4>4. \A k \in 1..Len(queue') : queue'[k].through <= requested'
        <5>1. \A k \in 1..Len(queue') : queue'[k] = queue[k + 1] /\ k + 1 \in 1..Len(queue)
          BY <1>3, <2>1, ChannelTail
        <5>2. \A k \in 1..Len(queue) : queue[k].through \in Nat /\ queue[k].through <= requested
          BY <1>3, <1>4
        <5>3. ASSUME NEW k \in 1..Len(queue') PROVE queue'[k].through <= requested'
          <6>1. queue'[k] = queue[k + 1] /\ k + 1 \in 1..Len(queue)
            BY <5>1, Zenon
          <6>2. queue[k + 1].through \in Nat /\ queue[k + 1].through <= requested
            BY <5>2, <6>1, Zenon
          <6>3. requested \in Nat
            BY <1>3
          <6> QED BY <4>2, <4>3, <6>1, <6>2, <6>3
        <5> QED BY <5>3
      <4>5. /\ goal' <= Reach' /\ position' <= Reach' /\ taken' <= Reach' /\ reader' <= Reach'
            /\ pub'.input <= Reach' /\ sending' <= requested' /\ sent' <= requested'
            /\ client'.asked <= requested'
        BY <1>2, <1>3, <1>4, <2>3, <3>1, <4>2, <4>3 DEF run, source, NoReader
      <4> QED BY <4>2, <4>4, <4>5 DEF ReachInv
    <3>3. CASE Command.op \notin Controls
      <4>1. UNCHANGED <<file, requested>>
        BY <2>5, <3>3, Zenon DEF Refuse
      <4> QED BY <1>1, <1>4, <2>2, <2>3, <3>1, <4>1, WithinReach DEF run, source
    <3> QED BY <3>2, <3>3
  <2> QED BY <1>e, <2>4, <2>5
<1>f. ASSUME Open PROVE ReachInv'
  <2>1. goal' <= Reach
    BY <1>3, <1>4, <1>f DEF Open, Reach, Larger
  <2>2. position' <= Reach /\ reader' <= Reach
    BY <1>4, <1>5, <1>f DEF Open, Initialize, NoReader
  <2>3. UNCHANGED <<durable, callers, inputs, taken, pub>>
    BY <1>f DEF Open
  <2> QED BY <1>1, <1>4, <2>1, <2>2, <2>3, WithinReach DEF durable, callers, inputs
<1>g. ASSUME TakeLive \/ ReadNext PROVE ReachInv'
  <2>1. taken' <= goal
    <3>1. CASE TakeLive
      BY <1>3, <3>1 DEF TakeLive, Live
    <3>2. CASE ReadNext
      BY <3>2 DEF ReadNext
    <3> QED BY <1>g, <3>1, <3>2
  <2>2. reader' = NoReader \/ reader' = taken'
    BY <1>g DEF TakeLive, ReadNext
  <2>3. UNCHANGED <<durable, callers, queue, requested, goal, position, pub>>
    BY <1>g, Zenon DEF TakeLive, ReadNext
  <2>4. taken' \in Nat
    BY <1>1, Zenon DEF TypeOK
  <2>5. taken' <= Reach /\ reader' <= Reach
    BY <1>2, <1>3, <1>4, <2>1, <2>2, <2>4 DEF NoReader
  <2> QED BY <1>1, <1>4, <2>3, <2>5, WithinReach DEF durable, callers
<1>h. ASSUME Reached PROVE ReachInv'
  <2>1. client'.asked = client.asked
    BY <1>3, <1>h, ReplyFacts DEF Reached
  <2>2. goal' <= Reach
    BY <1>4, <1>5, <1>h DEF Reached, Rest
  <2>3. UNCHANGED <<durable, base, dispatched, sending, sent, queue, requested, source, pub>>
    BY <1>h, Zenon DEF Reached
  <2> QED BY <1>1, <1>4, <2>1, <2>2, <2>3, WithinReach DEF durable, source
<1>i. ASSUME Handle PROVE ReachInv'
  <2>1. pub'.input = taken
    BY <1>i DEF Handle, NoPublication
  <2>2. UNCHANGED <<durable, callers, inputs, goal, reader, position>> /\ taken' = 0
    BY <1>i, Zenon DEF Handle
  <2> QED BY <1>1, <1>4, <1>5, <2>1, <2>2, WithinReach DEF durable, callers, inputs
<1>j. ASSUME PassOver PROVE ReachInv'
  <2>1. committed' = committed \/ committed' = Larger(committed, taken)
    BY <1>j, Zenon DEF PassOver
  <2>2. /\ UNCHANGED <<file, callers, inputs, goal, reader, pub>>
        /\ position' = taken /\ taken' = 0
    BY <1>j, Zenon DEF PassOver
  <2> QED BY <1>1, <1>3, <1>4, <1>5, <2>1, <2>2, WithinReach DEF callers, inputs
<1>k. ASSUME PrepareChunk \/ AppendOp \/ DrainPending PROVE ReachInv'
  <2>1. pub'.input = pub.input
    <3>1. pub.input # 0
      BY <1>1, <1>k, Zenon DEF StageInv, PrepareChunk, AppendOp, DrainPending
    <3> QED BY <1>1, <1>3, <1>k, <3>1, PubFacts DEF TypeOK
  <2>2. UNCHANGED <<file, committed, callers, inputs, run, source>>
    BY <1>k, Zenon DEF PrepareChunk, AppendOp, DrainPending, durable
  <2> QED BY <1>1, <1>4, <2>1, <2>2, WithinReach DEF callers, inputs, run, source
<1>l. ASSUME CommitInput PROVE ReachInv'
  <2>1. /\ committed' = Larger(committed, pub.input) /\ position' = pub.input
        /\ pub'.input = 0
        /\ UNCHANGED <<file, callers, inputs, goal, reader, taken>>
    BY <1>l DEF CommitInput, NoPublication
  <2> QED BY <1>1, <1>3, <1>4, <1>5, <2>1, WithinReach DEF callers, inputs
<1>m. ASSUME FinishControl PROVE ReachInv'
  <2>1. /\ AppendControl(kind) /\ kind \in Controls
        /\ UNCHANGED <<committed, base, dispatched, sending, sent, queue, source, pub>>
    BY <1>1, <1>m, Zenon DEF FinishControl, TypeOK
  <2>2. /\ Reach <= Reach' /\ requested <= requested' /\ Len(file) <= Len(file')
        /\ Reach' <= Len(file') /\ base' <= Len(file')
        /\ \A p \in 1..Reach' : file'[p] = "event" => p <= Larger(base', dispatched')
        /\ file' # file => Len(file') <= requested'
    BY <1>1, <2>1, ControlReach, Zenon
  <2>3. Reach' \in Nat /\ requested' \in Nat /\ requested' <= Reach' /\ Len(file') \in Nat
    BY <1>1, ReachStepNumbers
  <2>4. client'.asked = client.asked
    BY <1>3, <1>m, ReplyFacts DEF FinishControl
  <2>5. goal' <= Reach'
    BY <1>m, <2>2, <2>3 DEF FinishControl, Rest
  <2>6. \A k \in 1..Len(queue') : queue'[k].through <= requested'
    BY <1>3, <1>4, <2>1, <2>2, <2>3
  <2>7. /\ position' <= Reach' /\ taken' <= Reach' /\ reader' <= Reach'
        /\ pub'.input <= Reach' /\ sending' <= requested' /\ sent' <= requested'
        /\ client'.asked <= requested'
    <3>1. /\ position' = position /\ taken' = taken /\ reader' = reader /\ pub' = pub
          /\ sending' = sending /\ sent' = sent
      BY <2>1 DEF source
    <3>2. position' <= Reach' /\ taken' <= Reach' /\ pub'.input <= Reach'
      BY <1>2, <1>3, <1>4, <2>2, <2>3, <3>1
    <3>3. reader' <= Reach'
      BY <1>2, <1>3, <1>4, <2>2, <2>3, <3>1 DEF NoReader
    <3>4. sending' <= requested' /\ sent' <= requested' /\ client'.asked <= requested'
      BY <1>3, <1>4, <2>2, <2>3, <2>4, <3>1
    <3> QED BY <3>2, <3>3, <3>4
  <2> QED BY <2>2, <2>5, <2>6, <2>7 DEF ReachInv
<1>n. ASSUME NEW f \in {"delay", "revision"}, Failed(f) PROVE ReachInv'
  <2>1. client'.asked = client.asked
    BY <1>3, <1>n, ReplyFacts DEF Failed
  <2>2. /\ goal' = 0 /\ taken' = 0
        /\ UNCHANGED <<durable, base, dispatched, sending, sent, inputs, reader, position, pub>>
    BY <1>n, Zenon DEF Failed, Rest
  <2> QED BY <1>1, <1>4, <1>5, <2>1, <2>2, WithinReach DEF durable, inputs
<1>o. ASSUME RecordEvidence \/ ClearEvidence \/ Retry PROVE ReachInv'
  <2>1. goal' = goal \/ goal' = 0
    BY <1>o, Zenon DEF RecordEvidence, ClearEvidence, Retry, Rest, run
  <2>2. position' \in {position, 0} /\ reader' \in {reader, NoReader}
    BY <1>o, Zenon DEF RecordEvidence, ClearEvidence, Retry, source
  <2>3. UNCHANGED <<file, committed, callers, inputs, taken, pub>>
    BY <1>o, Zenon DEF RecordEvidence, ClearEvidence, Retry, source, durable
  <2>4. goal' <= Reach /\ position' <= Reach /\ reader' <= Reach
    BY <1>4, <1>5, <2>1, <2>2 DEF NoReader
  <2> QED BY <1>1, <1>4, <2>3, <2>4, WithinReach DEF callers, inputs
<1>p. ASSUME Restart PROVE ReachInv'
  <2>1. /\ goal' = 0 /\ position' = 0 /\ taken' = 0 /\ reader' = -1 /\ pub'.input = 0
        /\ sending' = 0 /\ sent' = 0 /\ client'.asked = 0 /\ queue' = <<>>
        /\ requested' = committed /\ base' = Len(file) /\ dispatched' = 0
        /\ UNCHANGED <<file, committed>>
    BY <1>p DEF Restart, Rest, NoReader, NoPublication, durable
  <2>2. Reach' = committed
    BY <1>3, <2>1 DEF Reach, Larger
  <2>3. Larger(base', dispatched') = Len(file)
    BY <1>3, <2>1 DEF Larger
  <2>4. \A p \in 1..Reach' : file'[p] = "event" => p <= Larger(base', dispatched')
    BY <1>2, <1>3, <1>4, <2>1, <2>2, <2>3
  <2> QED BY <1>2, <1>3, <1>4, <2>1, <2>2, <2>4 DEF ReachInv
<1>q. ASSUME UNCHANGED vars PROVE ReachInv'
  BY <1>q, <1>1 DEF ReachInv, Reach, vars, durable, callers, inputs, source, run
<1> QED BY <1>a, <1>b, <1>c, <1>d, <1>e, <1>f, <1>g, <1>h, <1>i, <1>j, <1>k, <1>l, <1>m, <1>n,
           <1>o, <1>p, <1>q, FailFacts, Zenon DEF IInv, Next, Hand, Work

\* A step leads from one stage to one that may follow it.
LEMMA StageStep ==
  ASSUME IInv, [Next]_vars
  PROVE  StageInv'
<1>1. TypeOK /\ StageInv
  BY DEF IInv
<1>2. /\ goal \in Nat /\ position \in Nat /\ taken \in Nat /\ pub.input \in Nat
      /\ client \in ClientSet
  BY <1>1, Numbers
<1>a. ASSUME \/ Capture \/ SendAdvance
             \/ \E p \in 1..MaxRecords, live \in BOOLEAN : Dispatch(p, live)
             \/ \E op \in {"barrier"} \cup Controls : Ask(op)
             \/ ReceiveBarrier \/ Refuse
      PROVE  StageInv'
  <2>1. UNCHANGED <<at, job, goal, fail, taken, reader, pub>>
    BY <1>a, Zenon DEF Capture, SendAdvance, Dispatch, Ask, ReceiveBarrier, Refuse, failing, run,
                       source
  <2> QED BY <1>1, <2>1 DEF StageInv
<1>b. ASSUME ReceiveAdvance \/ ReceiveControl PROVE StageInv'
  <2>1. /\ at = "wait" /\ fail = "none"
        /\ UNCHANGED <<fail, taken, reader, pub>>
        /\ \/ UNCHANGED <<at, job>>
           \/ at' = "open" /\ job' \in {"advance", "control"}
    BY <1>b DEF ReceiveAdvance, ReceiveControl, Receive, failing, source, run
  <2> QED BY <1>1, <2>1 DEF StageInv
<1>c. ASSUME Open PROVE StageInv'
  <2>1. at = "open" /\ at' = "input" /\ UNCHANGED <<fail, job, taken, pub>>
    BY <1>c DEF Open, failing
  <2> QED BY <1>1, <2>1 DEF StageInv
<1>d. ASSUME TakeLive \/ ReadNext PROVE StageInv'
  <2>1. at = "input" /\ at' = "record" /\ UNCHANGED <<fail, job, goal, pub>>
    BY <1>d, Zenon DEF TakeLive, ReadNext, failing
  <2>2. taken' # 0 /\ taken' <= goal /\ reader' \in {taken', NoReader}
    <3>1. CASE TakeLive
      BY <1>2, <3>1 DEF TakeLive, Live
    <3>2. CASE ReadNext
      <4>1. reader \in Nat \cup {NoReader}
        BY <1>1, Numbers
      <4> QED BY <1>2, <3>2, <4>1 DEF ReadNext, Following, NoReader
    <3> QED BY <1>d, <3>1, <3>2
  <2> QED BY <1>1, <2>1, <2>2 DEF StageInv
<1>e. ASSUME Reached PROVE StageInv'
  <2>1. /\ at = "input"
        /\ \/ job = "control" /\ at' = "control" /\ job' = job
           \/ job = "recover" /\ at' = "clear" /\ job' = job
           \/ at' = "wait" /\ job' = "advance"
        /\ UNCHANGED <<fail, taken, reader, pub>>
    BY <1>e DEF Reached, Rest, failing, source
  <2> QED BY <1>1, <2>1 DEF StageInv
<1>f. ASSUME Handle PROVE StageInv'
  <2>1. at = "record" /\ at' = "publish" /\ taken' = 0 /\ UNCHANGED <<fail, job>>
    BY <1>f, Zenon DEF Handle, failing
  <2>2. pub'.input = taken
    BY <1>f DEF Handle, NoPublication
  <2> QED BY <1>1, <2>1, <2>2 DEF StageInv
<1>g. ASSUME PassOver PROVE StageInv'
  <2>1. at = "record" /\ at' = "input" /\ taken' = 0 /\ UNCHANGED <<fail, job, pub>>
    BY <1>g, Zenon DEF PassOver, failing
  <2> QED BY <1>1, <2>1 DEF StageInv
<1>h. ASSUME PrepareChunk \/ AppendOp \/ DrainPending PROVE StageInv'
  <2>1. at = "publish" /\ UNCHANGED <<fail, at, job, goal, taken, reader>>
    BY <1>h, Zenon DEF PrepareChunk, AppendOp, DrainPending, failing, run, source
  <2>2. pub.input # 0
    BY <1>1, <2>1 DEF StageInv
  <2>3. pub'.input = pub.input
    BY <1>1, <1>2, <1>h, <2>2, PubFacts DEF TypeOK
  <2> QED BY <1>1, <2>1, <2>2, <2>3 DEF StageInv
<1>i. ASSUME CommitInput PROVE StageInv'
  <2>1. /\ at = "publish" /\ at' \in {"open", "input"} /\ pub'.input = 0
        /\ UNCHANGED <<fail, job, taken>>
    BY <1>i DEF CommitInput, NoPublication, failing
  <2> QED BY <1>1, <2>1 DEF StageInv
<1>j. ASSUME FinishControl PROVE StageInv'
  <2>1. /\ at = "control"
        /\ \/ at' = "wait" /\ job' = "advance"
           \/ at' = "open" /\ job' = "controlled"
        /\ UNCHANGED <<fail, taken, pub>>
    BY <1>j, Zenon DEF FinishControl, Rest, failing, source
  <2> QED BY <1>1, <2>1 DEF StageInv
<1>k. ASSUME NEW f \in {"delay", "revision"}, Failed(f) PROVE StageInv'
  <2>1. at' = "wait" /\ job' = "advance" /\ fail' = f /\ taken' = 0 /\ UNCHANGED pub
    BY <1>k, Zenon DEF Failed, Rest
  <2> QED BY <1>1, <2>1 DEF StageInv
<1>l. ASSUME RecordEvidence \/ UNCHANGED vars PROVE StageInv'
  <2>1. UNCHANGED <<at, job, goal, fail, taken, reader, pub>>
    BY <1>l, Zenon DEF RecordEvidence, vars, failing, run, source
  <2> QED BY <1>1, <2>1 DEF StageInv
<1>m. ASSUME Retry PROVE StageInv'
  <2>1. /\ at = "wait" /\ fail' = "none" /\ job' = "recover" /\ UNCHANGED <<taken, pub>>
        /\ at' = IF pub = NoPublication THEN "open" ELSE "publish"
    BY <1>m, Zenon DEF Retry
  <2>2. pub = NoPublication <=> pub.input = 0
    BY <1>1 DEF TypeOK, NoPublication
  <2> QED BY <1>1, <2>1, <2>2 DEF StageInv
<1>n. ASSUME ClearEvidence PROVE StageInv'
  <2>1. at = "clear" /\ at' = "wait" /\ job' = "advance" /\ UNCHANGED <<fail, taken, pub>>
    BY <1>n, Zenon DEF ClearEvidence, Rest, source
  <2> QED BY <1>1, <2>1 DEF StageInv
<1>o. ASSUME Restart PROVE StageInv'
  <2>1. /\ at' = "wait" /\ job' = "advance" /\ taken' = 0 /\ pub'.input = 0
        /\ fail' \in {"none", "delay", "revision"}
    BY <1>1, <1>o DEF Restart, Rest, NoPublication, TypeOK
  <2> QED BY <2>1 DEF StageInv
<1> QED BY <1>a, <1>b, <1>c, <1>d, <1>e, <1>f, <1>g, <1>h, <1>i, <1>j, <1>k, <1>l, <1>m, <1>n,
           <1>o, FailFacts, Zenon DEF Next, Hand, Work

\* The journal only grows, within its bound.
LEMMA JournalStep ==
  ASSUME TypeOK, [Next]_vars
  PROVE  /\ Len(file) <= Len(file') /\ \A p \in 1..Len(file) : file'[p] = file[p]
         /\ file' = file \/ Len(file') <= MaxRecords
<1>0. Len(file) \in Nat /\ file \in Seq(Kinds) /\ MaxRecords \in Nat
  BY Numbers, TranslationAssumption
<1>1. CASE file' = file
  BY <1>0, <1>1
<1>2. CASE Capture
  BY <1>0, <1>2 DEF Capture
<1>3. CASE \E k \in Controls : AppendControl(k)
  <2>1. PICK k \in Controls : AppendControl(k)
    BY <1>3
  <2> QED BY <1>0, <2>1, ControlFacts
<1>4. file' = file \/ Capture \/ \E k \in Controls : AppendControl(k)
  <2>1. ASSUME Refuse PROVE file' = file \/ \E k \in Controls : AppendControl(k)
    BY <2>1, Zenon DEF Refuse
  <2>2. ASSUME FinishControl PROVE \E k \in Controls : AppendControl(k)
    BY <2>2, Zenon DEF FinishControl, TypeOK
  <2>3. ASSUME NEW f \in {"delay", "revision"}, Failed(f) PROVE file' = file
    BY <2>3 DEF Failed, durable
  <2> QED BY <2>1, <2>2, <2>3, FailFacts, Zenon
          DEF Next, Hand, Work, vars, durable, Dispatch, SendAdvance, Ask, ReceiveAdvance,
              ReceiveBarrier, ReceiveControl, Open, TakeLive, ReadNext, Reached, Handle,
              PassOver, PrepareChunk, AppendOp, DrainPending, CommitInput, RecordEvidence,
              Retry, ClearEvidence, Restart
<1> QED BY <1>1, <1>2, <1>3, <1>4

\* The committed boundary does not move back.
LEMMA CommittedStep ==
  ASSUME TypeOK, [Next]_vars
  PROVE  committed <= committed'
<1>0. committed \in Nat /\ taken \in Nat /\ pub.input \in Nat
  BY Numbers
<1>1. CASE committed' = committed
  BY <1>0, <1>1
<1>2. CASE PassOver
  BY <1>0, <1>2, LargerFacts DEF PassOver
<1>3. CASE CommitInput
  BY <1>0, <1>3, LargerFacts DEF CommitInput
<1>4. committed' = committed \/ PassOver \/ CommitInput
  <2>1. ASSUME NEW f \in {"delay", "revision"}, Failed(f) PROVE committed' = committed
    BY <2>1 DEF Failed, durable
  <2> QED BY <2>1, FailFacts, Zenon
          DEF Next, Hand, Work, vars, durable, Capture, Dispatch, SendAdvance, Ask,
              ReceiveAdvance, ReceiveBarrier, ReceiveControl, Refuse, Open, TakeLive, ReadNext,
              Reached, Handle, PrepareChunk, AppendOp, DrainPending, FinishControl,
              RecordEvidence, Retry, ClearEvidence, Restart
<1> QED BY <1>1, <1>2, <1>3, <1>4

\* What is finished stays finished in every step.
LEMMA FinishedStep ==
  ASSUME IInv, [Next]_vars
  PROVE  Finished \subseteq Finished'
<1>1. TypeOK /\ TypeOK'
  BY TypeStep DEF IInv
<1>2. /\ Len(file) <= Len(file') /\ \A p \in 1..Len(file) : file'[p] = file[p]
      /\ committed <= committed'
  BY <1>1, JournalStep, CommittedStep
<1> QED BY <1>1, <1>2, FinishedGrows

\* The boundary before any record, and any committed one, is finished.
LEMMA FinishedStart ==
  ASSUME TypeOK, ReachInv
  PROVE  0 \in Finished /\ \A n \in Nat : n <= committed => n \in Finished
<1>1. Len(file) \in Nat /\ committed \in Nat
  BY Numbers
<1>2. committed <= Len(file)
  <2>1. Reach \in Nat /\ committed <= Reach /\ Reach <= Len(file)
    BY ReachFacts DEF ReachInv
  <2> QED BY <1>1, <2>1
<1> QED BY <1>1, <1>2 DEF Finished

\* Whatever fails and is retried, nothing of this source is left behind.
LEMMA BehindStep ==
  ASSUME IInv, [Next]_vars
  PROVE  BehindInv'
<1>1. TypeOK /\ TypeOK' /\ ReachInv /\ ReachInv' /\ StageInv /\ BehindInv /\ Finished \subseteq Finished'
  BY TypeStep, ReachStep, FinishedStep DEF IInv
<1>2. /\ Len(file) \in Nat /\ committed \in Nat /\ taken \in Nat /\ pub.input \in Nat
      /\ file \in Seq(Kinds) /\ reader \in Nat \cup {NoReader} /\ position \in Nat
      /\ requested \in Nat
  BY <1>1, Numbers
<1>3. 0 \in Finished /\ 0 \in Finished' /\ \A n \in Nat : n <= committed => n \in Finished
  BY <1>1, FinishedStart
<1>4. /\ position \in Finished
      /\ at = "record" => taken - 1 \in Finished
      /\ \/ reader \in Finished \cup {NoReader}
         \/ at = "record"
         \/ pub.input # 0 /\ reader = pub.input
         \/ fail # "none" /\ pub.input = 0
  BY <1>1 DEF BehindInv
<1>a. ASSUME \/ Capture \/ SendAdvance
             \/ \E p \in 1..MaxRecords, live \in BOOLEAN : Dispatch(p, live)
             \/ \E op \in {"barrier"} \cup Controls : Ask(op)
             \/ ReceiveBarrier \/ Refuse \/ RecordEvidence \/ UNCHANGED vars
      PROVE  BehindInv'
  <2>1. UNCHANGED <<at, fail, taken, reader, position, pub>>
    BY <1>a, Zenon DEF Capture, SendAdvance, Dispatch, Ask, ReceiveBarrier, Refuse, RecordEvidence,
                       vars, failing, run, source
  <2> QED BY <1>1, <1>4, <2>1, Zenon DEF BehindInv
<1>b. ASSUME ReceiveAdvance \/ ReceiveControl PROVE BehindInv'
  <2>1. /\ at = "wait" /\ fail = "none" /\ at' \in {"wait", "open"}
        /\ UNCHANGED <<fail, taken, reader, position, pub>>
    BY <1>b DEF ReceiveAdvance, ReceiveControl, Receive, failing, source, run
  <2>2. pub.input = 0
    BY <1>1, <2>1 DEF StageInv
  <2> QED BY <1>1, <1>4, <2>1, <2>2 DEF BehindInv
<1>c. ASSUME Open PROVE BehindInv'
  <2>1. at = "open" /\ at' = "input" /\ UNCHANGED <<fail, taken, pub>>
    BY <1>c DEF Open, failing
  <2>2. position' \in {0, position} /\ reader' \in {0, NoReader, reader}
    BY <1>c DEF Open, Initialize
  <2>3. fail = "none" /\ pub.input = 0
    BY <1>1, <2>1 DEF StageInv
  <2> QED BY <1>1, <1>3, <1>4, <2>1, <2>2, <2>3 DEF BehindInv
<1>d. ASSUME TakeLive \/ ReadNext PROVE BehindInv'
  <2>1. at = "input" /\ at' = "record" /\ UNCHANGED <<fail, position, pub>>
    BY <1>d, Zenon DEF TakeLive, ReadNext, failing
  <2>2. fail = "none" /\ pub.input = 0
    BY <1>1, <2>1 DEF StageInv
  <2>3. taken' - 1 \in Finished
    <3>1. CASE TakeLive
      BY <1>2, <1>4, <3>1 DEF TakeLive, Live
    <3>2. CASE ReadNext
      BY <1>2, <1>4, <2>1, <2>2, <3>2 DEF ReadNext, Following, NoReader
    <3> QED BY <1>d, <3>1, <3>2
  <2> QED BY <1>1, <1>4, <2>1, <2>3 DEF BehindInv
<1>e. ASSUME Reached PROVE BehindInv'
  <2>1. at = "input" /\ at' # "record" /\ UNCHANGED <<fail, taken, reader, position, pub>>
    BY <1>e DEF Reached, Rest, failing, source
  <2> QED BY <1>1, <1>4, <2>1 DEF BehindInv
<1>f. ASSUME Handle PROVE BehindInv'
  <2>1. at = "record" /\ at' = "publish" /\ UNCHANGED <<reader, position>>
    BY <1>f, Zenon DEF Handle
  <2>2. pub'.input = taken
    BY <1>f DEF Handle, NoPublication
  <2>3. taken # 0 /\ reader \in {taken, NoReader}
    BY <1>1, <2>1 DEF StageInv
  <2> QED BY <1>1, <1>4, <2>1, <2>2, <2>3 DEF BehindInv
<1>g. ASSUME PassOver PROVE BehindInv'
  <2>1. /\ at = "record" /\ at' = "input" /\ position' = taken
        /\ UNCHANGED <<file, reader>>
    BY <1>g, Zenon DEF PassOver
  <2>2. taken # 0 /\ reader \in {taken, NoReader} /\ taken - 1 \in Finished
    BY <1>1, <1>4, <2>1 DEF StageInv
  <2>3. taken <= Len(file)
    <3>1. taken <= Reach /\ Reach <= Len(file) /\ Reach \in Nat
      BY <1>1, ReachFacts DEF ReachInv
    <3> QED BY <1>2, <3>1
  <2>4. file[taken] = "foreign" \/ taken <= committed'
    <3>1. file[taken] \in Kinds /\ ~Translated(taken)
      BY <1>2, <1>g, <2>2, <2>3 DEF PassOver
    <3>2. CASE file[taken] = "legacy"
      BY <1>2, <1>g, <3>2, LargerFacts DEF PassOver
    <3>3. CASE file[taken] = "retire"
      BY <1>2, <1>g, <3>1, <3>3 DEF PassOver, Translated
    <3> QED BY <3>1, <3>2, <3>3 DEF Kinds, Controls, Translated
  <2>5. taken \in Finished'
    <3>1. taken - 1 \in Finished' /\ committed' \in Nat
      BY <1>1, <2>2, ReachStepNumbers
    <3>2. \A p \in 1..(taken - 1) : file[p] # "foreign" => p <= committed'
      BY <2>1, <3>1 DEF Finished
    <3>3. ASSUME NEW p \in 1..taken, file[p] # "foreign" PROVE p <= committed'
      BY <1>2, <2>2, <2>4, <3>1, <3>2, <3>3
    <3> QED BY <1>2, <2>1, <2>3, <3>3 DEF Finished
  <2> QED BY <2>1, <2>2, <2>5 DEF BehindInv
<1>h. ASSUME PrepareChunk \/ AppendOp \/ DrainPending PROVE BehindInv'
  <2>1. at = "publish" /\ UNCHANGED <<at, fail, taken, reader, position>>
    BY <1>h, Zenon DEF PrepareChunk, AppendOp, DrainPending, failing, run, source
  <2>2. pub.input # 0
    BY <1>1, <2>1 DEF StageInv
  <2>3. pub'.input = pub.input
    BY <1>1, <1>2, <1>h, <2>2, PubFacts DEF TypeOK
  <2> QED BY <1>1, <1>4, <2>1, <2>3 DEF BehindInv
<1>i. ASSUME CommitInput PROVE BehindInv'
  <2>1. /\ at = "publish" /\ at' \in {"open", "input"} /\ position' = pub.input
        /\ committed' = Larger(committed, pub.input) /\ UNCHANGED <<file, fail, reader>>
    BY <1>i, Zenon DEF CommitInput, failing
  <2>2. fail = "none"
    BY <1>1, <2>1 DEF StageInv
  <2>3. pub.input <= committed'
    BY <1>2, <2>1, LargerFacts
  <2>4. pub.input \in Finished'
    <3>1. pub.input <= Len(file)
      <4>1. pub.input <= Reach /\ Reach <= Len(file) /\ Reach \in Nat
        BY <1>1, ReachFacts DEF ReachInv
      <4> QED BY <1>2, <4>1
    <3>2. committed' \in Nat
      BY <1>1, ReachStepNumbers
    <3> QED BY <1>2, <2>1, <2>3, <3>1, <3>2 DEF Finished
  <2> QED BY <1>1, <1>4, <2>1, <2>2, <2>4 DEF BehindInv
<1>j. ASSUME FinishControl PROVE BehindInv'
  <2>1. /\ at = "control" /\ at' \in {"wait", "open"}
        /\ UNCHANGED <<fail, taken, reader, position, pub>>
    BY <1>j DEF FinishControl, Rest, failing, source
  <2> QED BY <1>1, <1>4, <2>1 DEF BehindInv
<1>k. ASSUME NEW f \in {"delay", "revision"}, Failed(f) PROVE BehindInv'
  <2>1. at' = "wait" /\ fail' = f /\ UNCHANGED <<reader, position, pub>>
    BY <1>k, Zenon DEF Failed, Rest
  <2>2. at = "record" => pub.input = 0
    BY <1>1 DEF StageInv
  <2> QED BY <1>1, <1>4, <2>1, <2>2 DEF BehindInv
<1>m. ASSUME Retry PROVE BehindInv'
  <2>1. /\ at = "wait" /\ at' \in {"open", "publish"} /\ UNCHANGED pub
        /\ IF pub = NoPublication /\ requested > committed
           THEN reader' = NoReader /\ position' = 0
           ELSE UNCHANGED <<reader, position>>
    BY <1>m DEF Retry
  <2>2. pub = NoPublication <=> pub.input = 0
    <3>1. pub.input = 0 => pub = NoPublication
      BY <1>1, Zenon DEF TypeOK
    <3> QED BY <3>1 DEF NoPublication
  <2>3. CASE pub = NoPublication /\ requested > committed
    BY <1>3, <2>1, <2>3 DEF BehindInv
  <2>4. CASE pub = NoPublication /\ requested <= committed
    <3>1. Reach = committed
      BY <1>2, <2>4 DEF Reach, Larger
    <3>2. reader \in Finished \cup {NoReader}
      BY <1>1, <1>2, <1>3, <3>1 DEF ReachInv
    <3> QED BY <1>1, <1>2, <1>4, <2>1, <2>4, <3>2 DEF BehindInv
  <2>5. CASE pub # NoPublication
    BY <1>1, <1>4, <2>1, <2>2, <2>5 DEF BehindInv
  <2> QED BY <1>2, <2>3, <2>4, <2>5
<1>n. ASSUME ClearEvidence PROVE BehindInv'
  <2>1. at = "clear" /\ at' = "wait" /\ UNCHANGED <<fail, reader, position, pub>>
    BY <1>n, Zenon DEF ClearEvidence, Rest, source
  <2> QED BY <1>1, <1>4, <2>1 DEF BehindInv
<1>o. ASSUME Restart PROVE BehindInv'
  <2>1. at' = "wait" /\ position' = 0 /\ reader' = NoReader
    BY <1>o DEF Restart, Rest
  <2> QED BY <1>3, <2>1 DEF BehindInv
<1> QED BY <1>a, <1>b, <1>c, <1>d, <1>e, <1>f, <1>g, <1>h, <1>i, <1>j, <1>k, <1>m, <1>n,
           <1>o, FailFacts, Zenon DEF Next, Hand, Work

\* Dispatch goes on, or the daemon starts anew.
LEMMA RequestsGrow ==
  ASSUME IInv, [Next]_vars
  PROVE  requested <= requested' \/ Restart
<1>1. TypeOK
  BY DEF IInv
<1>2. requested \in Nat
  BY <1>1, Numbers
<1>3. ASSUME requested' = requested PROVE requested <= requested'
  BY <1>2, <1>3
<1>4. ASSUME NEW p, NEW live, Dispatch(p, live) PROVE requested <= requested'
  BY <1>1, <1>2, <1>4, DispatchFacts, LargerFacts
<1>5. ASSUME NEW k \in Controls, AppendControl(k) PROVE requested <= requested'
  <2>1. Len(file) + 1 \in Nat
    BY <1>1, Numbers
  <2>2. requested' = requested \/ requested' = Larger(requested, Len(file) + 1)
    BY <1>1, <1>5, ControlFacts
  <2> QED BY <1>2, <2>1, <2>2, LargerFacts
<1>6. ASSUME Refuse PROVE requested <= requested'
  <2>1. requested' = requested \/ \E k \in Controls : AppendControl(k)
    BY <1>6, Zenon DEF Refuse
  <2> QED BY <1>3, <1>5, <2>1
<1>7. ASSUME FinishControl PROVE requested <= requested'
  <2>1. \E k \in Controls : AppendControl(k)
    BY <1>1, <1>7, Zenon DEF FinishControl, TypeOK
  <2> QED BY <1>5, <2>1
<1>8. ASSUME NEW f \in {"delay", "revision"}, Failed(f) PROVE requested' = requested
  BY <1>8 DEF Failed, inputs
<1> QED BY <1>3, <1>4, <1>6, <1>7, <1>8, FailFacts, Zenon
        DEF Next, Hand, Work, vars, inputs, Capture, SendAdvance, Ask, ReceiveAdvance,
            ReceiveBarrier, ReceiveControl, Open, TakeLive, ReadNext, Reached, Handle,
            PassOver, PrepareChunk, AppendOp, DrainPending, CommitInput, RecordEvidence,
            Retry, ClearEvidence

\* When the producer has come to its boundary, everything up to it is finished.
LEMMA ReachedGoal ==
  ASSUME IInv, Reached
  PROVE  \A n \in Nat : n <= goal => n \in Finished
<1>1. TypeOK /\ ReachInv /\ StageInv /\ BehindInv
  BY DEF IInv
<1>2. /\ goal \in Nat /\ position \in Nat /\ reader \in Nat \cup {NoReader}
  BY <1>1, Numbers
<1>3. at = "input" /\ (position >= goal \/ Following > goal)
  BY DEF Reached
<1>4. reader \in Finished \cup {NoReader} /\ position \in Finished
  BY <1>1, <1>3 DEF StageInv, BehindInv
<1>5. \E m \in Finished : goal <= m
  BY <1>2, <1>3, <1>4 DEF Following, NoReader
<1>6. PICK m \in Finished : goal <= m
  BY <1>5
<1>7. m \in Nat /\ m <= Len(file) /\ Len(file) \in Nat
  BY <1>1, Numbers DEF Finished
<1> SUFFICES ASSUME NEW n \in Nat, n <= goal PROVE n \in Finished
  OBVIOUS
<1>8. n <= m /\ n <= Len(file)
  BY <1>2, <1>6, <1>7
<1> QED BY <1>1, <1>8, FinishedBelow

\* A boundary that was received is finished or underway after every step,
\* unless the daemon is started anew.
LEMMA ReceivedStep ==
  ASSUME IInv, [Next]_vars, ~Restart, NEW n \in Received
  PROVE  n \in Received'
<1>1. /\ TypeOK /\ ReachInv /\ StageInv /\ StageInv' /\ Finished \subseteq Finished'
      /\ requested <= requested'
  BY StageStep, FinishedStep, RequestsGrow DEF IInv
<1>2. /\ requested \in Nat /\ goal \in Nat /\ requested' \in Nat /\ committed \in Nat
  BY TypeStep, Numbers, ReachStepNumbers DEF IInv
<1>3. CASE n \in Finished
  BY <1>1, <1>3 DEF Received
<1>4. CASE n \in Underway /\ n \notin Finished
  <2>1. n \in 0..requested /\ n \in 0..requested'
    BY <1>1, <1>2, <1>4 DEF Underway
  <2>2. \/ fail # "none"
        \/ job = "recover" /\ at \in {"open", "publish"}
        \/ /\ n <= goal
           /\ \/ job = "recover" /\ at \in {"input", "record"}
              \/ job = "advance" /\ at \in {"open", "input", "record", "publish"}
    BY <1>4 DEF Underway
  <2>3. n \in Underway'
    <3>a. ASSUME UNCHANGED <<at, job, goal, fail>> PROVE n \in Underway'
      BY <2>1, <2>2, <3>a DEF Underway
    <3>b. ASSUME fail' # "none" PROVE n \in Underway'
      BY <2>1, <3>b DEF Underway
    <3>c. ASSUME Open PROVE n \in Underway'
      <4>1. /\ at = "open" /\ at' = "input" /\ job' = job /\ fail' = fail
            /\ goal' = Larger(IF job \in {"control", "recover"} THEN requested ELSE goal,
                              committed)
        BY <3>c DEF Open, failing
      <4>2. fail = "none"
        BY <1>1, <4>1 DEF StageInv
      <4>3. n <= goal'
        BY <1>2, <2>1, <2>2, <4>1, <4>2 DEF Larger
      <4> QED BY <2>1, <2>2, <4>1, <4>2, <4>3 DEF Underway
    <3>d. ASSUME TakeLive \/ ReadNext PROVE n \in Underway'
      <4>1. /\ at = "input" /\ at' = "record" /\ UNCHANGED <<fail, job, goal>>
        BY <3>d, Zenon DEF TakeLive, ReadNext, failing
      <4> QED BY <2>1, <2>2, <4>1 DEF Underway
    <3>e. ASSUME Reached PROVE n \in Underway'
      <4>1. at = "input" /\ fail = "none"
        BY <1>1, <3>e DEF Reached, StageInv
      <4>2. n <= goal
        BY <2>2, <4>1
      <4> QED BY <1>4, <2>1, <3>e, <4>2, ReachedGoal
    <3>f. ASSUME Handle \/ PassOver PROVE n \in Underway'
      <4>1. /\ at = "record" /\ at' \in {"publish", "input"} /\ UNCHANGED <<fail, job, goal>>
            /\ fail = "none"
        BY <1>1, <3>f DEF Handle, PassOver, failing, StageInv
      <4> QED BY <2>1, <2>2, <4>1 DEF Underway
    <3>g. ASSUME CommitInput PROVE n \in Underway'
      <4>1. /\ at = "publish" /\ at' = IF job = "recover" THEN "open" ELSE "input"
            /\ UNCHANGED <<fail, job, goal>> /\ fail = "none"
        BY <1>1, <3>g DEF CommitInput, failing, StageInv
      <4> QED BY <2>1, <2>2, <4>1 DEF Underway
    <3>h. ASSUME Retry PROVE n \in Underway'
      <4>1. job' = "recover" /\ at' \in {"open", "publish"}
        BY <3>h DEF Retry
      <4> QED BY <2>1, <4>1 DEF Underway
    <3>i. ASSUME FinishControl \/ ClearEvidence PROVE n \in Underway'
      <4>1. at \in {"control", "clear"}
        BY <3>i DEF FinishControl, ClearEvidence
      <4>2. fail = "none"
        BY <1>1, <4>1 DEF StageInv
      <4> QED BY <2>2, <4>1, <4>2
    <3>j. ASSUME ReceiveAdvance \/ ReceiveBarrier \/ ReceiveControl PROVE n \in Underway'
      <4>1. at = "wait" /\ fail = "none"
        BY <3>j DEF ReceiveAdvance, ReceiveBarrier, ReceiveControl, Receive
      <4> QED BY <2>2, <4>1
    <3>k. ASSUME NEW f \in {"delay", "revision"}, Failed(f) PROVE n \in Underway'
      <4>1. fail' # "none"
        BY <3>k DEF Failed
      <4> QED BY <3>b, <4>1
    <3>l. ASSUME \/ Capture \/ Hand \/ Refuse \/ RecordEvidence \/ UNCHANGED vars
                 \/ \E op \in {"barrier"} \cup Controls : Ask(op)
                 \/ PrepareChunk \/ AppendOp \/ DrainPending
          PROVE  UNCHANGED <<at, job, goal, fail>>
      BY <3>l, Zenon DEF Capture, Hand, SendAdvance, Dispatch, Ask, Refuse, RecordEvidence,
                         PrepareChunk, AppendOp, DrainPending, vars, failing, run
    <3> QED BY <3>a, <3>c, <3>d, <3>e, <3>f, <3>g, <3>h, <3>i, <3>j, <3>k, <3>l, FailFacts, Zenon
            DEF Next, Work
  <2> QED BY <2>3 DEF Received
<1> QED BY <1>3, <1>4 DEF Received

\* A step that leaves the channel and the caller alone owes the same answers.
LEMMA AnswerKept ==
  ASSUME IInv, [Next]_vars, ~Restart, UNCHANGED <<queue, sent, client>>,
         job' \in {"control", "controlled"} => job \in {"control", "controlled"}
  PROVE  AnswerInv'
<1>1. AnswerInv /\ Finished \subseteq Finished' /\ Received \subseteq Received'
  BY FinishedStep, ReceivedStep DEF IInv
<1> QED BY <1>1 DEF AnswerInv, Before

\* Nor does one that answers the caller of the control that was running.
LEMMA AnswerGiven ==
  ASSUME IInv, [Next]_vars, ~Restart, UNCHANGED <<queue, sent>>,
         job \in {"control", "controlled"}, job' = "advance",
         client'.asked = client.asked
  PROVE  AnswerInv'
<1>1. AnswerInv /\ Finished \subseteq Finished' /\ Received \subseteq Received'
  BY FinishedStep, ReceivedStep DEF IInv
<1>2. \A k \in 1..Len(queue) : queue[k].op = "advance"
  BY <1>1 DEF AnswerInv
<1> QED BY <1>1, <1>2 DEF AnswerInv, Before

\* An idle producer has finished all that it received.
LEMMA Idle ==
  ASSUME StageInv, at = "wait", fail = "none"
  PROVE  Received = Finished
BY DEF Received, Underway, StageInv

\* Sending an advance or a command to a producer that goes on.
LEMMA AnswerSent ==
  ASSUME IInv, [Next]_vars, SendAdvance \/ \E op \in {"barrier"} \cup Controls : Ask(op)
  PROVE  AnswerInv'
<1>1. /\ AnswerInv /\ StageInv /\ TypeOK
      /\ Finished \subseteq Finished' /\ (~Restart => Received \subseteq Received')
  BY FinishedStep, ReceivedStep DEF IInv
<1>2. queue \in Seq(CommandSet) /\ Len(queue) \in Nat /\ sending \in Nat
  BY <1>1, Numbers
<1>3. ~Restart \/ queue' = <<>>
  BY DEF Restart
<1>4. PICK c : queue' = Append(queue, c)
  BY DEF SendAdvance, Ask
<1>5. /\ Len(queue') = Len(queue) + 1 /\ queue'[Len(queue) + 1] = c
      /\ \A k \in 1..Len(queue) : queue'[k] = queue[k]
  BY <1>2, <1>4, ChannelAppend
<1>6. Received \subseteq Received'
  <2>1. queue' # <<>>
    BY <1>2, <1>5
  <2> QED BY <1>1, <1>3, <2>1
<1>7. \A k \in 1..Len(queue') : k \in 1..Len(queue) \/ k = Len(queue) + 1
  BY <1>2, <1>5
<1>8. \A n, k : k \in 1..Len(queue) /\ Before(n, k - 1) =>
         \E j \in 1..k - 1 : queue'[j].op = "advance" /\ queue'[j].through >= n
  BY <1>2, <1>5 DEF Before
<1>9. \A n : Before(n, Len(queue)) =>
         /\ \E j \in 1..Len(queue) : queue'[j].op = "advance" /\ queue'[j].through >= n
         /\ \E j \in 1..Len(queue') : queue'[j].op = "advance" /\ queue'[j].through >= n
  BY <1>2, <1>5, <1>7 DEF Before
<1>a. CASE SendAdvance
  <2>1. /\ queue'[Len(queue) + 1] = [op |-> "advance", through |-> sending]
        /\ sent' = sending /\ UNCHANGED <<client, job>>
    BY <1>2, <1>5, <1>a DEF SendAdvance, run
  <2>2. \E j \in 1..Len(queue') : queue'[j].op = "advance" /\ queue'[j].through >= sent'
    BY <1>2, <1>5, <2>1
  <2>3. ASSUME NEW k \in 1..Len(queue'), queue'[k].op # "advance"
        PROVE  /\ client'.reply = "waiting"
               /\ \/ client'.asked \in Received'
                  \/ \E j \in 1..k - 1 : queue'[j].op = "advance" /\ queue'[j].through >= client'.asked
               /\ job' \notin {"control", "controlled"}
               /\ \A i \in 1..Len(queue') : queue'[i].op # "advance" => i = k
    <3>1. k \in 1..Len(queue) /\ queue[k].op # "advance"
      BY <1>5, <1>7, <2>1, <2>3
    <3>2. /\ client.reply = "waiting"
          /\ client.asked \in Received \/ Before(client.asked, k - 1)
          /\ job \notin {"control", "controlled"}
          /\ \A i \in 1..Len(queue) : queue[i].op # "advance" => i = k
      BY <1>1, <3>1 DEF AnswerInv
    <3>3. \A i \in 1..Len(queue') : queue'[i].op # "advance" => i = k
      BY <1>5, <1>7, <2>1, <3>2
    <3> QED BY <1>6, <1>8, <2>1, <3>1, <3>2, <3>3
  <2> QED BY <1>1, <2>1, <2>2, <2>3 DEF AnswerInv, Before
<1>b. CASE \E op \in {"barrier"} \cup Controls : Ask(op)
  <2>1. PICK op \in {"barrier"} \cup Controls : Ask(op)
    BY <1>b
  <2>2. /\ client.reply # "waiting" /\ client'.reply = "waiting" /\ client'.asked = sent
        /\ UNCHANGED <<sent, job>>
    BY <2>1 DEF Ask, run
  <2>3. (\A k \in 1..Len(queue) : queue[k].op = "advance") /\ job \notin {"control", "controlled"}
    BY <1>1, <2>2 DEF AnswerInv
  <2>4. \/ sent \in Received'
        \/ /\ \E j \in 1..Len(queue) : queue'[j].op = "advance" /\ queue'[j].through >= sent
           /\ \E j \in 1..Len(queue') : queue'[j].op = "advance" /\ queue'[j].through >= sent
    BY <1>1, <1>6, <1>9 DEF AnswerInv
  <2>5. \A k \in 1..Len(queue') : queue'[k].op # "advance" => k = Len(queue) + 1
    BY <1>5, <1>7, <2>3
  <2>6. ASSUME NEW k \in 1..Len(queue'), queue'[k].op # "advance"
        PROVE  \/ client'.asked \in Received'
               \/ \E j \in 1..k - 1 : queue'[j].op = "advance" /\ queue'[j].through >= client'.asked
    <3>1. k - 1 = Len(queue)
      BY <1>2, <2>5, <2>6
    <3> QED BY <2>2, <2>4, <3>1
  <2> QED BY <2>2, <2>3, <2>4, <2>5, <2>6 DEF AnswerInv, Before
<1> QED BY <1>a, <1>b

\* Faults are counted.
LEMMA FaultsStep ==
  ASSUME faults \in Nat, [Next]_vars
  PROVE  faults' \in Nat
<1>1. UNCHANGED faults \/ Fault
  BY Zenon DEF Next, Hand, Work, vars, Capture, Dispatch, SendAdvance, Ask, ReceiveAdvance,
     ReceiveBarrier, ReceiveControl, Refuse, Open, TakeLive, ReadNext, Reached, Handle, PassOver,
     PrepareChunk, AppendOp, DrainPending, CommitInput, FinishControl, StorageFails,
     TranslatorFails, RecordEvidence, Retry, ClearEvidence, Restart
<1> QED BY <1>1 DEF Fault

\* A restart is a fault, and receiving a command is not.
LEMMA ReceiveIsNoRestart ==
  ASSUME faults \in Nat, ReceiveAdvance \/ ReceiveBarrier \/ ReceiveControl \/ Refuse
  PROVE  ~Restart
<1>1. UNCHANGED faults
  BY Zenon DEF ReceiveAdvance, ReceiveBarrier, ReceiveControl, Refuse
<1> QED BY <1>1 DEF Restart, Fault

\* An advance in the channel stays there or is received, and then what it
\* covers is finished or underway; other commands cover nothing.
LEMMA Shifted ==
  ASSUME IInv, [Next]_vars, ReceiveAdvance \/ ReceiveBarrier \/ ReceiveControl \/ Refuse,
         NEW n \in Nat, n <= requested, NEW k \in 0..Len(queue), Before(n, k)
  PROVE  \/ n \in Received'
         \/ \E j \in 1..k - 1 : queue'[j].op = "advance" /\ queue'[j].through >= n
<1>1. TypeOK /\ StageInv /\ ReachInv /\ Finished \subseteq Finished' /\ faults \in Nat
  BY FinishedStep DEF IInv
<1>2. /\ queue \in Seq(CommandSet) /\ Len(queue) \in Nat /\ requested \in Nat
      /\ requested' \in Nat /\ (requested <= requested' \/ Restart)
  BY <1>1, TypeStep, RequestsGrow, Numbers, ReachStepNumbers
<1>3. queue # <<>> /\ queue' = Tail(queue)
  BY Zenon DEF ReceiveAdvance, ReceiveBarrier, ReceiveControl, Refuse, Receive
<1>4. /\ Len(queue') = Len(queue) - 1 /\ Head(queue) = queue[1]
      /\ \A j \in 1..Len(queue') : k + 1 \in 1..Len(queue) + 1 /\ queue'[j] = queue[j + 1]
  BY <1>2, <1>3, ChannelTail
<1>5. PICK j \in 1..k : queue[j].op = "advance" /\ queue[j].through >= n
  BY DEF Before
<1>6. CASE j # 1
  <2>1. j - 1 \in 1..k - 1 /\ j - 1 \in 1..Len(queue') /\ queue'[j - 1] = queue[j]
    BY <1>2, <1>4, <1>5, <1>6
  <2> QED BY <1>5, <2>1
<1>7. CASE j = 1
  <2>1. Head(queue).op = "advance" /\ Head(queue).through >= n /\ Head(queue).through \in Nat
    BY <1>1, <1>2, <1>3, <1>4, <1>5, <1>7, Numbers, SMTT(30)
  <2>2. CASE Refuse
    <3>1. fail' # "none" /\ n \in 0..requested'
      <4>1. requested <= requested'
        BY <1>1, <1>2, <2>2, ReceiveIsNoRestart
      <4>2. fail' # "none"
        BY <2>2 DEF Refuse, Receive, failing
      <4> QED BY <1>2, <4>1, <4>2
    <3> QED BY <3>1 DEF Received, Underway
  <2>3. CASE ReceiveAdvance
    <3>1. CASE translator = Missing /\ Command.through <= committed
      <4>1. n <= committed
        <5>1. committed \in Nat
          BY <1>1, Numbers
        <5> QED BY <2>1, <3>1, <5>1 DEF Command
      <4>2. n \in Finished
        BY <1>1, <4>1, FinishedStart
      <4> QED BY <1>1, <4>2 DEF Received
    <3>2. CASE ~(translator = Missing /\ Command.through <= committed)
      <4>1. /\ at' = "open" /\ job' = "advance" /\ goal' = Head(queue).through
            /\ requested' = requested
        BY <2>3, <3>2 DEF ReceiveAdvance, Command
      <4> QED BY <1>2, <2>1, <4>1 DEF Received, Underway
    <3> QED BY <3>1, <3>2
  <2>4. ~ReceiveBarrier /\ ~ReceiveControl
    BY <2>1 DEF ReceiveBarrier, ReceiveControl, Command, Controls
  <2> QED BY <2>2, <2>3, <2>4
<1> QED BY <1>6, <1>7

\* Receiving a command, or refusing it.
LEMMA AnswerReceived ==
  ASSUME IInv, [Next]_vars, ReceiveAdvance \/ ReceiveBarrier \/ ReceiveControl \/ Refuse
  PROVE  AnswerInv'
<1>1. /\ AnswerInv /\ StageInv /\ TypeOK /\ ReachInv /\ faults \in Nat
      /\ Finished \subseteq Finished' /\ (~Restart => Received \subseteq Received')
  BY FinishedStep, ReceivedStep DEF IInv
<1>2. /\ queue \in Seq(CommandSet) /\ Len(queue) \in Nat /\ sent \in Nat /\ client \in ClientSet
      /\ client.asked \in Nat /\ sent <= requested /\ client.asked <= requested
  BY <1>1, Numbers DEF ReachInv
<1>3. queue # <<>> /\ queue' = Tail(queue) /\ at = "wait" /\ sent' = sent
  BY Zenon DEF ReceiveAdvance, ReceiveBarrier, ReceiveControl, Refuse, Receive, callers
<1>4. /\ Len(queue') = Len(queue) - 1 /\ Head(queue) = queue[1] /\ Len(queue) \in Nat \ {0}
      /\ \A k \in 1..Len(queue') : k + 1 \in 1..Len(queue) /\ queue'[k] = queue[k + 1]
  BY <1>2, <1>3, ChannelTail
<1>5. Received \subseteq Received'
  BY <1>1, ReceiveIsNoRestart
<1>6. job = "advance"
  BY <1>1, <1>3 DEF StageInv
<1>7. \/ sent' \in Received'
      \/ \E j \in 1..Len(queue') : queue'[j].op = "advance" /\ queue'[j].through >= sent'
  <2>1. CASE sent \in Received
    BY <1>3, <1>5, <2>1
  <2>2. CASE Before(sent, Len(queue))
    <3>1. Len(queue) \in 0..Len(queue) /\ Len(queue) - 1 = Len(queue')
      BY <1>2, <1>4
    <3> QED BY <1>2, <1>3, <2>2, <3>1, Shifted
  <2> QED BY <1>1, <2>1, <2>2 DEF AnswerInv
<1>8. CASE Command.op = "advance"
  <2>1. (ReceiveAdvance \/ Refuse) /\ UNCHANGED client
    BY <1>8, Zenon DEF ReceiveAdvance, ReceiveBarrier, ReceiveControl, Refuse, callers, Controls
  <2>2. job' = "advance"
    BY <1>6, <2>1 DEF ReceiveAdvance, Refuse, run
  <2>3. ASSUME NEW k \in 1..Len(queue'), queue'[k].op # "advance"
        PROVE  /\ client'.reply = "waiting"
               /\ \/ client'.asked \in Received'
                  \/ \E j \in 1..k - 1 : queue'[j].op = "advance" /\ queue'[j].through >= client'.asked
               /\ \A i \in 1..Len(queue') : queue'[i].op # "advance" => i = k
    <3>1. k + 1 \in 1..Len(queue) /\ queue[k + 1].op # "advance" /\ k \in 0..Len(queue)
      BY <1>4, <2>3
    <3>2. /\ client.reply = "waiting"
          /\ client.asked \in Received \/ Before(client.asked, (k + 1) - 1)
          /\ \A i \in 1..Len(queue) : queue[i].op # "advance" => i = k + 1
      BY <1>1, <3>1 DEF AnswerInv
    <3>3. (k + 1) - 1 = k
      OBVIOUS
    <3>4. CASE client.asked \in Received
      BY <1>4, <1>5, <2>1, <3>2, <3>4
    <3>5. CASE Before(client.asked, k)
      <4>1. \/ client.asked \in Received'
            \/ \E j \in 1..k - 1 : queue'[j].op = "advance" /\ queue'[j].through >= client.asked
        BY <1>2, <3>1, <3>5, Shifted
      <4> QED BY <1>4, <2>1, <3>2, <4>1
    <3> QED BY <3>2, <3>3, <3>4, <3>5
  <2> QED BY <1>1, <1>7, <2>1, <2>2, <2>3 DEF AnswerInv, Before
<1>9. CASE Command.op # "advance"
  <2>1. /\ client.reply = "waiting"
        /\ client.asked \in Received \/ Before(client.asked, 0)
        /\ \A i \in 1..Len(queue) : queue[i].op # "advance" => i = 1
    <3>1. 1 \in 1..Len(queue) /\ queue[1].op # "advance" /\ 1 - 1 = 0
      BY <1>4, <1>9 DEF Command
    <3> QED BY <1>1, <3>1 DEF AnswerInv
  <2>2. client.asked \in Received
    BY <2>1 DEF Before
  <2>3. \A k \in 1..Len(queue') : queue'[k].op = "advance"
    BY <1>4, <2>1
  <2>4. CASE ReceiveBarrier \/ ReceiveControl
    <3>1. fail = "none"
      BY <2>4 DEF ReceiveBarrier, ReceiveControl, Receive
    <3>2. client.asked \in Finished'
      BY <1>1, <1>3, <2>2, <3>1, Idle
    <3>3. CASE ReceiveBarrier
      <4>1. client'.asked = client.asked /\ client'.reply = "ok" /\ job' = "advance"
        BY <1>2, <1>6, <3>3, ReplyFacts DEF ReceiveBarrier, run
      <4> QED BY <1>7, <2>3, <3>2, <4>1 DEF AnswerInv, Before
    <3>4. CASE ReceiveControl
      <4>1. client' = client
        BY <3>4 DEF ReceiveControl, callers
      <4> QED BY <1>7, <2>1, <2>3, <3>2, <4>1 DEF AnswerInv, Before
    <3> QED BY <2>4, <3>3, <3>4
  <2>5. CASE Refuse
    <3>1. client'.reply = "error" /\ job' = "advance"
      BY <1>2, <1>6, <1>9, <2>5, ReplyFacts DEF Refuse, run
    <3> QED BY <1>7, <2>3, <3>1 DEF AnswerInv, Before
  <2>6. ~ReceiveAdvance
    BY <1>9 DEF ReceiveAdvance
  <2> QED BY <2>4, <2>5, <2>6
<1> QED BY <1>8, <1>9

\* Every step keeps what is owed to callers.
LEMMA AnswerStep ==
  ASSUME IInv, [Next]_vars
  PROVE  AnswerInv'
<1>1. TypeOK /\ StageInv /\ client \in ClientSet
  BY Numbers DEF IInv
<1>a. ASSUME \/ Capture \/ (\E p \in 1..MaxRecords, live \in BOOLEAN : Dispatch(p, live))
             \/ Open \/ TakeLive \/ ReadNext \/ Handle \/ PassOver \/ PrepareChunk \/ AppendOp
             \/ DrainPending \/ CommitInput \/ RecordEvidence \/ Retry \/ ClearEvidence
             \/ UNCHANGED vars
      PROVE  UNCHANGED <<queue, sent, client>> /\ job' \in {job, "advance", "recover"}
  BY <1>a, Zenon DEF Capture, Dispatch, Open, TakeLive, ReadNext, Handle, PassOver, PrepareChunk,
                     AppendOp, DrainPending, CommitInput, RecordEvidence, Retry, ClearEvidence,
                     Rest, vars, callers, inputs, run
<1>b. ASSUME Reached \/ FinishControl \/ \E f \in {"delay", "revision"} : Failed(f)
      PROVE  /\ UNCHANGED <<queue, sent>>
             /\ \/ /\ client' = client
                   /\ job' \in {"control", "controlled"} => job \in {"control", "controlled"}
                \/ /\ job \in {"control", "controlled"} /\ job' = "advance"
                   /\ client'.asked = client.asked
  <2>1. CASE Reached
    <3>1. UNCHANGED <<queue, sent>> /\ job' \in {job, "advance"}
      BY <2>1, Zenon DEF Reached, Rest
    <3>2. CASE job = "controlled"
      <4>1. job' = "advance" /\ client'.asked = client.asked
        BY <1>1, <2>1, <3>2, ReplyFacts DEF Reached, Rest
      <4> QED BY <3>1, <3>2, <4>1
    <3>3. CASE job # "controlled"
      <4>1. client' = client
        BY <2>1, <3>3 DEF Reached
      <4> QED BY <3>1, <4>1
    <3> QED BY <3>2, <3>3
  <2>2. CASE FinishControl
    <3>1. at = "control" /\ UNCHANGED <<queue, sent>>
      BY <2>2 DEF FinishControl
    <3>2. job = "control"
      BY <1>1, <3>1 DEF StageInv
    <3>3. \/ client' = client
          \/ job' = "advance" /\ client'.asked = client.asked
      BY <1>1, <2>2, ReplyFacts DEF FinishControl, Rest
    <3> QED BY <3>1, <3>2, <3>3
  <2>3. CASE \E f \in {"delay", "revision"} : Failed(f)
    <3>1. PICK f \in {"delay", "revision"} : Failed(f)
      BY <2>3
    <3>2. UNCHANGED <<queue, sent>> /\ job' = "advance"
      BY <3>1 DEF Failed, Rest, inputs
    <3>3. CASE job \in {"control", "controlled"}
      <4>1. client'.asked = client.asked
        BY <1>1, <3>1, <3>3, ReplyFacts DEF Failed
      <4> QED BY <3>2, <3>3, <4>1
    <3>4. CASE job \notin {"control", "controlled"}
      <4>1. client' = client
        BY <3>1, <3>4 DEF Failed
      <4> QED BY <3>2, <4>1
    <3> QED BY <3>3, <3>4
  <2> QED BY <1>b, <2>1, <2>2, <2>3
<1>c. CASE Restart
  <2>1. /\ queue' = <<>> /\ sent' = 0 /\ client'.reply = "none" /\ job' = "advance"
    BY <1>c DEF Restart, Rest
  <2>2. 0 \in Finished'
    BY FinishedStep, FinishedStart DEF IInv
  <2> QED BY <2>1, <2>2 DEF AnswerInv, Received
<1>d. CASE ~Restart
  <2>1. ASSUME UNCHANGED <<queue, sent, client>>,
               job' \in {"control", "controlled"} => job \in {"control", "controlled"}
        PROVE  AnswerInv'
    BY <1>d, <2>1, AnswerKept
  <2>2. ASSUME UNCHANGED <<queue, sent>>, job \in {"control", "controlled"}, job' = "advance",
               client'.asked = client.asked
        PROVE  AnswerInv'
    BY <1>d, <2>2, AnswerGiven
  <2> QED BY <1>a, <1>b, <1>d, <2>1, <2>2, AnswerSent, AnswerReceived, FailFacts
          DEF Next, Hand, Work
<1> QED BY <1>c, <1>d
-----------------------------------------------------------------------------
(* The theorems.                                                           *)

LEMMA Start == ASSUME Init PROVE IInv
<1>1. /\ file \in Seq(Kinds) /\ Len(file) \in Nat
      /\ committed = 0 /\ requested = 0 /\ goal = 0 /\ position = 0 /\ taken = 0 /\ reader = -1
      /\ sending = 0 /\ sent = 0 /\ dispatched = 0 /\ base = Len(file) /\ queue = <<>>
      /\ client = [reply |-> "none", asked |-> 0] /\ at = "wait" /\ job = "advance"
      /\ fail = "none" /\ kind = "checkpoint" /\ evidence = "none" /\ pub = NoPublication
  BY TranslationAssumption DEF Init, NoReader
<1>2. TypeOK
  BY <1>1 DEF TypeOK, NoReader, NoPublication, PubFields, ClientSet, Controls
<1>3. Reach = 0 /\ pub.input = 0
  BY <1>1 DEF Reach, Larger, NoPublication
<1>4. ReachInv
  BY <1>1, <1>3 DEF ReachInv
<1>5. StageInv
  BY <1>1, <1>3 DEF StageInv
<1>6. 0 \in Finished
  BY <1>1 DEF Finished
<1>7. BehindInv
  BY <1>1, <1>6 DEF BehindInv, NoReader
<1>8. AnswerInv
  BY <1>1, <1>6 DEF AnswerInv, Received
<1> QED BY <1>2, <1>4, <1>5, <1>7, <1>8 DEF IInv, Init

\* The invariant is inductive: it holds at the start and in every step of the
\* producer, of dispatch, of the callers, of failures and of restarts.
THEOREM Inductive == Spec => []IInv
<1>1. Init => IInv
  BY Start
<1>2. IInv /\ [Next]_vars => IInv'
  BY TypeStep, ReachStep, StageStep, BehindStep, AnswerStep, FaultsStep DEF IInv
<1> QED BY <1>1, <1>2, PTL DEF Spec

\* No event is translated before it was dispatched, although controls share its
\* journal and a control or a recovery works towards all that was requested;
\* and a barrier or a control that is confirmed covers every boundary handed
\* over before it, also the ones a recovering producer has dropped.
THEOREM KeepsBoundaries == Spec => []BoundariesHold
<1>1. IInv => BoundariesHold
  <2> SUFFICES ASSUME IInv PROVE BoundariesHold
    OBVIOUS
  <2>1. TypeOK /\ ReachInv /\ AnswerInv
    BY DEF IInv
  <2>2. ASSUME NEW p \in 1..Larger(committed, position), file[p] = "event"
        PROVE  p <= Larger(base, dispatched)
    <3>1. /\ committed \in Nat /\ position \in Nat /\ Reach \in Nat /\ committed <= Reach
          /\ position <= Reach
      BY <2>1, Numbers, ReachFacts DEF ReachInv
    <3>2. p \in 1..Reach
      BY <3>1 DEF Larger
    <3> QED BY <2>1, <2>2, <3>2 DEF ReachInv
  <2>3. client.reply = "ok" =>
          \A p \in 1..client.asked : file[p] # "foreign" => p <= committed
    BY <2>1 DEF AnswerInv, Finished
  <2> QED BY <2>2, <2>3 DEF BoundariesHold
<1> QED BY <1>1, Inductive, PTL
=============================================================================
