---------------------------- MODULE Translation ----------------------------
(***************************************************************************)
(* The producer of one source session (pipeline/translation.rs, with       *)
(* pipeline/input.rs and pipeline/roots.rs): it follows the source journal *)
(* up to the boundary that dispatch has requested, feeds every record to   *)
(* the agent's translator and publishes what the translator returns.       *)
(*                                                                         *)
(* Records come from a window in memory or, where it has a gap, from the   *)
(* file.  A translator is rebuilt by replaying the committed prefix.  A    *)
(* failure keeps the producer in recovery until it may be retried.         *)
(*                                                                         *)
(* Positions count records.  The log, its receipts and its routes are      *)
(* those of SpanJournal: here a log that only grows.                       *)
(***************************************************************************)
EXTENDS Integers, Sequences, SequencesExt

CONSTANTS
  Spans,
  Output,         \* for each position, the chunks its translation returns
  Histories,      \* journals that an earlier release may have left
  MaxRecords,     \* bound: records of the journal
  Window,         \* RECORD_BUDGET of the window
  Mailbox,        \* capacity of the command channel
  MaxFaults,      \* bound: crashes and failures
  ReplayMayFail   \* storage may fail while a control rebuilds the translator

Controls == {"checkpoint", "retire"}
Kinds == {"event", "foreign", "legacy"} \cup Controls

\* A row, with what matters to the order of rows.
Operation == [id : Nat, span : Spans, parents : Seq(Spans), insert : BOOLEAN,
              defer : BOOLEAN]

ASSUME TranslationAssumption ==
  /\ MaxRecords \in Nat
  /\ Output \in [1..MaxRecords -> Seq(Seq(Operation))]
  /\ \A p \in 1..MaxRecords : Output[p] # <<>>
  /\ Histories \subseteq Seq(Kinds)
  /\ \A h \in Histories : Len(h) <= MaxRecords
  /\ Window \in Nat \ {0}
  /\ Mailbox \in Nat \ {0}
  /\ MaxFaults \in Nat
  /\ ReplayMayFail \in BOOLEAN

\* Operations are numbered as the translator returns them.  A root that may
\* be held back has parents that are not (a span of another session, or the
\* turn of a subagent, translate/opencode.rs).
Returned == UNION {UNION {ToSet(chunk) : chunk \in ToSet(Output[p])} : p \in 1..MaxRecords}
MayBeHeld == {op.span : op \in {o \in Returned : o.insert /\ o.defer}}

ASSUME OutputAssumption ==
  /\ \A p, q \in 1..MaxRecords : \A c \in DOMAIN Output[p], d \in DOMAIN Output[q] :
       \A j \in DOMAIN Output[p][c], k \in DOMAIN Output[q][d] :
         \/ p < q
         \/ p = q /\ c < d
         \/ p = q /\ c = d /\ j < k
         => Output[p][c][j].id < Output[q][d][k].id
  /\ \A op \in Returned : op.span \in MayBeHeld => ToSet(op.parents) \cap MayBeHeld = {}

VARIABLES
  \* durable
  file,        \* kinds of the records: "event", "checkpoint", "retire", and
               \* "foreign" or "legacy" ones of earlier releases
  committed,   \* translated_through
  log,         \* published operations
  partial,     \* operations of the open input that have receipts
  candidates,  \* root_candidates
  evidence,    \* source_failure: "none", "delay" or "revision"
  \* dispatch and callers
  base,        \* length of the journal when this daemon started
  dispatched,  \* last event handed to the session, 0 for none
  sending,     \* boundary whose Advance is waiting for room, 0 for none
  sent,        \* last boundary whose Advance is in the channel
  client,      \* a caller of barrier or control
  \* producer
  queue,       \* command channel
  requested,   \* Progress.requested
  window,      \* SourceInput
  fail,        \* "none", "delay" or "revision": State::Recovering
  recorded,    \* the evidence of this failure is on disk
  at,          \* "wait", "open", "input", "record", "publish", "control"
               \* or "clear"
  job,         \* "advance", "control", "controlled" or "recover"
  goal,        \* `through` of the running advance
  kind,        \* control being appended
  translator,  \* records handled so far, Missing if there is none
  reader,      \* records read by the JournalReader, NoReader if there is none
  position,
  taken,       \* record in hand
  pub,         \* Publication, NoPublication if there is none
  roots,       \* Roots
  faults

durable == <<file, committed, log, partial, candidates, evidence>>
callers == <<base, dispatched, sending, sent, client>>
run == <<at, job, goal, kind>>
inputs == <<queue, requested, window>>
source == <<translator, reader, position, taken>>
failing == <<fail, recorded>>
vars == <<durable, callers, inputs, failing, run, source, pub, roots, faults>>

Missing == <<0>>
NoReader == -1
NoPublication == [input |-> 0, chunk |-> 0, ordinal |-> 0, ops |-> <<>>,
                  prepared |-> FALSE, complete |-> FALSE]
NoRoots == [s \in Spans |-> <<>>]
Larger(a, b) == IF a < b THEN b ELSE a
Fault == faults < MaxFaults /\ faults' = faults + 1
-----------------------------------------------------------------------------
(* Roots: a root that may stay empty is held back until it has a child *)

\* What is held back for the parents of an operation, in their order.
Freed(pending, parents) ==
  FlattenSeq([n \in 1..Len(parents) |->
    IF \E k \in 1..n - 1 : parents[k] = parents[n] THEN <<>> ELSE pending[parents[n]]])

Without(pending, parents) ==
  [s \in Spans |-> IF s \in ToSet(parents) THEN <<>> ELSE pending[s]]

\* Mutant: a child overtakes its root.
StageLate(held, op) ==
  IF held.pending[op.span] # <<>>
  THEN [held EXCEPT !.pending[op.span] = Append(@, op)]
  ELSE IF op.insert /\ op.defer
       THEN [held EXCEPT !.pending[op.span] = <<op>>]
       ELSE [ready |-> Append(held.ready, op) \o Freed(held.pending, op.parents),
             pending |-> Without(held.pending, op.parents)]

\* process_owned, one operation.
Stage(held, op) ==
  LET ready == held.ready \o Freed(held.pending, op.parents)
      pending == Without(held.pending, op.parents)
  IN IF held.pending[op.span] # <<>>
     THEN [held EXCEPT !.pending[op.span] = Append(@, op)]
     ELSE IF op.insert /\ op.defer
          THEN [ready |-> ready, pending |-> [pending EXCEPT ![op.span] = <<op>>]]
          ELSE [ready |-> Append(ready, op), pending |-> pending]

\* process_owned
Staged(pending, ops) ==
  LET staged[n \in 0..Len(ops)] ==
        IF n = 0 THEN [ready |-> <<>>, pending |-> pending]
        ELSE Stage(staged[n - 1], ops[n])
  IN staged[Len(ops)]
-----------------------------------------------------------------------------
(* The window *)

\* SourceInput::push
Push(w, p) == Append(IF Len(w) < Window THEN w ELSE Tail(w), p)

\* SourceInput::take drops what is already consumed ...
Unconsumed == SelectSeq(window, LAMBDA p : p > position)

\* ... and yields only the record at the position, within the boundary.
Live == Unconsumed # <<>> /\ Head(Unconsumed) = position + 1 /\ position < goal
-----------------------------------------------------------------------------
Init ==
  /\ file \in Histories
  /\ committed = 0
  /\ log = <<>>
  /\ partial = 0
  /\ candidates = NoRoots
  /\ evidence = "none"
  /\ base = Len(file)
  /\ dispatched = 0
  /\ sending = 0
  /\ sent = 0
  /\ client = [reply |-> "none", asked |-> 0]
  /\ queue = <<>>
  /\ requested = 0
  /\ window = <<>>
  /\ fail = "none"
  /\ recorded = FALSE
  /\ at = "wait"
  /\ job = "advance"
  /\ goal = 0
  /\ kind = "checkpoint"
  /\ translator = Missing
  /\ reader = NoReader
  /\ position = 0
  /\ taken = 0
  /\ pub = NoPublication
  /\ roots = NoRoots
  /\ faults = 0
-----------------------------------------------------------------------------
(* Capture, dispatch and callers *)

\* Capture appends under the writer's lock; the event is dispatched later.
Capture ==
  /\ Len(file) < MaxRecords
  /\ file' = Append(file, "event")
  /\ UNCHANGED <<committed, log, partial, candidates, evidence, callers>>
  /\ UNCHANGED <<inputs, failing, run, source, pub, roots, faults>>

\* Startup recovery resumes the history, then the events follow one by one.
NextDispatch ==
  {p \in 1..Len(file) :
     \/ p = base /\ dispatched < base /\ committed < base
     \/ /\ dispatched >= base \/ committed >= base
        /\ p > base /\ p > dispatched /\ file[p] = "event"
        /\ \A q \in Larger(base, dispatched) + 1..p - 1 : file[q] # "event"}

\* Ingress pushes a buffered event into the window (an evicted or historical
\* one stays in the file) and Translation::advance raises the boundary.
Dispatch(p, live) ==
  /\ sending = 0
  /\ p \in NextDispatch
  /\ live => p > base
  /\ window' = IF live THEN Push(window, p) ELSE window
  /\ dispatched' = p
  /\ requested' = Larger(requested, p)
  /\ sending' = p
  /\ UNCHANGED <<durable, base, sent, client, queue, failing, run, source>>
  /\ UNCHANGED <<pub, roots, faults>>

SendAdvance ==
  /\ sending # 0
  /\ Len(queue) < Mailbox
  /\ queue' = Append(queue, [op |-> "advance", through |-> sending])
  /\ sent' = sending
  /\ sending' = 0
  /\ UNCHANGED <<durable, base, dispatched, client, requested, window>>
  /\ UNCHANGED <<failing, run, source, pub, roots, faults>>

\* A session's barrier, flush (checkpoint) or retirement.
Ask(op) ==
  /\ client.reply # "waiting"
  /\ sending = 0
  /\ Len(queue) < Mailbox
  /\ queue' = Append(queue, [op |-> op, through |-> 0])
  /\ client' = [reply |-> "waiting", asked |-> sent]
  /\ UNCHANGED <<durable, base, dispatched, sending, sent, requested, window>>
  /\ UNCHANGED <<failing, run, source, pub, roots, faults>>
-----------------------------------------------------------------------------
(* Commands *)

\* The command is done with.
Rest ==
  /\ at' = "wait"
  /\ job' = "advance"
  /\ goal' = 0
  /\ kind' = "checkpoint"

Receive(state) ==
  /\ at = "wait"
  /\ fail \in state
  /\ queue # <<>>
  /\ queue' = Tail(queue)
Command == Head(queue)
Reply(r) == client' = [client EXCEPT !.reply = r]

\* A boundary already committed needs no translator.
ReceiveAdvance ==
  /\ Receive({"none"})
  /\ Command.op = "advance"
  /\ IF translator = Missing /\ Command.through <= committed
     THEN UNCHANGED run
     ELSE /\ at' = "open"
          /\ job' = "advance"
          /\ goal' = Command.through
          /\ UNCHANGED kind
  /\ UNCHANGED <<durable, callers, requested, window, failing, source, pub>>
  /\ UNCHANGED <<roots, faults>>

ReceiveBarrier ==
  /\ Receive({"none"})
  /\ Command.op = "barrier"
  /\ Reply("ok")
  /\ UNCHANGED <<durable, base, dispatched, sending, sent, requested, window>>
  /\ UNCHANGED <<failing, run, source, pub, roots, faults>>

ReceiveControl ==
  /\ Receive({"none"})
  /\ Command.op \in Controls
  /\ at' = "open"
  /\ job' = "control"
  /\ kind' = Command.op
  /\ UNCHANGED <<durable, callers, requested, window, failing, goal, source>>
  /\ UNCHANGED <<pub, roots, faults>>

\* Mutant: a control follows the file past what was dispatched.
AppendControlAnyway(k) ==
  /\ Len(file) < MaxRecords
  /\ file' = Append(file, k)
  /\ window' = Push(window, Len(file) + 1)
  /\ requested' = Larger(requested, Len(file) + 1)

\* append_control: not while a captured record lies ahead of the producer.
AppendControl(k) ==
  IF Len(file) > position THEN UNCHANGED <<file, window, requested>>
  ELSE /\ Len(file) < MaxRecords
       /\ file' = Append(file, k)
       /\ window' = Push(window, Len(file) + 1)
       /\ requested' = Larger(requested, Len(file) + 1)

\* Mutant: a recovering producer confirms its barriers.
RefuseNothing ==
  /\ Receive({"delay", "revision"})
  /\ IF Command.op = "advance" THEN UNCHANGED client ELSE Reply("ok")
  /\ IF Command.op \in Controls THEN AppendControl(Command.op)
                                ELSE UNCHANGED <<file, window, requested>>
  /\ UNCHANGED <<committed, log, partial, candidates, evidence>>
  /\ UNCHANGED <<base, dispatched, sending, sent, failing, run, source, pub>>
  /\ UNCHANGED <<roots, faults>>

\* While it recovers, the producer drops advances, refuses barriers, and
\* stores controls that it can place.
Refuse ==
  /\ Receive({"delay", "revision"})
  /\ IF Command.op = "advance" THEN UNCHANGED client ELSE Reply("error")
  /\ IF Command.op \in Controls THEN AppendControl(Command.op)
                                ELSE UNCHANGED <<file, window, requested>>
  /\ UNCHANGED <<committed, log, partial, candidates, evidence>>
  /\ UNCHANGED <<base, dispatched, sending, sent, failing, run, source, pub>>
  /\ UNCHANGED <<roots, faults>>
-----------------------------------------------------------------------------
(* Advance *)

\* Mutant: the held roots are forgotten with the translator.
InitializeBare ==
  /\ translator' = IF translator = Missing THEN <<>> ELSE translator
  /\ roots' = IF translator = Missing THEN NoRoots ELSE roots
  /\ position' = IF translator = Missing THEN 0 ELSE position
  /\ reader' = IF translator # Missing THEN reader
               ELSE IF committed > 0 THEN 0 ELSE NoReader

\* A new translator starts from the beginning of the journal.
Initialize ==
  /\ translator' = IF translator = Missing THEN <<>> ELSE translator
  /\ roots' = IF translator = Missing THEN candidates ELSE roots
  /\ position' = IF translator = Missing THEN 0 ELSE position
  /\ reader' = IF translator # Missing THEN reader
               ELSE IF committed > 0 THEN 0 ELSE NoReader

\* Mutant: recovery goes on to the boundary of the failed command only.
OpenStale ==
  /\ at = "open"
  /\ at' = "input"
  /\ Initialize
  /\ goal' = IF job = "recover" THEN committed
             ELSE Larger(IF job = "control" THEN requested ELSE goal, committed)
  /\ UNCHANGED <<durable, callers, inputs, failing, job, kind, taken, pub>>
  /\ UNCHANGED faults

\* control and recovery work towards everything requested so far.
Open ==
  /\ at = "open"
  /\ at' = "input"
  /\ Initialize
  /\ goal' = Larger(IF job \in {"control", "recover"} THEN requested ELSE goal,
                    committed)
  /\ UNCHANGED <<durable, callers, inputs, failing, job, kind, taken, pub>>
  /\ UNCHANGED faults

\* next_input from the window ...
TakeLive ==
  /\ at = "input"
  /\ Live
  /\ taken' = Head(Unconsumed)
  /\ window' = Tail(Unconsumed)
  /\ reader' = NoReader
  /\ at' = "record"
  /\ UNCHANGED <<durable, callers, queue, requested, failing, job, goal, kind>>
  /\ UNCHANGED <<translator, position, pub, roots, faults>>

Following == (IF reader = NoReader THEN position ELSE reader) + 1

\* ... or from the file.
ReadNext ==
  /\ at = "input"
  /\ ~Live
  /\ position < goal
  /\ Following <= goal
  /\ reader' = Following
  /\ taken' = Following
  /\ window' = Unconsumed
  /\ at' = "record"
  /\ UNCHANGED <<durable, callers, queue, requested, failing, job, goal, kind>>
  /\ UNCHANGED <<translator, position, pub, roots, faults>>

\* The boundary is reached; what the command does next.
Reached ==
  /\ at = "input"
  /\ ~Live
  /\ position >= goal \/ Following > goal
  /\ window' = Unconsumed
  /\ CASE job = "control" -> at' = "control" /\ UNCHANGED <<job, goal, kind>>
       [] job = "recover" -> at' = "clear" /\ UNCHANGED <<job, goal, kind>>
       [] OTHER -> Rest
  /\ IF job = "controlled" THEN Reply("ok") ELSE UNCHANGED client
  /\ UNCHANGED <<durable, base, dispatched, sending, sent, queue, requested>>
  /\ UNCHANGED <<failing, source, pub, roots, faults>>

\* A retirement is not repeated when the translator is rebuilt.
Translated(p) ==
  \/ file[p] \in {"event", "checkpoint"}
  \/ file[p] = "retire" /\ p > committed

\* The record is handled; its first chunk is to be published.
Handle ==
  /\ at = "record"
  /\ Translated(taken)
  /\ translator' = Append(translator, taken)
  /\ pub' = [NoPublication EXCEPT !.input = taken, !.chunk = 1,
                                  !.ops = Output[taken][1]]
  /\ taken' = 0
  /\ at' = "publish"
  /\ UNCHANGED <<durable, callers, inputs, failing, job, goal, kind>>
  /\ UNCHANGED <<reader, position, roots, faults>>

\* Another source's event and a repeated retirement are passed over; a
\* checkpoint of a released daemon only moves the committed boundary.
PassOver ==
  /\ at = "record"
  /\ ~Translated(taken)
  /\ committed' = IF file[taken] = "legacy" THEN Larger(committed, taken)
                  ELSE committed
  /\ position' = taken
  /\ taken' = 0
  /\ at' = "input"
  /\ UNCHANGED <<file, log, partial, candidates, evidence, callers, inputs>>
  /\ UNCHANGED <<failing, job, goal, kind, translator, reader, pub>>
  /\ UNCHANGED <<roots, faults>>
-----------------------------------------------------------------------------
(* Publish *)

New == pub.input > committed

\* Origins, observers and roots; only a new input is staged.
PrepareChunk ==
  LET held == Staged(roots, pub.ops) IN
  /\ at = "publish"
  /\ ~pub.complete /\ ~pub.prepared
  /\ roots' = IF New THEN held.pending ELSE roots
  /\ pub' = [pub EXCEPT !.prepared = TRUE,
                        !.ops = IF New THEN held.ready ELSE @]
  /\ UNCHANGED <<durable, callers, inputs, failing, run, source, faults>>

\* append_live: an operation that has its receipt is recognised.
AppendOp ==
  /\ at = "publish"
  /\ pub.prepared /\ New /\ pub.ops # <<>>
  /\ IF pub.ordinal < partial THEN UNCHANGED <<log, partial>>
     ELSE log' = Append(log, Head(pub.ops)) /\ partial' = partial + 1
  /\ pub' = [pub EXCEPT !.ops = Tail(@), !.ordinal = @ + 1]
  /\ UNCHANGED <<file, committed, candidates, evidence, callers, inputs>>
  /\ UNCHANGED <<failing, run, source, roots, faults>>

\* drain_pending
DrainPending ==
  /\ at = "publish"
  /\ pub.prepared
  /\ New => pub.ops = <<>>
  /\ IF pub.chunk < Len(Output[pub.input])
     THEN pub' = [pub EXCEPT !.chunk = @ + 1, !.prepared = FALSE,
                             !.ops = Output[pub.input][pub.chunk + 1]]
     ELSE pub' = [pub EXCEPT !.complete = TRUE, !.prepared = FALSE,
                             !.ops = <<>>]
  /\ UNCHANGED <<durable, callers, inputs, failing, run, source, roots, faults>>

\* commit_with_roots: output, input and roots become durable together.
CommitInput ==
  /\ at = "publish"
  /\ pub.complete
  /\ committed' = Larger(committed, pub.input)
  /\ partial' = IF New THEN 0 ELSE partial
  /\ candidates' = IF New THEN roots ELSE candidates
  /\ position' = pub.input
  /\ pub' = NoPublication
  /\ at' = IF job = "recover" THEN "open" ELSE "input"
  /\ UNCHANGED <<file, log, evidence, callers, inputs, failing, job, goal>>
  /\ UNCHANGED <<kind, translator, reader, taken, roots, faults>>

\* control, second half.
FinishControl ==
  /\ at = "control"
  /\ AppendControl(kind)
  /\ IF file' = file THEN Rest /\ Reply("ok")
     ELSE /\ at' = "open"
          /\ job' = "controlled"
          /\ goal' = Len(file')
          /\ UNCHANGED <<kind, client>>
  /\ UNCHANGED <<committed, log, partial, candidates, evidence>>
  /\ UNCHANGED <<base, dispatched, sending, sent, queue, failing>>
  /\ UNCHANGED <<source, pub, roots, faults>>
-----------------------------------------------------------------------------
(* Failure and recovery *)

\* The phase still says Translation when origins are read for a chunk that
\* follows another, or for a replayed record: its failure waits for a new
\* release of the daemon.
ReadsOriginsLate ==
  /\ at = "publish"
  /\ ~pub.complete /\ ~pub.prepared
  /\ pub.chunk > 1 \/ ~New

Failed(f) ==
  /\ fail' = f
  /\ recorded' = FALSE
  /\ Rest
  /\ taken' = 0
  /\ IF job \in {"control", "controlled"} THEN Reply("error")
                                         ELSE UNCHANGED client
  /\ UNCHANGED <<durable, base, dispatched, sending, sent, inputs>>
  /\ UNCHANGED <<translator, reader, position, pub, roots>>

\* A read or a write of the journals fails.
StorageFails ==
  /\ Fault
  /\ CASE at = "input" -> ~Live /\ position < goal
       [] at = "record" ->
            /\ \/ file[taken] \in {"event", "foreign"}
               \/ file[taken] = "legacy" /\ taken > committed
            /\ reader # NoReader /\ requested <= committed => ReplayMayFail
       [] at = "publish" -> ~pub.prepared \/ New
       [] OTHER -> at # "wait"
  /\ \/ Failed("delay")
     \/ ReadsOriginsLate /\ Failed("revision")

\* The translator returns an error.
TranslatorFails ==
  /\ Fault
  /\ \/ at = "record" /\ Translated(taken)
     \/ at = "publish" /\ pub.prepared /\ (New => pub.ops = <<>>)
  /\ Failed("revision")

RecordEvidence ==
  /\ at = "wait"
  /\ fail # "none"
  /\ ~recorded
  /\ evidence' = fail
  /\ recorded' = TRUE
  /\ UNCHANGED <<file, committed, log, partial, candidates, callers, inputs>>
  /\ UNCHANGED <<fail, run, source, pub, roots, faults>>

\* Mutant: the translator is not rebuilt before work is tried again.
RetryInPlace ==
  /\ at = "wait"
  /\ fail = "delay"
  /\ recorded
  /\ fail' = "none"
  /\ job' = "recover"
  /\ at' = IF pub = NoPublication THEN "open" ELSE "publish"
  /\ UNCHANGED <<durable, callers, inputs, recorded, goal, kind, source, pub>>
  /\ UNCHANGED <<roots, faults>>

\* A publication is continued; otherwise pending work starts from a new
\* translator.
Retry ==
  /\ at = "wait"
  /\ fail = "delay"
  /\ recorded
  /\ fail' = "none"
  /\ job' = "recover"
  /\ at' = IF pub = NoPublication THEN "open" ELSE "publish"
  /\ IF pub = NoPublication /\ requested > committed
     THEN /\ translator' = Missing
          /\ reader' = NoReader
          /\ position' = 0
     ELSE UNCHANGED <<translator, reader, position>>
  /\ UNCHANGED <<durable, callers, inputs, recorded, goal, kind, taken, pub>>
  /\ UNCHANGED <<roots, faults>>

ClearEvidence ==
  /\ at = "clear"
  /\ evidence' = "none"
  /\ recorded' = FALSE
  /\ Rest
  /\ UNCHANGED <<file, committed, log, partial, candidates, callers, inputs>>
  /\ UNCHANGED <<fail, source, pub, roots, faults>>

\* The daemon dies and is started again, perhaps by a newer release, which
\* may retry what waits for one.
Restart ==
  /\ Fault
  /\ fail' \in IF evidence = "revision" THEN {"revision", "delay"}
               ELSE {evidence}
  /\ recorded' = FALSE
  /\ base' = Len(file)
  /\ dispatched' = 0
  /\ sending' = 0
  /\ sent' = 0
  /\ client' = [reply |-> "none", asked |-> 0]
  /\ queue' = <<>>
  /\ requested' = committed
  /\ window' = <<>>
  /\ Rest
  /\ translator' = Missing
  /\ reader' = NoReader
  /\ position' = 0
  /\ taken' = 0
  /\ pub' = NoPublication
  /\ roots' = NoRoots
  /\ UNCHANGED durable
-----------------------------------------------------------------------------
Work ==
  \/ ReceiveAdvance \/ ReceiveBarrier \/ ReceiveControl \/ Refuse
  \/ Open \/ TakeLive \/ ReadNext \/ Reached \/ Handle \/ PassOver
  \/ PrepareChunk \/ AppendOp \/ DrainPending \/ CommitInput \/ FinishControl
  \/ RecordEvidence \/ Retry \/ ClearEvidence

Hand ==
  \/ \E p \in 1..MaxRecords, live \in BOOLEAN : Dispatch(p, live)
  \/ SendAdvance

Next ==
  \/ Capture
  \/ Hand
  \/ \E op \in {"barrier"} \cup Controls : Ask(op)
  \/ Work
  \/ StorageFails
  \/ TranslatorFails
  \/ Restart

Spec == Init /\ [][Next]_vars

\* The producer and the dispatch of what was captured do not stop on their
\* own, and each round of a recovering producer considers a retry, whatever
\* commands keep arriving.
Fairness == WF_vars(Hand) /\ WF_vars(Work) /\ WF_vars(RecordEvidence \/ Retry)

FairSpec == Spec /\ Fairness
-----------------------------------------------------------------------------
(* Properties *)

\* The operations that the translation of a journal's first n records returns.
Emitted(journal, n) ==
  FlattenSeq([p \in 1..n |-> IF journal[p] \in {"event"} \cup Controls
                             THEN FlattenSeq(Output[p]) ELSE <<>>])

\* What the translation of the first n records is, done in one go.
Reference(n) == Staged(NoRoots, Emitted(file, n))

\* What was emitted for a held root before its first child is published
\* before that child (operations are numbered as they are emitted).
RootBeforeChildren ==
  \A j, k \in 1..Len(log) :
    j < k /\ log[k].span \in ToSet(log[j].parents) => log[k].id > log[j].id

\* Whatever fails and is retried, the log is the translation of the committed
\* records, each operation once and in order, with its held roots beside it;
\* beyond it there is only a prefix of the next input, and what was emitted for
\* a held root before its first child comes before that child.
LogIsTranslation ==
  /\ candidates = Reference(committed).pending
  /\ SubSeq(log, 1, Len(log) - partial) = Reference(committed).ready
  /\ \E n \in committed..Len(file) : IsPrefix(log, Reference(n).ready)
  /\ RootBeforeChildren

\* The records that shape the translator's state, up to the nth.
Shaping(n) == {p \in 1..n : file[p] \in {"event", "checkpoint"}}

\* "Replaying a journal MUST converge on the same logical spans": a
\* translator has handled the records of its journal up to the position in
\* their order, none skipped and none twice.  Retirements do not count.
ExactHistory ==
  translator # Missing =>
    /\ \A j, k \in DOMAIN translator : j < k => translator[j] < translator[k]
    /\ {p \in ToSet(translator) : file[p] # "retire"} =
         Shaping(IF pub = NoPublication THEN position ELSE pub.input)

\* "Chasing the file here can reorder parent/child processing": no event is
\* translated before it was dispatched, although controls share its journal;
\* and a barrier or a control that is confirmed covers every boundary handed
\* over before it, also the ones a recovering producer has dropped.
BoundariesHold ==
  /\ \A p \in 1..Larger(committed, position) :
       file[p] = "event" => p <= Larger(base, dispatched)
  /\ client.reply = "ok" =>
       \A p \in 1..client.asked : file[p] # "foreign" => p <= committed
=============================================================================
