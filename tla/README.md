# Verification of the Braintrust coding-agent daemon

This directory holds TLA+ specifications of `bt-daemon`, the process that
records what coding agents (Claude Code, Codex, Cursor, OpenCode, Pi, Grok,
Antigravity, Muse) do and delivers it as tracing spans to Braintrust. The
specifications are translated from the Rust source under
`src/bt-daemon/src`; file names below are relative to it.

## 1. Inventory

### How an event travels

    hook process --event.log RPC--> capture --ack--> (hook exits)
        capture:   per-session lock, append to the source journal, sync
        ingress:   bounded buffer -> worker (journal is the overflow queue)
        correlate: is this session the child of another agent's tool call?
        configure: credentials lease, delivery route
        Session:   one actor per (source, session, route)
        Translation: one producer per source session; events -> span operations
        SpanJournal: SQLite log of operations, one durable head per route
        Cursor/Consumer: one per route; live queue or replay from SQLite
        RoutingSink: prepare, plugins, submission
        LedgerSink: delivery ledger, skips spans another life delivered
        Braintrust sink: batches, uploads

Every arrow after the acknowledgement may be cut by a crash; the daemon
promises that what was acknowledged is delivered, in order, to every route
that was registered for it. Sections 3 to 10 follow the event upwards from the
durable channel in the middle, and section 11 the transcripts that events refer
to; section 12 lists where the code and its documentation part, section 13 what
is proved and what is only checked, and section 14 what is left out.

| Component | Source | State | Operations | Hard part |
|---|---|---|---|---|
| Hook client, handover | `hook.rs`, `client.rs`, `transport.rs` | none | forward an event, start or replace a daemon | a daemon that is shutting down refuses captures |
| Capture and ingress | `server/ingress.rs`, `server/mod.rs` | capture buffer, evicted ranges, capture gate, startup cutoffs | capture, wake, drain, replay evicted, barrier, stop | overflow, startup races with capture, shutdown |
| Source journal | `journal.rs` | append-only file per source session | append event / control, read bounded range, GC | torn tail, bound of a reader |
| Startup recovery | `server/recovery.rs` | candidates | discover unprocessed journals, dispatch | races with live captures |
| Correlation | `correlation.rs`, `server/correlation_store.rs` | active tools, process lineage, pending sessions, decisions on disk | observe, resolve parent, retry pending, expire | decision must be stable across restarts |
| Sessions | `dispatch.rs`, `server/sessions.rs` | session actor per route, locks, writers | create, enqueue, flush, retire | retire against capture |
| Auth | `server/auth.rs` | leases per delivery key | resolve, refresh | stale lease, concurrent refresh |
| Translation producer | `pipeline/translation.rs`, `pipeline/input.rs` | requested / committed position, translator, in-memory input window | observe, advance, publish, control, recover | crash in mid-input, two inputs (memory and file) |
| **Span journal** | `pipeline/journal.rs`, `pipeline/live.rs` | SQLite tables, live queues, watches | begin, append, commit, subscribe, receive, acknowledge, prune | see section 3 |
| Route consumer | `pipeline/consumer.rs`, `pipeline/recovery.rs`, `pipeline/routing.rs` | pending deliveries, held work | emit, flush, hold, retry, stop | partial failure, cancellation |
| Delivery ledger | `delivery_ledger.rs` | ledger file of delivered row versions | load, refresh, should_emit, record, commit | several writers, torn tail |
| Maintenance | `server/maintenance.rs` | retention | collect partitions, reap idle sessions, drain | GC against capture |
| Transcript mirror | `transcript_mirror.rs`, `server/claude_transcripts.rs` | copies of agents' transcripts, generations, observers of transcripts | capture, poll, sweep | files that grow, are rewritten or vanish while events refer to them |
| Transcript import | `transcript_import/` | none | parse, deliver | second writer of the ledger |
| Translators | `translate/` | open turns, tools, LLM spans | one handler per agent event | missing, late or repeated events |
| Setup, managed runs, CLI | `setup/`, `managed_run/`, `muse/`, `args.rs`, ... | agents' configuration files | install, uninstall, run | pure file editing |

## 2. Modules

| Module | Part of the system | Checked by | Proofs |
|---|---|---|---|
| `SpanJournal`, abstract `RetainedLog` | durable channel between translation and routes | `journal_channel`, `journal_stall` | `SpanJournalProof` |
| `Ingress` | capture, overflow, startup recovery, flush, shutdown | `ingress_capture` | `IngressProof` |
| `SourceJournal` | bytes of the append-only file | `journal_torn` | |
| `DeliveryLedger` | ledger shared by routes and imports, the consumer around it | `ledger_shared`, `ledger_late_write` | `DeliveryLedgerProof` |
| `Translation` | producer of one source session | `translation_safety` | `TranslationProof`, `TranslatedLogProof` |
| `SpanTree`, `Translators`, one module per agent | what operations the events of an agent become | `translators_contract` | |
| `ParentRegistry`, `Correlation` | whose child a session is | `correlation_links` | `CorrelationProof` |
| `Sessions` | dispatch locks, producers, retirement, retention | `sessions_life` | `SessionsProof` |
| `Handover` | hooks, daemons of several versions, the endpoint | `handover` | `HandoverProof` |
| `TranscriptMirror` | copies of transcripts, references to them, their reading and their deletion | `mirror_kept` | |

`MC*` modules and `.cfg` files hold the instances. Each module abstracts its
neighbours to the interface between them: the source journal of `Ingress` is the
`file` of `Translation` and the `log` of `Sessions`; the boundary `Ingress` gives
away (`advanced`) is `requested` in `Translation`; the log of `Translation` is that
of `SpanJournal`; a delivery of `SpanJournal` is the work of a writer in
`DeliveryLedger`; the translators are the constant `Output` of `Translation`; what a
hook finds of a transcript in the translators is what `TranscriptMirror` gives its
event. The modules that are proved about declare no recursive operator and reach none.

What the plan has left: proofs of the translators' invariants and of
`TranscriptMirror`; then the credential leases with the recovery conditions and the
deferral of provisional roots.

## 3. Span journal: `SpanJournal`, `RetainedLog`

`SpanJournal` is the channel between the translation of one source session and
its delivery routes. Every guarantee of delivery rests on it.

| Model | Code |
|---|---|
| `batch`, `ops`, `receipts`, `tail`/`floor`, `head`, `failure` | SQLite tables `batches`, `ops`, `receipts`, `publication`, `heads` of `pipeline/journal.rs` |
| `log` | what was ever stored at a position (history; `ops` says which rows are left) |
| `pub`, `ordinal` | the `Publication` the producer of `pipeline/translation.rs` works on |
| `sending`, `fan`, `changed` | `Multiplexer::publish` in progress, the `changed` watch |
| `live`, `queued`, `paused` | `pipeline/live.rs` queue, `Cursor.queued`, the pause flag |
| `phase`, `read`, `abandoned`, `fetched`, `pend` | the route's `Cursor` and the obligations its consumer holds |
| `owed`, `exported` | history: what a registered route must get, what its backend took |

Actions follow the code's transactions and await points: a producer step is one
SQLite transaction or one send, `ReplayRead` and `ReplayDeliver` are the two
sides of the await on SQLite in `next_shared`, `Prune` is part of `Commit` and
`Complete` because it runs in their transactions. `Crash` and `StopRoute` may
happen between any two steps.

`RetainedLog` is the promise: records are kept until every registered route has
acknowledged them, and a route acknowledges only runs its backend accepted.
`ImplementsRetainedLog` maps the tail to `published`, the floor to `trimmed`
and the heads to `acked`.

* `journal_channel`: two routes, one input of two operations in two transactions,
  released checkpoints, live queues of two records, one fault of any kind (crash,
  failed or deferred flush, changed settings, stopped route), two deliveries
  pending. A crash, a late subscription and a prune fall between the transactions,
  and a route that lags overtakes its queue by a replay. Nothing owed is lost, the
  log is ordered and complete, acknowledgements are exact, a replay finds its next
  row, the module implements `RetainedLog`, and under `FairSpec` everything owed is
  delivered and acknowledged.
* `journal_stall` (violation): with a queue of one record and no fault the
  publisher can wait for a cursor that waits for the publisher; see section 12.
  Larger instances are covered, for safety, by the proofs below.

Fairness: `Produce`, the consumer of each route, and the reconnection of a
registered route are weakly fair, each on its own. They are separate tokio
tasks that never block a thread; a registered route is subscribed again by the
session's next event or by startup recovery. Faults, new routes and settings
changes are never assumed to happen.

### Proofs: `SpanJournalProof`

Proved with TLAPS for every set of routes, number of inputs, operations,
queue capacity and fault budget, from `JournalAssumption` alone (the constants
are numbers and sets of the right kind):

| Theorem | Statement |
|---|---|
| `Inductive` | `Spec => []IInv` |
| `TypeCorrect` | `Spec => []TypeOK` |
| `LogFaithful` | the log never repeats, reorders or omits an operation |
| `OwedIsKept` | `Spec => []NothingOwedIsLost` |
| `AcknowledgementsExact` | an acknowledgement continues exactly at the head |
| `ReplayFinds` | a cursor that is behind finds its next row |
| `Refinement` | `Spec => ImplementsRetainedLog` |

None of the properties is inductive. That a row is still there (`NothingOwedIsLost`)
needs the retained rows to be exactly those above the floor and no head to be
below it (`LogInv`); that a head only passes accepted rows needs the pending
deliveries to form a chain from the head to `read` (`ChainInv`), which needs
`read` to be the head whenever nothing is pending and nothing was abandoned
(`CursorInv`). Order and completeness need receipts to be a prefix of their
input's operations and to outlive its commit (`ReceiptInv`), and inputs to be
published one after the other (`BatchInv`). `IInv` is their conjunction; each part
has a lemma for the actions that touch its variables, and `Inductive` combines them.

## 4. Capture and ingress: `Ingress`, `SourceJournal`

`Ingress` follows an event from its hook to the boundary that the translation
is given.

| Model | Code |
|---|---|
| `journal` | the source journal, as a sequence of records |
| `cap[c]` | one `capture_event` (`server/ingress.rs`): gate, lock, cutoff, append, push, wake |
| `buffer`, `evicted` | `CaptureBuffer` |
| `mailbox`, `task`, `msg`, `readers` | the ingress channel and the task that drains the buffer |
| `cutoffs`, `snapshot`, `bound`, `todo`, `finding` | startup recovery, `server/recovery.rs` |
| `gate`, `quiescing`, `drain` | `capture_gate` and `drain_all` (`server/maintenance.rs`) |
| `advanced`, `committed` | the boundary given to the translation, and the one it reached |
| `base`, `order`, `acked`, `asked` | history |

Events are positions; capture of one event is six steps so that two hooks of one
source, recovery and shutdown interleave with it. `Observers` capture without
the gate, as transcript observers do. `Translate` stands for the translation
producer.

* `ingress_capture`: two hooks and an observer, two sources, a buffer and a channel
  of one place each; six plans combine two hooks or two records of one hook with a
  crash or failed replay, a shutdown, or both. A second event overflows the buffer,
  so ranges are evicted and merged while more events arrive; a restart finds
  events of both lives. Dispatch is in source order without gaps or repetitions,
  recovery dispatches exactly the history, a flush covers what was acknowledged
  before it, a settled shutdown leaves nothing acknowledged behind, and under
  `FairSpec` what is acknowledged is translated.
* `journal_torn` (violation): `SourceJournal` refines the append into its writes;
  a torn line makes a later acknowledged record unreadable; see section 12.

Fairness: a capture that has started, recovery, the worker, each translation,
the drain once quiescing, and a restart by the next client. Clients, observers,
shutdowns and faults are free.

`AcknowledgedIsTranslated` says that again and again everything acknowledged has been
translated. As `acked` only grows, each event that is acknowledged is then translated
later; the single formula spares TLC a search for every event.

### Proofs: `IngressProof`

For any sources, hooks, observers, capacities and plans (`IngressAssumption`: the
capacities are positive and the plans are numbers of the right kind):

| Theorem | Statement |
|---|---|
| `Inductive` | `Spec => []Inv` |
| `DispatchesInOrder` | `Spec => []DispatchedInSourceOrder` |
| `RecoversHistory` | `Spec => []RecoveryIsHistory` |
| `FlushCovers` | `Spec => []FlushCoversAcknowledged` |
| `ShutdownSettles` | `Spec => []ShutdownSettlesAcknowledged` |

Order is a fact about everything that is on its way: `LineInv` says that for each
source the entry in hand, the range under replay, the buffer and the evicted range,
in this order, are consecutive and continue what was dispatched. It needs that
positions are given under the session lock (`LockInv`), that the buffer is sorted
(`BufferInv`), that cutoffs separate recovery from live captures (`FindingInv`,
`RecoveredInv`), and that nothing survives a daemon that is down (`DownInv`). Flush
and shutdown need where an acknowledged event still is (`AckInv`), and the gate:
once it is held no capture is inside (`GateInv`).

## 5. Delivery: `DeliveryLedger`

`DeliveryLedger` follows a row from the cursor of a route, or from a transcript
import in another process, through the ledger to the backend.

| Model | Code |
|---|---|
| `file`, `index`, `lock` | ledger file, `OriginIndex`, OS file lock (`delivery_ledger.rs`, `delivery_ledger/origins.rs`) |
| `seen`, `known`, `births`, `pending` | `DeliveryLedger` fields of each writer |
| `at`, `batch`, `read`, `head` | the consumer (`pipeline/consumer.rs`) or import around it |
| `queued`, `rejected`, `backend` | the SDK's queue and the destination (external) |
| `adrift` | a file write of an aborted task |

What a reader learns from the file is stated directly: the origin of a span is the
first one a whole record gives, its delivered rows are those any whole record
names. The lock is taken and released where the code does, and nothing holds it
while rows are uploaded.

* `ledger_shared`: a route and an import of the same session, two spans, batches of
  two, a fresh ledger or one of a release that kept no origins, and one fault (crash,
  failed append, rejected row) or one aborted shutdown, under `FairSpec`. A span has one
  provenance for ever, an update is not hidden by an older one, the ledger claims
  nothing the destination has not accepted and keeps its records unless a sink was
  aborted, a route's head passes nothing unsent, and every input is acknowledged.
* `ledger_late_write` (violation): an aborted append can overwrite a record; see
  section 12.

Fairness: each writer and the SDK's uploader, which are tasks of their own.

Abstractions: all routes of a session share the origin captured with the
event, an import uses the versions of its run; a run may be repeated with others.
`Lose` keeps or drops the rows in the SDK, because a client may be shared between
sinks. The deferral of provisional roots inside the sink (`delivery_ledger.rs:577`) is
left out (`pipeline/roots.rs` strips its marker before publication), and so is an
attached external parent.

`LatestWins` says what the destination shows once an update is acknowledged. It is
stated for spans whose updates come from one writer (`OneVersionedWriter`): the lock is
released before the upload (`delivery_ledger.rs:567`), so the code promises no order
between two. And it counts an enrichment as up to date (`UpToDate`): `version_allowed`
lets an update with the native id of the newest through whatever its time
(`delivery_ledger.rs:307-312`), so what is shown is of the acknowledged time or later, or
carries the id of an operation that has such an update. The route of the instance ends
with an enrichment of its newest turn; after two enrichments in a row not even the id
of the acknowledged update need be shown.

### Proofs: `DeliveryLedgerProof`

For any routes, imports, spans, inputs, batch sizes and limits. `LedgerAssumption` types
the constants. `InputAssumption` says that the first operation of a span inserts it and
is no late merge, as the translators emit them (`translate/muse.rs:147`,
`translate/codex.rs:1550`); a merge whose span was never opened would have no
provenance to agree with. It also says that an aggregate update is a late merge and that
the key of one holds its time (`translate/muse.rs:320-321`, `421-422`), because what the
ledger suppresses by key it must not hold back from its version.

| Theorem | Statement |
|---|---|
| `StagesAreInvariant` | `Spec => []Base`: types, who holds the lock, what each writer has read |
| `ProvenanceIsInvariant` | `Spec => []ProvenanceInv` |
| `ProvenanceIsStable` | `Spec => []StableProvenance` |
| `FaithIsInvariant` | `Spec => [](FaithInv /\ ReadInv)` |
| `LedgerStaysFaithful` | `Spec => []LedgerIsFaithful` |
| `AcknowledgedIsNotLost` | `Spec => []NothingLost` |
| `OrderIsInvariant` | `Spec => []OrderInv` |
| `LatestIsShown` | `Spec => []LatestWins` |

`Base` has the stages of a writer: whoever appends holds the lock and has read all
that anyone has (`SeenInv`). Provenance then needs an agreement of everything that can
still become a row: as long as no sink was aborted, the file is whole records with at
most one torn tail, the origins of the index are the first ones in the file, and every
row that is batched, queued or uploaded carries the origin settled for its span
(`StampInv`). An abort breaks exactly this, which is `ledger_late_write`; what
holds even then is `FaithInv`: the file, the writes adrift, the index, the versions a
writer knows and what it is about to commit claim only what the backend accepted.
`ReadInv` adds that what a writer has read is accepted, on its way, or covered by what
is, unless the backend rejected it, and this gives `NothingLost`.

`OrderInv` is about the aggregate updates, while no sink was aborted and each span has one
versioned writer. A writer forgets its versions when it loses its sink, its old rows may
still be queued, and the versions it is to record are recorded only when all rows were
accepted; so the invariant has to relate the destination, the file and what is in between:

* what is on its way and what is shown is no older than anything recorded
  (`FileOrder`, `BackendOrder`), and a batch no older than what waits to be recorded
  (`BatchOrder`);
* once the queue is uploaded, the destination shows nothing older than what waits to be
  recorded (`SendOrder`, `Settles`), unless a row was rejected, in which case it never is
  recorded; and while a delivery is recorded the queue is empty (`Quiet`);
* what a writer knows is the newest it has read and is recorded (`KnownInv`); what
  counts as delivered by its key is recorded or waits to be (`LateInv`, `LatePending`);
* what was read is recorded, waits to be, or is in the batch (`ReadFiled`), so what was
  acknowledged is recorded (`HeadFiled`).

`BackendOrder` and `HeadFiled` give `LatestWins`. That another writer shows nothing of
these spans and records no version of them is `Own` with the one-writer premise.

## 6. Translation: `Translation`

`Translation` is the producer of one source session: it follows the source
journal to the boundary that dispatch requested, feeds every record to the
agent's translator and publishes the output.

| Model | Code |
|---|---|
| `file` | source journal: events, controls, and foreign or legacy records of earlier releases |
| `committed`, `candidates`, `partial`, `evidence` | `translated_through`, `root_candidates`, receipts, `source_failure` in SQLite |
| `log` | operations published (section 3 has their rows and routes) |
| `requested`, `queue`, `client` | `Progress.requested`, the command channel, a caller of `barrier` or `control` |
| `window` | `SourceInput` (`pipeline/input.rs`) |
| `translator` | which records the translator has handled |
| `reader`, `position`, `taken`, `pub`, `roots` | fields of `Producer`; `taken` is the record `advance` has in hand |
| `fail`, `recorded` | `State::Recovering` and whether its evidence was written |
| `at`, `job`, `goal`, `kind` | where `run` is in its command |

`Open` to `Reached` are `advance`, `PrepareChunk` to `CommitInput` are `publish`,
`RecordEvidence`, `Refuse`, `Retry` and `ClearEvidence` are the recovering half of
`run`, `Restart` is a crash followed by `open`. A step ends where the code awaits
storage or the translator, so that `StorageFails` and `TranslatorFails` may come
between any two of them. What a translator returns is a constant, `Output`: a
deterministic translator that has seen the right records (`ExactHistory`) emits
the right operations. Positions count records instead of bytes.

* `translation_safety`: three records, two faults, a window and a channel of one
  place, a new journal or one a release left behind, under `FairSpec`. The output
  holds back a root, updates it, and releases it with a child in a second chunk,
  so a fault falls between chunks, operations and commit, and a restart between
  a held root and its child. The log is the translation of the committed
  records, roots precede children, the translator has seen each record once, no
  event is translated before it is dispatched, a confirmed barrier or control
  covers what was handed over before it, and the producer catches up. One place in
  the window forces a gap with the second event; one in the channel makes senders
  wait. The bound on records also stops controls.

`ReplayMayFail` adds storage failures while a control rebuilds the translator. The
safety run excludes exactly that failure, because with it `ExactHistory` is false; see
section 12.

Fairness: dispatch (`Hand`) and the producer's task (`Work`) do not stop by
themselves, and each round of the recovering loop records the evidence and
considers a retry whatever commands arrive. A failure that waits for a
new release of the daemon is retried only after a `Restart`, which is not assumed
to happen; `CapturedIsTranslated` exempts it.

Left out here: the observers of the producer (section 8), origins of spans, the counting
of routes, and Stop. The control that finalises an invocation-local session
(`journal.rs:295-309`) reads as a checkpoint.

### Proofs: `TranslationProof`

For any windows, channels, histories, outputs and numbers of faults, and whether or
not storage fails while a control rebuilds the translator. `TranslationAssumption`
types the constants: outputs are not empty, histories are made of kinds of records.

| Theorem | Statement |
|---|---|
| `Inductive` | `Spec => []IInv` |
| `KeepsBoundaries` | `Spec => []BoundariesHold` |

A confirmation is about what happened long before it, so the invariant follows every
boundary from the caller to the commit. `ReachInv`: position, goal, the record in
hand, the reader, the publication and every boundary sent stay within what was
requested or committed, and what was requested was dispatched. A control is appended
only when the producer is at the end of the file. `BehindInv`: everything of this
source below the position and below the reader is committed, unless its record is in
hand or must be read again. `AnswerInv`: a boundary that was sent is finished, is
what the producer works towards (a recovery goes to `requested`), or is still in the
channel; for a waiting caller it lies before its command. `StageInv` relates the
program counter to the fields. TLC checked `IInv` on the instance of
`translation_safety` first, with and without `ReplayMayFail`.

### Proofs: `TranslatedLogProof`

| Theorem | Statement |
|---|---|
| `PublishInductive` | `Spec => [](IInv /\ PublishInv)` |
| `PublishesTranslation` | `Spec => []LogIsTranslation` |
| `HandlesExactly` | `Spec => []ExactHistory`, if `ReplayMayFail = FALSE` |

`LogIsTranslation` compares the log with `Reference(n)`: all operations of the first n
records, staged in one go. The producer stages chunk by chunk, fails in any of them,
throws its translator away and stages again behind receipts it already has. The
argument:

* Staging is a recursive function over a sequence and `FlattenSeq` a fold. The first
  lemmas (`Least`, `Induction`, `Recursion`, `Iterates`) give induction as a statement
  about a set of numbers, which the provers can use where an operator parameter they
  cannot, and show that such a function takes the step its body says.
* `StagedThen`: staging a concatenation is staging its first part and then its second
  from the roots the first leaves. So what m records and c chunks of the next come to
  (`Chunk`) grows by one staged chunk (`ChunkNext`) and ends at the reference of the next
  record (`ChunkEnds`).
* `ReferenceRootsFirst`: the reference puts what a held root emitted before the root's
  first child. This needs `OutputAssumption`: operations are numbered as they are
  returned, and a span that may be held has no parent that may be held. The parents
  of such a root are a span of another session or the turn of a subagent
  (`translate/opencode.rs:620-632`, `translate/codex.rs`, `translate/pi.rs`,
  `translate/antigravity.rs`); a chain of two held roots would be released in the
  wrong order.
* `PublishInv` holds between any two steps: the log is the reference of the committed
  records and `partial` operations of the one next record (`LogInv`); the durable roots
  are those of the reference, and a rebuilt translator starts from them (`RootsInv`); an
  open publication stands at a chunk and an ordinal not past `partial`, with the roots
  and the operations that `Chunk` has there (`ChunkInv`). A retry of the input therefore
  meets its receipts with the operations they were written for, and appends the first
  one without a receipt.

`HandlesExactly` follows the reader. `NextInv`: the record in hand and the one being
published are the next after the position, and a reader may be ahead only behind a
failure that gives the translator up. A control that rebuilds the translator has nothing
requested beyond the committed boundary, so the retry keeps the translator and the
reader's lead: this is the failure `ReplayMayFail` allows. `HandledInv` is then kept
record by record. TLC checked both invariants on the instance of
`translation_safety` first, `PublishInv` also with `ReplayMayFail`.

## 7. Translators: `SpanTree`, `Translators`, one module per agent

Each agent's translator (`translate/*.rs`) is a module whose operators take a state
record and return the next: what hooks and transcripts can say is enumerated by its
`Step`, what the translator does with it is written in terms of `SpanTree`.

| Model | Code |
|---|---|
| `rows`: for each span id parent, owner, turn, ended, marks | what the emitted `SpanOp`s leave at the destination |
| `Insert`, `Merge` and their forms `Open`, `Record`, `Update`, `Finish` | `SpanOp` constructors of `translate/` |
| other fields of the state | the translator's own maps: open turns, calls, subagents, offsets |
| `left`, `done` | what the agent has left to do, and did: the environment |
| `home`, `retired` | session the spans belong to, finalisation at retirement |
| `Repeats` | an event that is delivered again after a restart |

Contents, durations, costs, plugins and attachments are abstracted to marks ("output",
"usage", "error") where a property is about them.

* `translators_contract`: small sessions of all eight agents, with hooks that find the
  transcript late, calls that fail or never end, subagents that start before or after the
  hook of their call, compactions, limits of open calls, and repeated deliveries
  (Cursor, Grok, Muse).

| Property | Statement |
|---|---|
| `SpansAreOperations` | a span is one operation of the agent and an operation one span; it is inserted once, after its parent and before it is updated |
| `ClosedWhenRetired` | nothing stays open after retirement but operations that went on when the agent ended what they belonged to |
| `UsageIsExact` | a span is accounted to a turn above it, that of the prompt that caused it; a call that Muse reports in parts is counted once |
| `HistoryIsReal` | output is never invented, and what is written of a span that ended stays |

Codex has two exceptions, each as wide as the code makes it. `ClosedWhenRetired` leaves out
the turns of a rollout of which no turn has ended (`TurnsUnended`): `finalize` has no time to
end them at (`codex.rs:385`, `1591`). `UsageIsExact` leaves out a subagent that starts before
the `PostToolUse` hook of its spawning call, with everything below it (`SpansOfEarly`): it is
put below the root and its turns own themselves (`codex.rs:567-583`). Without these exceptions
TLC finds both cases (section 12); every other property is checked of these spans too. Where
an earlier turn has ended, a dangling one is ended at that time, which may be before its
start; times are not modelled.

Compactions of Codex come in turns of their own and between the responses of a user's turn,
whose `PostCompact` ends it (`codex.rs:1555`) although it goes on. Calls and subagents of
Cursor beyond `MAX_OPEN_TOOLS` are given up or ignored as in the code; the run has limits of
one and two.

`Beyond` names behaviours of agents that break a property, excluded from the run
because a translator cannot or does not handle them. Setting them shows:

| Agent | Behaviour | Breaks |
|---|---|---|
| Antigravity | killed, or cut off with calls pending (`antigravity.rs:241-248`, `431-444`) | `HistoryIsReal` |
| Antigravity | background model calls, or a transcript that arrives late | `UsageIsExact` |
| Antigravity | two transcripts (`hook.rs:455-485`) | `SpansAreOperations` |
| Claude Code | session resumed after its end, or retired while the agent works | several |
| Codex | session or subagent resumed, or retired in the middle of a turn | several |
| Codex | compacted while a response is under way (`codex.rs:1521`) | `ClosedWhenRetired` |
| Codex | a turn compacted twice | `SpansAreOperations` |
| Cursor | prompts with equal texts, stray events, lost prompts, more subagents than the limit | `HistoryIsReal` and others |
| Grok | unfinished transcript; rewound session | `ClosedWhenRetired`, `HistoryIsReal` |
| OpenCode | native session prompted again after it ended | several |

No session of the run both compacts and starts subagents: `PostCompact` ends the user's turn
that goes on, and a subagent it then starts is its own owner, so `UsageIsExact` would fail.

## 8. Correlation: `ParentRegistry`, `Correlation`

`ParentRegistry` is `correlation.rs`: which sessions have open spans, and which
processes they run in. `Correlation` is `server/correlation_store.rs` with the parts of
ingress, recovery and sessions it depends on.

| Model | Code |
|---|---|
| `reg` | `Registry` (active tools, process lineage, retired sessions) |
| `log`, `next`, `startup` | captured events in order, those dispatched, those a restart dispatches first |
| `attached`, `seen`, `waiting`, `snapshots` | producers of possible parents and their observers, the active-parent snapshots on disk |
| `stored`, `pending` | `PendingSession` of the child on disk and in `pending_sessions` |
| `link`, `given` | `automatic_links` and `standalone_links`; events delivered under each route |
| `work` | the child's state while its lock is held |
| `at`, `exited`, `dead` | processes of the sessions (environment) |

The child's events are held until its agent process is known and its parent's events
are translated, or until it waited too long; then the decision is saved, and its
events are delivered. Writes fail, sessions retire, processes die, sessions move to
another process, the daemon restarts.

* `correlation_links`: a parent that runs hooks as commands and one that does not, a
  child with one tool below, beside or inside them, six scenarios without faults and
  three with a crash, a failed write or a retirement. One route; the parent is an
  ancestor; the link is exactly what was open when the child started, where that was
  evident; no event of the child is lost.

Fairness: dispatch, attaching, the observers, the writers of snapshots and decisions,
delivery, the reconciler, and the passing of time. Clients and faults are free.
`NothingLost` has the same form (section 4): the log only grows, and again and again its
last event of the child has been delivered.

### Proofs: `CorrelationProof`

| Theorem | Statement |
|---|---|
| `RouteInductive` | if `ReadFails = FALSE` then `Spec => []RouteInv` |
| `DeliversOneRoute` | if `ReadFails = FALSE` then `Spec => []OneRoute` |
| `AncestryInductive` | `Spec => []AncestryInv` |
| `LinksToAncestors` | `Spec => []ParentIsAncestor` |
| `ExactInductive` | `Spec => []ExactInv` |
| `LinksAreExact` | `Spec => []LinkIsExact` |

For any sessions, processes, scenarios and numbers of events; the first two under the
condition that reading a stored decision does not fail. Without it `OneRoute` is false: after a failed
read the child is treated as new and can be decided again
(`correlation_store.rs:394-395`, `486-496`); TLC shows it with `ReadFails = TRUE`. `RouteInv`
says that what is on disk, in memory, in the links, in the work under the lock and in
the deliveries names one route, and that nothing is delivered before its decision is
on disk.

`ParentIsAncestor` holds also with `ReadFails = TRUE`. `AncestryInv` follows an agent's
process from the world to the link: a session only ever runs in the processes of its
chain (`WorldInv`); a captured event names such a process, and so does what is dispatched,
held or waiting of it (`LogInv`, `QueueInv`); the registry and the snapshots know a session
under no other process, whatever was observed, restored, swept or retired
(`RegistryInv`); and the link the registry computes, which the child's state, its stored
decision and its deliveries carry on, is to a session of a process above the child's
(`LinksInv`). The argument needs chains without repetition, and for each hook that
runs as a command a process of its own (`ProcessesAssumption`).

`LinkIsExact` compares the link with the log, so `ExactInv` says of every part of the
state what the log makes of it, as long as nothing failed or retired (`Undisturbed`):

* `ToldOK`: an agent is known exactly from the hooks since its session's last start, the
  first, or of commands the first two; a single hook of a command still waits for its
  second (`Told`). One lemma follows the next event (`TellsAll`), one says
  that it tells nothing of others.
* `SeenOK`: the open spans of a session are those of its events up to the one its
  producer observed last. With `Settled` that is the event before the child's first
  (`AllSeen`), which is why the barrier (`ingress.rs:198-207`) is needed.
* `ChildOK`: without an event nothing is known of the child; then it waits, in memory
  and on disk alike, or is worked on, or is established. What it waits for or decided
  `Answers` its first event: it waits with all its events, none of which but the first captured or
  started anew, for a candidate that is right if its process turns out to be above the
  child's agent (`Waits`); it decided as the log says (`Expected`); or it decided alone,
  too late (`TooLate`), which later events never undo (`TooLateStays`).
* `StartsInv`: a session's first event is a start, so the hooks since its last start are
  all of a new one's.

`FirstExact` is the core: the nearest process with a known session in the first
capture is the nearest agent the log has above the child, and what is open there is what
`resolve` counts. `NextExact` shows that the second hook of a child tells its own agent,
as the two chains share exactly the part above the hooks. The proof needs no condition
on `ReadFails`: without a failure, memory always has what the disk has.

`ObserveHistory` is a recursive function over the operations of a session, so what it
computes is used only through what one step of it adds (`SpansInSteps`).

Limits of the code the scenarios stay within: settling does not wait for a producer in
recovery; a dirty snapshot can be overwritten by a clean one while a later close is
queued; the snapshot of a retired session revives after a restart; retirement
drops the open generation; a child recovered before its parent's pipeline is linked to
a span restored from a stale snapshot (`correlation_store.rs:582`).

## 9. Sessions and retention: `Sessions`

`Sessions` is the life of one source session: its events are dispatched to one session
per delivery route, the sessions share a translation producer, idle sessions retire, and
retention deletes journals and storage that are complete.

| Model | Code |
|---|---|
| `log`, `writer` | journal file, entry of `journals` |
| `storage`, `pending` | SQLite partition (rows, heads), events held for a route |
| `made`, `current` | producers; the one in `translations` |
| `sessions` | the map of sessions (`dispatch.rs`) |
| `captureLock`, `dispatchLock` | `session_locks`, `dispatch_locks`: a lock is a number, because one that left its map lives on with its holders |
| `hooks`, `busy`, `retiring`, `gc` | captures, the worker and the reconciler, `retire_session`, `collect` |
| `captured`, `delivered`, `cut` | history |

* `sessions_life`: two hooks, two routes (in one plan the second is linked to a parent on
  the first), five plans with two or three captures and, in turn, retirements, retention,
  refused credentials, crashes and failed deletions, and deadlines. Captures are never lost, rows are of the journal
  that is there, one task works on the files at a time, sessions share one producer, and
  every acknowledged event is delivered unless its route was cut off by a deadline.

Fairness: hooks, the dispatchers, the producer, each route, retirement and retention
once begun. Idleness, age and faults are free.

### Proofs: `SessionsProof`

| Theorem | Statement |
|---|---|
| `Typed` | `Spec => []Base` |
| `OneWorksOnTheFiles` | `Spec => []OneHolder` |
| `ShareOneProducer` | if `OneOrTheOther` then `Spec => []SessionsShareProducer` |
| `KeepingInductive` | if `HeldOrCollected` then `Spec => [](Base /\ (UncollectedInv \/ UnheldInv))` |
| `KeepsCaptures` | if `HeldOrCollected` then `Spec => []CapturesAreKept` |
| `StorageFollowsJournal` | if `HeldOrCollected` then `Spec => []StorageIsOfThisJournal` |

For any hooks, any finite set of routes and any plans. The two conditions are about
plans, and are exactly what the code needs: `OneOrTheOther` is that no plan both
holds an event back and retires twice, `HeldOrCollected` that none both holds one back
and collects. Beyond them the properties are false. A dispatch lock is removed from its
map while a dispatcher waits for it (`sessions.rs:248`, against `sessions.rs:44-45`), so with
an event held and a second retirement two producers run. A held event that is
dispatched between the two looks of retention (`maintenance.rs:84-106`, `107-125`) loses
its journal. TLC shows both with plans that have these numbers.

The argument: a capture lock that anyone can refer to is the one in the map or was left
with nobody waiting (`Refs`, `CaptureLocks`), so there is one holder (`Holders`). While
retirement holds the dispatch lock no dispatcher is between looking its producer up and
handing over (`DispatchLocks`), so one producer runs (`OneProducer`) and its count of
sessions is exact (`Counted`). `Keeping` says that rows repeat the journal, no head passes
an event its route has not delivered, and each captured event is in the journal or
delivered; `Quiet` that retention works on a source nobody else works on.

Also found, and left outside the properties: a retirement that meets its deadline cuts off
accepted work (`sessions.rs:186-198`); a linked child session is never collected
(`translation.rs:601-603`, against `bt-daemon/README.md:335`); a boundary given after
retirement pins a producer without session (`sessions.rs:182-185`).

## 10. Handover: `Handover`

`Handover` has the hooks' client (`client.rs`, `hook.rs`), the endpoint
(`transport.rs`) and the life of a daemon (`server/rpc.rs`, `server/mod.rs`).

| Model | Code |
|---|---|
| `hook[h]` | one hook process: connect or spawn, poll, `initialize`, `event.log`, `daemon.shutdown` |
| `daemon[d]` | one daemon process: contending, serving, closing, draining, unlocking |
| `lock`, `path` | lock file of the endpoint, daemon whose listener the socket node is |
| `captured` | versions of the daemons that journaled each event |
| `plan` | first daemon, versions of the hooks, who may spawn, one outside event |
| `lost`, `missed`, `cut` | history: lost answers, polls that missed a leaving daemon, reasons to fail |

Versions are numbers, or development builds (`Opaque`) that compare with none. Time is
abstract: a deadline expires when nothing it waits for is under way, except the second a
contender waits for the lock. `exact` hooks are older releases that replaced any other
version.

* `handover`: two hooks and up to four daemons of releases 1, 2 and a development build, one
  event from outside (idle exit, stop command, interrupt, crash, capture timeout) at any
  moment, one attempt instead of three (`MaxHandoverAttempts`), so that spent attempts
  are reached. Who listens, captures or drains owns the endpoint, no event is captured by an
  older daemon, a success was captured, and only once unless an answer was lost, and
  every hook ends captured or was cut off.

Fairness: every step a process can take is taken. Events from outside need not occur.

### Proofs: `HandoverProof`

For any hooks, daemons, versions and attempts (`HandoverAssumption` types the constants):

| Theorem | Statement |
|---|---|
| `Inductive` | `Spec => []Inv` |
| `EndpointHasOneOwner` | `Spec => []WritersOwnTheEndpoint` |
| `NeverCapturedByAnOlder` | `Spec => []CapturedByNoOlder` |
| `SuccessMeansCaptured` | `Spec => []SuccessIsExact` |

The lock is held from the claim until the socket is removed (`EndpointInv`); the drain
outlasts the captures that were let in before it (`CaptureInv`); a hook that logs or
captures has vetted the version it is connected to, and that daemon is the process it
vetted (`VersionInv`); an answer is there to be heard or was lost (`AnswerInv`).

Where the code is weaker than one may expect, and the model says so by `cut` and `lost`: a
connection that dies with its daemon is retried only if the hook was refused before
(`client.rs:284-331`; `protocol.md:125-128` reads as if it always were); of two newer
clients that ask for a shutdown one may lose its answer; a contender waits one second
for the lock while a drain behind a closed listener lasts longer; an older hook can
respawn an older daemon, so a newer client may replace more than once
(`protocol.md:102-103`). Daemons of releases without a lock file and Windows pipes are not
modelled.

## 11. Transcripts: `TranscriptMirror`

An agent's transcript is its own file: it grows, is rewritten or deleted while events that
refer to it wait. `TranscriptMirror` has the copies that captures make of it, the references
in the journal, the translator's cursor over them, and the deletion of old copies. It models
one session with one transcript, of one of the agents Claude Code, Codex, Grok and Cursor.

| Model | Code |
|---|---|
| `text`, `exists`, `sent` | the agent: its file, and hooks on their way (`hook.rs`) |
| `mirrors`, `current` | mirror files by generation, Cursor's pointer file (`transcript_mirror.rs`) |
| `cap` | the capture under way: `capture` or `capture_generation` at its file operations |
| `journal` | events with their `TranscriptRef` (`dispatch.rs`); `due` and `text` are history: the boundary a capture had to reach, and what was there |
| `reader`, `records` | `TranscriptCursor` in the translator's checkpoint (`translate/grok.rs`, `cursor/mod.rs`, offsets in `claude.rs` and `codex.rs`), what it has read |
| `observer`, `resident` | `ClaudeTranscriptObservation` (`server/claude_transcripts.rs`), whether the session is in memory |
| `young`, `gc` | modification times, the retention pass (`server/maintenance.rs`) |
| `watched` | history: the session was observed since its last event and is not retired |

A capture is split where it awaits a file operation, so the agent writes, replaces or
removes its file between measuring, opening, each read of a piece and the pointer. Cursor
keeps a generation for each rewriting and bounds an event by what its hook found
(`OpenGeneration`); the others copy what is new to a single mirror (`Measure`, `Open`). Grok
repeats the capture of a session's last event. A rewriting is a replacement by rename: the
capture in progress keeps the old file. `Restart` is the death of the process, not of the
machine: what was written is there.

* `mirror_kept`: seven plans with a transcript of two or three bytes of two values, records of
  two bytes, one or two hooks and, in turn, a rewriting (Cursor only), a removal, a failed copy or
  a restart, weeks without a write, the end of the session, and a repeated poll or capture. A
  hook may be captured within a record; a rewriting may have equal length or an equal prefix. Every
  retained event still reads what was there when it was captured, to the boundary of
  its capture; the translator has read each record once, in order; and what an agent
  writes after the last hook is translated in the end.

Two or three bytes are enough for a record in two captures and one that follows it; two hooks for a
reference that a later capture could disturb; one rewriting for a second generation; two weeks
for a journal that expires before its mirror.

Fairness (for `TailIsTranslated` only): the poll's timer, a capture in progress, the ingress
worker, the translator and a retention pass that has begun. Agents, hooks, faults, retirement,
weeks and the beginning of a pass are free. The property ends where the code's promise does:
with `SessionEnd`, with retirement (which polls first), and for what a restart finds already
there, whose discovery leaves it to the session's next event unless the file differs
from the last reference. A failing poll is retried by the next, so the number of
polls that only repeat one in the queue is bounded (`polls`).

Two things are kept out of the run because the code then breaks `ReplayReadsWhatWasSeen`
(section 12): the rewriting of a transcript with a single mirror (plans `Rewritten`), and
captures during a retention pass (`Overlapping`, plans `Resumed`).

Not modelled: several files of a session (subagents' transcripts), mirrors of their
metadata, inline snapshots and the read budget of a poll; power loss, in which a mirror that is
flushed but not synced (`transcript_mirror.rs:83`) can lose bytes its reference names; and a
file written in place while it is copied, which no comparison could tell. A pass with
nothing to remove is left out.

## 12. Findings

Expected violations, each with a run:

| Run | Where | What |
|---|---|---|
| `journal_stall` | `pipeline/live.rs:76` | The publisher waits for room in a route's live queue; a cursor that caught up by replay waits for `changed` without draining it. Publication stops although it is documented as independent of delivery. |
| `journal_torn` | `journal.rs:228` | A torn last line is continued by the next append, and an acknowledged record can no longer be read. |
| `ledger_late_write` | `pipeline/routing.rs:194` | The abort after the shutdown timeout releases the ledger's lock while a write is under way; it can overwrite another writer's record. |

`PROJECT.json` quotes the line of the documentation each one contradicts.

Disagreements that the passing runs leave out; TLC finds the violation when they are let in:

| Where | What | How to see it |
|---|---|---|
| `pipeline/translation.rs:376` | A checkpoint or retirement that rebuilds the translator meets a storage failure; the retry goes on behind the record in hand, which the translator never sees. `coding-agent-tracing-plugin-spec.md:391`: "Replaying a journal MUST converge on the same logical spans." | `ReplayMayFail = TRUE`, `Histories <- Fresh`: `ExactHistory` |
| `translate/codex.rs:1591` | Finalization does not end a dangling turn when no turn of its rollout has ended. `codex.rs:450`: "Finalization also closes dangling work whose terminal native event never arrived." | `ClosedWhenRetired` without `TurnsUnended` |
| `translate/codex.rs:567` | A subagent that starts before its spawning call's hook hangs below the root, and its turns own themselves. `translate/mod.rs:113`: "Span id of the user turn that owns this row". | `UsageIsExact` without `SpansOfEarly` |
| `transcript_mirror.rs:64` | A rewritten transcript is told from a grown one by its length alone, so a copy mixes generations under references that are journaled. `transcript_mirror.rs:46`: "so it never interleaves two generations." | `Plans <- Rewritten`: `ReplayReadsWhatWasSeen` |
| `server/maintenance.rs:18` | A pass removes a mirror although an event journaled after it read the references refers to it; it takes a session resumed after its journal expired. `maintenance.rs:16`: "Protect references from every retained input log". | `Overlapping = TRUE`, `Plans <- Resumed`: `ReplayReadsWhatWasSeen` |

## 13. What is proved and what is checked

Proved for all constants, from the named assumptions only: the 41 theorems of
sections 3 to 10. They state 26 of the properties the runs check, five of which need a
condition: `HandlesExactly`, `DeliversOneRoute`, `ShareOneProducer`, `KeepsCaptures` and
`StorageFollowsJournal` hold exactly as far as the code does (sections 6, 8 and 9). Each
inductive invariant was checked by TLC on the run's instance before it was proved.

Only checked, on the bounded instances of the runs:

| Property | Why no theorem |
|---|---|
| `OwedIsDelivered`, `AcknowledgedIsTranslated`, `OwedIsAcknowledged`, `CapturedIsTranslated`, `DeliveredUnlessCut`, `CapturedUnlessCut`, `TailIsTranslated`, Correlation's `NothingLost` | liveness: the provers do not reason about fairness or ENABLED |
| properties of `Translators` | spans are assembled by recursive functions over an agent's transcript, with eight invariants of their own |
| properties of `TranscriptMirror` | not attempted yet; `TailIsTranslated` is liveness |

## 14. What is not modelled

* Credential leases, the wait conditions of recovery (back-off, credentials, version: a
  nondeterministic retry here), the deferral of provisional roots.
* Span preparation and plugins: per-row data transformation. Parsing of transcripts
  for import.
* The SDK behind the Braintrust sink is external: its queue, upload and flush are
  modelled from how the sink uses them. One client shared by sinks
  (`sink/braintrust.rs:64`) is only the choice in `Lose`.
* In the span journal: route aliases, bindings, settings, origins, the evidence of a
  failed source and the collectible test. In sessions: settings of held routes and managed
  runs. In correlation: explicit parents and several children at a time. In the client:
  what a hook puts into its envelope, flush and status requests.
* Setup, managed runs, the Muse export, the command line, wire formats, paths and
  the JavaScript clients edit files or convert data in sequence.
