---------------------------- MODULE SpanJournal ----------------------------
(***************************************************************************)
(* The durable channel between the translation of one source session and   *)
(* its delivery routes (pipeline/journal.rs, pipeline/live.rs, and the     *)
(* publication half of pipeline/translation.rs).                           *)
(*                                                                         *)
(* One producer publishes span operations into a SQLite log; every route   *)
(* has a durable head and a cursor.  A record normally reaches a cursor    *)
(* through a bounded in-memory queue and is replayed from the log when the *)
(* queue was paused, cleared, or attached late.  Log rows that every head  *)
(* has passed are pruned.  The daemon may crash between any two steps.     *)
(*                                                                         *)
(* Operations are abstracted to their identity (input, ordinal); byte      *)
(* budgets to counts; route names to members of Routes.                    *)
(***************************************************************************)
EXTENDS Integers, Sequences

CONSTANTS
  Routes,         \* delivery routes of the source session
  MaxInput,       \* bound: number of source-journal inputs
  OpCount,        \* operations the translator produces for each input
  MaxChunk,       \* operations written by one append transaction
  LiveCapacity,   \* records a live queue holds before it pushes back
  LegacyThrough,  \* inputs that released delivery checkpoints may cover
  MaxFaults,      \* bound: crashes, failed flushes, settings changes, ...
  MaxPending      \* bound: deliveries waiting on rows deferred by the sink

Inputs == 1..MaxInput
NoHead == -1

ASSUME JournalAssumption ==
  /\ MaxInput \in Nat
  /\ OpCount \in [Inputs -> Nat]
  /\ MaxChunk \in Nat
  /\ LiveCapacity \in Nat \ {0}
  /\ LegacyThrough \subseteq 0..MaxInput
  /\ MaxFaults \in Nat
  /\ MaxPending \in Nat

VARIABLES
  \* SQLite, survives a crash
  batch,      \* batches table: "none", "open" (committed=0) or "done"
  log,        \* the operation stored at each position ever assigned
  ops,        \* ops table: positions still retained
  receipts,   \* receipts table: published <<input, ordinal>> pairs
  tail,       \* publication.tail
  floor,      \* publication.floor
  head,       \* heads.position of each route, NoHead if not registered
  failure,    \* heads.failure IS NOT NULL
  \* producer, in memory
  pub,        \* input being published, 0 when idle
  ordinal,    \* operations of pub already appended or recognised
  sending,    \* a record is being fanned out to the live queues
  fan,        \* routes that still have to be offered that record
  changed,    \* position announced on the `changed` watch
  \* cursor and consumer of each route, in memory
  phase,      \* what the route's task does: "none", "attached", "receive",
              \* "replay", "flush", "ack", "held" or "refused"
  read,       \* Cursor.read
  awake,      \* the cursor has a reason to run another pass
  abandoned,  \* an unacknowledged delivery was dropped
  paused,     \* the live feed is paused
  live,       \* live queue
  queued,     \* record set aside because it did not fit the batch, 0 if none
  fetched,    \* positions read from SQLite and not delivered yet
  pend,       \* deliveries the consumer owes a completion for
  \* history and bounds
  owed,       \* positions a registered route must be given
  exported,   \* positions the route's backend accepted
  faults

durable  == <<batch, log, ops, receipts, tail, floor, head, failure>>
producer == <<pub, ordinal, sending, fan, changed>>
feed     == <<paused, live, queued>>
cursor   == <<phase, read, awake, abandoned, fetched, pend>>
vars == <<durable, producer, cursor, feed, owed, exported, faults>>

Op(i, o) == [input |-> i, ordinal |-> o]
Registered(hs) == {r \in Routes : hs[r] # NoHead}
Attached == {r \in Routes : phase[r] # "none"}

Fault == faults < MaxFaults /\ faults' = faults + 1
-----------------------------------------------------------------------------
Init ==
  /\ batch = [i \in Inputs |-> "none"]
  /\ log = <<>>
  /\ ops = {}
  /\ receipts = {}
  /\ tail = 0
  /\ floor = 0
  /\ head = [r \in Routes |-> NoHead]
  /\ failure = [r \in Routes |-> FALSE]
  /\ pub = 0
  /\ ordinal = 0
  /\ sending = FALSE
  /\ fan = {}
  /\ changed = 0
  /\ phase = [r \in Routes |-> "none"]
  /\ read = [r \in Routes |-> 0]
  /\ awake = [r \in Routes |-> FALSE]
  /\ abandoned = [r \in Routes |-> FALSE]
  /\ paused = [r \in Routes |-> FALSE]
  /\ live = [r \in Routes |-> <<>>]
  /\ queued = [r \in Routes |-> 0]
  /\ fetched = [r \in Routes |-> {}]
  /\ pend = [r \in Routes |-> <<>>]
  /\ owed = [r \in Routes |-> {}]
  /\ exported = [r \in Routes |-> {}]
  /\ faults = 0

\* Mutant: prunes up to the furthest head.
PruneToLeader(hs, bs) ==
  IF Registered(hs) = {}
  THEN UNCHANGED <<ops, floor, receipts>>
  ELSE \E through \in {hs[r] : r \in Registered(hs)} :
         /\ \A r \in Registered(hs) : through >= hs[r]
         /\ ops' = {p \in ops : p > through}
         /\ floor' = IF floor < through THEN through ELSE floor
         /\ UNCHANGED receipts

\* Mutant: drops the receipts of an input that is still being published.
PruneOpenReceipts(hs, bs) ==
  IF Registered(hs) = {}
  THEN UNCHANGED <<ops, floor, receipts>>
  ELSE \E through \in {hs[r] : r \in Registered(hs)} :
         /\ \A r \in Registered(hs) : through <= hs[r]
         /\ ops' = {p \in ops : p > through}
         /\ floor' = IF floor < through THEN through ELSE floor
         /\ receipts' = {x \in receipts : \E p \in ops :
                           p > through /\ log[p].input = x.input}

\* Rows every head has passed go away; receipts go only once their input is
\* committed and has no row left.  Without a head nothing is pruned.
Prune(hs, bs) ==
  IF Registered(hs) = {}
  THEN UNCHANGED <<ops, floor, receipts>>
  ELSE \E through \in {hs[r] : r \in Registered(hs)} :
         /\ \A r \in Registered(hs) : through <= hs[r]
         /\ ops' = {p \in ops : p > through}
         /\ floor' = IF floor < through THEN through ELSE floor
         /\ receipts' = {x \in receipts :
                           \/ bs[x.input] # "done"
                           \/ \E p \in ops : p > through /\ log[p].input = x.input}
-----------------------------------------------------------------------------
(* Producer *)

\* Mutant: a late route starts at the beginning of the log.
RegisterAtStart(r) ==
  /\ pub = 0
  /\ head[r] = NoHead
  /\ head' = [head EXCEPT ![r] = 0]
  /\ owed' = [owed EXCEPT ![r] = ops]
  /\ UNCHANGED <<batch, log, ops, receipts, tail, floor, failure>>
  /\ UNCHANGED <<producer, cursor, feed, exported, faults>>

\* Producer::advance registers the route named by an event before it
\* translates the event; an already known route is left alone.
Register(r) ==
  /\ pub = 0
  /\ head[r] = NoHead
  /\ head' = [head EXCEPT ![r] = floor]
  /\ owed' = [owed EXCEPT ![r] = ops]
  /\ UNCHANGED <<batch, log, ops, receipts, tail, floor, failure>>
  /\ UNCHANGED <<producer, cursor, feed, exported, faults>>

\* The next input after translated_through.  Rows of an attempt that left no
\* receipt are discarded before it is published again.
Begin(i) ==
  /\ pub = 0
  /\ batch[i] # "done"
  /\ \A j \in 1..(i - 1) : batch[j] = "done"
  /\ batch' = [batch EXCEPT ![i] = "open"]
  /\ ops' = IF \E x \in receipts : x.input = i
            THEN ops
            ELSE {p \in ops : log[p].input # i}
  /\ pub' = i
  /\ ordinal' = 0
  /\ UNCHANGED <<log, receipts, tail, floor, head, failure>>
  /\ UNCHANGED <<sending, fan, changed, cursor, feed, owed, exported, faults>>

\* An operation whose ordinal has a receipt was published before a crash.
SkipPublished ==
  /\ pub # 0
  /\ changed = tail
  /\ Op(pub, ordinal + 1) \in receipts
  /\ ordinal' = ordinal + 1
  /\ UNCHANGED <<durable, pub, sending, fan, changed>>
  /\ UNCHANGED <<cursor, feed, owed, exported, faults>>

\* Mutant: forgets to move publication.tail.
AppendWithoutTail(n) ==
  /\ pub # 0
  /\ ordinal + n <= OpCount[pub]
  /\ ops' = ops \cup (tail + 1)..(tail + n)
  /\ receipts' = receipts \cup
                   {Op(pub, o) : o \in (ordinal + 1)..(ordinal + n)}
  /\ ordinal' = ordinal + n
  /\ UNCHANGED <<batch, log, tail, floor, head, failure>>
  /\ UNCHANGED <<pub, sending, fan, changed>>
  /\ UNCHANGED <<cursor, feed, owed, exported, faults>>

\* One append_live transaction over n operations without receipts.  A chunk
\* that begins with recognised operations is SkipPublished steps and this.
AppendChunk(n) ==
  /\ pub # 0
  /\ changed = tail
  /\ ordinal + n <= OpCount[pub]
  /\ \A o \in (ordinal + 1)..(ordinal + n) : Op(pub, o) \notin receipts
  /\ log' = [p \in 1..(tail + n) |->
               IF p <= tail THEN log[p] ELSE Op(pub, ordinal + p - tail)]
  /\ ops' = ops \cup (tail + 1)..(tail + n)
  /\ receipts' = receipts \cup
                   {Op(pub, o) : o \in (ordinal + 1)..(ordinal + n)}
  /\ tail' = tail + n
  /\ ordinal' = ordinal + n
  /\ owed' = [r \in Routes |-> IF head[r] = NoHead THEN owed[r]
                               ELSE owed[r] \cup (tail + 1)..(tail + n)]
  /\ UNCHANGED <<batch, floor, head, failure, pub, sending, fan, changed>>
  /\ UNCHANGED <<cursor, feed, exported, faults>>

\* Multiplexer::publish takes the receivers alive now.
StartPublish ==
  /\ changed < tail
  /\ ~sending
  /\ sending' = TRUE
  /\ fan' = Attached
  /\ UNCHANGED <<durable, pub, ordinal, changed>>
  /\ UNCHANGED <<cursor, feed, owed, exported, faults>>

\* A paused (or dropped) receiver is skipped; a healthy one is sent the
\* record, waiting for room.
SendLive(r) ==
  /\ sending
  /\ r \in fan
  /\ \/ /\ paused[r]
        /\ UNCHANGED live
     \/ /\ ~paused[r]
        /\ Len(live[r]) < LiveCapacity
        /\ live' = [live EXCEPT ![r] = Append(@, changed + 1)]
  /\ fan' = fan \ {r}
  /\ UNCHANGED <<durable, pub, ordinal, sending, changed>>
  /\ UNCHANGED <<cursor, paused, queued, owed, exported, faults>>

\* changed.send_replace wakes every waiting cursor.
Announce ==
  /\ sending
  /\ fan = {}
  /\ changed' = changed + 1
  /\ sending' = FALSE
  /\ awake' = [r \in Routes |-> phase[r] # "none"]
  /\ UNCHANGED <<durable, pub, ordinal, fan>>
  /\ UNCHANGED <<phase, read, abandoned, fetched, pend>>
  /\ UNCHANGED <<feed, owed, exported, faults>>

\* Mutant: commits before the translator's pending output is drained.
CommitEarly ==
  /\ pub # 0
  /\ changed = tail
  /\ batch' = [batch EXCEPT ![pub] = "done"]
  /\ Prune(head, batch')
  /\ pub' = 0
  /\ ordinal' = 0
  /\ awake' = [r \in Routes |-> phase[r] # "none"]
  /\ UNCHANGED <<log, tail, head, failure, sending, fan, changed>>
  /\ UNCHANGED <<phase, read, abandoned, fetched, pend>>
  /\ UNCHANGED <<feed, owed, exported, faults>>

\* commit_output: the input is done and may let its receipts go.
Commit ==
  /\ pub # 0
  /\ changed = tail
  /\ ordinal = OpCount[pub]
  /\ batch' = [batch EXCEPT ![pub] = "done"]
  /\ Prune(head, batch')
  /\ pub' = 0
  /\ ordinal' = 0
  /\ awake' = [r \in Routes |-> phase[r] # "none"]
  /\ UNCHANGED <<log, tail, head, failure, sending, fan, changed>>
  /\ UNCHANGED <<phase, read, abandoned, fetched, pend>>
  /\ UNCHANGED <<feed, owed, exported, faults>>
-----------------------------------------------------------------------------
(* Cursor of a route *)

\* SpanJournal::subscribe attaches the live queue before it reads the head.
Attach(r) ==
  /\ phase[r] = "none"
  /\ phase' = [phase EXCEPT ![r] = "attached"]
  /\ paused' = [paused EXCEPT ![r] = FALSE]
  /\ live' = [live EXCEPT ![r] = <<>>]
  /\ UNCHANGED <<durable, producer, read, awake, abandoned, fetched, pend>>
  /\ UNCHANGED <<queued, owed, exported, faults>>

\* A new head starts after the rows released checkpoints cover, and never
\* below the floor; an existing head keeps its position.
Legacy(through) ==
  {p \in ops : log[p].input <= through /\ batch[log[p].input] = "done"}

SeedHead(through) ==
  {h \in {floor} \cup Legacy(through) :
     h >= floor /\ \A p \in Legacy(through) : p <= h}

Subscribe(r, through) ==
  /\ phase[r] = "attached"
  /\ phase' = [phase EXCEPT ![r] = "receive"]
  /\ \/ /\ head[r] # NoHead
        /\ UNCHANGED <<head, owed>>
     \/ /\ head[r] = NoHead
        /\ \E h \in SeedHead(through) : head' = [head EXCEPT ![r] = h]
        /\ owed' = [owed EXCEPT ![r] = ops \ Legacy(through)]
  /\ read' = [read EXCEPT ![r] = head'[r]]
  /\ awake' = [awake EXCEPT ![r] = TRUE]
  /\ UNCHANGED <<batch, log, ops, receipts, tail, floor, failure, producer>>
  /\ UNCHANGED <<abandoned, fetched, pend, feed, exported, faults>>

\* Mutant: keeps reading where the dropped deliveries ended.
RewindNowhere(r) ==
  /\ phase[r] = "receive"
  /\ abandoned[r]
  /\ abandoned' = [abandoned EXCEPT ![r] = FALSE]
  /\ queued' = [queued EXCEPT ![r] = 0]
  /\ live' = [live EXCEPT ![r] = <<>>]
  /\ awake' = [awake EXCEPT ![r] = TRUE]
  /\ UNCHANGED <<durable, producer, phase, read, fetched, pend, paused>>
  /\ UNCHANGED <<owed, exported, faults>>

\* The dropped deliveries are read again from the durable head.
Rewind(r) ==
  /\ phase[r] = "receive"
  /\ abandoned[r]
  /\ read' = [read EXCEPT ![r] = head[r]]
  /\ abandoned' = [abandoned EXCEPT ![r] = FALSE]
  /\ queued' = [queued EXCEPT ![r] = 0]
  /\ live' = [live EXCEPT ![r] = <<>>]
  /\ awake' = [awake EXCEPT ![r] = TRUE]
  /\ UNCHANGED <<durable, producer, phase, fetched, pend, paused>>
  /\ UNCHANGED <<owed, exported, faults>>

Receiving(r) == phase[r] = "receive" /\ ~abandoned[r] /\ awake[r]

\* next_shared with nothing announced beyond `read`: resume the live feed and
\* wait for a change.  The resume signal also releases a publisher that is
\* already waiting on this queue, but not one that has yet to get there.
Idle(r) ==
  /\ Receiving(r)
  /\ read[r] >= changed
  /\ paused' = [paused EXCEPT ![r] = FALSE]
  /\ awake' = [awake EXCEPT ![r] = FALSE]
  /\ \E released \in {{}, {r}} : fan' = fan \ released
  /\ UNCHANGED <<durable, pub, ordinal, sending, changed>>
  /\ UNCHANGED <<phase, read, abandoned, fetched, pend, live, queued>>
  /\ UNCHANGED <<owed, exported, faults>>

Feed(r) == (IF queued[r] = 0 THEN <<>> ELSE <<queued[r]>>) \o live[r]

\* What is left in `queued` and the live queue after n records were taken.
TakeFeed(r, n) ==
  /\ queued' = [queued EXCEPT ![r] = 0]
  /\ live' = [live EXCEPT ![r] =
       SubSeq(Feed(r), n + 1, Len(Feed(r)))]

Delivery(after, items, through) ==
  [expected |-> after, through |-> through, items |-> items]

Deliver(r, items, through) ==
  /\ pend' = [pend EXCEPT ![r] = Append(@, Delivery(read[r], items, through))]
  /\ read' = [read EXCEPT ![r] = through]
  /\ phase' = [phase EXCEPT ![r] = "flush"]
  /\ fetched' = [fetched EXCEPT ![r] = {}]

\* Contiguous live records directly after `read`.  The batch stops at the
\* byte budget, the time window, or a record that does not fit, which is then
\* kept in `queued`.
ReceiveLive(r, n, keep) ==
  /\ Receiving(r)
  /\ read[r] < changed
  /\ n \in 1..Len(Feed(r))
  /\ \A k \in 1..n : Feed(r)[k] = read[r] + k
  /\ Deliver(r, {Feed(r)[k] : k \in 1..n}, Feed(r)[n])
  /\ \/ /\ ~keep
        /\ TakeFeed(r, n)
     \/ /\ keep
        /\ n < Len(Feed(r))
        /\ queued' = [queued EXCEPT ![r] = Feed(r)[n + 1]]
        /\ live' = [live EXCEPT ![r] =
             SubSeq(Feed(r), n + 2, Len(Feed(r)))]
  /\ UNCHANGED <<durable, producer, awake, abandoned, paused>>
  /\ UNCHANGED <<owed, exported, faults>>

NextIsLive(r) == Feed(r) # <<>> /\ Head(Feed(r)) = read[r] + 1

\* The live record is missing or not the next one: read from SQLite.
ReplayRead(r, through) ==
  /\ Receiving(r)
  /\ read[r] < changed
  /\ ~NextIsLive(r)
  /\ through \in ops
  /\ through > read[r]
  /\ fetched' = [fetched EXCEPT ![r] =
       {p \in ops : read[r] < p /\ p <= through}]
  /\ IF Feed(r) = <<>> THEN UNCHANGED <<live, queued>> ELSE TakeFeed(r, 1)
  /\ phase' = [phase EXCEPT ![r] = "replay"]
  /\ UNCHANGED <<durable, producer, read, awake, abandoned, pend, paused>>
  /\ UNCHANGED <<owed, exported, faults>>

\* Records offered to the queue while SQLite was read are dropped with it.
ReplayDeliver(r) ==
  /\ phase[r] = "replay"
  /\ \E through \in fetched[r] :
       /\ \A p \in fetched[r] : p <= through
       /\ Deliver(r, fetched[r], through)
  /\ live' = [live EXCEPT ![r] = <<>>]
  /\ UNCHANGED <<durable, producer, awake, abandoned, paused, queued>>
  /\ UNCHANGED <<owed, exported, faults>>

\* A settings change cancels the receive future: records it had already
\* taken from the queue are lost, `read` has not moved.
SettingsChanged(r, n) ==
  /\ Fault
  /\ phase[r] \in {"receive", "replay"}
  /\ n # 0 => Receiving(r) /\ read[r] < changed /\ n <= Len(Feed(r))
  /\ \A k \in 1..n : Feed(r)[k] = read[r] + k
  /\ IF n = 0 THEN UNCHANGED <<live, queued>> ELSE TakeFeed(r, n)
  /\ phase' = [phase EXCEPT ![r] = "receive"]
  /\ fetched' = [fetched EXCEPT ![r] = {}]
  /\ awake' = [awake EXCEPT ![r] = TRUE]
  /\ UNCHANGED <<durable, producer, read, abandoned, pend, paused>>
  /\ UNCHANGED <<owed, exported>>

\* Reading the head, the binding or the log failed: the feed is paused, the
\* evidence stored, and the consumer holds Work::Resubmit.
InputFailed(r) ==
  /\ Fault
  /\ phase[r] = "receive"
  /\ \/ UNCHANGED <<live, queued>>
     \/ /\ Receiving(r)
        /\ read[r] < changed
        /\ ~NextIsLive(r)
        /\ Feed(r) # <<>>
        /\ TakeFeed(r, 1)
  /\ phase' = [phase EXCEPT ![r] = "refused"]
  /\ paused' = [paused EXCEPT ![r] = TRUE]
  /\ failure' = [failure EXCEPT ![r] = TRUE]
  /\ UNCHANGED <<batch, log, ops, receipts, tail, floor, head, producer>>
  /\ UNCHANGED <<read, awake, abandoned, fetched, pend, owed, exported>>
-----------------------------------------------------------------------------
(* Consumer of a route, as the cursor sees it *)

\* Checked delivery succeeded for everything pending.
FlushOk(r) ==
  /\ phase[r] = "flush"
  /\ exported' = [exported EXCEPT ![r] =
       @ \cup UNION {pend[r][k].items : k \in 1..Len(pend[r])}]
  /\ phase' = [phase EXCEPT ![r] = "ack"]
  /\ UNCHANGED <<durable, producer, read, awake, abandoned, fetched, pend>>
  /\ UNCHANGED <<feed, owed, faults>>

\* Mutant: acknowledges although rows are still deferred.
AckDeferred(r) ==
  /\ Fault
  /\ phase[r] = "flush"
  /\ phase' = [phase EXCEPT ![r] = "ack"]
  /\ UNCHANGED <<durable, producer, read, awake, abandoned, fetched, pend>>
  /\ UNCHANGED <<feed, owed, exported>>

\* The sink still holds deferred rows: keep the obligations, receive more.
FlushDeferred(r) ==
  /\ Fault
  /\ phase[r] = "flush"
  /\ Len(pend[r]) < MaxPending
  /\ phase' = [phase EXCEPT ![r] = "receive"]
  /\ awake' = [awake EXCEPT ![r] = TRUE]
  /\ UNCHANGED <<durable, producer, read, abandoned, fetched, pend>>
  /\ UNCHANGED <<feed, owed, exported>>

\* Emission, flush or acknowledgement failed; HeadCompletion::failed pauses
\* the feed and records the evidence.  Only a failed acknowledgement keeps
\* its result.
Hold(r) ==
  /\ Fault
  /\ phase[r] \in {"flush", "ack"}
  /\ phase' = [phase EXCEPT ![r] = IF @ = "flush" THEN "held" ELSE "ack"]
  /\ paused' = [paused EXCEPT ![r] = TRUE]
  /\ failure' = [failure EXCEPT ![r] = TRUE]
  /\ UNCHANGED <<batch, log, ops, receipts, tail, floor, head, producer>>
  /\ UNCHANGED <<read, awake, abandoned, fetched, pend, live, queued>>
  /\ UNCHANGED <<owed, exported>>

\* Work::Flush: only the local ledger commit failed.
RetryFlush(r) ==
  /\ phase[r] = "held"
  /\ phase' = [phase EXCEPT ![r] = "flush"]
  /\ UNCHANGED <<durable, producer, read, awake, abandoned, fetched, pend>>
  /\ UNCHANGED <<feed, owed, exported, faults>>

\* Mutant: a dropped delivery does not flag the cursor.
ResubmitQuietly(r) ==
  /\ phase[r] \in {"held", "refused"}
  /\ phase' = [phase EXCEPT ![r] = "receive"]
  /\ pend' = [pend EXCEPT ![r] = <<>>]
  /\ awake' = [awake EXCEPT ![r] = TRUE]
  /\ UNCHANGED <<durable, producer, read, abandoned, fetched, feed>>
  /\ UNCHANGED <<owed, exported, faults>>

\* Work::Resubmit: dropping an obligation pauses the feed and asks the source
\* to replay; after an input failure there may be none to drop.
Resubmit(r) ==
  /\ phase[r] \in {"held", "refused"}
  /\ phase' = [phase EXCEPT ![r] = "receive"]
  /\ pend' = [pend EXCEPT ![r] = <<>>]
  /\ abandoned' = [abandoned EXCEPT ![r] = @ \/ pend[r] # <<>>]
  /\ paused' = [paused EXCEPT ![r] = @ \/ pend[r] # <<>>]
  /\ awake' = [awake EXCEPT ![r] = TRUE]
  /\ UNCHANGED <<durable, producer, read, fetched, live, queued>>
  /\ UNCHANGED <<owed, exported, faults>>

\* HeadCompletion::complete for the oldest pending delivery.
Complete(r) ==
  /\ phase[r] = "ack"
  /\ pend[r] # <<>>
  /\ head[r] >= Head(pend[r]).expected
  /\ IF head[r] >= Head(pend[r]).through
     THEN UNCHANGED <<head, failure, ops, floor, receipts>>
     ELSE /\ head' = [head EXCEPT ![r] = Head(pend[r]).through]
          /\ failure' = [failure EXCEPT ![r] = FALSE]
          /\ Prune(head', batch)
  /\ pend' = [pend EXCEPT ![r] = Tail(@)]
  /\ phase' = [phase EXCEPT ![r] =
       IF Tail(pend[r]) = <<>> THEN "receive" ELSE "ack"]
  /\ awake' = [awake EXCEPT ![r] = TRUE]
  /\ UNCHANGED <<batch, log, tail, producer, read, abandoned, fetched>>
  /\ UNCHANGED <<feed, owed, exported, faults>>

Detached(r) ==
  /\ phase' = [phase EXCEPT ![r] = "none"]
  /\ awake' = [awake EXCEPT ![r] = FALSE]
  /\ abandoned' = [abandoned EXCEPT ![r] = FALSE]
  /\ live' = [live EXCEPT ![r] = <<>>]
  /\ queued' = [queued EXCEPT ![r] = 0]
  /\ fetched' = [fetched EXCEPT ![r] = {}]
  /\ pend' = [pend EXCEPT ![r] = <<>>]

\* The route's consumer is stopped; dropping its receiver pauses the queue.
StopRoute(r) ==
  /\ Fault
  /\ phase[r] # "none"
  /\ Detached(r)
  /\ paused' = [paused EXCEPT ![r] = TRUE]
  /\ UNCHANGED <<durable, producer, read, owed, exported>>

\* The daemon dies; SpanJournal::open starts `changed` at the durable tail.
Crash ==
  /\ Fault
  /\ pub' = 0
  /\ ordinal' = 0
  /\ sending' = FALSE
  /\ fan' = {}
  /\ changed' = tail
  /\ phase' = [r \in Routes |-> "none"]
  /\ awake' = [r \in Routes |-> FALSE]
  /\ abandoned' = [r \in Routes |-> FALSE]
  /\ paused' = [r \in Routes |-> FALSE]
  /\ live' = [r \in Routes |-> <<>>]
  /\ queued' = [r \in Routes |-> 0]
  /\ fetched' = [r \in Routes |-> {}]
  /\ pend' = [r \in Routes |-> <<>>]
  /\ UNCHANGED <<durable, read, owed, exported>>
-----------------------------------------------------------------------------
Produce ==
  \/ \E i \in Inputs : Begin(i)
  \/ SkipPublished
  \/ \E n \in 1..MaxChunk : AppendChunk(n)
  \/ StartPublish
  \/ \E r \in Routes : SendLive(r)
  \/ Announce
  \/ Commit

Consume(r) ==
  \/ Rewind(r)
  \/ Idle(r)
  \/ \E n \in 1..(LiveCapacity + 1), keep \in BOOLEAN : ReceiveLive(r, n, keep)
  \/ \E through \in ops : ReplayRead(r, through)
  \/ ReplayDeliver(r)
  \/ FlushOk(r)
  \/ RetryFlush(r)
  \/ Resubmit(r)
  \/ Complete(r)

Connect(r) ==
  \/ Attach(r)
  \/ \E through \in LegacyThrough : Subscribe(r, through)

Disturb(r) ==
  \/ \E n \in 0..(LiveCapacity + 1) : SettingsChanged(r, n)
  \/ InputFailed(r)
  \/ FlushDeferred(r)
  \/ Hold(r)
  \/ StopRoute(r)

Next ==
  \/ Produce
  \/ \E r \in Routes : Register(r) \/ Connect(r) \/ Consume(r) \/ Disturb(r)
  \/ Crash

Spec == Init /\ [][Next]_vars

\* Fairness: every task of the runtime that can run does run.  New routes and
\* faults are never owed; a subscribe call that started finishes, and a
\* registered route that is not attached is subscribed again, as the daemon
\* does when the session's next event arrives or it restarts.
Fairness ==
  /\ WF_vars(Produce)
  /\ \A r \in Routes :
       /\ WF_vars((head[r] # NoHead \/ phase[r] = "attached") /\ Connect(r))
       /\ WF_vars(Consume(r))

FairSpec == Spec /\ Fairness
-----------------------------------------------------------------------------
(* Properties *)

DeliveryType ==
  [expected : Nat, through : Nat, items : SUBSET Nat]

TypeOKDurable ==
  /\ batch \in [Inputs -> {"none", "open", "done"}]
  /\ tail \in Nat
  /\ log \in [1..tail -> [input : Inputs, ordinal : Nat]]
  /\ ops \subseteq 1..tail
  /\ receipts \subseteq [input : Inputs, ordinal : Nat]
  /\ floor \in Nat
  /\ head \in [Routes -> Nat \cup {NoHead}]
  /\ failure \in [Routes -> BOOLEAN]

TypeOKProducer ==
  /\ pub \in Inputs \cup {0}
  /\ ordinal \in Nat
  /\ sending \in BOOLEAN
  /\ fan \subseteq Routes
  /\ changed \in Nat

TypeOKCursor ==
  /\ phase \in [Routes -> {"none", "attached", "receive", "replay",
                           "flush", "ack", "held", "refused"}]
  /\ read \in [Routes -> Nat]
  /\ awake \in [Routes -> BOOLEAN]
  /\ abandoned \in [Routes -> BOOLEAN]
  /\ fetched \in [Routes -> SUBSET Nat]
  /\ pend \in [Routes -> Seq(DeliveryType)]

TypeOKFeed ==
  /\ paused \in [Routes -> BOOLEAN]
  /\ live \in [Routes -> Seq(Nat)]
  /\ queued \in [Routes -> Nat]

TypeOKHistory ==
  /\ owed \in [Routes -> SUBSET Nat]
  /\ exported \in [Routes -> SUBSET Nat]
  /\ faults \in Nat

\* Every variable has its type.
TypeOK ==
  TypeOKDurable /\ TypeOKProducer /\ TypeOKCursor /\ TypeOKFeed /\ TypeOKHistory

\* No operation owed to a route is lost: until its backend accepted the
\* operation it stays in the log beyond the route's durable head, whatever
\* pruning, replays, late subscriptions and crashes happen.
NothingOwedIsLost ==
  \A r \in Routes : \A p \in owed[r] :
    p \in exported[r] \/ (p \in ops /\ p > head[r])

\* The log never repeats or reorders an operation: a crash halfway through
\* an input resumes after its published prefix (the receipts).
PublishedInSourceOrder ==
  \A p, q \in 1..tail : p < q =>
    \/ log[p].input < log[q].input
    \/ log[p].input = log[q].input /\ log[p].ordinal < log[q].ordinal

\* A committed input left no operation out, although receipts and rows of
\* its published prefix may have been pruned before the commit.
CommittedInputsAreComplete ==
  \A i \in Inputs : batch[i] = "done" =>
    \A o \in 1..OpCount[i] : \E p \in 1..tail : log[p] = Op(i, o)

\* The log of a source is the committed inputs, each operation once, in order.
LogIsFaithful == PublishedInSourceOrder /\ CommittedInputsAreComplete

\* The check "completion cannot skip unresolved input" never fires, and the
\* acknowledgement of a delivery covers exactly the operations delivered.
AcknowledgementsAreExact ==
  \A r \in Routes : phase[r] = "ack" =>
    /\ pend[r] # <<>>
    /\ Head(pend[r]).expected = head[r]
    /\ \A k \in 1..Len(pend[r]) :
         pend[r][k].items = (pend[r][k].expected + 1)..pend[r][k].through

\* A cursor that is behind always finds its next operation in the log, so
\* an empty replay never leaves it waiting for a wake-up that does not come.
ReplayFindsNext ==
  \A r \in Routes : phase[r] = "receive" /\ ~abandoned[r] /\ read[r] < tail =>
    read[r] + 1 \in ops

-----------------------------------------------------------------------------
(* Inductive invariant *)

\* The retained rows are exactly those above the floor, no head is below it,
\* and nothing is announced before it is stored.
LogInv ==
  /\ floor <= tail
  /\ ops = (floor + 1)..tail
  /\ changed <= tail
  /\ sending => changed < tail
  /\ \A r \in Routes : head[r] # NoHead => floor <= head[r] /\ head[r] <= tail

\* Inputs are published one after the other.
BatchInv ==
  /\ \A i \in Inputs : batch[i] # "none" =>
       \A j \in 1..(i - 1) : batch[j] = "done"
  /\ pub # 0 => batch[pub] = "open"

\* The receipts of an input are a prefix of its operations, they survive
\* while a row or the open input needs them, and each one was published.
ReceiptInv ==
  /\ \A p \in ops : log[p] \in receipts
  /\ \A p \in 1..tail : batch[log[p].input] # "none"
  /\ \A p \in 1..tail : batch[log[p].input] = "open" => log[p] \in receipts
  /\ \A x \in receipts :
       /\ batch[x.input] # "none"
       /\ \E p \in 1..tail : log[p] = x
       /\ \A o \in 1..x.ordinal : Op(x.input, o) \in receipts
  /\ pub # 0 => \A o \in 1..ordinal : Op(pub, o) \in receipts

\* The deliveries of a route form a chain from its head to `read`.
ChainInv(r) ==
  /\ pend[r] # <<>> => /\ pend[r][1].expected = head[r]
                       /\ pend[r][Len(pend[r])].through = read[r]
  /\ \A k \in 1..Len(pend[r]) :
       /\ head[r] <= pend[r][k].expected
       /\ pend[r][k].expected < pend[r][k].through
       /\ pend[r][k].through <= read[r]
       /\ pend[r][k].items = (pend[r][k].expected + 1)..pend[r][k].through
       /\ phase[r] = "ack" => pend[r][k].items \subseteq exported[r]
  /\ \A k \in 1..(Len(pend[r]) - 1) :
       pend[r][k + 1].expected = pend[r][k].through
  /\ \A j, k \in 1..Len(pend[r]) :
       j < k => pend[r][j].through <= pend[r][k].expected

CursorInv(r) ==
  /\ phase[r] \in {"none", "attached"} => pend[r] = <<>> /\ ~abandoned[r]
  /\ phase[r] \notin {"none", "attached"} =>
       /\ head[r] # NoHead
       /\ head[r] <= read[r]
       /\ read[r] <= tail
       /\ ~abandoned[r] /\ pend[r] = <<>> => read[r] = head[r]
  /\ abandoned[r] => pend[r] = <<>> /\ phase[r] \in {"receive", "refused"}
  /\ phase[r] \in {"flush", "ack", "held"} => pend[r] # <<>>
  /\ phase[r] = "replay" =>
       \E t \in (read[r] + 1)..tail : fetched[r] = (read[r] + 1)..t

\* Nothing is queued before it is stored.
LiveInv(r) ==
  /\ queued[r] <= tail
  /\ \A k \in 1..Len(live[r]) : live[r][k] <= tail

OwedInv(r) ==
  \A p \in owed[r] :
    /\ head[r] # NoHead
    /\ p <= tail
    /\ p \in exported[r] \/ p > head[r]

\* The inductive invariant behind the safety properties.
IInv ==
  /\ TypeOK
  /\ LogInv
  /\ BatchInv
  /\ ReceiptInv
  /\ PublishedInSourceOrder
  /\ CommittedInputsAreComplete
  /\ \A r \in Routes : ChainInv(r) /\ CursorInv(r) /\ LiveInv(r) /\ OwedInv(r)

-----------------------------------------------------------------------------
\* The durable channel seen as a retained log.
Abstract == INSTANCE RetainedLog
  WITH published <- tail, trimmed <- floor, acked <- head

\* SpanJournal implements the retained log its routes rely on.
ImplementsRetainedLog == Abstract!Spec

\* "Output publication is independent of route delivery": an input whose
\* publication started is eventually committed.
PublicationTerminates == pub # 0 ~> pub = 0
=============================================================================
