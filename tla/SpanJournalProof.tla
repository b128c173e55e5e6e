-------------------------- MODULE SpanJournalProof --------------------------
(* Machine-checked proofs about SpanJournal. *)
EXTENDS SpanJournal, SequenceTheorems, TLAPS

\* The rest of a queue is a queue.
LEMMA SubSeqNat ==
  ASSUME NEW s \in Seq(Nat), NEW m \in Nat, m > 0
  PROVE  SubSeq(s, m, Len(s)) \in Seq(Nat)
<1>1. CASE m <= Len(s) + 1
  BY <1>1, SubSeqProperties
<1>2. CASE m > Len(s) + 1
  BY <1>2, SubSeqEmpty, EmptySeq
<1> QED BY <1>1, <1>2, LenProperties

\* What next_shared takes from is a sequence of positions.
LEMMA FeedType ==
  ASSUME TypeOKFeed, NEW r \in Routes
  PROVE  Feed(r) \in Seq(Nat)
BY DEF Feed, TypeOKFeed

\* Pruning keeps the log's tables well formed.
LEMMA PruneType ==
  ASSUME TypeOKDurable, NEW hs \in [Routes -> Nat \cup {NoHead}], NEW bs,
         Prune(hs, bs)
  PROVE  /\ ops' \subseteq ops
         /\ receipts' \subseteq receipts
         /\ floor' \in Nat
BY DEF TypeOKDurable, Prune, Registered, NoHead

\* Retained positions are numbers.
LEMMA OpsNat == TypeOKDurable => ops \subseteq Nat
BY DEF TypeOKDurable

\* Groups of variables that do not change keep their types.
LEMMA UnchangedTypes ==
  /\ TypeOKDurable /\ UNCHANGED durable => TypeOKDurable'
  /\ TypeOKProducer /\ UNCHANGED producer => TypeOKProducer'
  /\ TypeOKCursor /\ UNCHANGED cursor => TypeOKCursor'
  /\ TypeOKFeed /\ UNCHANGED feed => TypeOKFeed'
  /\ TypeOKHistory /\ UNCHANGED <<owed, exported, faults>> => TypeOKHistory'
BY DEF TypeOKDurable, TypeOKProducer, TypeOKCursor, TypeOKFeed, TypeOKHistory,
       durable, producer, cursor, feed

\* Initially every variable has its type.
LEMMA InitType == Init => TypeOK
<1> SUFFICES ASSUME Init PROVE TypeOK
  OBVIOUS
<1>1. TypeOKDurable
  <2>1. log \in [1..tail -> [input : Inputs, ordinal : Nat]]
    BY DEF Init
  <2> QED BY <2>1 DEF Init, TypeOKDurable, NoHead
<1>2. TypeOKProducer
  BY DEF Init, TypeOKProducer
<1>3. TypeOKCursor
  BY DEF Init, TypeOKCursor
<1>4. TypeOKFeed /\ TypeOKHistory
  BY DEF Init, TypeOKFeed, TypeOKHistory
<1> QED BY <1>1, <1>2, <1>3, <1>4 DEF TypeOK

\* The producer's steps keep the types.
LEMMA ProduceType == TypeOK /\ Produce => TypeOK'
<1> SUFFICES ASSUME TypeOK, Produce PROVE TypeOK'
  OBVIOUS
<1> USE DEF TypeOK
<1>1. ASSUME NEW i \in Inputs, Begin(i) PROVE TypeOK'
  <2>1. TypeOKDurable'
    BY <1>1 DEF Begin, TypeOKDurable
  <2>2. TypeOKProducer'
    BY <1>1 DEF Begin, TypeOKProducer
  <2> QED BY UnchangedTypes, <1>1, <2>1, <2>2 DEF Begin
<1>2. CASE SkipPublished
  BY <1>2, UnchangedTypes DEF SkipPublished, TypeOKProducer
<1>3. ASSUME NEW n \in 1..MaxChunk, AppendChunk(n) PROVE TypeOK'
  <2>1. log' \in [1..tail' -> [input : Inputs, ordinal : Nat]]
    BY <1>3 DEF AppendChunk, TypeOKDurable, TypeOKProducer, Op
  <2>2. ops' \subseteq 1..tail' /\ tail' \in Nat /\ ordinal' \in Nat
    BY <1>3 DEF AppendChunk, TypeOKDurable, TypeOKProducer
  <2>3. receipts' \subseteq [input : Inputs, ordinal : Nat]
    BY <1>3 DEF AppendChunk, TypeOKDurable, TypeOKProducer, Op
  <2>4. owed' \in [Routes -> SUBSET Nat]
    BY <1>3 DEF AppendChunk, TypeOKDurable, TypeOKHistory
  <2>5. TypeOKDurable'
    BY <1>3, <2>1, <2>2, <2>3 DEF AppendChunk, TypeOKDurable
  <2>6. TypeOKProducer' /\ TypeOKHistory'
    BY <1>3, <2>2, <2>4 DEF AppendChunk, TypeOKProducer, TypeOKHistory
  <2> QED BY UnchangedTypes, <1>3, <2>5, <2>6 DEF AppendChunk
<1>4. CASE StartPublish
  BY <1>4, UnchangedTypes DEF StartPublish, TypeOKProducer, Attached
<1>5. ASSUME NEW r \in Routes, SendLive(r) PROVE TypeOK'
  <2>1. Append(live[r], changed + 1) \in Seq(Nat)
    BY <1>5, AppendProperties DEF TypeOKFeed, TypeOKProducer
  <2>2. TypeOKFeed' /\ TypeOKProducer'
    BY <1>5, <2>1 DEF SendLive, TypeOKFeed, TypeOKProducer
  <2> QED BY UnchangedTypes, <1>5, <2>2 DEF SendLive
<1>6. CASE Announce
  <2>1. awake' \in [Routes -> BOOLEAN]
    BY <1>6, Zenon DEF Announce
  <2>2. TypeOKCursor'
    BY <1>6, <2>1 DEF Announce, TypeOKCursor
  <2>3. TypeOKProducer'
    <3>1. changed' \in Nat
      BY <1>6 DEF Announce, TypeOKProducer
    <3>2. sending' \in BOOLEAN /\ pub' = pub /\ ordinal' = ordinal /\ fan' = fan
      BY <1>6, Zenon DEF Announce
    <3> QED BY <3>1, <3>2 DEF TypeOKProducer
  <2> QED BY UnchangedTypes, <1>6, <2>2, <2>3 DEF Announce
<1>7. CASE Commit
  <2>1. ops' \subseteq ops /\ receipts' \subseteq receipts /\ floor' \in Nat
    BY <1>7, PruneType DEF Commit, TypeOKDurable
  <2>2. awake' \in [Routes -> BOOLEAN]
    BY <1>7, Zenon DEF Commit
  <2>3. TypeOKDurable'
    BY <1>7, <2>1 DEF Commit, TypeOKDurable, TypeOKProducer
  <2>4. TypeOKCursor' /\ TypeOKProducer'
    BY <1>7, <2>2 DEF Commit, TypeOKCursor, TypeOKProducer
  <2> QED BY UnchangedTypes, <1>7, <2>3, <2>4 DEF Commit
<1> QED BY <1>1, <1>2, <1>3, <1>4, <1>5, <1>6, <1>7 DEF Produce

\* A subscribed route has a durable position.
LEMMA SubscribeHead ==
  ASSUME TypeOKDurable, NEW r \in Routes, NEW through \in LegacyThrough,
         Subscribe(r, through)
  PROVE  /\ head' \in [Routes -> Nat \cup {NoHead}]
         /\ head'[r] \in Nat
<1>1. CASE head[r] # NoHead
  BY <1>1 DEF Subscribe, TypeOKDurable
<1>2. CASE head[r] = NoHead
  <2>1. PICK h \in SeedHead(through) : head' = [head EXCEPT ![r] = h]
    BY <1>2 DEF Subscribe
  <2>2. h \in Nat
    BY DEF SeedHead, Legacy, TypeOKDurable
  <2> QED BY <2>1, <2>2 DEF TypeOKDurable
<1> QED BY <1>1, <1>2

\* Attaching, subscribing and registering keep the types.
LEMMA ConnectType ==
  ASSUME TypeOK, NEW r \in Routes, Register(r) \/ Connect(r)
  PROVE  TypeOK'
<1> USE DEF TypeOK
<1>1. CASE Register(r)
  <2>1. TypeOKDurable' /\ TypeOKHistory'
    BY <1>1 DEF Register, TypeOKDurable, TypeOKHistory
  <2> QED BY UnchangedTypes, <1>1, <2>1 DEF Register
<1>2. CASE Attach(r)
  <2>1. TypeOKCursor' /\ TypeOKFeed'
    BY <1>2 DEF Attach, TypeOKCursor, TypeOKFeed
  <2> QED BY UnchangedTypes, <1>2, <2>1 DEF Attach
<1>3. ASSUME NEW through \in LegacyThrough, Subscribe(r, through) PROVE TypeOK'
  <2>1. head' \in [Routes -> Nat \cup {NoHead}] /\ head'[r] \in Nat
    BY <1>3, SubscribeHead
  <2>2. ops \ Legacy(through) \in SUBSET Nat
    BY OpsNat
  <2>3. owed' \in [Routes -> SUBSET Nat]
    BY <1>3, <2>2 DEF Subscribe, TypeOKHistory
  <2>4. TypeOKDurable' /\ TypeOKHistory'
    BY <1>3, <2>1, <2>3 DEF Subscribe, TypeOKDurable, TypeOKHistory
  <2>5. TypeOKCursor'
    BY <1>3, <2>1 DEF Subscribe, TypeOKCursor
  <2> QED BY UnchangedTypes, <1>3, <2>4, <2>5 DEF Subscribe
<1> QED BY <1>1, <1>2, <1>3 DEF Connect

\* A new delivery keeps the cursor well formed.
LEMMA DeliverType ==
  ASSUME TypeOKCursor, NEW r \in Routes, NEW items \in SUBSET Nat,
         NEW through \in Nat, Deliver(r, items, through),
         UNCHANGED <<awake, abandoned>>
  PROVE  TypeOKCursor'
<1> DEFINE d == Delivery(read[r], items, through)
<1>1. d \in DeliveryType
  BY DEF Delivery, DeliveryType, TypeOKCursor
<1>2. Append(pend[r], d) \in Seq(DeliveryType)
  BY <1>1, AppendProperties DEF TypeOKCursor
<1>3. pend' = [pend EXCEPT ![r] = Append(pend[r], d)]
  BY DEF Deliver
<1> HIDE DEF d
<1> QED BY <1>2, <1>3 DEF Deliver, TypeOKCursor

\* Taking records from the feed keeps it well formed.
LEMMA TakeFeedType ==
  ASSUME TypeOKFeed, NEW r \in Routes, NEW n \in Nat, TakeFeed(r, n),
         UNCHANGED paused
  PROVE  TypeOKFeed'
<1>1. SubSeq(Feed(r), n + 1, Len(Feed(r))) \in Seq(Nat)
  BY FeedType, SubSeqNat
<1> QED BY <1>1 DEF TakeFeed, TypeOKFeed

\* A cursor's and its consumer's steps keep the types.
LEMMA ConsumeType ==
  ASSUME TypeOK, NEW r \in Routes, CursorInv(r), Consume(r)
  PROVE  TypeOK'
<1> USE DEF TypeOK
<1>0. Feed(r) \in Seq(Nat)
  BY FeedType
<1>1. CASE Rewind(r)
  <2>1. head[r] \in Nat
    BY <1>1 DEF Rewind, TypeOKDurable, CursorInv
  <2>2. TypeOKCursor' /\ TypeOKFeed'
    BY <1>1, <2>1 DEF Rewind, TypeOKCursor, TypeOKFeed
  <2> QED BY UnchangedTypes, <1>1, <2>2 DEF Rewind
<1>2. CASE Idle(r)
  <2>1. TypeOKCursor' /\ TypeOKFeed' /\ TypeOKProducer'
    BY <1>2 DEF Idle, TypeOKCursor, TypeOKFeed, TypeOKProducer
  <2> QED BY UnchangedTypes, <1>2, <2>1 DEF Idle
<1>3. ASSUME NEW n \in 1..(LiveCapacity + 1), NEW keep \in BOOLEAN,
             ReceiveLive(r, n, keep)
      PROVE  TypeOK'
  <2>1. \A k \in 1..Len(Feed(r)) : Feed(r)[k] \in Nat
    BY <1>0, ElementOfSeq
  <2>2. n \in 1..Len(Feed(r)) /\ Len(Feed(r)) \in Nat
    BY <1>0, <1>3, LenProperties DEF ReceiveLive
  <2>3. TypeOKCursor'
    <3>1. {Feed(r)[k] : k \in 1..n} \in SUBSET Nat
      BY <2>1, <2>2
    <3> QED BY <1>3, <2>1, <2>2, <3>1, DeliverType DEF ReceiveLive
  <2>4. TypeOKFeed'
    <3>1. CASE TakeFeed(r, n)
      BY <1>3, <2>2, <3>1, TakeFeedType DEF ReceiveLive
    <3>2. CASE ~TakeFeed(r, n)
      <4>1. SubSeq(Feed(r), n + 2, Len(Feed(r))) \in Seq(Nat)
        BY <1>0, <2>2, SubSeqNat
      <4>2. n + 1 \in 1..Len(Feed(r))
        BY <1>3, <2>2, <3>2 DEF ReceiveLive
      <4> QED BY <1>3, <2>1, <3>2, <4>1, <4>2 DEF ReceiveLive, TypeOKFeed
    <3> QED BY <3>1, <3>2
  <2> QED BY UnchangedTypes, <1>3, <2>3, <2>4 DEF ReceiveLive
<1>4. ASSUME NEW through \in ops, ReplayRead(r, through) PROVE TypeOK'
  <2>1. TypeOKFeed'
    <3>1. CASE TakeFeed(r, 1)
      BY <1>4, <3>1, TakeFeedType DEF ReplayRead
    <3> QED BY <1>4, <3>1 DEF ReplayRead, TypeOKFeed
  <2>2. {p \in ops : read[r] < p /\ p <= through} \in SUBSET Nat
    BY OpsNat
  <2>3. TypeOKCursor'
    BY <1>4, <2>2 DEF ReplayRead, TypeOKCursor
  <2> QED BY UnchangedTypes, <1>4, <2>1, <2>3 DEF ReplayRead
<1>5. CASE ReplayDeliver(r)
  <2>1. PICK through \in fetched[r] : Deliver(r, fetched[r], through)
    BY <1>5 DEF ReplayDeliver
  <2>2. fetched[r] \in SUBSET Nat /\ through \in Nat
    BY <2>1 DEF TypeOKCursor
  <2>3. TypeOKCursor'
    BY <1>5, <2>1, <2>2, DeliverType DEF ReplayDeliver
  <2>4. TypeOKFeed'
    BY <1>5 DEF ReplayDeliver, TypeOKFeed
  <2> QED BY UnchangedTypes, <1>5, <2>3, <2>4 DEF ReplayDeliver
<1>6. CASE FlushOk(r)
  <2>1. \A k \in 1..Len(pend[r]) : pend[r][k].items \subseteq Nat
    <3> SUFFICES ASSUME NEW k \in 1..Len(pend[r])
                 PROVE  pend[r][k].items \subseteq Nat
      OBVIOUS
    <3>1. pend[r] \in Seq(DeliveryType)
      BY DEF TypeOKCursor
    <3>2. pend[r][k] \in DeliveryType
      BY <3>1, ElementOfSeq
    <3> QED BY <3>2 DEF DeliveryType
  <2>2. UNION {pend[r][k].items : k \in 1..Len(pend[r])} \in SUBSET Nat
    BY <2>1
  <2>3. TypeOKHistory'
    BY <1>6, <2>2 DEF FlushOk, TypeOKHistory
  <2>4. TypeOKCursor'
    BY <1>6 DEF FlushOk, TypeOKCursor
  <2> QED BY UnchangedTypes, <1>6, <2>3, <2>4 DEF FlushOk
<1>7. CASE RetryFlush(r)
  <2>1. TypeOKCursor'
    BY <1>7 DEF RetryFlush, TypeOKCursor
  <2> QED BY UnchangedTypes, <1>7, <2>1 DEF RetryFlush
<1>8. CASE Resubmit(r)
  <2>1. TypeOKCursor' /\ TypeOKFeed'
    BY <1>8 DEF Resubmit, TypeOKCursor, TypeOKFeed
  <2> QED BY UnchangedTypes, <1>8, <2>1 DEF Resubmit
<1>9. CASE Complete(r)
  <2>1. /\ Head(pend[r]) \in DeliveryType
        /\ Tail(pend[r]) \in Seq(DeliveryType)
    BY <1>9, HeadTailProperties DEF Complete, TypeOKCursor
  <2>2. /\ head' \in [Routes -> Nat \cup {NoHead}]
        /\ failure' \in [Routes -> BOOLEAN]
    BY <1>9, <2>1 DEF Complete, DeliveryType, TypeOKDurable
  <2>3. ops' \subseteq ops /\ receipts' \subseteq receipts /\ floor' \in Nat
    BY <1>9, <2>2, PruneType DEF Complete, TypeOKDurable
  <2>4. TypeOKDurable'
    BY <1>9, <2>2, <2>3 DEF Complete, TypeOKDurable
  <2>5. TypeOKCursor'
    BY <1>9, <2>1 DEF Complete, TypeOKCursor
  <2> QED BY UnchangedTypes, <1>9, <2>4, <2>5 DEF Complete
<1> QED
  BY <1>1, <1>2, <1>3, <1>4, <1>5, <1>6, <1>7, <1>8, <1>9 DEF Consume

\* Faults keep the types.
LEMMA FaultType ==
  ASSUME TypeOK, Crash \/ \E r \in Routes : Disturb(r)
  PROVE  TypeOK'
<1> USE DEF TypeOK
<1>1. CASE Crash
  <2>1. TypeOKProducer'
    BY <1>1 DEF Crash, TypeOKProducer, TypeOKDurable
  <2>0. TypeOKFeed'
    BY <1>1 DEF Crash, TypeOKFeed
  <2>2. TypeOKCursor'
    BY <1>1 DEF Crash, TypeOKCursor
  <2>3. TypeOKHistory'
    BY <1>1 DEF Crash, Fault, TypeOKHistory
  <2> QED BY UnchangedTypes, <1>1, <2>0, <2>1, <2>2, <2>3 DEF Crash
<1>2. ASSUME NEW r \in Routes, NEW n \in 0..(LiveCapacity + 1),
             SettingsChanged(r, n)
      PROVE  TypeOK'
  <2>1. TypeOKFeed'
    <3>1. CASE TakeFeed(r, n)
      BY <1>2, <3>1, TakeFeedType DEF SettingsChanged
    <3> QED BY <1>2, <3>1 DEF SettingsChanged, TypeOKFeed
  <2>2. TypeOKCursor' /\ TypeOKHistory'
    BY <1>2 DEF SettingsChanged, Fault, TypeOKCursor, TypeOKHistory
  <2> QED BY UnchangedTypes, <1>2, <2>1, <2>2 DEF SettingsChanged
<1>6. ASSUME NEW r \in Routes, InputFailed(r) PROVE TypeOK'
  <2>1. TypeOKFeed'
    <3>1. CASE TakeFeed(r, 1)
      <4>1. paused' \in [Routes -> BOOLEAN]
        BY <1>6 DEF InputFailed, TypeOKFeed
      <4>2. SubSeq(Feed(r), 2, Len(Feed(r))) \in Seq(Nat)
        BY FeedType, SubSeqNat
      <4>3. queued' \in [Routes -> Nat]
        BY <3>1 DEF TakeFeed, TypeOKFeed
      <4>4. live' = [live EXCEPT ![r] = SubSeq(Feed(r), 2, Len(Feed(r)))]
        BY <3>1 DEF TakeFeed
      <4>5. live' \in [Routes -> Seq(Nat)]
        BY <4>2, <4>4 DEF TypeOKFeed
      <4> QED BY <4>1, <4>3, <4>5 DEF TypeOKFeed
    <3> QED BY <1>6, <3>1 DEF InputFailed, TypeOKFeed
  <2>2. TypeOKCursor' /\ TypeOKHistory'
    BY <1>6 DEF InputFailed, Fault, TypeOKCursor, TypeOKHistory
  <2>3. TypeOKDurable'
    BY <1>6 DEF InputFailed, TypeOKDurable
  <2> QED BY UnchangedTypes, <1>6, <2>1, <2>2, <2>3 DEF InputFailed
<1>3. ASSUME NEW r \in Routes, FlushDeferred(r) PROVE TypeOK'
  <2>1. TypeOKCursor' /\ TypeOKHistory'
    BY <1>3 DEF FlushDeferred, Fault, TypeOKCursor, TypeOKHistory
  <2> QED BY UnchangedTypes, <1>3, <2>1 DEF FlushDeferred
<1>4. ASSUME NEW r \in Routes, Hold(r) PROVE TypeOK'
  <2>1. TypeOKCursor' /\ TypeOKHistory' /\ TypeOKFeed'
    BY <1>4 DEF Hold, Fault, TypeOKCursor, TypeOKHistory, TypeOKFeed
  <2>2. TypeOKDurable'
    BY <1>4 DEF Hold, TypeOKDurable
  <2> QED BY UnchangedTypes, <1>4, <2>1, <2>2 DEF Hold
<1>5. ASSUME NEW r \in Routes, StopRoute(r) PROVE TypeOK'
  <2>1. TypeOKCursor' /\ TypeOKHistory' /\ TypeOKFeed'
    BY <1>5
    DEF StopRoute, Detached, Fault, TypeOKCursor, TypeOKHistory, TypeOKFeed
  <2> QED BY UnchangedTypes, <1>5, <2>1 DEF StopRoute
<1> QED BY <1>1, <1>2, <1>3, <1>4, <1>5, <1>6 DEF Disturb

\* Every step of a state of the inductive invariant keeps the types.
LEMMA TypeStep == IInv /\ [Next]_vars => TypeOK'
<1> SUFFICES ASSUME IInv, [Next]_vars PROVE TypeOK'
  OBVIOUS
<1>1. CASE Next
  BY <1>1, ProduceType, ConnectType, ConsumeType, FaultType DEF Next, IInv
<1>2. CASE UNCHANGED vars
  BY <1>2, UnchangedTypes
  DEF vars, durable, producer, cursor, feed, TypeOK, IInv
<1> QED BY <1>1, <1>2

-----------------------------------------------------------------------------
(* The log, the batches and the receipts *)

\* The effect of pruning: it moves the floor up to the slowest head, and it
\* drops the receipts of whole inputs, none that a row or an open input needs.
LEMMA PruneEffect ==
  ASSUME TypeOKDurable, LogInv,
         NEW hs \in [Routes -> Nat \cup {NoHead}], NEW bs,
         \A r \in Registered(hs) : floor <= hs[r] /\ hs[r] <= tail,
         Prune(hs, bs)
  PROVE  /\ floor <= floor' /\ floor' <= tail
         /\ ops' = (floor' + 1)..tail
         /\ \A r \in Registered(hs) : floor' <= hs[r]
         /\ receipts' \subseteq receipts
         /\ \A x \in receipts : bs[x.input] # "done" => x \in receipts'
         /\ \A p \in ops' : \A x \in receipts :
              x.input = log[p].input => x \in receipts'
         /\ \A x \in receipts', y \in receipts :
              x.input = y.input => y \in receipts'
<1>1. CASE Registered(hs) = {}
  BY <1>1 DEF Prune, LogInv, TypeOKDurable
<1>2. CASE Registered(hs) # {}
  <2>1. PICK through \in {hs[r] : r \in Registered(hs)} :
          /\ \A r \in Registered(hs) : through <= hs[r]
          /\ ops' = {p \in ops : p > through}
          /\ floor' = IF floor < through THEN through ELSE floor
          /\ receipts' = {x \in receipts :
               \/ bs[x.input] # "done"
               \/ \E p \in ops : p > through /\ log[p].input = x.input}
    BY <1>2 DEF Prune
  <2>2. through \in Nat /\ floor <= through /\ through <= tail
    BY <2>1 DEF Registered, TypeOKDurable, NoHead
  <2>3. floor' = through /\ ops' = (through + 1)..tail
    BY <2>1, <2>2 DEF LogInv, TypeOKDurable
  <2>4. \A p \in ops' : p \in ops /\ p > through
    BY <2>1
  <2> QED BY <2>1, <2>2, <2>3, <2>4 DEF TypeOKDurable
<1> QED BY <1>1, <1>2

logVars == <<batch, log, ops, receipts, tail, floor, head,
             pub, ordinal, changed, sending>>

\* The steps that touch the log.
LEMMA LogActions ==
  ASSUME [Next]_vars
  PROVE  \/ \E i \in Inputs : Begin(i)
         \/ SkipPublished
         \/ \E n \in 1..MaxChunk : AppendChunk(n)
         \/ StartPublish
         \/ Announce
         \/ Commit
         \/ \E r \in Routes : Register(r)
         \/ \E r \in Routes, through \in LegacyThrough : Subscribe(r, through)
         \/ \E r \in Routes : Complete(r)
         \/ Crash
         \/ UNCHANGED logVars
<1> USE DEF logVars, durable, producer, cursor, feed
<1>1. ASSUME NEW r \in Routes, SendLive(r) PROVE UNCHANGED logVars
  BY <1>1 DEF SendLive
<1>2. ASSUME NEW r \in Routes, Connect(r)
      PROVE  \/ UNCHANGED logVars
             \/ \E through \in LegacyThrough : Subscribe(r, through)
  BY <1>2 DEF Connect, Attach
<1>3. ASSUME NEW r \in Routes, Consume(r)
      PROVE  UNCHANGED logVars \/ Complete(r)
  BY <1>3 DEF Consume, Rewind, Idle, ReceiveLive, ReplayRead, ReplayDeliver,
              FlushOk, RetryFlush, Resubmit
<1>4. ASSUME NEW r \in Routes, Disturb(r) PROVE UNCHANGED logVars
  BY <1>4 DEF Disturb, SettingsChanged, InputFailed, FlushDeferred, Hold, StopRoute
<1>5. CASE UNCHANGED vars
  BY <1>5 DEF vars
<1>6. CASE Produce
  BY <1>1, <1>6 DEF Produce
<1> QED BY <1>2, <1>3, <1>4, <1>5, <1>6 DEF Next

\* A completed delivery moves a known head up within the log.
LEMMA CompleteHead ==
  ASSUME IInv, NEW r \in Routes, Complete(r)
  PROVE  /\ head[r] \in Nat
         /\ Head(pend[r]) = pend[r][1]
         /\ 1 \in 1..Len(pend[r])
         /\ pend[r][1] \in DeliveryType
         /\ pend[r][1].expected = head[r]
         /\ head[r] < pend[r][1].through
         /\ pend[r][1].through <= tail
         /\ head' = [head EXCEPT ![r] = pend[r][1].through]
         /\ Prune(head', batch)
<1>1. pend[r] \in Seq(DeliveryType) /\ pend[r] # <<>>
  BY DEF IInv, TypeOK, TypeOKCursor, Complete
<1>2. 1 \in 1..Len(pend[r]) /\ Head(pend[r]) = pend[r][1]
  BY <1>1, EmptySeq, HeadTailProperties, LenProperties
<1>3. pend[r][1] \in DeliveryType
  BY <1>1, <1>2, ElementOfSeq
<1>4. phase[r] = "ack" /\ head[r] # NoHead /\ read[r] <= tail
  BY DEF Complete, IInv, CursorInv
<1>5. head[r] \in Nat /\ read[r] \in Nat /\ tail \in Nat
  BY <1>4 DEF IInv, TypeOK, TypeOKDurable, TypeOKCursor
<1>6. /\ pend[r][1].expected = head[r]
      /\ pend[r][1].expected < pend[r][1].through
      /\ pend[r][1].through <= read[r]
  BY <1>1, <1>2 DEF IInv, ChainInv
<1>7. ~(head[r] >= pend[r][1].through)
  BY <1>3, <1>5, <1>6 DEF DeliveryType
<1> QED BY <1>2, <1>3, <1>4, <1>5, <1>6, <1>7 DEF Complete, DeliveryType

\* ... and leaves every known head within the log.
LEMMA CompleteInLog ==
  ASSUME IInv, NEW r \in Routes, Complete(r)
  PROVE  \A q \in Registered(head') : floor <= head'[q] /\ head'[q] <= tail
<1> USE DEF IInv, TypeOK, TypeOKDurable, NoHead
<1>1. /\ head'[r] \in Nat /\ head[r] < head'[r] /\ head'[r] <= tail
      /\ \A q \in Routes : q # r => head'[q] = head[q]
      /\ head[r] \in Nat
  BY CompleteHead DEF DeliveryType
<1> TAKE q \in Registered(head')
<1>2. q \in Routes /\ head'[q] # NoHead
  BY DEF Registered
<1>3. CASE q # r
  BY <1>1, <1>2, <1>3 DEF LogInv
<1>4. CASE q = r
  <2>1. head[r] # NoHead => floor <= head[r]
    BY DEF LogInv
  <2>2. floor \in Nat /\ floor <= head[r]
    BY <1>1, <2>1
  <2> HIDE DEF IInv, TypeOK
  <2> QED BY <1>1, <1>4, <2>2
<1> QED BY <1>3, <1>4

\* LogInv is preserved.
LEMMA LogStep ==
  ASSUME IInv, [Next]_vars
  PROVE  LogInv'
<1> USE DEF IInv, TypeOK, TypeOKDurable, TypeOKProducer, NoHead
<1>1. ASSUME NEW i \in Inputs, Begin(i) PROVE LogInv'
  <2>1. ops' = ops
    <3>1. CASE \E x \in receipts : x.input = i
      BY <1>1, <3>1 DEF Begin
    <3>2. CASE ~\E x \in receipts : x.input = i
      <4>1. \A p \in ops : log[p].input # i
        BY <3>2 DEF ReceiptInv
      <4> QED BY <1>1, <3>2, <4>1 DEF Begin
    <3> QED BY <3>1, <3>2
  <2> QED BY <1>1, <2>1 DEF Begin, LogInv
<1>2. CASE SkipPublished
  BY <1>2 DEF SkipPublished, LogInv, durable
<1>3. ASSUME NEW n \in 1..MaxChunk, AppendChunk(n) PROVE LogInv'
  <2>1. n \in Nat /\ n > 0
    BY <1>3, JournalAssumption
  <2>2. ops' = (floor + 1)..(tail + n)
    BY <1>3, <2>1 DEF AppendChunk, LogInv
  <2> QED BY <1>3, <2>1, <2>2 DEF AppendChunk, LogInv
<1>4. CASE StartPublish
  BY <1>4 DEF StartPublish, LogInv, durable
<1>5. CASE Announce
  BY <1>5 DEF Announce, LogInv, durable
<1>6. CASE Commit
  <2>1. \A r \in Registered(head) : floor <= head[r] /\ head[r] <= tail
    BY DEF Registered, LogInv
  <2>2. /\ floor' <= tail
        /\ ops' = (floor' + 1)..tail
        /\ \A r \in Registered(head) : floor' <= head[r]
    BY <1>6, <2>1, PruneEffect DEF Commit
  <2> QED BY <1>6, <2>2 DEF Commit, LogInv, Registered
<1>7. ASSUME NEW r \in Routes, Register(r) PROVE LogInv'
  BY <1>7 DEF Register, LogInv, producer
<1>8. ASSUME NEW r \in Routes, NEW through \in LegacyThrough,
             Subscribe(r, through)
      PROVE  LogInv'
  <2>1. CASE head[r] # NoHead
    BY <1>8, <2>1 DEF Subscribe, LogInv, producer
  <2>2. CASE head[r] = NoHead
    <3>1. PICK h \in SeedHead(through) : head' = [head EXCEPT ![r] = h]
      BY <1>8, <2>2 DEF Subscribe
    <3>2. h \in Nat /\ floor <= h /\ h <= tail
      BY DEF SeedHead, Legacy, LogInv
    <3> QED BY <1>8, <3>1, <3>2 DEF Subscribe, LogInv, producer
  <2> QED BY <2>1, <2>2
<1>9. ASSUME NEW r \in Routes, Complete(r) PROVE LogInv'
  <2>1. head' \in [Routes -> Nat \cup {NoHead}]
    BY <1>9, CompleteHead DEF DeliveryType
  <2>2. \A q \in Registered(head') : floor <= head'[q] /\ head'[q] <= tail
    BY <1>9, CompleteInLog
  <2>3. /\ floor' <= tail
        /\ ops' = (floor' + 1)..tail
        /\ \A q \in Registered(head') : floor' <= head'[q]
    BY <1>9, <2>1, <2>2, CompleteHead, PruneEffect
  <2> QED BY <1>9, <2>1, <2>2, <2>3 DEF Complete, LogInv, Registered, producer
<1>10. CASE Crash
  BY <1>10 DEF Crash, LogInv, durable
<1>11. CASE UNCHANGED logVars
  BY <1>11 DEF logVars, LogInv
<1> QED
  BY <1>1, <1>2, <1>3, <1>4, <1>5, <1>6, <1>7, <1>8, <1>9, <1>10, <1>11,
     LogActions

\* BatchInv is preserved.
LEMMA BatchStep ==
  ASSUME IInv, [Next]_vars
  PROVE  BatchInv'
<1> USE JournalAssumption
    DEF IInv, TypeOK, TypeOKDurable, TypeOKProducer, Inputs
<1>1. ASSUME NEW i \in Inputs, Begin(i) PROVE BatchInv'
  BY <1>1 DEF Begin, BatchInv
<1>2. CASE Commit
  BY <1>2 DEF Commit, BatchInv
<1>3. CASE Crash
  BY <1>3 DEF Crash, BatchInv, durable
<1>4. CASE UNCHANGED <<batch, pub>>
  BY <1>4 DEF BatchInv
<1>5. ASSUME NEW r \in Routes, NEW through \in LegacyThrough,
             Register(r) \/ Subscribe(r, through) \/ Complete(r)
      PROVE  UNCHANGED <<batch, pub>>
  BY <1>5 DEF Register, Subscribe, Complete, producer
<1> QED
  BY <1>1, <1>2, <1>3, <1>4, <1>5, LogActions
  DEF SkipPublished, AppendChunk, StartPublish, Announce, durable, logVars,
      Register, Complete, producer

\* Pruning never takes a receipt that a row or the resumed publication of an
\* open input still needs.
LEMMA PruneReceipts ==
  ASSUME IInv,
         UNCHANGED <<log, tail>>,
         \A i \in Inputs : /\ batch[i] # "none" => batch'[i] # "none"
                           /\ batch'[i] = "open" => batch[i] = "open",
         pub' = 0 \/ UNCHANGED <<pub, ordinal, batch>>,
         NEW hs \in [Routes -> Nat \cup {NoHead}],
         \A r \in Registered(hs) : floor <= hs[r] /\ hs[r] <= tail,
         Prune(hs, batch')
  PROVE  ReceiptInv'
<1> USE DEF IInv, TypeOK, TypeOKDurable, TypeOKProducer
<1>1. /\ ops' \subseteq ops
      /\ receipts' \subseteq receipts
      /\ \A x \in receipts : batch'[x.input] # "done" => x \in receipts'
      /\ \A p \in ops' : \A x \in receipts :
            x.input = log[p].input => x \in receipts'
      /\ \A x \in receipts', y \in receipts :
            x.input = y.input => y \in receipts'
  BY PruneEffect, PruneType
<1>2. \A p \in ops' : log[p] \in receipts'
  BY <1>1 DEF ReceiptInv
<1>3. \A p \in 1..tail : batch'[log[p].input] = "open" => log[p] \in receipts'
  BY <1>1 DEF ReceiptInv
<1>4. \A x \in receipts' : \A o \in 1..x.ordinal : Op(x.input, o) \in receipts'
  BY <1>1 DEF ReceiptInv, Op
<1>5. pub' # 0 => \A o \in 1..ordinal' : Op(pub', o) \in receipts'
  BY <1>1 DEF ReceiptInv, BatchInv, Op
<1>6. \A p \in 1..tail : batch'[log[p].input] # "none"
  BY DEF ReceiptInv
<1>7. \A x \in receipts' : batch'[x.input] # "none" /\ \E p \in 1..tail : log[p] = x
  BY <1>1 DEF ReceiptInv
<1> QED BY <1>2, <1>3, <1>4, <1>5, <1>6, <1>7 DEF ReceiptInv

\* ReceiptInv is preserved.
LEMMA ReceiptStep ==
  ASSUME IInv, [Next]_vars
  PROVE  ReceiptInv'
<1> USE DEF IInv, TypeOK, TypeOKDurable, TypeOKProducer
<1>1. ASSUME NEW i \in Inputs, Begin(i) PROVE ReceiptInv'
  <2>1. /\ UNCHANGED <<log, receipts, tail>>
        /\ ops' \subseteq ops
        /\ pub' = i /\ ordinal' = 0
        /\ batch' = [batch EXCEPT ![i] = "open"]
    BY <1>1 DEF Begin
  <2>2. CASE batch[i] = "open"
    <3>1. batch' = batch
      BY <2>1, <2>2
    <3> QED BY <2>1, <3>1 DEF ReceiptInv
  <2>3. CASE batch[i] = "none"
    <3>1. \A p \in 1..tail : log[p].input # i
      BY <2>3 DEF ReceiptInv
    <3>2. \A x \in receipts : x.input # i
      BY <2>3 DEF ReceiptInv
    <3> QED BY <2>1, <3>1, <3>2 DEF ReceiptInv
  <2> QED BY <1>1, <2>2, <2>3 DEF Begin
<1>2. CASE SkipPublished
  <2>1. \A o \in 1..ordinal' : Op(pub', o) \in receipts'
    <3>1. /\ pub # 0 /\ ordinal' = ordinal + 1 /\ UNCHANGED <<pub, receipts>>
          /\ Op(pub, ordinal + 1) \in receipts
      BY <1>2 DEF SkipPublished, durable
    <3>2. \A o \in 1..ordinal : Op(pub, o) \in receipts
      BY <3>1 DEF ReceiptInv
    <3>3. \A o \in 1..(ordinal + 1) : o \in 1..ordinal \/ o = ordinal + 1
      OBVIOUS
    <3> QED BY <3>1, <3>2, <3>3
  <2> QED BY <1>2, <2>1 DEF SkipPublished, ReceiptInv, durable
<1>3. ASSUME NEW n \in 1..MaxChunk, AppendChunk(n) PROVE ReceiptInv'
  <2> DEFINE new == {Op(pub, o) : o \in (ordinal + 1)..(ordinal + n)}
  <2>1. n \in Nat /\ n > 0 /\ pub \in Inputs /\ batch[pub] = "open"
    BY <1>3, JournalAssumption DEF AppendChunk, BatchInv
  <2>2. /\ tail' = tail + n
        /\ receipts' = receipts \cup new
        /\ ops' = ops \cup (tail + 1)..(tail + n)
        /\ \A p \in 1..tail : log'[p] = log[p]
        /\ \A p \in (tail + 1)..(tail + n) :
             log'[p] = Op(pub, ordinal + p - tail)
        /\ UNCHANGED <<pub, batch>> /\ ordinal' = ordinal + n
    BY <1>3, <2>1 DEF AppendChunk
  <2>3. \A p \in (tail + 1)..(tail + n) : log'[p] \in new
    <3> TAKE p \in (tail + 1)..(tail + n)
    <3>1. ordinal + p - tail \in (ordinal + 1)..(ordinal + n)
      BY <2>1
    <3> QED BY <2>2, <3>1
  <2>4. \A x \in new : x.input = pub
    BY DEF Op
  <2>5. \A x \in new : \E p \in 1..tail' : log'[p] = x
    <3> TAKE x \in new
    <3>1. PICK o \in (ordinal + 1)..(ordinal + n) : x = Op(pub, o)
      OBVIOUS
    <3> DEFINE p == tail + o - ordinal
    <3>2. p \in (tail + 1)..(tail + n) /\ ordinal + p - tail = o
      BY <2>1
    <3>3. log'[p] = x /\ p \in 1..tail'
      BY <2>1, <2>2, <3>1, <3>2
    <3> QED BY <3>3
  <2>6. \A o \in 1..ordinal' : Op(pub, o) \in receipts'
    BY <1>3, <2>1, <2>2 DEF AppendChunk, ReceiptInv
  <2>7. \A x \in new : \A o \in 1..x.ordinal : Op(x.input, o) \in receipts'
    BY <2>1, <2>2, <2>6 DEF Op
  <2> HIDE DEF new
  <2>8. \A p \in ops' : log'[p] \in receipts'
    BY <2>1, <2>2, <2>3 DEF ReceiptInv
  <2>9. \A p \in 1..tail' :
          /\ batch'[log'[p].input] # "none"
          /\ batch'[log'[p].input] = "open" => log'[p] \in receipts'
    BY <2>1, <2>2, <2>3, <2>4 DEF ReceiptInv
  <2>10. \A x \in receipts' :
          /\ batch'[x.input] # "none"
          /\ \E p \in 1..tail' : log'[p] = x
          /\ \A o \in 1..x.ordinal : Op(x.input, o) \in receipts'
    <3> TAKE x \in receipts'
    <3>1. CASE x \in receipts
      <4>1. PICK p \in 1..tail : log[p] = x
        BY <3>1 DEF ReceiptInv
      <4>2. p \in 1..tail' /\ log'[p] = x
        BY <2>1, <2>2, <4>1
      <4>3. /\ batch'[x.input] # "none"
            /\ \A o \in 1..x.ordinal : Op(x.input, o) \in receipts'
        BY <2>2, <3>1 DEF ReceiptInv
      <4> QED BY <4>2, <4>3
    <3>2. CASE x \in new
      BY <2>1, <2>2, <2>4, <2>5, <2>7, <3>2
    <3> QED BY <2>2, <3>1, <3>2
  <2> QED BY <2>2, <2>6, <2>8, <2>9, <2>10 DEF ReceiptInv
<1>4. CASE Commit
  <2>1. \A r \in Registered(head) : floor <= head[r] /\ head[r] <= tail
    BY DEF Registered, LogInv
  <2>2. \A i \in Inputs : /\ batch[i] # "none" => batch'[i] # "none"
                          /\ batch'[i] = "open" => batch[i] = "open"
    BY <1>4 DEF Commit
  <2> QED BY <1>4, <2>1, <2>2, PruneReceipts DEF Commit
<1>5. ASSUME NEW r \in Routes, Complete(r) PROVE ReceiptInv'
  <2>1. \A q \in Registered(head') : floor <= head'[q] /\ head'[q] <= tail
    BY <1>5, CompleteInLog
  <2>2. head' \in [Routes -> Nat \cup {NoHead}] /\ Prune(head', batch)
    BY <1>5, CompleteHead DEF DeliveryType
  <2>3. UNCHANGED <<log, tail, batch, pub, ordinal>>
    BY <1>5 DEF Complete, producer
  <2> QED BY <2>1, <2>2, <2>3, PruneReceipts
<1>6. CASE Crash
  BY <1>6 DEF Crash, ReceiptInv, durable
<1>7. CASE UNCHANGED <<batch, log, ops, receipts, tail, pub, ordinal>>
  BY <1>7 DEF ReceiptInv
<1>8. ASSUME NEW r \in Routes, NEW through \in LegacyThrough,
             Subscribe(r, through)
      PROVE  UNCHANGED <<batch, log, ops, receipts, tail, pub, ordinal>>
  BY <1>8 DEF Subscribe, producer
<1>9. ASSUME NEW r \in Routes, Register(r)
      PROVE  UNCHANGED <<batch, log, ops, receipts, tail, pub, ordinal>>
  BY <1>9 DEF Register, producer
<1>10. StartPublish \/ Announce \/ UNCHANGED logVars =>
         UNCHANGED <<batch, log, ops, receipts, tail, pub, ordinal>>
  BY DEF StartPublish, Announce, durable, logVars
<1> QED
  BY <1>1, <1>2, <1>3, <1>4, <1>5, <1>6, <1>7, <1>8, <1>9, <1>10, LogActions

\* Facts about an append: what it adds comes after everything in the log.
LEMMA AppendEffect ==
  ASSUME IInv, NEW n \in 1..MaxChunk, AppendChunk(n)
  PROVE  /\ n \in Nat /\ n > 0 /\ tail' = tail + n
         /\ pub \in Inputs /\ UNCHANGED batch
         /\ \A p \in 1..tail : log'[p] = log[p]
         /\ \A p \in (tail + 1)..(tail + n) :
              log'[p] = Op(pub, ordinal + p - tail)
         /\ \A p \in 1..tail :
              \/ log[p].input < pub
              \/ log[p].input = pub /\ log[p].ordinal <= ordinal
<1> USE DEF IInv, TypeOK, TypeOKDurable, TypeOKProducer
<1>1. n \in Nat /\ n > 0 /\ pub \in Inputs /\ batch[pub] = "open"
  BY JournalAssumption DEF AppendChunk, BatchInv
<1>2. /\ tail' = tail + n /\ UNCHANGED batch
      /\ \A p \in 1..tail : log'[p] = log[p]
      /\ \A p \in (tail + 1)..(tail + n) :
           log'[p] = Op(pub, ordinal + p - tail)
  BY <1>1 DEF AppendChunk
<1>3. Op(pub, ordinal + 1) \notin receipts
  BY <1>1 DEF AppendChunk
<1>4. ASSUME NEW p \in 1..tail
      PROVE  \/ log[p].input < pub
             \/ log[p].input = pub /\ log[p].ordinal <= ordinal
  <2>1. log[p].input \in Inputs /\ log[p].ordinal \in Nat
    OBVIOUS
  <2>2. CASE log[p].input = pub
    <3>1. log[p] \in receipts
      BY <1>1, <2>2 DEF ReceiptInv
    <3>2. \A o \in 1..log[p].ordinal : Op(pub, o) \in receipts
      BY <2>2, <3>1 DEF ReceiptInv
    <3>3. ~(ordinal + 1 <= log[p].ordinal)
      BY <1>3, <2>1, <3>2
    <3> QED BY <2>1, <2>2, <3>3
  <2>3. CASE log[p].input > pub
    <3>1. batch[log[p].input] # "none"
      BY DEF ReceiptInv
    <3>2. \A j \in 1..(log[p].input - 1) : batch[j] = "done"
      BY <2>1, <3>1 DEF BatchInv
    <3>3. pub \in 1..(log[p].input - 1)
      BY <1>1, <2>1, <2>3, JournalAssumption DEF Inputs
    <3> QED BY <1>1, <3>2, <3>3
  <2> QED BY <1>1, <2>1, <2>2, <2>3, JournalAssumption DEF Inputs
<1> QED BY <1>1, <1>2, <1>4

\* The log is unchanged by every step but an append.
LEMMA LogFrame ==
  ASSUME [Next]_vars
  PROVE  (\E n \in 1..MaxChunk : AppendChunk(n)) \/ UNCHANGED <<log, tail>>
<1>1. ASSUME NEW r \in Routes, NEW through \in LegacyThrough,
             Subscribe(r, through)
      PROVE  UNCHANGED <<log, tail>>
  BY <1>1 DEF Subscribe
<1>2. ASSUME NEW r \in Routes, Register(r) \/ Complete(r)
      PROVE  UNCHANGED <<log, tail>>
  BY <1>2 DEF Register, Complete
<1>3. ASSUME NEW i \in Inputs, Begin(i) PROVE UNCHANGED <<log, tail>>
  BY <1>3 DEF Begin
<1> QED
  BY <1>1, <1>2, <1>3, LogActions
  DEF SkipPublished, StartPublish, Announce, Commit, Crash, durable, logVars

\* The order of the log is preserved.
LEMMA OrderStep ==
  ASSUME IInv, [Next]_vars
  PROVE  PublishedInSourceOrder'
<1> USE DEF IInv, TypeOK, TypeOKDurable, TypeOKProducer
<1>1. ASSUME NEW n \in 1..MaxChunk, AppendChunk(n)
      PROVE  PublishedInSourceOrder'
  <2> SUFFICES ASSUME NEW p \in 1..tail', NEW q \in 1..tail', p < q
               PROVE  \/ log'[p].input < log'[q].input
                      \/ /\ log'[p].input = log'[q].input
                         /\ log'[p].ordinal < log'[q].ordinal
    BY DEF PublishedInSourceOrder
  <2>0. /\ n \in Nat /\ n > 0 /\ tail' = tail + n /\ pub \in Inputs
        /\ \A k \in 1..tail : log'[k] = log[k]
        /\ \A k \in (tail + 1)..(tail + n) :
             log'[k] = Op(pub, ordinal + k - tail)
        /\ \A k \in 1..tail :
             \/ log[k].input < pub
             \/ log[k].input = pub /\ log[k].ordinal <= ordinal
    BY <1>1, AppendEffect
  <2>1. CASE q <= tail
    <3>1. p \in 1..tail /\ q \in 1..tail
      BY <2>0, <2>1
    <3>2. \/ log[p].input < log[q].input
          \/ log[p].input = log[q].input /\ log[p].ordinal < log[q].ordinal
      BY <3>1 DEF PublishedInSourceOrder
    <3> HIDE DEF IInv, TypeOK
    <3> QED BY <2>0, <3>1, <3>2
  <2>2. CASE q > tail /\ p <= tail
    <3>1. p \in 1..tail /\ q \in (tail + 1)..(tail + n)
      BY <2>0, <2>2
    <3>0. log'[q] = Op(pub, ordinal + q - tail)
      BY <2>0, <3>1
    <3>2. log'[q].input = pub /\ log'[q].ordinal = ordinal + q - tail
      BY <3>0 DEF Op
    <3>3. log'[p] = log[p] /\ log[p].ordinal \in Nat
      BY <2>0, <3>1
    <3> QED BY <2>0, <3>1, <3>2, <3>3
  <2>3. CASE p > tail
    <3>1. p \in (tail + 1)..(tail + n) /\ q \in (tail + 1)..(tail + n)
      BY <2>0, <2>3
    <3>0. /\ log'[p] = Op(pub, ordinal + p - tail)
          /\ log'[q] = Op(pub, ordinal + q - tail)
      BY <2>0, <3>1
    <3>2. /\ log'[q].input = pub /\ log'[q].ordinal = ordinal + q - tail
          /\ log'[p].input = pub /\ log'[p].ordinal = ordinal + p - tail
      BY <3>0 DEF Op
    <3> QED BY <3>1, <3>2
  <2> QED BY <2>0, <2>1, <2>2, <2>3
<1>2. CASE UNCHANGED <<log, tail>>
  BY <1>2 DEF PublishedInSourceOrder
<1> QED BY <1>1, <1>2, LogFrame

\* A committed input stays complete, and a commit only happens when it is.
LEMMA CommittedStep ==
  ASSUME IInv, [Next]_vars
  PROVE  CommittedInputsAreComplete'
<1> USE DEF IInv, TypeOK, TypeOKDurable, TypeOKProducer
<1>1. ASSUME NEW n \in 1..MaxChunk, AppendChunk(n)
      PROVE  CommittedInputsAreComplete'
  <2> SUFFICES ASSUME NEW i \in Inputs, batch'[i] = "done",
                      NEW o \in 1..OpCount[i]
               PROVE  \E p \in 1..tail' : log'[p] = Op(i, o)
    BY DEF CommittedInputsAreComplete
  <2>1. PICK p \in 1..tail : log[p] = Op(i, o)
    BY <1>1, AppendEffect DEF CommittedInputsAreComplete
  <2> QED BY <1>1, <2>1, AppendEffect
<1>2. CASE Commit
  <2>1. UNCHANGED <<log, tail>> /\ batch' = [batch EXCEPT ![pub] = "done"]
        /\ pub \in Inputs /\ ordinal = OpCount[pub]
    BY <1>2 DEF Commit
  <2>2. \A o \in 1..OpCount[pub] : \E p \in 1..tail : log[p] = Op(pub, o)
    BY <1>2, <2>1 DEF ReceiptInv, Commit
  <2> QED BY <2>1, <2>2 DEF CommittedInputsAreComplete
<1>3. CASE UNCHANGED <<log, tail>> /\ \A i \in Inputs : batch'[i] = "done" => batch[i] = "done"
  BY <1>3 DEF CommittedInputsAreComplete
<1>4. ASSUME NEW i \in Inputs, Begin(i)
      PROVE  \A j \in Inputs : batch'[j] = "done" => batch[j] = "done"
  BY <1>4 DEF Begin
<1>5. ASSUME NEW r \in Routes, NEW through \in LegacyThrough,
             Subscribe(r, through)
      PROVE  UNCHANGED batch
  BY <1>5 DEF Subscribe
<1>6. ASSUME NEW r \in Routes, Register(r) \/ Complete(r)
      PROVE  UNCHANGED batch
  BY <1>6 DEF Register, Complete
<1> QED
  BY <1>1, <1>2, <1>3, <1>4, <1>5, <1>6, LogFrame, LogActions
  DEF SkipPublished, StartPublish, Announce, Crash, durable, logVars

-----------------------------------------------------------------------------
(* One route *)

SameRoute(q) ==
  /\ tail' = tail
  /\ head'[q] = head[q]
  /\ phase'[q] = phase[q]
  /\ read'[q] = read[q]
  /\ abandoned'[q] = abandoned[q]
  /\ fetched'[q] = fetched[q]
  /\ pend'[q] = pend[q]
  /\ live'[q] = live[q]
  /\ queued'[q] = queued[q]
  /\ owed'[q] = owed[q]
  /\ exported'[q] = exported[q]

RouteInv(q) == ChainInv(q) /\ CursorInv(q) /\ LiveInv(q) /\ OwedInv(q)

\* The steps that touch a route.
LEMMA RouteActions ==
  ASSUME TypeOK, NEW q \in Routes, [Next]_vars
  PROVE  \/ \E n \in 1..MaxChunk : AppendChunk(n)
         \/ SendLive(q)
         \/ Register(q)
         \/ Connect(q)
         \/ Consume(q)
         \/ Disturb(q)
         \/ Crash
         \/ SameRoute(q)
<1> USE DEF SameRoute, durable, producer, cursor, feed, TypeOK, TypeOKDurable,
            TypeOKCursor, TypeOKFeed, TypeOKHistory
<1>1. ASSUME NEW r \in Routes, r # q, SendLive(r) PROVE SameRoute(q)
  BY <1>1 DEF SendLive
<1>2. ASSUME NEW r \in Routes, r # q, Register(r) PROVE SameRoute(q)
  BY <1>2 DEF Register
<1>3. ASSUME NEW r \in Routes, r # q, Connect(r) PROVE SameRoute(q)
  <2>1. CASE Attach(r)
    BY <1>3, <2>1 DEF Attach
  <2>2. ASSUME NEW through \in LegacyThrough, Subscribe(r, through)
        PROVE  SameRoute(q)
    <3>1. head'[q] = head[q]
      BY <1>3, <2>2 DEF Subscribe
    <3>2. owed'[q] = owed[q]
      BY <1>3, <2>2 DEF Subscribe
    <3> QED BY <1>3, <2>2, <3>1, <3>2 DEF Subscribe
  <2> QED BY <1>3, <2>1, <2>2 DEF Connect
<1>4. ASSUME NEW r \in Routes, r # q, Consume(r) PROVE SameRoute(q)
  <2>1. CASE Rewind(r)
    BY <1>4, <2>1 DEF Rewind
  <2>2. CASE Idle(r)
    BY <1>4, <2>2 DEF Idle
  <2>3. ASSUME NEW n \in 1..(LiveCapacity + 1), NEW keep \in BOOLEAN,
               ReceiveLive(r, n, keep)
        PROVE  SameRoute(q)
    BY <1>4, <2>3 DEF ReceiveLive, Deliver, TakeFeed
  <2>4. ASSUME NEW through \in ops, ReplayRead(r, through) PROVE SameRoute(q)
    BY <1>4, <2>4 DEF ReplayRead, TakeFeed
  <2>5. CASE ReplayDeliver(r)
    BY <1>4, <2>5 DEF ReplayDeliver, Deliver
  <2>6. CASE FlushOk(r)
    BY <1>4, <2>6 DEF FlushOk
  <2>7. CASE RetryFlush(r)
    BY <1>4, <2>7 DEF RetryFlush
  <2>8. CASE Resubmit(r)
    BY <1>4, <2>8 DEF Resubmit
  <2>9. CASE Complete(r)
    BY <1>4, <2>9 DEF Complete
  <2> QED
    BY <1>4, <2>1, <2>2, <2>3, <2>4, <2>5, <2>6, <2>7, <2>8, <2>9 DEF Consume
<1>5. ASSUME NEW r \in Routes, r # q, Disturb(r) PROVE SameRoute(q)
  <2>1. ASSUME NEW n \in 0..(LiveCapacity + 1), SettingsChanged(r, n)
        PROVE  SameRoute(q)
    BY <1>5, <2>1 DEF SettingsChanged, TakeFeed
  <2>5. CASE InputFailed(r)
    BY <1>5, <2>5 DEF InputFailed, TakeFeed
  <2>2. CASE FlushDeferred(r)
    BY <1>5, <2>2 DEF FlushDeferred
  <2>3. CASE Hold(r)
    BY <1>5, <2>3 DEF Hold
  <2>4. CASE StopRoute(r)
    BY <1>5, <2>4 DEF StopRoute, Detached
  <2> QED BY <1>5, <2>1, <2>2, <2>3, <2>4, <2>5 DEF Disturb
<1>6. ASSUME NEW i \in Inputs, Begin(i) PROVE SameRoute(q)
  BY <1>6 DEF Begin
<1>7. CASE SkipPublished \/ StartPublish \/ Announce \/ Commit
  BY <1>7 DEF SkipPublished, StartPublish, Announce, Commit
<1>8. CASE UNCHANGED vars
  BY <1>8 DEF vars
<1>9. CASE Produce
  BY <1>1, <1>6, <1>7, <1>9 DEF Produce
<1> QED BY <1>2, <1>3, <1>4, <1>5, <1>8, <1>9 DEF Next

\* Facts about the state of an active route.
LEMMA ActiveRoute ==
  ASSUME IInv, NEW q \in Routes, phase[q] \notin {"none", "attached"}
  PROVE  /\ head[q] \in Nat /\ read[q] \in Nat /\ tail \in Nat
         /\ head[q] <= read[q] /\ read[q] <= tail
         /\ pend[q] \in Seq(DeliveryType) /\ Len(pend[q]) \in Nat
         /\ \A k \in 1..Len(pend[q]) : pend[q][k] \in DeliveryType
<1>1. pend[q] \in Seq(DeliveryType)
  BY DEF IInv, TypeOK, TypeOKCursor
<1> QED
  BY <1>1, ElementOfSeq, LenProperties
  DEF IInv, TypeOK, TypeOKCursor, TypeOKDurable, CursorInv

\* A delivery that continues at `read` extends the chain.
LEMMA DeliverRoute ==
  ASSUME IInv, NEW q \in Routes, phase[q] \in {"receive", "replay"},
         ~abandoned[q], NEW t \in Nat, read[q] < t, t <= tail,
         Deliver(q, (read[q] + 1)..t, t),
         UNCHANGED <<tail, head, abandoned, owed, exported>>
  PROVE  ChainInv(q)' /\ CursorInv(q)' /\ OwedInv(q)'
<1> DEFINE d == [expected |-> read[q], through |-> t, items |-> (read[q] + 1)..t]
           s == pend[q]
<1>1. /\ head[q] \in Nat /\ read[q] \in Nat /\ tail \in Nat
      /\ head[q] <= read[q] /\ read[q] <= tail
      /\ s \in Seq(DeliveryType) /\ Len(s) \in Nat
      /\ \A k \in 1..Len(s) : s[k] \in DeliveryType
  BY ActiveRoute
<1>2. /\ pend'[q] = Append(s, d)
      /\ read'[q] = t
      /\ phase'[q] = "flush"
  BY DEF Deliver, Delivery, IInv, TypeOK, TypeOKCursor
<1>3. d \in DeliveryType
  BY <1>1 DEF DeliveryType
<1>4. /\ Len(pend'[q]) = Len(s) + 1
      /\ \A k \in 1..Len(s) : pend'[q][k] = s[k]
      /\ pend'[q][Len(s) + 1] = d
      /\ pend'[q] # <<>>
  BY <1>1, <1>2, <1>3, AppendProperties
<1>5. ChainInv(q)
  BY DEF IInv
<1>6. /\ d.expected = read[q] /\ d.through = t /\ d.items = (read[q] + 1)..t
  OBVIOUS
<1> HIDE DEF d
<1>7. pend'[q][1].expected = head[q]
  <2>1. CASE s = <<>>
    <3>1. Len(s) = 0
      BY <2>1
    <3>2. read[q] = head[q]
      BY <2>1 DEF IInv, CursorInv
    <3> QED BY <1>4, <1>6, <3>1, <3>2
  <2>2. CASE s # <<>>
    <3>1. 1 \in 1..Len(s)
      BY <1>1, <2>2, EmptySeq
    <3> QED BY <1>4, <1>5, <2>2, <3>1 DEF ChainInv
  <2> QED BY <2>1, <2>2
<1>8. \A k \in 1..Len(pend'[q]) :
        /\ head[q] <= pend'[q][k].expected
        /\ pend'[q][k].expected < pend'[q][k].through
        /\ pend'[q][k].through <= t
        /\ pend'[q][k].items = (pend'[q][k].expected + 1)..pend'[q][k].through
  <2> TAKE k \in 1..Len(pend'[q])
  <2>1. CASE k \in 1..Len(s)
    <3>1. pend'[q][k] = s[k] /\ s[k].through \in Nat
      BY <1>1, <1>4, <2>1 DEF DeliveryType
    <3>2. /\ head[q] <= s[k].expected
          /\ s[k].expected < s[k].through
          /\ s[k].through <= read[q]
          /\ s[k].items = (s[k].expected + 1)..s[k].through
      BY <1>5, <2>1 DEF ChainInv
    <3>3. s[k].through <= t
      BY <1>1, <3>1, <3>2
    <3> QED BY <3>1, <3>2, <3>3
  <2>2. CASE k = Len(s) + 1
    <3>1. pend'[q][k] = d
      BY <1>4, <2>2
    <3> HIDE DEF s
    <3> QED BY <1>1, <1>6, <3>1
  <2> QED BY <1>1, <1>4, <2>1, <2>2
<1>9. \A k \in 1..(Len(pend'[q]) - 1) :
        pend'[q][k + 1].expected = pend'[q][k].through
  <2> TAKE k \in 1..(Len(pend'[q]) - 1)
  <2>1. CASE k + 1 <= Len(s)
    <3>1. k \in 1..Len(s) /\ k + 1 \in 1..Len(s) /\ k \in 1..(Len(s) - 1)
      BY <1>1, <1>4, <2>1
    <3>2. s[k + 1].expected = s[k].through
      BY <1>5, <3>1 DEF ChainInv
    <3> QED BY <1>4, <3>1, <3>2
  <2>2. CASE k = Len(s)
    <3>1. s # <<>>
      BY <1>1, <1>4, <2>2
    <3>2. s[Len(s)].through = read[q]
      BY <1>5, <3>1 DEF ChainInv
    <3>3. pend'[q][k + 1] = d
      BY <1>4, <2>2
    <3>4. k \in 1..Len(s)
      BY <1>1, <1>4, <2>2
    <3>5. pend'[q][k] = s[k]
      BY <1>4, <3>4
    <3> QED BY <1>6, <2>2, <3>2, <3>3, <3>5
  <2> QED BY <1>1, <1>4, <2>1, <2>2
<1>10. \A j, k \in 1..Len(pend'[q]) :
         j < k => pend'[q][j].through <= pend'[q][k].expected
  <2> TAKE j, k \in 1..Len(pend'[q])
  <2> HAVE j < k
  <2>1. CASE k <= Len(s)
    <3>1. j \in 1..Len(s) /\ k \in 1..Len(s)
      BY <1>1, <1>4, <2>1
    <3>2. s[j].through <= s[k].expected
      BY <1>5, <3>1 DEF ChainInv
    <3> QED BY <1>4, <3>1, <3>2
  <2>2. CASE k = Len(s) + 1
    <3>1. j \in 1..Len(s)
      BY <1>1, <1>4, <2>2
    <3>2. s[j].through <= read[q]
      BY <1>5, <3>1 DEF ChainInv
    <3> QED BY <1>4, <1>6, <2>2, <3>1, <3>2
  <2> QED BY <1>1, <1>4, <2>1, <2>2
<1>11. ChainInv(q)'
  BY <1>1, <1>2, <1>4, <1>6, <1>7, <1>8, <1>9, <1>10 DEF ChainInv
<1>12. CursorInv(q)'
  BY <1>1, <1>2, <1>4 DEF IInv, CursorInv
<1>13. OwedInv(q)'
  BY DEF IInv, OwedInv
<1> QED BY <1>11, <1>12, <1>13

\* Acknowledging the oldest delivery leaves the rest of the chain.
LEMMA CompleteRoute ==
  ASSUME IInv, NEW q \in Routes, Complete(q)
  PROVE  RouteInv(q)'
<1> DEFINE s == pend[q]
           h == pend[q][1].through
<1>1. /\ head[q] \in Nat /\ read[q] \in Nat /\ tail \in Nat
      /\ head[q] <= read[q] /\ read[q] <= tail
      /\ s \in Seq(DeliveryType) /\ Len(s) \in Nat
      /\ \A k \in 1..Len(s) : s[k] \in DeliveryType
  BY ActiveRoute DEF Complete
<1>2. /\ 1 \in 1..Len(s) /\ s # <<>> /\ phase[q] = "ack"
      /\ s[1].expected = head[q] /\ h \in Nat /\ head[q] < h /\ h <= tail
  BY CompleteHead DEF Complete, DeliveryType
<1>3. /\ head'[q] = h
      /\ pend'[q] = Tail(s)
      /\ read'[q] = read[q] /\ tail' = tail
      /\ abandoned'[q] = abandoned[q] /\ fetched'[q] = fetched[q]
      /\ live'[q] = live[q] /\ queued'[q] = queued[q]
      /\ owed'[q] = owed[q] /\ exported'[q] = exported[q]
      /\ phase'[q] = IF Tail(s) = <<>> THEN "receive" ELSE "ack"
  <2>1. head'[q] = h
    BY CompleteHead DEF IInv, TypeOK, TypeOKDurable
  <2>2. /\ pend'[q] = Tail(s)
        /\ phase'[q] = IF Tail(s) = <<>> THEN "receive" ELSE "ack"
    BY DEF Complete, IInv, TypeOK, TypeOKCursor
  <2> QED BY <2>1, <2>2 DEF Complete, feed
<1>4. /\ Len(pend'[q]) = Len(s) - 1
      /\ \A k \in 1..(Len(s) - 1) : pend'[q][k] = s[k + 1] /\ k + 1 \in 1..Len(s)
  BY <1>1, <1>2, <1>3, HeadTailProperties
<1>5. ChainInv(q)
  BY DEF IInv
<1> HIDE DEF s, h
<1>6. /\ \A k \in 1..Len(s) :
           /\ head[q] <= s[k].expected
           /\ s[k].expected < s[k].through
           /\ s[k].through <= read[q]
           /\ s[k].items = (s[k].expected + 1)..s[k].through
           /\ s[k].items \subseteq exported[q]
      /\ \A k \in 1..(Len(s) - 1) : s[k + 1].expected = s[k].through
      /\ \A j, k \in 1..Len(s) : j < k => s[j].through <= s[k].expected
      /\ s[Len(s)].through = read[q]
      /\ h = s[1].through
  BY <1>2, <1>5 DEF ChainInv, s, h
<1>7. ASSUME NEW k \in 1..(Len(s) - 1)
      PROVE  /\ h <= pend'[q][k].expected
             /\ pend'[q][k].expected < pend'[q][k].through
             /\ pend'[q][k].through <= read[q]
             /\ pend'[q][k].items =
                  (pend'[q][k].expected + 1)..pend'[q][k].through
             /\ pend'[q][k].items \subseteq exported[q]
  <2>1. pend'[q][k] = s[k + 1] /\ k + 1 \in 1..Len(s) /\ 1 < k + 1
    BY <1>1, <1>4
  <2>2. s[1].through <= s[k + 1].expected
    BY <1>2, <1>6, <2>1
  <2> QED BY <1>6, <2>1, <2>2
<1>8. ASSUME pend'[q] # <<>>
      PROVE  /\ pend'[q][1].expected = h
             /\ pend'[q][Len(pend'[q])].through = read[q]
             /\ 1 \in 1..(Len(s) - 1)
  <2>1. Tail(s) \in Seq(DeliveryType)
    BY <1>1, <1>2, HeadTailProperties
  <2>2. 1 \in 1..(Len(s) - 1) /\ Len(s) - 1 \in 1..(Len(s) - 1)
    BY <1>1, <1>2, <1>3, <1>4, <1>8, <2>1, EmptySeq
  <2>3. pend'[q][1] = s[2] /\ s[2].expected = h
    BY <1>4, <1>6, <2>2
  <2>4. pend'[q][Len(pend'[q])] = s[Len(s)]
    BY <1>1, <1>4, <2>2
  <2> QED BY <1>6, <2>2, <2>3, <2>4
<1>9. ASSUME NEW k \in 1..(Len(s) - 2)
      PROVE  pend'[q][k + 1].expected = pend'[q][k].through
  <2>1. k \in 1..(Len(s) - 1) /\ k + 1 \in 1..(Len(s) - 1)
    BY <1>1
  <2>2. pend'[q][k] = s[k + 1] /\ pend'[q][k + 1] = s[(k + 1) + 1]
    BY <1>4, <2>1
  <2> QED BY <1>6, <2>1, <2>2
<1>10. ASSUME NEW j \in 1..(Len(s) - 1), NEW k \in 1..(Len(s) - 1), j < k
       PROVE  pend'[q][j].through <= pend'[q][k].expected
  <2>1. /\ pend'[q][j] = s[j + 1] /\ j + 1 \in 1..Len(s)
        /\ pend'[q][k] = s[k + 1] /\ k + 1 \in 1..Len(s)
        /\ j + 1 < k + 1
    BY <1>1, <1>4, <1>10
  <2> QED BY <1>6, <2>1
<1>11. ChainInv(q)'
  <2>1. Len(pend'[q]) - 1 = Len(s) - 2
    BY <1>1, <1>4
  <2> QED
    BY <1>3, <1>4, <1>7, <1>8, <1>9, <1>10, <2>1 DEF ChainInv
<1>12. CursorInv(q)'
  <2>1. pend'[q] = <<>> => read[q] = h
    <3> SUFFICES ASSUME pend'[q] = <<>> PROVE read[q] = h
      OBVIOUS
    <3>1. Len(s) = 1
      BY <1>1, <1>4
    <3> QED BY <1>6, <3>1
  <2>2. h <= read[q] /\ h # NoHead
    BY <1>2, <1>6 DEF NoHead
  <2>3. ~abandoned[q]
    BY <1>2 DEF IInv, CursorInv, s
  <2> QED BY <1>1, <1>3, <2>1, <2>2, <2>3 DEF CursorInv
<1>13. OwedInv(q)'
  <2> SUFFICES ASSUME NEW p \in owed[q]
               PROVE  h # NoHead /\ p <= tail /\ (p \in exported[q] \/ p > h)
    BY <1>3 DEF OwedInv
  <2>1. p \in Nat /\ p <= tail /\ (p \in exported[q] \/ p > head[q])
    BY DEF IInv, OwedInv, TypeOK, TypeOKHistory
  <2>2. CASE p > head[q] /\ p <= h
    <3>1. p \in s[1].items
      BY <1>1, <1>2, <1>6, <2>1, <2>2
    <3> QED BY <1>2, <1>6, <2>1, <3>1 DEF NoHead
  <2> QED BY <1>1, <1>2, <2>1, <2>2 DEF NoHead
<1>14. LiveInv(q)'
  BY <1>3 DEF IInv, LiveInv
<1> QED BY <1>11, <1>12, <1>13, <1>14 DEF RouteInv

\* New rows are owed to every registered route and lie beyond its head.
LEMMA AppendRoute ==
  ASSUME IInv, NEW q \in Routes, NEW n \in 1..MaxChunk, AppendChunk(n)
  PROVE  RouteInv(q)'
<1> USE DEF IInv, TypeOK
<1>1. n \in Nat /\ n > 0 /\ tail \in Nat /\ tail' = tail + n
  BY AppendEffect DEF TypeOKDurable
<1>2. UNCHANGED <<head, cursor, feed, exported>>
  BY DEF AppendChunk
<1>3. ChainInv(q)'
  BY <1>2 DEF ChainInv, cursor
<1>4. CursorInv(q)'
  <2>1. phase[q] = "replay" =>
          \E t \in (read[q] + 1)..tail' : fetched[q] = (read[q] + 1)..t
    <3> HAVE phase[q] = "replay"
    <3>1. PICK t \in (read[q] + 1)..tail : fetched[q] = (read[q] + 1)..t
      BY DEF CursorInv
    <3>2. t \in (read[q] + 1)..tail'
      BY <1>1 DEF TypeOKCursor
    <3> QED BY <3>1, <3>2
  <2>2. phase[q] \notin {"none", "attached"} => read[q] <= tail'
    BY <1>1 DEF CursorInv, TypeOKCursor
  <2> QED BY <1>2, <2>1, <2>2 DEF CursorInv, cursor
<1>5. LiveInv(q)'
  <2>1. queued[q] \in Nat /\ live[q] \in Seq(Nat)
    BY DEF TypeOKFeed
  <2>2. \A k \in 1..Len(live[q]) : live[q][k] \in Nat /\ live[q][k] <= tail
    BY <2>1, ElementOfSeq DEF LiveInv
  <2> QED BY <1>1, <1>2, <2>1, <2>2 DEF LiveInv, feed
<1>6. OwedInv(q)'
  <2>1. CASE head[q] = NoHead
    <3>1. owed'[q] = owed[q]
      BY <2>1 DEF AppendChunk
    <3> QED BY <1>2, <2>1, <3>1 DEF OwedInv
  <2>2. CASE head[q] # NoHead
    <3>1. owed'[q] = owed[q] \cup (tail + 1)..(tail + n)
      BY <2>2 DEF AppendChunk
    <3>2. head[q] \in Nat /\ head[q] <= tail /\ owed[q] \subseteq Nat
      BY <2>2 DEF LogInv, TypeOKDurable, TypeOKHistory
    <3>3. \A p \in owed[q] : p <= tail /\ (p \in exported[q] \/ p > head[q])
      BY DEF OwedInv
    <3>4. \A p \in owed'[q] : p <= tail' /\ (p \in exported[q] \/ p > head[q])
      BY <1>1, <3>1, <3>2, <3>3
    <3> QED BY <1>2, <2>2, <3>4 DEF OwedInv
  <2> QED BY <2>1, <2>2
<1> QED BY <1>3, <1>4, <1>5, <1>6 DEF RouteInv

\* A record is queued only after it is stored.
LEMMA SendRoute ==
  ASSUME IInv, NEW q \in Routes, SendLive(q)
  PROVE  RouteInv(q)'
<1> USE DEF IInv, TypeOK
<1>1. UNCHANGED <<tail, head, cursor, queued, owed, exported>>
  BY DEF SendLive, durable
<1>2. ChainInv(q)' /\ CursorInv(q)' /\ OwedInv(q)'
  BY <1>1 DEF ChainInv, CursorInv, OwedInv, cursor
<1>3. LiveInv(q)'
  <2>1. CASE live' = live
    BY <1>1, <2>1 DEF LiveInv
  <2>2. CASE live'[q] = Append(live[q], changed + 1)
    <3>1. changed + 1 \in Nat /\ changed + 1 <= tail /\ live[q] \in Seq(Nat)
      BY DEF SendLive, LogInv, TypeOKProducer, TypeOKDurable, TypeOKFeed
    <3>2. /\ Len(live'[q]) = Len(live[q]) + 1 /\ Len(live[q]) \in Nat
          /\ \A k \in 1..Len(live[q]) : live'[q][k] = live[q][k]
          /\ live'[q][Len(live[q]) + 1] = changed + 1
      BY <2>2, <3>1, AppendProperties, LenProperties
    <3>3. ASSUME NEW k \in 1..Len(live'[q]) PROVE live'[q][k] <= tail
      <4>1. k \in 1..Len(live[q]) \/ k = Len(live[q]) + 1
        BY <3>2
      <4> QED BY <3>1, <3>2, <4>1 DEF LiveInv
    <3> QED BY <1>1, <3>3 DEF LiveInv
  <2> QED BY <2>1, <2>2 DEF SendLive, TypeOKFeed
<1> QED BY <1>2, <1>3 DEF RouteInv

\* A late route starts at the floor and owns every retained row.
LEMMA RegisterRoute ==
  ASSUME IInv, NEW q \in Routes, Register(q)
  PROVE  RouteInv(q)'
<1> USE DEF IInv, TypeOK
<1>1. /\ UNCHANGED <<tail, cursor, feed, exported>>
      /\ head[q] = NoHead /\ head'[q] = floor /\ owed'[q] = ops
  BY DEF Register, TypeOKDurable, TypeOKHistory
<1>2. phase[q] \in {"none", "attached"} /\ pend[q] = <<>>
  BY <1>1 DEF CursorInv, TypeOKCursor
<1>3. ChainInv(q)'
  BY <1>1, <1>2 DEF ChainInv, cursor
<1>4. CursorInv(q)'
  BY <1>1, <1>2 DEF CursorInv, cursor
<1>5. LiveInv(q)'
  BY <1>1 DEF LiveInv, feed
<1>6. OwedInv(q)'
  BY <1>1 DEF OwedInv, LogInv, TypeOKDurable, NoHead
<1> QED BY <1>3, <1>4, <1>5, <1>6 DEF RouteInv

\* A head seeded from released checkpoints skips only what they cover.
LEMMA SeedSkipsLegacy ==
  ASSUME IInv, NEW through \in LegacyThrough, NEW h \in SeedHead(through),
         NEW p \in ops \ Legacy(through)
  PROVE  p > h
<1> USE DEF IInv, TypeOK, TypeOKDurable
<1>1. p \in Nat /\ p > floor /\ p \in 1..tail
  BY DEF LogInv
<1>2. CASE h = floor
  BY <1>1, <1>2
<1>3. CASE h \in Legacy(through)
  <2>1. /\ h \in 1..tail /\ h \in Nat
        /\ log[h].input <= through /\ batch[log[h].input] = "done"
    BY <1>3 DEF Legacy
  <2>2. log[p].input \in Inputs /\ log[h].input \in Inputs
    BY <1>1, <2>1
  <2> SUFFICES ASSUME ~(p > h) PROVE FALSE
    OBVIOUS
  <2>3. p < h \/ p = h
    BY <1>1, <2>1
  <2>4. log[p].input <= log[h].input
    <3>0. log[p].input \in Nat /\ log[h].input \in Nat
      <4> HIDE DEF IInv, TypeOK
      <4> QED BY <2>2, JournalAssumption DEF Inputs
    <3>1. CASE p < h
      <4>1. log[p].input < log[h].input \/ log[p].input = log[h].input
        BY <1>1, <2>1, <3>1 DEF PublishedInSourceOrder
      <4> QED BY <3>0, <4>1
    <3>2. CASE p = h
      BY <3>0, <3>2
    <3> QED BY <2>3, <3>1, <3>2
  <2>5. log[p].input <= through
    BY <2>1, <2>2, <2>4, JournalAssumption DEF Inputs
  <2>6. batch[log[p].input] = "done"
    <3>1. CASE log[p].input = log[h].input
      BY <2>1, <3>1
    <3>2. CASE log[p].input < log[h].input
      <4>1. log[p].input \in 1..(log[h].input - 1)
        <5> HIDE DEF IInv, TypeOK
        <5> QED BY <2>2, <3>2, JournalAssumption DEF Inputs
      <4>2. BatchInv
        BY DEF IInv
      <4> HIDE DEF IInv, TypeOK
      <4> QED BY <2>1, <2>2, <4>1, <4>2, SMTT(20) DEF BatchInv
    <3>3. log[p].input \in Nat /\ log[h].input \in Nat
      <4> HIDE DEF IInv, TypeOK, TypeOKDurable
      <4> QED BY <2>2, JournalAssumption DEF Inputs
    <3> HIDE DEF IInv, TypeOK, TypeOKDurable
    <3> QED BY <2>4, <3>1, <3>2, <3>3
  <2>7. p \in Legacy(through)
    BY <2>5, <2>6 DEF Legacy
  <2> QED BY <2>7
<1> QED BY <1>2, <1>3 DEF SeedHead

\* Attaching and subscribing.
LEMMA ConnectRoute ==
  ASSUME IInv, NEW q \in Routes, Connect(q)
  PROVE  RouteInv(q)'
<1> USE DEF IInv, TypeOK
<1>1. CASE Attach(q)
  <2>1. /\ UNCHANGED <<head, tail, read, abandoned, fetched, pend, queued,
                       owed, exported>>
        /\ phase[q] = "none" /\ phase'[q] = "attached" /\ live'[q] = <<>>
    BY <1>1 DEF Attach, durable, TypeOKCursor, TypeOKFeed
  <2>2. ChainInv(q)' /\ CursorInv(q)' /\ OwedInv(q)'
    BY <2>1 DEF ChainInv, CursorInv, OwedInv
  <2>3. LiveInv(q)'
    BY <2>1 DEF LiveInv
  <2> QED BY <2>2, <2>3 DEF RouteInv
<1>2. ASSUME NEW through \in LegacyThrough, Subscribe(q, through)
      PROVE  RouteInv(q)'
  <2>1. /\ UNCHANGED <<tail, abandoned, fetched, pend, feed, exported>>
        /\ phase[q] = "attached" /\ phase'[q] = "receive"
        /\ read'[q] = head'[q] /\ pend[q] = <<>> /\ ~abandoned[q]
        /\ Len(pend[q]) = 0
    BY <1>2 DEF Subscribe, TypeOKCursor, CursorInv
  <2>2. head'[q] \in Nat /\ head'[q] <= tail
    <3>1. CASE head[q] # NoHead
      BY <1>2, <3>1 DEF Subscribe, LogInv, TypeOKDurable
    <3>2. CASE head[q] = NoHead
      <4>1. PICK h \in SeedHead(through) : head' = [head EXCEPT ![q] = h]
        BY <1>2, <3>2 DEF Subscribe
      <4> QED BY <4>1 DEF SeedHead, Legacy, LogInv, TypeOKDurable
    <3> QED BY <3>1, <3>2
  <2>3. ChainInv(q)'
    BY <2>1 DEF ChainInv
  <2>4. CursorInv(q)'
    BY <2>1, <2>2 DEF CursorInv, NoHead
  <2>5. LiveInv(q)'
    BY <2>1 DEF LiveInv, feed
  <2>6. OwedInv(q)'
    <3>1. CASE head[q] # NoHead
      <4>1. head' = head /\ owed' = owed
        BY <1>2, <3>1 DEF Subscribe
      <4> QED BY <2>1, <4>1 DEF OwedInv
    <3>2. CASE head[q] = NoHead
      <4>1. PICK h \in SeedHead(through) : head' = [head EXCEPT ![q] = h]
        BY <1>2, <3>2 DEF Subscribe
      <4>2. owed'[q] = ops \ Legacy(through) /\ head'[q] = h
        BY <1>2, <3>2, <4>1 DEF Subscribe, TypeOKHistory, TypeOKDurable
      <4>3. \A p \in ops \ Legacy(through) : p > h
        BY SeedSkipsLegacy
      <4>4. \A p \in ops : p <= tail
        BY DEF TypeOKDurable
      <4> QED BY <2>1, <2>2, <4>2, <4>3, <4>4 DEF OwedInv, NoHead
    <3> QED BY <3>1, <3>2
  <2> QED BY <2>3, <2>4, <2>5, <2>6 DEF RouteInv
<1> QED BY <1>1, <1>2 DEF Connect

\* What a cursor can take from its feed is stored.
LEMMA FeedStored ==
  ASSUME IInv, NEW q \in Routes
  PROVE  /\ Feed(q) \in Seq(Nat) /\ Len(Feed(q)) \in Nat
         /\ \A k \in 1..Len(Feed(q)) : Feed(q)[k] \in Nat /\ Feed(q)[k] <= tail
<1> USE DEF IInv, TypeOK
<1>1. live[q] \in Seq(Nat) /\ queued[q] \in Nat /\ tail \in Nat
  BY DEF TypeOKFeed, TypeOKDurable
<1>2. Feed(q) \in Seq(Nat) /\ Len(Feed(q)) \in Nat
  BY FeedType, LenProperties
<1>3. \A k \in 1..Len(live[q]) : live[q][k] <= tail
  BY DEF LiveInv
<1>4. ASSUME NEW k \in 1..Len(Feed(q)) PROVE Feed(q)[k] <= tail
  <2>1. CASE queued[q] = 0
    <3>1. Feed(q) = live[q]
      BY <1>1, <2>1 DEF Feed
    <3> QED BY <1>3, <3>1
  <2>2. CASE queued[q] # 0
    <3>1. Feed(q) = <<queued[q]>> \o live[q]
      BY <2>2 DEF Feed
    <3>2. /\ Len(Feed(q)) = Len(live[q]) + 1 /\ Len(live[q]) \in Nat
          /\ Feed(q)[k] = IF k <= 1 THEN queued[q] ELSE live[q][k - 1]
      BY <1>1, <3>1
    <3>3. k > 1 => k - 1 \in 1..Len(live[q])
      BY <1>2, <3>2
    <3> QED BY <1>3, <3>2, <3>3 DEF LiveInv
  <2> QED BY <2>1, <2>2
<1> QED BY <1>2, <1>4, ElementOfSeq

\* Taking records from the feed, whatever the rest becomes.
LEMMA FeedRest ==
  ASSUME IInv, NEW q \in Routes, NEW m \in Nat, m > 0,
         live'[q] = SubSeq(Feed(q), m, Len(Feed(q))),
         queued'[q] <= tail, UNCHANGED tail
  PROVE  LiveInv(q)'
<1> DEFINE f == Feed(q)
<1>1. /\ f \in Seq(Nat) /\ Len(f) \in Nat
      /\ \A k \in 1..Len(f) : f[k] \in Nat /\ f[k] <= tail
  BY FeedStored
<1> HIDE DEF f
<1>2. CASE m <= Len(f)
  <2>1. /\ Len(live'[q]) = Len(f) - m + 1
        /\ \A k \in 1..(Len(f) - m + 1) : live'[q][k] = f[m + k - 1]
    BY <1>1, <1>2, SubSeqProperties DEF f
  <2>2. \A k \in 1..(Len(f) - m + 1) : m + k - 1 \in 1..Len(f)
    BY <1>1, <1>2
  <2> QED BY <1>1, <2>1, <2>2 DEF LiveInv
<1>3. CASE m > Len(f)
  <2>1. live'[q] = <<>>
    BY <1>1, <1>3, SubSeqEmpty DEF f
  <2>2. Len(live'[q]) = 0
    BY <2>1
  <2> QED BY <2>2 DEF LiveInv
<1> QED BY <1>1, <1>2, <1>3

\* A cursor's and its consumer's steps.
LEMMA ConsumeRoute ==
  ASSUME IInv, NEW q \in Routes, Consume(q)
  PROVE  RouteInv(q)'
<1> USE DEF IInv, TypeOK
<1>1. CASE Rewind(q)
  <2>1. /\ UNCHANGED <<head, tail, phase, fetched, pend, owed, exported>>
        /\ phase[q] = "receive" /\ abandoned[q] /\ ~abandoned'[q]
        /\ read'[q] = head[q] /\ queued'[q] = 0 /\ live'[q] = <<>>
    BY <1>1 DEF Rewind, durable, TypeOKCursor, TypeOKFeed
  <2>2. pend[q] = <<>> /\ Len(pend[q]) = 0
    BY <2>1 DEF CursorInv
  <2>3. head[q] \in Nat /\ head[q] <= tail /\ tail \in Nat
    BY <2>1 DEF CursorInv, LogInv, TypeOKDurable
  <2>4. ChainInv(q)' /\ OwedInv(q)'
    BY <2>1, <2>2 DEF ChainInv, OwedInv
  <2>5. CursorInv(q)'
    BY <2>1, <2>2, <2>3 DEF CursorInv, NoHead
  <2>6. LiveInv(q)'
    BY <2>1, <2>3 DEF LiveInv
  <2> QED BY <2>4, <2>5, <2>6 DEF RouteInv
<1>2. CASE Idle(q)
  <2>1. UNCHANGED <<head, tail, phase, read, abandoned, fetched, pend, live,
                    queued, owed, exported>>
    BY <1>2 DEF Idle, durable
  <2> QED BY <2>1 DEF RouteInv, ChainInv, CursorInv, LiveInv, OwedInv
<1>3. ASSUME NEW n \in 1..(LiveCapacity + 1), NEW keep \in BOOLEAN,
             ReceiveLive(q, n, keep)
      PROVE  RouteInv(q)'
  <2>1. /\ UNCHANGED <<head, tail, abandoned, owed, exported>>
        /\ phase[q] = "receive" /\ ~abandoned[q]
        /\ n \in 1..Len(Feed(q))
        /\ \A k \in 1..n : Feed(q)[k] = read[q] + k
        /\ Deliver(q, {Feed(q)[k] : k \in 1..n}, Feed(q)[n])
    BY <1>3 DEF ReceiveLive, Receiving, durable
  <2>2. /\ Len(Feed(q)) \in Nat
        /\ \A k \in 1..Len(Feed(q)) : Feed(q)[k] \in Nat /\ Feed(q)[k] <= tail
    BY FeedStored
  <2>3. n \in Nat /\ n > 0 /\ read[q] \in Nat /\ tail \in Nat
    BY <2>1, <2>2 DEF TypeOKCursor, TypeOKDurable
  <2>4. Feed(q)[n] = read[q] + n /\ read[q] + n <= tail
    BY <2>1, <2>2, <2>3
  <2>5. {Feed(q)[k] : k \in 1..n} = (read[q] + 1)..(read[q] + n)
    <3>1. {Feed(q)[k] : k \in 1..n} = {read[q] + k : k \in 1..n}
      BY <2>1
    <3>2. ASSUME NEW x \in (read[q] + 1)..(read[q] + n)
          PROVE  \E k \in 1..n : x = read[q] + k
      <4>1. x - read[q] \in 1..n /\ x = read[q] + (x - read[q])
        BY <2>3
      <4> QED BY <4>1
    <3>3. \A k \in 1..n : read[q] + k \in (read[q] + 1)..(read[q] + n)
      BY <2>3
    <3> QED BY <3>1, <3>2, <3>3
  <2>6. ChainInv(q)' /\ CursorInv(q)' /\ OwedInv(q)'
    <3> DEFINE t == read[q] + n
    <3>0. t \in Nat /\ read[q] < t /\ t <= tail
      BY <2>3, <2>4
    <3>1. Deliver(q, (read[q] + 1)..t, t)
      <4> HIDE DEF IInv, TypeOK
      <4>1. Feed(q)[n] = t /\ {Feed(q)[k] : k \in 1..n} = (read[q] + 1)..t
        BY <2>4, <2>5
      <4> HIDE DEF t
      <4> QED BY <2>1, <4>1 DEF Deliver
    <3>2. UNCHANGED <<tail, head, abandoned, owed, exported>>
      BY <2>1
    <3> HIDE DEF t, IInv, TypeOK
    <3> QED BY <2>1, <3>0, <3>1, <3>2, DeliverRoute
  <2>7. LiveInv(q)'
    <3>1. CASE TakeFeed(q, n)
      <4>1. live'[q] = SubSeq(Feed(q), n + 1, Len(Feed(q))) /\ queued'[q] = 0
        BY <3>1 DEF TakeFeed, TypeOKFeed
      <4>2. n + 1 \in Nat /\ n + 1 > 0 /\ 0 <= tail
        BY <2>3
      <4> HIDE DEF IInv, TypeOK
      <4> QED BY <2>1, <4>1, <4>2, FeedRest
    <3>2. CASE ~TakeFeed(q, n)
      <4>1. /\ live'[q] = SubSeq(Feed(q), n + 2, Len(Feed(q)))
            /\ queued'[q] = Feed(q)[n + 1] /\ n < Len(Feed(q))
        BY <1>3, <3>2 DEF ReceiveLive, TypeOKFeed
      <4>2. queued'[q] <= tail
        BY <2>2, <2>3, <4>1
      <4>3. n + 2 \in Nat /\ n + 2 > 0
        BY <2>3
      <4> HIDE DEF IInv, TypeOK
      <4> QED BY <2>1, <4>1, <4>2, <4>3, FeedRest
    <3> QED BY <3>1, <3>2
  <2> QED BY <2>6, <2>7 DEF RouteInv
<1>4. ASSUME NEW through \in ops, ReplayRead(q, through) PROVE RouteInv(q)'
  <2>1. /\ UNCHANGED <<head, tail, read, abandoned, pend, owed, exported>>
        /\ phase[q] = "receive" /\ phase'[q] = "replay" /\ ~abandoned[q]
        /\ through > read[q]
        /\ fetched'[q] = {p \in ops : read[q] < p /\ p <= through}
    BY <1>4 DEF ReplayRead, Receiving, durable, TypeOKCursor
  <2>2. /\ head[q] \in Nat /\ read[q] \in Nat /\ tail \in Nat
        /\ head[q] <= read[q] /\ floor <= head[q] /\ floor \in Nat
    <3>1. /\ head[q] \in Nat /\ read[q] \in Nat /\ tail \in Nat
          /\ head[q] <= read[q]
      <4> HIDE DEF IInv, TypeOK
      <4> QED BY <2>1, ActiveRoute
    <3> QED BY <3>1 DEF LogInv, TypeOKDurable, NoHead
  <2>3. through \in (read[q] + 1)..tail
    BY <2>1, <2>2 DEF LogInv
  <2>4. fetched'[q] = (read[q] + 1)..through
    BY <2>1, <2>2, <2>3 DEF LogInv
  <2>5. ChainInv(q)' /\ OwedInv(q)'
    BY <2>1 DEF ChainInv, OwedInv
  <2>6. CursorInv(q)'
    BY <2>1, <2>3, <2>4 DEF CursorInv
  <2>7. LiveInv(q)'
    <3>1. CASE TakeFeed(q, 1)
      <4>1. live'[q] = SubSeq(Feed(q), 2, Len(Feed(q))) /\ queued'[q] = 0
        BY <3>1 DEF TakeFeed, TypeOKFeed
      <4>2. 2 \in Nat /\ 2 > 0 /\ 0 <= tail
        BY <2>2
      <4> HIDE DEF IInv, TypeOK
      <4> QED BY <2>1, <4>1, <4>2, FeedRest
    <3>2. CASE UNCHANGED <<live, queued>>
      BY <2>1, <3>2 DEF LiveInv
    <3> QED BY <1>4, <3>1, <3>2 DEF ReplayRead
  <2> QED BY <2>5, <2>6, <2>7 DEF RouteInv
<1>5. CASE ReplayDeliver(q)
  <2>1. /\ UNCHANGED <<head, tail, abandoned, queued, owed, exported>>
        /\ phase[q] = "replay" /\ live'[q] = <<>>
    BY <1>5 DEF ReplayDeliver, durable, TypeOKFeed
  <2>2. PICK through \in fetched[q] :
          /\ \A p \in fetched[q] : p <= through
          /\ Deliver(q, fetched[q], through)
    BY <1>5 DEF ReplayDeliver
  <2>3. PICK t \in (read[q] + 1)..tail : fetched[q] = (read[q] + 1)..t
    BY <2>1 DEF CursorInv
  <2>4. read[q] \in Nat /\ tail \in Nat /\ t \in Nat /\ ~abandoned[q]
    <3>1. read[q] \in Nat /\ tail \in Nat
      BY DEF TypeOKCursor, TypeOKDurable
    <3>2. CursorInv(q) /\ phase[q] # "receive" /\ phase[q] # "refused"
      BY <2>1
    <3>3. ~abandoned[q]
      BY <3>2 DEF CursorInv
    <3> QED BY <2>3, <3>1, <3>3
  <2>5. through = t /\ read[q] < t /\ t <= tail
    BY <2>2, <2>3, <2>4
  <2>6. ChainInv(q)' /\ CursorInv(q)' /\ OwedInv(q)'
    BY <2>1, <2>2, <2>3, <2>4, <2>5, DeliverRoute
  <2>7. LiveInv(q)'
    BY <2>1 DEF LiveInv
  <2> QED BY <2>6, <2>7 DEF RouteInv
<1>6. CASE FlushOk(q)
  <2>1. /\ UNCHANGED <<head, tail, read, abandoned, fetched, pend, live,
                       queued, owed>>
        /\ phase[q] = "flush" /\ phase'[q] = "ack"
        /\ exported'[q] = exported[q] \cup
             UNION {pend[q][k].items : k \in 1..Len(pend[q])}
    BY <1>6 DEF FlushOk, durable, feed, TypeOKCursor, TypeOKHistory
  <2>2. \A k \in 1..Len(pend[q]) : pend[q][k].items \subseteq exported'[q]
    BY <2>1
  <2>3. ChainInv(q)'
    BY <2>1, <2>2 DEF ChainInv
  <2>4. CursorInv(q)'
    BY <2>1 DEF CursorInv
  <2>5. LiveInv(q)' /\ OwedInv(q)'
    BY <2>1 DEF LiveInv, OwedInv
  <2> QED BY <2>3, <2>4, <2>5 DEF RouteInv
<1>7. CASE RetryFlush(q)
  <2>1. /\ UNCHANGED <<head, tail, read, abandoned, fetched, pend, live,
                       queued, owed, exported>>
        /\ phase[q] = "held" /\ phase'[q] = "flush"
    BY <1>7 DEF RetryFlush, durable, feed, TypeOKCursor
  <2> QED BY <2>1 DEF RouteInv, ChainInv, CursorInv, LiveInv, OwedInv
<1>8. CASE Resubmit(q)
  <2>1. /\ UNCHANGED <<head, tail, read, fetched, live, queued, owed, exported>>
        /\ phase[q] \in {"held", "refused"} /\ phase'[q] = "receive"
        /\ pend'[q] = <<>>
    BY <1>8 DEF Resubmit, durable, TypeOKCursor
  <2>2. Len(pend'[q]) = 0
    BY <2>1
  <2>3. abandoned'[q] = (abandoned[q] \/ pend[q] # <<>>)
    BY <1>8, Zenon DEF Resubmit, TypeOKCursor
  <2>4. ChainInv(q)'
    BY <2>1, <2>2 DEF ChainInv
  <2>5. LiveInv(q)' /\ OwedInv(q)'
    BY <2>1 DEF LiveInv, OwedInv
  <2>6. CursorInv(q)'
    BY <2>1, <2>3 DEF CursorInv
  <2> QED BY <2>4, <2>5, <2>6 DEF RouteInv
<1> QED
  BY <1>1, <1>2, <1>3, <1>4, <1>5, <1>6, <1>7, <1>8, CompleteRoute DEF Consume

\* Faults of one route.
LEMMA DisturbRoute ==
  ASSUME IInv, NEW q \in Routes, Disturb(q)
  PROVE  RouteInv(q)'
<1> USE DEF IInv, TypeOK
<1>1. ASSUME NEW n \in 0..(LiveCapacity + 1), SettingsChanged(q, n)
      PROVE  RouteInv(q)'
  <2>1. /\ UNCHANGED <<head, tail, read, abandoned, pend, owed, exported>>
        /\ phase[q] \in {"receive", "replay"} /\ phase'[q] = "receive"
    BY <1>1 DEF SettingsChanged, durable, TypeOKCursor
  <2>2. ChainInv(q)' /\ CursorInv(q)' /\ OwedInv(q)'
    BY <2>1 DEF ChainInv, CursorInv, OwedInv
  <2>3. LiveInv(q)'
    <3>1. CASE TakeFeed(q, n)
      <4>1. live'[q] = SubSeq(Feed(q), n + 1, Len(Feed(q))) /\ queued'[q] = 0
        BY <3>1 DEF TakeFeed, TypeOKFeed
      <4>2. n + 1 \in Nat /\ n + 1 > 0 /\ 0 <= tail
        BY DEF TypeOKDurable
      <4> HIDE DEF IInv, TypeOK
      <4> QED BY <2>1, <4>1, <4>2, FeedRest
    <3>2. CASE UNCHANGED <<live, queued>>
      BY <2>1, <3>2 DEF LiveInv
    <3> QED BY <1>1, <3>1, <3>2 DEF SettingsChanged
  <2> QED BY <2>2, <2>3 DEF RouteInv
<1>5. CASE InputFailed(q)
  <2>1. /\ UNCHANGED <<head, tail, read, abandoned, fetched, pend, owed,
                       exported>>
        /\ phase[q] = "receive" /\ phase'[q] = "refused"
    BY <1>5 DEF InputFailed, TypeOKCursor
  <2>2. ChainInv(q)' /\ CursorInv(q)' /\ OwedInv(q)'
    BY <2>1 DEF ChainInv, CursorInv, OwedInv
  <2>3. LiveInv(q)'
    <3>1. CASE TakeFeed(q, 1)
      <4>1. live'[q] = SubSeq(Feed(q), 2, Len(Feed(q))) /\ queued'[q] = 0
        BY <3>1 DEF TakeFeed, TypeOKFeed
      <4>2. 2 \in Nat /\ 2 > 0 /\ 0 <= tail
        BY DEF TypeOKDurable
      <4> HIDE DEF IInv, TypeOK
      <4> QED BY <2>1, <4>1, <4>2, FeedRest
    <3>2. CASE UNCHANGED <<live, queued>>
      BY <2>1, <3>2 DEF LiveInv
    <3> QED BY <1>5, <3>1, <3>2 DEF InputFailed
  <2> QED BY <2>2, <2>3 DEF RouteInv
<1>2. CASE FlushDeferred(q)
  <2>1. /\ UNCHANGED <<head, tail, read, abandoned, fetched, pend, live,
                       queued, owed, exported>>
        /\ phase[q] = "flush" /\ phase'[q] = "receive"
    BY <1>2 DEF FlushDeferred, durable, feed, TypeOKCursor
  <2> QED BY <2>1 DEF RouteInv, ChainInv, CursorInv, LiveInv, OwedInv
<1>3. CASE Hold(q)
  <2>1. /\ UNCHANGED <<head, tail, read, abandoned, fetched, pend, live,
                       queued, owed, exported>>
        /\ \/ phase[q] = "flush" /\ phase'[q] = "held"
           \/ phase[q] = "ack" /\ phase'[q] = "ack"
    BY <1>3 DEF Hold, TypeOKCursor
  <2> QED BY <2>1 DEF RouteInv, ChainInv, CursorInv, LiveInv, OwedInv
<1>4. CASE StopRoute(q)
  <2>1. /\ UNCHANGED <<head, tail, read, owed, exported>>
        /\ phase'[q] = "none" /\ pend'[q] = <<>> /\ ~abandoned'[q]
        /\ live'[q] = <<>> /\ queued'[q] = 0 /\ Len(pend'[q]) = 0
    BY <1>4 DEF StopRoute, Detached, durable, TypeOKCursor, TypeOKFeed
  <2>2. ChainInv(q)' /\ CursorInv(q)' /\ OwedInv(q)'
    BY <2>1 DEF ChainInv, CursorInv, OwedInv
  <2>3. LiveInv(q)'
    BY <2>1 DEF LiveInv, TypeOKDurable
  <2> QED BY <2>2, <2>3 DEF RouteInv
<1> QED BY <1>1, <1>2, <1>3, <1>4, <1>5 DEF Disturb

\* A crash leaves nothing in memory.
LEMMA CrashRoute ==
  ASSUME IInv, NEW q \in Routes, Crash
  PROVE  RouteInv(q)'
<1> USE DEF IInv, TypeOK
<1>1. /\ UNCHANGED <<head, tail, read, owed, exported>>
      /\ phase'[q] = "none" /\ pend'[q] = <<>> /\ ~abandoned'[q]
      /\ live'[q] = <<>> /\ queued'[q] = 0 /\ Len(pend'[q]) = 0
  BY DEF Crash, durable
<1>2. ChainInv(q)' /\ CursorInv(q)' /\ OwedInv(q)'
  BY <1>1 DEF ChainInv, CursorInv, OwedInv
<1>3. LiveInv(q)'
  BY <1>1 DEF LiveInv, TypeOKDurable
<1> QED BY <1>2, <1>3 DEF RouteInv

\* Every step preserves the invariants of a route.
LEMMA RouteStep ==
  ASSUME IInv, NEW q \in Routes, [Next]_vars
  PROVE  RouteInv(q)'
<1>1. CASE SameRoute(q)
  <2>1. ChainInv(q) /\ CursorInv(q) /\ LiveInv(q) /\ OwedInv(q)
    BY DEF IInv
  <2>2. ChainInv(q)'
    BY <1>1, <2>1 DEF SameRoute, ChainInv
  <2>3. CursorInv(q)'
    BY <1>1, <2>1 DEF SameRoute, CursorInv
  <2>4. LiveInv(q)' /\ OwedInv(q)'
    BY <1>1, <2>1 DEF SameRoute, LiveInv, OwedInv
  <2> QED BY <2>2, <2>3, <2>4 DEF RouteInv
<1> QED
  BY <1>1, RouteActions, AppendRoute, SendRoute, RegisterRoute, ConnectRoute,
     ConsumeRoute, DisturbRoute, CrashRoute
  DEF IInv
-----------------------------------------------------------------------------
(* Results *)

LEMMA InitInv == Init => IInv
<1> SUFFICES ASSUME Init PROVE IInv
  OBVIOUS
<1>1. LogInv /\ BatchInv /\ ReceiptInv
  BY DEF Init, LogInv, BatchInv, ReceiptInv, NoHead
<1>2. PublishedInSourceOrder /\ CommittedInputsAreComplete
  BY DEF Init, PublishedInSourceOrder, CommittedInputsAreComplete
<1>3. ASSUME NEW r \in Routes
      PROVE  ChainInv(r) /\ CursorInv(r) /\ LiveInv(r) /\ OwedInv(r)
  BY DEF Init, ChainInv, CursorInv, LiveInv, OwedInv
<1> QED BY <1>1, <1>2, <1>3, InitType DEF IInv

\* The inductive invariant holds in every reachable state.
THEOREM Inductive == Spec => []IInv
<1>1. IInv /\ [Next]_vars => IInv'
  <2> SUFFICES ASSUME IInv, [Next]_vars PROVE IInv'
    OBVIOUS
  <2>1. TypeOK' /\ LogInv' /\ BatchInv' /\ ReceiptInv'
    BY TypeStep, LogStep, BatchStep, ReceiptStep
  <2>2. PublishedInSourceOrder' /\ CommittedInputsAreComplete'
    BY OrderStep, CommittedStep
  <2>3. ASSUME NEW r \in Routes
        PROVE  ChainInv(r)' /\ CursorInv(r)' /\ LiveInv(r)' /\ OwedInv(r)'
    BY RouteStep DEF RouteInv
  <2> QED BY <2>1, <2>2, <2>3 DEF IInv
<1> QED BY <1>1, InitInv, PTL DEF Spec

\* Every variable always has its type.
THEOREM TypeCorrect == Spec => []TypeOK
<1>1. IInv => TypeOK
  BY DEF IInv
<1> QED BY <1>1, Inductive, PTL

\* The log never repeats or reorders an operation, and a committed input left
\* none out, for every number of routes, inputs, operations and faults.
THEOREM LogFaithful == Spec => []LogIsFaithful
<1>1. IInv => LogIsFaithful
  BY DEF IInv, LogIsFaithful
<1> QED BY <1>1, Inductive, PTL

\* No operation owed to a route is lost before the route's backend accepted
\* it, whatever pruning, replay, late subscription and crashes do.
THEOREM OwedIsKept == Spec => []NothingOwedIsLost
<1>1. IInv => NothingOwedIsLost
  <2> SUFFICES ASSUME IInv, NEW r \in Routes, NEW p \in owed[r]
               PROVE  p \in exported[r] \/ (p \in ops /\ p > head[r])
    BY DEF NothingOwedIsLost
  <2>1. /\ p \in Nat /\ head[r] \in Nat /\ p <= tail
        /\ p \in exported[r] \/ p > head[r]
    BY DEF IInv, OwedInv, TypeOK, TypeOKHistory, TypeOKDurable
  <2> QED BY <2>1 DEF IInv, LogInv, TypeOK, TypeOKDurable, NoHead
<1> QED BY <1>1, Inductive, PTL

\* The acknowledgement of a delivery continues exactly at the durable head,
\* so "completion cannot skip unresolved input" is never reported.
THEOREM AcknowledgementsExact == Spec => []AcknowledgementsAreExact
<1>1. IInv => AcknowledgementsAreExact
  <2> SUFFICES ASSUME IInv, NEW r \in Routes, phase[r] = "ack"
               PROVE  /\ pend[r] # <<>>
                      /\ Head(pend[r]).expected = head[r]
                      /\ \A k \in 1..Len(pend[r]) :
                           pend[r][k].items =
                             (pend[r][k].expected + 1)..pend[r][k].through
    BY DEF AcknowledgementsAreExact
  <2>1. pend[r] # <<>> /\ pend[r] \in Seq(DeliveryType)
    BY DEF IInv, CursorInv, TypeOK, TypeOKCursor
  <2>2. Head(pend[r]) = pend[r][1]
    BY <2>1, HeadTailProperties
  <2> QED BY <2>1, <2>2 DEF IInv, ChainInv
<1> QED BY <1>1, Inductive, PTL

\* A cursor that is behind finds its next operation in the log.
THEOREM ReplayFinds == Spec => []ReplayFindsNext
<1>1. IInv => ReplayFindsNext
  <2> SUFFICES ASSUME IInv, NEW r \in Routes, phase[r] = "receive",
                      ~abandoned[r], read[r] < tail
               PROVE  read[r] + 1 \in ops
    BY DEF ReplayFindsNext
  <2>1. /\ head[r] \in Nat /\ read[r] \in Nat /\ tail \in Nat
        /\ head[r] <= read[r]
    BY ActiveRoute
  <2> QED BY <2>1 DEF IInv, LogInv, TypeOK, TypeOKDurable, NoHead
<1> QED BY <1>1, Inductive, PTL

\* Every step of the span journal is a step of the retained log or leaves it
\* alone.
LEMMA RefinementStep ==
  ASSUME IInv, [Next]_vars
  PROVE  [Abstract!Next]_(Abstract!vars)
<1> USE DEF IInv, TypeOK, TypeOKDurable, NoHead, Abstract!vars
<1>1. ASSUME NEW n \in 1..MaxChunk, AppendChunk(n) PROVE Abstract!Publish
  BY <1>1, AppendEffect DEF AppendChunk, Abstract!Publish
<1>2. ASSUME NEW r \in Routes, Register(r) PROVE Abstract!Register(r)
  BY <1>2 DEF Register, LogInv, Abstract!Register
<1>3. ASSUME NEW r \in Routes, NEW through \in LegacyThrough,
             Subscribe(r, through)
      PROVE  Abstract!Register(r) \/ UNCHANGED Abstract!vars
  <2>1. CASE head[r] # NoHead
    BY <1>3, <2>1 DEF Subscribe
  <2>2. CASE head[r] = NoHead
    <3>1. PICK h \in SeedHead(through) : head' = [head EXCEPT ![r] = h]
      BY <1>3, <2>2 DEF Subscribe
    <3>2. h \in floor..tail
      BY DEF SeedHead, Legacy, LogInv
    <3> QED BY <1>3, <2>2, <3>1, <3>2 DEF Subscribe, Abstract!Register
  <2> QED BY <2>1, <2>2
<1>4. ASSUME NEW r \in Routes, FlushOk(r) PROVE Abstract!Export(r)
  <2> DEFINE new == UNION {pend[r][k].items : k \in 1..Len(pend[r])}
  <2>1. /\ UNCHANGED <<tail, floor, head>>
        /\ exported' = [exported EXCEPT ![r] = exported[r] \cup new]
    BY <1>4 DEF FlushOk, durable
  <2>2. /\ head[r] \in Nat /\ read[r] \in Nat /\ read[r] <= tail
        /\ floor <= head[r]
        /\ \A k \in 1..Len(pend[r]) : pend[r][k] \in DeliveryType
    <3>1. phase[r] \notin {"none", "attached"}
      BY <1>4 DEF FlushOk
    <3>2. /\ head[r] \in Nat /\ read[r] \in Nat /\ read[r] <= tail
          /\ \A k \in 1..Len(pend[r]) : pend[r][k] \in DeliveryType
      <4> HIDE DEF IInv
      <4> QED BY <3>1, ActiveRoute
    <3> QED BY <3>2 DEF LogInv
  <2>3. ASSUME NEW k \in 1..Len(pend[r])
        PROVE  pend[r][k].items \subseteq (floor + 1)..tail
    <3>1. /\ head[r] <= pend[r][k].expected
          /\ pend[r][k].through <= read[r]
          /\ pend[r][k].items =
               (pend[r][k].expected + 1)..pend[r][k].through
      BY DEF ChainInv
    <3>2. pend[r][k].expected \in Nat /\ pend[r][k].through \in Nat
      BY <2>2 DEF DeliveryType
    <3>3. floor \in Nat /\ tail \in Nat
      OBVIOUS
    <3> HIDE DEF IInv, TypeOK
    <3> QED BY <2>2, <3>1, <3>2, <3>3
  <2>4. new \subseteq (floor + 1)..tail
    BY <2>3
  <2> HIDE DEF new
  <2>5. exported'[r] = exported[r] \cup new
    BY <2>1 DEF TypeOKHistory
  <2> QED BY <2>1, <2>4, <2>5 DEF Abstract!Export
<1>5. ASSUME NEW r \in Routes, Complete(r) PROVE Abstract!Acknowledge(r)
  <2> DEFINE h == pend[r][1].through
  <2>1. /\ head[r] \in Nat /\ h \in Nat /\ head[r] < h /\ h <= tail
        /\ pend[r][1].expected = head[r] /\ 1 \in 1..Len(pend[r])
        /\ head' = [head EXCEPT ![r] = h] /\ Prune(head', batch)
    BY <1>5, CompleteHead DEF DeliveryType
  <2>2. (head[r] + 1)..h \subseteq exported[r]
    <3>1. phase[r] = "ack"
      BY <1>5 DEF Complete
    <3>2. /\ pend[r][1].items = (pend[r][1].expected + 1)..h
          /\ pend[r][1].items \subseteq exported[r]
      BY <2>1, <3>1 DEF ChainInv
    <3> QED BY <2>1, <3>2
  <2>3. \A q \in Registered(head') : floor <= head'[q] /\ head'[q] <= tail
    BY <1>5, CompleteInLog
  <2> HIDE DEF h
  <2>4. head' \in [Routes -> Nat \cup {NoHead}] /\ head'[r] = h
    BY <2>1
  <2>5. /\ floor' \in floor..tail
        /\ \A q \in Registered(head') : floor' <= head'[q]
    <3>1. floor' \in Nat
      BY <2>1, <2>4, PruneType
    <3>2. /\ floor <= floor' /\ floor' <= tail
          /\ \A q \in Registered(head') : floor' <= head'[q]
      BY <2>1, <2>3, <2>4, PruneEffect
    <3> QED BY <3>1, <3>2
  <2>6. Abstract!Covered(floor', head')
    BY <2>5 DEF Abstract!Covered, Registered
  <2>7. UNCHANGED <<tail, exported>>
    BY <1>5 DEF Complete
  <2> QED BY <2>1, <2>2, <2>4, <2>5, <2>6, <2>7 DEF Abstract!Acknowledge
<1>6. CASE Commit
  <2>1. \A r \in Registered(head) : floor <= head[r] /\ head[r] <= tail
    BY DEF Registered, LogInv
  <2>2. UNCHANGED <<tail, head, exported>> /\ Prune(head, batch')
    BY <1>6 DEF Commit
  <2>3. /\ floor' \in floor..tail
        /\ \A q \in Registered(head) : floor' <= head[q]
    <3>1. floor' \in Nat
      BY <2>2, PruneType
    <3>2. /\ floor <= floor' /\ floor' <= tail
          /\ \A q \in Registered(head) : floor' <= head[q]
      BY <2>1, <2>2, PruneEffect
    <3> QED BY <3>1, <3>2
  <2>4. Abstract!Covered(floor', head)
    BY <2>3 DEF Abstract!Covered, Registered
  <2>5. CASE Registered(head) = {}
    BY <2>2, <2>5 DEF Prune
  <2>6. CASE Registered(head) # {}
    BY <2>2, <2>3, <2>4, <2>6 DEF Abstract!Trim, Abstract!Next, Registered
  <2> QED BY <2>5, <2>6
<1>7. ASSUME NEW r \in Routes, Consume(r), ~FlushOk(r), ~Complete(r)
      PROVE  UNCHANGED exported
  BY <1>7
  DEF Consume, Rewind, Idle, ReceiveLive, ReplayRead, ReplayDeliver,
      RetryFlush, Resubmit
<1>8. ASSUME [Next]_vars, \A r \in Routes : ~FlushOk(r) /\ ~Complete(r)
      PROVE  UNCHANGED exported
  <2>1. ASSUME NEW r \in Routes, Connect(r) \/ Register(r) \/ Disturb(r)
        PROVE  UNCHANGED exported
    BY <2>1
    DEF Connect, Attach, Subscribe, Register, Disturb, SettingsChanged,
        InputFailed, FlushDeferred, Hold, StopRoute
  <2>2. CASE Produce \/ Crash \/ UNCHANGED vars
    BY <2>2
    DEF Produce, Begin, SkipPublished, AppendChunk, StartPublish, SendLive,
        Announce, Commit, Crash, vars
  <2> QED BY <1>7, <1>8, <2>1, <2>2 DEF Next
<1>9. ASSUME NEW i \in Inputs, Begin(i) PROVE UNCHANGED <<tail, floor, head>>
  BY <1>9 DEF Begin
<1>10. ASSUME SkipPublished \/ StartPublish \/ Announce \/ Crash
               \/ UNCHANGED logVars
       PROVE  UNCHANGED <<tail, floor, head>>
  BY <1>10 DEF SkipPublished, StartPublish, Announce, Crash, durable, logVars
<1>11. CASE \A r \in Routes : ~FlushOk(r) /\ ~Complete(r)
  BY <1>1, <1>2, <1>3, <1>6, <1>8, <1>9, <1>10, <1>11, LogActions
  DEF Abstract!Next
<1> QED BY <1>4, <1>5, <1>11 DEF Abstract!Next

\* SpanJournal implements the retained log, for every value of the constants.
THEOREM Refinement == Spec => ImplementsRetainedLog
<1>1. Init => Abstract!Init
  BY DEF Init, Abstract!Init, NoHead
<1>2. IInv /\ [Next]_vars => [Abstract!Next]_(Abstract!vars)
  BY RefinementStep
<1> QED
  BY <1>1, <1>2, Inductive, PTL DEF Spec, ImplementsRetainedLog, Abstract!Spec
=============================================================================
