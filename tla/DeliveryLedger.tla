--------------------------- MODULE DeliveryLedger ---------------------------
(***************************************************************************)
(* From a route's cursor to the backend: the consumer's emit, flush and    *)
(* retry work (pipeline/consumer.rs) over a sink wrapped by the delivery   *)
(* ledger (delivery_ledger.rs, delivery_ledger/origins.rs), together with  *)
(* transcript imports (transcript_import/pipeline.rs) that use the same    *)
(* ledger from other processes.                                            *)
(*                                                                         *)
(* A ledger belongs to one session and destination.  It is an append-only  *)
(* file guarded by an OS file lock, with an SQLite index beside it; it     *)
(* holds the origin of every span and what the destination has accepted.   *)
(* A row is queued in the SDK, uploaded in the background and accepted by  *)
(* the backend; nothing holds the lock meanwhile.  Positions in the file   *)
(* count records.                                                          *)
(***************************************************************************)
EXTENDS Integers, Sequences, FiniteSets

CONSTANTS
  Routes,     \* consumers of the daemon; their acknowledgements are durable
  Imports,    \* import processes; each run starts from the beginning
  Spans,
  Input,      \* the operations of each writer, in order
  Legacies,   \* sets of spans a ledger without origins holds as delivered
  MaxBatch,   \* bound: operations of one delivery
  Limits      \* bounds: crashes, failed writes, rejected rows; sinks aborted
              \* by a shutdown timeout

Writers == Routes \cup Imports
Nobody == "nobody"
NoOrigin == [by |-> "nobody", run |-> 0]
NoKey == "no key"
NoVersion == [ts |-> 0, native |-> "none"]

ASSUME LedgerAssumption ==
  /\ Routes \cap Imports = {}
  /\ Nobody \notin Writers
  /\ Legacies \subseteq SUBSET Spans
  /\ MaxBatch \in Nat \ {0}
  /\ Limits \subseteq [faults : Nat, aborts : Nat]
  /\ \A w \in Writers : \A k \in DOMAIN Input[w] :
       Input[w][k].span \in Spans /\ Input[w][k].version.ts \in Nat
  /\ \A w \in Writers : Len(Input[w]) \in Nat /\ DOMAIN Input[w] = 1..Len(Input[w])

\* The first operation of a span inserts it, and is no late merge: those are of
\* a span that has ended.  Aggregate updates are late merges, and the key of one
\* holds its time.
ASSUME InputAssumption ==
  \A w \in Writers : \A k \in DOMAIN Input[w] :
    LET op == Input[w][k] IN
    /\ op.insert => op.key = NoKey /\ op.version = NoVersion
    /\ op.version # NoVersion => op.key # NoKey
    /\ \E j \in 1..k : Input[w][j].span = op.span /\ Input[w][j].insert
    /\ \A v \in Writers : \A j \in DOMAIN Input[v] :
         op.key # NoKey /\ Input[v][j].span = op.span /\ Input[v][j].key = op.key
           => Input[v][j].version.ts = op.version.ts

VARIABLES
  \* durable
  file,       \* ledger records; a Torn one ends the file in mid-line, and a
              \* Garbled one is a line that does not decode
  index,      \* OriginIndex: origins and completed ids
  head,       \* operations acknowledged to the span journal
  \* each writer
  at,         \* "closed", "idle", "persist", "send", "flush", "commit",
              \* "record", "ack" or "finished"
  lock,       \* holder of the ledger's file lock
  read,       \* operations taken from the input
  batch,      \* filtered rows of the emit in progress
  births,     \* pending_origins
  seen,       \* journal_len
  known,      \* known_versions
  pending,    \* pending, pending_late_merges, pending_versions
  queued,     \* rows in the SDK
  rejected,   \* the next flush reports a rejected row
  adrift,     \* a write that outlives its aborted task
  \* history and bounds
  run,        \* runs of an import: its versions may change in between
  backend,    \* what the destination has accepted
  appended,   \* records whose append returned Ok
  faults,
  aborts,
  limits      \* one of Limits

disk == <<file, index>>
sink == <<batch, births, seen, known, pending>>
sdk == <<queued, rejected>>
bounds == <<faults, aborts, limits>>
vars == <<disk, head, at, lock, read, sink, sdk, adrift, run, backend,
          appended, bounds>>

Nothing == [done |-> {}, late |-> {}, versions |-> [s \in Spans |-> NoVersion]]
NoBirths == [s \in Spans |-> NoOrigin]
NoIndex == [origins |-> NoBirths, done |-> {}, late |-> {}]
Update(origins, delivered) ==
  [form |-> "whole", origins |-> origins, delivered |-> delivered]
Torn == [form |-> "torn", origins |-> NoBirths, delivered |-> Nothing]
Garbled == [Torn EXCEPT !.form = "garbled"]

Fault == faults < limits.faults /\ faults' = faults + 1 /\ UNCHANGED <<aborts, limits>>

LateId(row) == <<row.span, row.key>>
-----------------------------------------------------------------------------
(* Versions of aggregate updates *)

\* remember_version: an equal or later time wins.
Newer(old, new) == IF new.ts >= old.ts THEN new ELSE old
Merged(versions, more) ==
  [s \in Spans |-> IF more[s] = NoVersion THEN versions[s]
                                          ELSE Newer(versions[s], more[s])]

\* remember_version of several, in the order of their places.
Newest(old, versions) ==
  LET places == DOMAIN versions
      latest == {n \in places : /\ versions[n].ts >= old.ts
                                /\ \A m \in places : versions[m].ts <= versions[n].ts}
  IN  IF latest = {} THEN old
      ELSE versions[CHOOSE n \in latest : \A m \in latest : m <= n]
-----------------------------------------------------------------------------
(* Reading the ledger *)

\* The records a writer has not read, up to an incomplete one.
Unread(w) ==
  {n \in seen[w] + 1..Len(file) :
     \A m \in seen[w] + 1..n : file[m].form = "whole"}

\* A line that does not decode fails the read.
Readable(w) == \A n \in seen[w] + 1..Len(file) : file[n].form # "garbled"

\* remember, remember_completed: the first origin of a span wins.
Remember(idx, record) ==
  [origins |-> [s \in Spans |-> IF idx.origins[s] = NoOrigin
                                THEN record.origins[s] ELSE idx.origins[s]],
   done |-> idx.done \cup record.delivered.done,
   late |-> idx.late \cup record.delivered.late]

FirstOrigin(s, records) ==
  LET named == {n \in records : file[n].origins[s] # NoOrigin}
  IN  IF named = {} THEN NoOrigin
      ELSE file[CHOOSE n \in named : \A m \in named : n <= m].origins[s]

\* The same of several records, in the order of the file.
RememberAll(idx, records) ==
  [origins |-> [s \in Spans |-> IF idx.origins[s] = NoOrigin
                                THEN FirstOrigin(s, records) ELSE idx.origins[s]],
   done |-> idx.done \cup UNION {file[n].delivered.done : n \in records},
   late |-> idx.late \cup UNION {file[n].delivered.late : n \in records}]

\* The index after a refresh of w.
Refreshed(w) == RememberAll(index, Unread(w))

KnownAfter(w) ==
  [s \in Spans |->
     Newest(known[w][s], [n \in {n \in Unread(w) : file[n].delivered.versions[s] # NoVersion}
                            |-> file[n].delivered.versions[s]])]

Through(w) == seen[w] + Cardinality(Unread(w))

-----------------------------------------------------------------------------
Init ==
  /\ \E legacy \in Legacies :
       /\ file = IF legacy = {} THEN <<>>
                 ELSE <<Update(NoBirths, [Nothing EXCEPT !.done = legacy])>>
       /\ backend = [rows |-> {},
                     stamps |-> [s \in Spans |->
                                   IF s \in legacy THEN {NoOrigin} ELSE {}],
                     done |-> legacy, late |-> {},
                     version |-> Nothing.versions]
  /\ index = NoIndex
  /\ head = [w \in Writers |-> 0]
  /\ at = [w \in Writers |-> "closed"]
  /\ lock = Nobody
  /\ read = [w \in Writers |-> 0]
  /\ batch = [w \in Writers |-> <<>>]
  /\ births = [w \in Writers |-> NoBirths]
  /\ seen = [w \in Writers |-> 0]
  /\ known = [w \in Writers |-> Nothing.versions]
  /\ pending = [w \in Writers |-> Nothing]
  /\ queued = [w \in Writers |-> <<>>]
  /\ rejected = [w \in Writers |-> FALSE]
  /\ adrift = [w \in Writers |-> <<>>]
  /\ run = [w \in Writers |-> 0]
  /\ appended = {}
  /\ faults = 0
  /\ aborts = 0
  /\ limits \in Limits
-----------------------------------------------------------------------------
(* Opening a sink *)

\* LedgerSink::new, DeliveryLedger::load: the index is rebuilt from the file.
Open(w) ==
  /\ at[w] = "closed"
  /\ lock = Nobody
  /\ Readable(w)
  /\ index' = RememberAll(NoIndex, Unread(w))
  /\ seen' = [seen EXCEPT ![w] = Through(w)]
  /\ known' = [known EXCEPT ![w] = KnownAfter(w)]
  /\ at' = [at EXCEPT ![w] = "idle"]
  /\ UNCHANGED <<file, head, lock, read, batch, births, pending, sdk, adrift>>
  /\ UNCHANGED <<run, backend, appended, bounds>>

\* Mutant: the operations of a lost delivery are not read again.
LoseForGood(w) ==
  /\ at' = [at EXCEPT ![w] = "closed"]
  /\ lock' = IF lock = w THEN Nobody ELSE lock
  /\ read' = read
  /\ batch' = [batch EXCEPT ![w] = <<>>]
  /\ births' = [births EXCEPT ![w] = NoBirths]
  /\ seen' = [seen EXCEPT ![w] = 0]
  /\ known' = [known EXCEPT ![w] = Nothing.versions]
  /\ pending' = [pending EXCEPT ![w] = Nothing]
  /\ queued' \in {queued, [queued EXCEPT ![w] = <<>>]}
  /\ rejected' = [rejected EXCEPT ![w] = FALSE]
  /\ run' = [run EXCEPT ![w] = IF w \in Imports THEN @ + 1 ELSE @]

\* The sink is gone: unacknowledged operations will be read again.  Rows in
\* the SDK outlive it, in the client that sinks share, unless the process ends.
Lose(w) ==
  /\ at' = [at EXCEPT ![w] = "closed"]
  /\ lock' = IF lock = w THEN Nobody ELSE lock
  /\ read' = [read EXCEPT ![w] = head[w]]
  /\ batch' = [batch EXCEPT ![w] = <<>>]
  /\ births' = [births EXCEPT ![w] = NoBirths]
  /\ seen' = [seen EXCEPT ![w] = 0]
  /\ known' = [known EXCEPT ![w] = Nothing.versions]
  /\ pending' = [pending EXCEPT ![w] = Nothing]
  /\ queued' \in {queued, [queued EXCEPT ![w] = <<>>]}
  /\ rejected' = [rejected EXCEPT ![w] = FALSE]
  /\ run' = [run EXCEPT ![w] = IF w \in Imports THEN @ + 1 ELSE @]
-----------------------------------------------------------------------------
(* Emit *)

\* The versions a writer stamps on a span it sees inserted: those captured
\* with the event for a route, those of the running process for an import.
Birth(w) ==
  IF w \in Imports THEN [by |-> w, run |-> run[w]] ELSE [by |-> "capture", run |-> 0]

\* should_emit
ShouldEmit(w, idx, op) ==
  IF op.key # NoKey THEN LateId(op) \notin idx.late \cup pending[w].late
  ELSE op.span \notin idx.done \cup pending[w].done

\* Mutant: whatever arrives last is sent.
VersionIgnored(previous, op) == TRUE

\* version_allowed
VersionAllowed(previous, op) ==
  \/ op.version = NoVersion
  \/ op.version.ts >= previous.ts
  \/ op.version.native # "none" /\ op.version.native = previous.native

\* The places of the operations that are still owed to the destination, each
\* judged with the versions of those before it.  (One that is too old is older
\* than the newest, which it leaves as it is.)
Kept(w, idx, ops) ==
  LET owed == {k \in DOMAIN ops : ShouldEmit(w, idx, ops[k])}
      start == Merged(KnownAfter(w), pending[w].versions)
      before(k) == {j \in owed : j < k /\ ops[j].span = ops[k].span
                                 /\ ops[j].version # NoVersion}
      previous(k) == Newest(start[ops[k].span], [j \in before(k) |-> ops[j].version])
  IN  {k \in owed : VersionAllowed(previous(k), ops[k])}

\* Places in their order.
Ordered(places) ==
  CHOOSE s \in [1..Cardinality(places) -> places] :
    \A i, j \in 1..Cardinality(places) : i < j => s[i] < s[j]

\* The operations that are taken next, their spans, and those they insert.
Taken(w, n) == [k \in 1..n |-> Input[w][read[w] + k]]
Named(ops) == {ops[k].span : k \in DOMAIN ops}
Inserted(ops) == {ops[k].span : k \in {k \in DOMAIN ops : ops[k].insert}}

\* Mutant: a span the destination already has is given an origin.
UnbornOrKnown(w, idx, ops) ==
  LET mine(s) == IF births[w][s] = NoOrigin /\ s \in Inserted(ops)
                 THEN Birth(w) ELSE births[w][s]
      persisted(s) == \/ \E m \in Unread(w) : file[m].origins[s] # NoOrigin
                      \/ s \in Named(ops) /\ idx.origins[s] # NoOrigin
  IN [s \in Spans |-> IF persisted(s) THEN NoOrigin ELSE mine(s)]

\* The births still to be persisted: others may have persisted theirs first,
\* and a span the destination already has is given none.
Unborn(w, idx, ops) ==
  LET mine(s) == IF births[w][s] = NoOrigin /\ s \in Inserted(ops)
                 THEN Birth(w) ELSE births[w][s]
      persisted(s) == \/ \E m \in Unread(w) : file[m].origins[s] # NoOrigin
                      \/ s \in Named(ops) /\ idx.origins[s] # NoOrigin
  IN [s \in Spans |-> IF persisted(s) \/ s \in idx.done THEN NoOrigin ELSE mine(s)]

\* The origin that the rows of a span are sent with.
Stamp(w, idx, ops, s) ==
  IF idx.origins[s] # NoOrigin THEN idx.origins[s]
  ELSE IF s \in Inserted(ops) THEN Unborn(w, idx, ops)[s] ELSE NoOrigin

\* emit_shared up to its append: refresh, origin selection and filter.
Select(w) ==
  /\ at[w] = "idle"
  /\ lock = Nobody
  /\ Readable(w)
  /\ \E n \in 1..MaxBatch :
       LET ops == Taken(w, n)
           idx == Refreshed(w)
           kept == Kept(w, idx, ops)
           unborn == Unborn(w, idx, ops)
           first == kept # {} /\ unborn # NoBirths
       IN /\ read[w] + n <= Len(Input[w])
          /\ read' = [read EXCEPT ![w] = @ + n]
          /\ index' = idx
          /\ births' = [births EXCEPT ![w] = unborn]
          /\ batch' = [batch EXCEPT ![w] =
               [k \in 1..Cardinality(kept) |->
                  LET op == ops[Ordered(kept)[k]]
                  IN  [op |-> op, origin |-> Stamp(w, idx, ops, op.span)]]]
          /\ at' = [at EXCEPT ![w] =
               IF first THEN "persist"
               ELSE IF kept # {} THEN "send"
               ELSE IF w \in Imports THEN "idle" ELSE "flush"]
          /\ lock' = IF first THEN w ELSE Nobody
  /\ seen' = [seen EXCEPT ![w] = Through(w)]
  /\ known' = [known EXCEPT ![w] = KnownAfter(w)]
  /\ UNCHANGED <<file, head, pending, sdk, adrift, run, backend, appended>>
  /\ UNCHANGED bounds

\* append: cuts an incomplete tail, writes the record, updates the index.
Appended(w, record) ==
  /\ file' = Append(SubSeq(file, 1, seen[w]), record)
  /\ index' = Remember(index, record)
  /\ seen' = [seen EXCEPT ![w] = @ + 1]
  /\ appended' = appended \cup {record}
  /\ lock' = Nobody

Delivered(w) ==
  [done |-> pending[w].done \ index.done, late |-> pending[w].late \ index.late,
   versions |-> pending[w].versions]

\* Mutant: the spans a batch ends are recorded together with its births.
RecordEarly(w) ==
  IF at[w] = "persist"
  THEN Update(births[w], [Nothing EXCEPT !.done =
         {row.op.span : row \in {batch[w][k] : k \in {k \in DOMAIN batch[w] :
                                                      batch[w][k].op.ends}}}])
  ELSE Update(NoBirths, Delivered(w))

\* What the holder of the lock is about to append.
Record(w) ==
  IF at[w] = "persist" THEN Update(births[w], Nothing)
                       ELSE Update(NoBirths, Delivered(w))

\* Mutant: birth versions are remembered only by the running process.
PersistNothing(w) ==
  /\ at[w] = "persist"
  /\ births' = [births EXCEPT ![w] = NoBirths]
  /\ lock' = Nobody
  /\ at' = [at EXCEPT ![w] = "send"]
  /\ UNCHANGED <<disk, seen, appended>>
  /\ UNCHANGED <<head, read, batch, known, pending, sdk, adrift, run, backend>>
  /\ UNCHANGED bounds

\* Birth versions are durable before the SDK can queue a row.
PersistBirths(w) ==
  /\ at[w] = "persist"
  /\ Appended(w, Record(w))
  /\ births' = [births EXCEPT ![w] = NoBirths]
  /\ at' = [at EXCEPT ![w] = "send"]
  /\ UNCHANGED <<head, read, batch, known, pending, sdk, adrift, run, backend>>
  /\ UNCHANGED bounds

\* The SDK takes the rows; record_emitted.
Send(w) ==
  LET rows == batch[w]
      places == 1..Len(rows)
      ended == {rows[k].op.span : k \in {k \in places : rows[k].op.ends}}
      late == {LateId(rows[k].op) : k \in {k \in places : rows[k].op.key # NoKey}}
      versioned(s) == {k \in places : rows[k].op.span = s /\ rows[k].op.version # NoVersion}
  IN
  /\ at[w] = "send"
  /\ queued' = [queued EXCEPT ![w] = @ \o rows]
  /\ pending' = [pending EXCEPT ![w] =
       [done |-> pending[w].done \cup ended, late |-> pending[w].late \cup late,
        versions |-> [s \in Spans |->
          Newest(pending[w].versions[s], [k \in versioned(s) |-> rows[k].op.version])]]]
  /\ batch' = [batch EXCEPT ![w] = <<>>]
  /\ at' = [at EXCEPT ![w] = IF w \in Imports THEN "idle" ELSE "flush"]
  /\ UNCHANGED <<disk, head, lock, read, births, seen, known, rejected, adrift>>
  /\ UNCHANGED <<run, backend, appended, bounds>>

\* The SDK uploads in the background.
Upload(w) ==
  /\ queued[w] # <<>>
  /\ LET row == Head(queued[w]) IN
       backend' = [backend EXCEPT
         !.rows = @ \cup {row.op},
         !.stamps[row.op.span] = @ \cup {row.origin},
         !.done = IF row.op.ends THEN @ \cup {row.op.span} ELSE @,
         !.late = IF row.op.key = NoKey THEN @ ELSE @ \cup {LateId(row.op)},
         !.version[row.op.span] = IF row.op.version = NoVersion THEN @
                                  ELSE row.op.version]
  /\ queued' = [queued EXCEPT ![w] = Tail(@)]
  /\ UNCHANGED <<disk, head, at, lock, read, sink, rejected, adrift, run>>
  /\ UNCHANGED <<appended, bounds>>

Reject(w) ==
  /\ Fault
  /\ queued[w] # <<>>
  /\ queued' = [queued EXCEPT ![w] = Tail(@)]
  /\ rejected' = [rejected EXCEPT ![w] = TRUE]
  /\ UNCHANGED <<disk, head, at, lock, read, sink, adrift, run, backend>>
  /\ UNCHANGED appended
-----------------------------------------------------------------------------
(* Flush and acknowledge *)

\* An import flushes every FLUSH_OPS operations and at its end.
RequestFlush(w) ==
  /\ w \in Imports
  /\ at[w] = "idle"
  /\ read[w] = Len(Input[w]) \/ pending[w] # Nothing
  /\ at' = [at EXCEPT ![w] = "flush"]
  /\ UNCHANGED <<disk, head, lock, read, sink, sdk, adrift, run, backend>>
  /\ UNCHANGED <<appended, bounds>>

\* inner.flush succeeds: every row was accepted.
Flush(w) ==
  /\ at[w] = "flush"
  /\ queued[w] = <<>>
  /\ ~rejected[w]
  /\ at' = [at EXCEPT ![w] = "commit"]
  /\ UNCHANGED <<disk, head, lock, read, sink, sdk, adrift, run, backend>>
  /\ UNCHANGED <<appended, bounds>>

\* Mutant: the lock is taken without reading what others have appended.
CommitBlind(w) ==
  /\ at[w] = "commit"
  /\ lock = Nobody
  /\ at' = [at EXCEPT ![w] = IF pending[w] = Nothing THEN "ack" ELSE "record"]
  /\ lock' = IF pending[w] = Nothing THEN Nobody ELSE w
  /\ UNCHANGED <<disk, head, read, sink, sdk, adrift, run, backend, appended>>
  /\ UNCHANGED bounds

\* Lock, refresh, and what commit finds left to record.
Commit(w) ==
  LET idx == Refreshed(w)
      left == [done |-> pending[w].done \ idx.done,
               late |-> pending[w].late \ idx.late,
               versions |-> pending[w].versions]
  IN
  /\ at[w] = "commit"
  /\ lock = Nobody
  /\ Readable(w)
  /\ index' = idx
  /\ seen' = [seen EXCEPT ![w] = Through(w)]
  /\ known' = [known EXCEPT ![w] = KnownAfter(w)]
  /\ births' = [births EXCEPT ![w] =
       [s \in Spans |-> IF \E n \in Unread(w) : file[n].origins[s] # NoOrigin
                        THEN NoOrigin ELSE @[s]]]
  /\ pending' = [pending EXCEPT ![w] = left]
  /\ at' = [at EXCEPT ![w] = IF left = Nothing THEN "ack" ELSE "record"]
  /\ lock' = IF left = Nothing THEN Nobody ELSE w
  /\ UNCHANGED <<file, head, read, batch, sdk, adrift, run, backend, appended>>
  /\ UNCHANGED bounds

RecordDelivered(w) ==
  /\ at[w] = "record"
  /\ Appended(w, Record(w))
  /\ known' = [known EXCEPT ![w] = Merged(@, pending[w].versions)]
  /\ pending' = [pending EXCEPT ![w] = Nothing]
  /\ at' = [at EXCEPT ![w] = "ack"]
  /\ UNCHANGED <<head, read, batch, births, sdk, adrift, run, backend, bounds>>

\* A route completes its deliveries (a failure retries only this); an import
\* has nothing durable to acknowledge.
Acknowledge(w) ==
  /\ at[w] = "ack"
  /\ head' = IF w \in Routes THEN [head EXCEPT ![w] = read[w]] ELSE head
  /\ at' = [at EXCEPT ![w] = IF w \in Imports /\ read[w] = Len(Input[w])
                             THEN "finished" ELSE "idle"]
  /\ UNCHANGED <<disk, lock, read, sink, sdk, adrift, run, backend, appended>>
  /\ UNCHANGED bounds
-----------------------------------------------------------------------------
(* Failures *)

\* Mutant: a rejected flush is tried again as it is.
FlushAgain(w) ==
  /\ at[w] = "flush"
  /\ rejected[w]
  /\ UNCHANGED vars

\* A rejected flush is retried from the input (Work::Resubmit); an import
\* gives up and is run again.
Resubmit(w) ==
  /\ at[w] = "flush"
  /\ rejected[w]
  /\ Lose(w)
  /\ UNCHANGED <<disk, head, adrift, backend, appended, bounds>>

\* A crash, a stopped route, an error before the rows are in the SDK, or one
\* more run of an import.
Restart(w) ==
  /\ Fault
  /\ at[w] # "closed"
  /\ Lose(w)
  /\ UNCHANGED <<disk, head, adrift, backend, appended>>

\* append fails half way, or after its record is complete but before the
\* index and the length say so.  A route whose rows were accepted retries
\* the ledger alone (Work::Flush).
AppendFails(w) ==
  /\ Fault
  /\ at[w] \in {"persist", "record"}
  /\ \E written \in {Torn, Record(w)} :
       file' = Append(SubSeq(file, 1, seen[w]), written)
  /\ IF at[w] = "record" /\ w \in Routes
     THEN /\ at' = [at EXCEPT ![w] = "flush"]
          /\ lock' = Nobody
          /\ UNCHANGED <<read, sink, sdk, run>>
     ELSE Lose(w)
  /\ UNCHANGED <<index, head, adrift, backend, appended>>

\* RoutingSink::shutdown aborts a task that does not end in time.  The lock
\* file closes with it; a file write already handed to the pool goes on.
Abort(w) ==
  /\ aborts < limits.aborts
  /\ aborts' = aborts + 1
  /\ w \in Routes
  /\ at[w] \in {"persist", "record"}
  /\ adrift' = [adrift EXCEPT ![w] = <<seen[w], Record(w)>>]
  /\ Lose(w)
  /\ UNCHANGED <<disk, head, backend, appended, faults, limits>>

\* It lands where it was aimed: at the end of the file, or on top of what a
\* later holder of the lock has put there, of which it may leave the rest.
LateWrite(w) ==
  LET place == adrift[w][1] + 1 IN
  /\ adrift[w] # <<>>
  /\ file' \in IF Len(file) < place THEN {Append(file, adrift[w][2])}
               ELSE {[file EXCEPT ![place] = line] :
                       line \in {adrift[w][2], Garbled}}
  /\ adrift' = [adrift EXCEPT ![w] = <<>>]
  /\ UNCHANGED <<index, head, at, lock, read, sink, sdk, run, backend>>
  /\ UNCHANGED <<appended, bounds>>
-----------------------------------------------------------------------------
Work(w) ==
  \/ Open(w) \/ Select(w) \/ PersistBirths(w) \/ Send(w)
  \/ RequestFlush(w) \/ Flush(w) \/ Commit(w) \/ RecordDelivered(w)
  \/ Acknowledge(w) \/ Resubmit(w)

Next ==
  \/ \E w \in Writers : Work(w) \/ Upload(w) \/ LateWrite(w)
  \/ \E w \in Writers :
       Reject(w) \/ Restart(w) \/ AppendFails(w) \/ Abort(w)

Spec == Init /\ [][Next]_vars

\* Consumers, imports and the SDK never stop working on their own; faults are
\* never owed, and neither is another run of an import.
Fairness ==
  \A w \in Writers : WF_vars(Work(w)) /\ WF_vars(Upload(w))

FairSpec == Spec /\ Fairness
-----------------------------------------------------------------------------
(* Properties *)

\* "The delivery ledger persists each snapshot before export; later updates,
\* resume, and replay reuse it unchanged": whatever writers, crashes and
\* upgrades do, the rows of a span never reach the destination with two
\* different origins, nor some with and some without one; unless a sink was
\* aborted, whose write may land on the record of an origin.
StableProvenance ==
  aborts = 0 => \A s \in Spans : Cardinality(backend.stamps[s]) <= 1

Intact == {file[n] : n \in {n \in 1..Len(file) : file[n].form = "whole"}}

\* "Successful prior records are never rewritten": a record whose append
\* returned stays in the file, whoever repairs the tail or appends next.
RecordsArePermanent == appended \subseteq Intact

\* The ledger claims no span and no late merge that the destination has not
\* accepted, so that what it suppresses is suppressed rightly; and unless a
\* sink was aborted, crashes, failed and torn appends and the writers that
\* repair them lose none of its records.
LedgerIsFaithful ==
  /\ \A record \in Intact :
       /\ record.delivered.done \subseteq backend.done
       /\ record.delivered.late \subseteq backend.late
  /\ aborts = 0 => RecordsArePermanent

Reflected(op) ==
  \/ op \in backend.rows
  \/ op.key = NoKey /\ op.span \in backend.done
  \/ op.key # NoKey /\ LateId(op) \in backend.late
  \/ \E row \in backend.rows :
       row.span = op.span /\ row.version.ts > op.version.ts

\* An operation acknowledged to the span journal was accepted, or what it says
\* is covered by what was: the route's head never passes an unsent row.
NothingLost ==
  \A w \in Routes : \A k \in 1..head[w] : Reflected(Input[w][k])

\* The updates of a span's aggregates are sent by one writer.
OneVersionedWriter ==
  \A v, w \in Writers : \A j \in DOMAIN Input[v], k \in DOMAIN Input[w] :
    /\ Input[v][j].span = Input[w][k].span
    /\ Input[v][j].version # NoVersion
    /\ Input[w][k].version # NoVersion
    => v = w

\* A version of span s is of time t or later, or enriches a native operation
\* that has an update of such a time.
UpToDate(version, t, s) ==
  \/ version.ts >= t
  \/ /\ version.native # "none"
     /\ \E w \in Writers : \E k \in DOMAIN Input[w] :
          /\ Input[w][k].span = s
          /\ Input[w][k].version.native = version.native
          /\ Input[w][k].version.ts >= t

\* Once an aggregate update is acknowledged the destination does not show an
\* older one, however rows are batched, lost and sent again, unless a sink was
\* aborted; of a span whose updates come from one writer.
LatestWins ==
  aborts = 0 /\ OneVersionedWriter =>
    \A w \in Routes : \A k \in 1..head[w] :
      LET op == Input[w][k] IN
      op.version # NoVersion => UpToDate(backend.version[op.span], op.version.ts, op.span)

\* Every operation of a route is eventually acknowledged, unless the sink of
\* the route was aborted.
OwedIsAcknowledged ==
  \A w \in Routes : <>[](head[w] = Len(Input[w]) \/ aborts > 0)
=============================================================================
