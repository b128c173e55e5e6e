------------------------------ MODULE Ingress ------------------------------
(***************************************************************************)
(* From an acknowledged hook to the translation of its source session:     *)
(* server/ingress.rs (capture, bounded buffer, overflow, worker), startup  *)
(* recovery (server/recovery.rs, run in server/mod.rs) and the shutdown    *)
(* drain (server/maintenance.rs).                                          *)
(*                                                                         *)
(* A capture appends the event to its source journal, offers it to a       *)
(* bounded buffer and acknowledges it; the journal is the overflow queue   *)
(* of the buffer.  One task drains the buffer: the startup task first, the *)
(* ingress worker afterwards.  Positions count records, not bytes; an      *)
(* event is its position in the journal of its source.                     *)
(***************************************************************************)
EXTENDS Integers, Sequences, FiniteSets

CONSTANTS
  Hooks,       \* connections that deliver event.log requests
  Observers,   \* transcript observers: they capture without the gate
  Sources,     \* source sessions, one journal each
  Capacity,    \* INGRESS_QUEUE_CAPACITY of the capture buffer
  Mailbox,     \* INGRESS_QUEUE_CAPACITY of the ingress channel
  Plans        \* bounds: who captures, the records of each journal, crashes
               \* and failed replays, and graceful shutdowns

ASSUME IngressAssumption ==
  /\ Hooks \cap Observers = {}
  /\ Capacity \in Nat \ {0}
  /\ Mailbox \in Nat \ {0}
  /\ Plans \subseteq [captures : SUBSET (Hooks \cup Observers),
                     records : [Sources -> Nat],
                     faults : Nat, shutdowns : Nat]

Captures == Hooks \cup Observers
Unset == -1

VARIABLES
  \* durable
  journal,    \* records of each source journal: "event" or "control"
  committed,  \* position the translation of the source has committed
  \* the running daemon
  alive,
  quiescing,
  gate,       \* capture_gate: "open", "waiting" (for readers) or "held"
  cap,        \* what each capture is doing
  buffer,     \* CaptureBuffer.events
  evicted,    \* CaptureBuffer.evicted
  mailbox,    \* the ingress channel
  task,       \* the draining task: "recovery", "recv", "drain", "replay"
              \* or "stopped"
  msg,        \* the message being served, "startup" before the first
  readers,    \* what is left of the evicted ranges being replayed
  cutoffs,    \* startup_cutoffs, Unset where no entry; dropped with `finding`
  snapshot,   \* recorded length read by discovery
  bound,      \* range of the journal that startup recovery dispatches
  todo,       \* sources recovery has still to discover or dispatch
  finding,    \* recovery is still discovering
  advanced,   \* position handed to the translation in this life
  drain,      \* progress of drain_all
  flush,      \* progress of a session.flush or status.get request
  \* history and bounds
  base,       \* journal lengths when this life started
  order,      \* events dispatched one by one in this life
  acked,      \* events whose hook was told they are accepted
  asked,      \* events acknowledged when the flush was requested
  faults,
  plan        \* one of Plans; shutdowns are counted down

disk    == <<journal, committed>>
queue   == <<buffer, evicted, mailbox>>
worker  == <<task, msg, readers>>
startup == <<cutoffs, snapshot, bound, todo, finding>>
closing == <<quiescing, gate, drain, flush, asked, plan>>
vars == <<disk, alive, cap, queue, worker, startup, advanced, closing,
          base, order, acked, faults>>

Idle == [at |-> "idle"]
NoRange == [from |-> 0, through |-> 0]
Nothing == [s \in Sources |-> NoRange]
Events(s) == {p \in 1..Len(journal[s]) : journal[s][p] = "event"}
Busy(range) == range.from < range.through
Larger(a, b) == IF a < b THEN b ELSE a
Smaller(a, b) == IF a < b THEN a ELSE b

\* A journal grows only while the records being captured fit its bound.
Room(s) ==
  Len(journal[s]) + Cardinality({c \in Captures :
    cap[c].at \in {"entered", "locked", "marked"} /\ cap[c].source = s})
      < plan.records[s]

Fault == faults < plan.faults /\ faults' = faults + 1
-----------------------------------------------------------------------------
\* Memory of a daemon that does not run.
Volatile ==
  /\ quiescing' = FALSE
  /\ gate' = "open"
  /\ cap' = [c \in Captures |-> Idle]
  /\ buffer' = <<>>
  /\ evicted' = Nothing
  /\ mailbox' = <<>>
  /\ task' = "recovery"
  /\ msg' = "startup"
  /\ readers' = Nothing
  /\ cutoffs' = [s \in Sources |-> Unset]
  /\ snapshot' = [s \in Sources |-> Unset]
  /\ bound' = [s \in Sources |-> 0]
  /\ todo' = Sources
  /\ finding' = TRUE
  /\ advanced' = [s \in Sources |-> 0]
  /\ drain' = "none"
  /\ flush' = "idle"
  /\ asked' = {}
  /\ order' = [s \in Sources |-> <<>>]

Init ==
  /\ journal = [s \in Sources |-> <<>>]
  /\ committed = [s \in Sources |-> 0]
  /\ alive = TRUE
  /\ quiescing = FALSE
  /\ gate = "open"
  /\ cap = [c \in Captures |-> Idle]
  /\ buffer = <<>>
  /\ evicted = Nothing
  /\ mailbox = <<>>
  /\ task = "recovery"
  /\ msg = "startup"
  /\ readers = Nothing
  /\ cutoffs = [s \in Sources |-> Unset]
  /\ snapshot = [s \in Sources |-> Unset]
  /\ bound = [s \in Sources |-> 0]
  /\ todo = Sources
  /\ finding = TRUE
  /\ advanced = [s \in Sources |-> 0]
  /\ drain = "none"
  /\ flush = "idle"
  /\ asked = {}
  /\ base = [s \in Sources |-> 0]
  /\ order = [s \in Sources |-> <<>>]
  /\ acked = {}
  /\ faults = 0
  /\ plan \in Plans
-----------------------------------------------------------------------------
(* Capture *)

\* capture_event passes the gate and the quiescing check.  A capture that
\* finds the daemon quiescing is refused and its client tries the next one.
Enter(c, s) ==
  /\ alive
  /\ cap[c].at = "idle" /\ c \in plan.captures
  /\ Room(s)
  /\ c \in Hooks => gate = "open" /\ ~quiescing
  /\ cap' = [cap EXCEPT ![c] = [at |-> "entered", source |-> s]]
  /\ UNCHANGED <<disk, alive, queue, worker, startup, advanced, closing>>
  /\ UNCHANGED <<base, order, acked, faults>>

Holds(c, s) ==
  cap[c].at \in {"locked", "marked", "appended", "pushed"} /\ cap[c].source = s

\* The capture lock of the source session.
Lock(c) ==
  /\ alive
  /\ cap[c].at = "entered"
  /\ \A d \in Captures : ~Holds(d, cap[c].source)
  /\ cap' = [cap EXCEPT ![c].at = "locked"]
  /\ UNCHANGED <<disk, alive, queue, worker, startup, advanced, closing>>
  /\ UNCHANGED <<base, order, acked, faults>>

\* Mutant: live appends during startup leave no cutoff.
MarkNothing(c) ==
  /\ alive
  /\ cap[c].at = "locked"
  /\ cap' = [cap EXCEPT ![c].at = "marked"]
  /\ UNCHANGED <<disk, alive, queue, worker, startup, advanced, closing>>
  /\ UNCHANGED <<base, order, acked, faults>>

\* append_to_journal: the earliest live append bounds startup recovery.
Mark(c) ==
  LET s == cap[c].source IN
  /\ alive
  /\ cap[c].at = "locked"
  /\ cap' = [cap EXCEPT ![c].at = "marked"]
  /\ cutoffs' = IF ~finding \/ cutoffs[s] # Unset THEN cutoffs
                ELSE [cutoffs EXCEPT ![s] = Len(journal[s])]
  /\ UNCHANGED <<disk, alive, queue, worker, snapshot, bound, todo, finding>>
  /\ UNCHANGED <<advanced, closing, base, order, acked, faults>>

\* The event is written and synced.
AppendEvent(c) ==
  LET s == cap[c].source IN
  /\ alive
  /\ cap[c].at = "marked"
  /\ journal' = [journal EXCEPT ![s] = Append(@, "event")]
  /\ cap' = [cap EXCEPT ![c] = [at |-> "appended", source |-> s,
                                position |-> Len(journal[s]) + 1]]
  /\ UNCHANGED <<committed, alive, queue, worker, startup, advanced, closing>>
  /\ UNCHANGED <<base, order, acked, faults>>

Entry(s, p) == [source |-> s, position |-> p]

\* Mutant: a second evicted event of a source replaces the range.
EvictLatest(e) ==
  [evicted EXCEPT ![e.source] =
     [from |-> e.position - 1, through |-> e.position]]

\* The oldest buffered event becomes, or extends, a range of its journal.
Evict(e) ==
  [evicted EXCEPT ![e.source] =
     IF Busy(@) THEN [from |-> @.from, through |-> Larger(@.through, e.position)]
     ELSE [from |-> e.position - 1, through |-> e.position]]

\* CaptureBuffer::push
Push(c) ==
  LET e == Entry(cap[c].source, cap[c].position) IN
  /\ alive
  /\ cap[c].at = "appended"
  /\ cap' = [cap EXCEPT ![c].at = "pushed"]
  /\ IF Len(buffer) = Capacity
     THEN /\ evicted' = Evict(Head(buffer))
          /\ buffer' = Append(Tail(buffer), e)
     ELSE /\ buffer' = Append(buffer, e)
          /\ UNCHANGED evicted
  /\ UNCHANGED <<disk, alive, mailbox, worker, startup, advanced, closing>>
  /\ UNCHANGED <<base, order, acked, faults>>

\* Mutant: the event is left for the next message.
WakeNobody(c) ==
  /\ alive
  /\ cap[c].at = "pushed"
  /\ acked' = IF c \in Hooks
              THEN acked \cup {Entry(cap[c].source, cap[c].position)}
              ELSE acked
  /\ cap' = [cap EXCEPT ![c] = Idle]
  /\ UNCHANGED <<disk, alive, queue, worker, startup, advanced, closing, base>>
  /\ UNCHANGED <<order, faults>>

\* The wake-up may be dropped when the channel is full; the hook is answered
\* and both locks are released.
Wake(c) ==
  /\ alive
  /\ cap[c].at = "pushed"
  /\ mailbox' = IF task = "stopped" \/ Len(mailbox) = Mailbox THEN mailbox
                ELSE Append(mailbox, "wake")
  /\ acked' = IF c \in Hooks
              THEN acked \cup {Entry(cap[c].source, cap[c].position)}
              ELSE acked
  /\ cap' = [cap EXCEPT ![c] = Idle]
  /\ UNCHANGED <<disk, alive, buffer, evicted, worker, startup, advanced>>
  /\ UNCHANGED <<closing, base, order, faults>>

Capture(c) ==
  \/ \E s \in Sources : Enter(c, s)
  \/ Lock(c)
  \/ Mark(c)
  \/ AppendEvent(c)
  \/ Push(c)
  \/ Wake(c)
-----------------------------------------------------------------------------
(* Startup recovery *)

\* journal_snapshot of a journal found in the directory.
Snapshot(s) ==
  /\ alive
  /\ finding
  /\ s \in todo
  /\ snapshot[s] = Unset
  /\ snapshot' = [snapshot EXCEPT ![s] = Len(journal[s])]
  /\ UNCHANGED <<disk, alive, cap, queue, worker, cutoffs, bound, todo>>
  /\ UNCHANGED <<finding, advanced, closing, base, order, acked, faults>>

\* The snapshot is cut at the earliest live append; a later one is bounded by
\* it.  The journal is a candidate unless its routes are complete.
Discover(s) ==
  LET through == IF cutoffs[s] = Unset THEN snapshot[s]
                 ELSE Smaller(snapshot[s], cutoffs[s])
  IN
  /\ alive
  /\ finding
  /\ s \in todo
  /\ snapshot[s] # Unset
  /\ cutoffs' = [cutoffs EXCEPT ![s] = IF @ = Unset THEN through ELSE @]
  /\ bound' = [bound EXCEPT ![s] = IF committed[s] < through THEN through ELSE 0]
  /\ todo' = todo \ {s}
  /\ UNCHANGED <<disk, alive, cap, queue, worker, snapshot, finding, advanced>>
  /\ UNCHANGED <<closing, base, order, acked, faults>>

\* A journal created after the directory was listed holds live events only.
Overlook(s) ==
  /\ alive
  /\ finding
  /\ s \in todo
  /\ base[s] = 0
  /\ todo' = todo \ {s}
  /\ UNCHANGED <<disk, alive, cap, queue, worker, cutoffs, snapshot, bound>>
  /\ UNCHANGED <<finding, advanced, closing, base, order, acked, faults>>

Discovered ==
  /\ alive
  /\ finding
  /\ todo = {}
  /\ finding' = FALSE
  /\ todo' = {s \in Sources : bound[s] > 0}
  /\ UNCHANGED <<disk, alive, cap, queue, worker, cutoffs, snapshot, bound>>
  /\ UNCHANGED <<advanced, closing, base, order, acked, faults>>

\* dispatch_ingress_event of a candidate resumes an existing boundary.
Resume(s) ==
  /\ alive
  /\ ~finding
  /\ s \in todo
  /\ advanced' = [advanced EXCEPT ![s] = Larger(@, bound[s])]
  /\ todo' = todo \ {s}
  /\ UNCHANGED <<disk, alive, cap, queue, worker, cutoffs, snapshot, bound>>
  /\ UNCHANGED <<finding, closing, base, order, acked, faults>>

\* The startup task drains the buffer itself before it releases the worker.
StartDraining ==
  /\ alive
  /\ ~finding
  /\ todo = {}
  /\ task = "recovery"
  /\ task' = "drain"
  /\ UNCHANGED <<disk, alive, cap, queue, msg, readers, startup, advanced>>
  /\ UNCHANGED <<closing, base, order, acked, faults>>

Recover ==
  \/ \E s \in Sources :
       Snapshot(s) \/ Discover(s) \/ Overlook(s) \/ Resume(s)
  \/ Discovered
  \/ StartDraining
-----------------------------------------------------------------------------
(* Draining task *)

Receive ==
  /\ alive
  /\ task = "recv"
  /\ mailbox # <<>>
  /\ msg' = Head(mailbox)
  /\ mailbox' = Tail(mailbox)
  /\ task' = "drain"
  /\ UNCHANGED <<disk, alive, cap, buffer, evicted, readers, startup>>
  /\ UNCHANGED <<advanced, closing, base, order, acked, faults>>

\* dispatch_ingress_event: the session actor gets the event, the translation
\* the new boundary.
Dispatch(e) ==
  /\ order' = [order EXCEPT ![e.source] = Append(@, e.position)]
  /\ advanced' = [advanced EXCEPT ![e.source] = Larger(@, e.position)]

\* next_capture_work takes the evicted ranges first, ...
TakeEvicted ==
  /\ alive
  /\ task = "drain"
  /\ \E s \in Sources : Busy(evicted[s])
  /\ readers' = evicted
  /\ evicted' = Nothing
  /\ task' = "replay"
  /\ UNCHANGED <<disk, alive, cap, buffer, mailbox, msg, startup, advanced>>
  /\ UNCHANGED <<closing, base, order, acked, faults>>

\* ... then the oldest buffered event.
TakeEvent ==
  /\ alive
  /\ task = "drain"
  /\ evicted = Nothing
  /\ buffer # <<>>
  /\ buffer' = Tail(buffer)
  /\ Dispatch(Head(buffer))
  /\ UNCHANGED <<disk, alive, cap, evicted, mailbox, worker, startup, closing>>
  /\ UNCHANGED <<base, acked, faults>>

\* replay_evicted merges the ranges by timestamp: any source may be next.
ReplayNext(s) ==
  LET p == readers[s].from + 1 IN
  /\ alive
  /\ task = "replay"
  /\ Busy(readers[s])
  /\ readers' = [readers EXCEPT ![s].from = p]
  /\ IF journal[s][p] = "event" THEN Dispatch(Entry(s, p))
                                ELSE UNCHANGED <<order, advanced>>
  /\ UNCHANGED <<disk, alive, cap, queue, task, msg, startup, closing>>
  /\ UNCHANGED <<base, acked, faults>>

Replayed ==
  /\ alive
  /\ task = "replay"
  /\ \A s \in Sources : ~Busy(readers[s])
  /\ readers' = Nothing
  /\ task' = "drain"
  /\ UNCHANGED <<disk, alive, cap, queue, msg, startup, advanced, closing>>
  /\ UNCHANGED <<base, order, acked, faults>>

\* A stopped worker drops the barriers still in its channel.
Aborted == IF flush = "waiting" THEN "aborted" ELSE flush

\* Mutant: answers a message while events are buffered.
ServeEarly ==
  /\ alive
  /\ task = "drain"
  /\ evicted = Nothing
  /\ task' = IF msg = "stop" THEN "stopped" ELSE "recv"
  /\ flush' = IF msg = "flush" THEN "done" ELSE flush
  /\ UNCHANGED <<disk, alive, cap, queue, msg, readers, startup, advanced>>
  /\ UNCHANGED <<quiescing, gate, drain, asked, plan>>
  /\ UNCHANGED <<base, order, acked, faults>>

\* The buffer is empty: serve the message.
Serve ==
  /\ alive
  /\ task = "drain"
  /\ evicted = Nothing
  /\ buffer = <<>>
  /\ task' = IF msg = "stop" THEN "stopped" ELSE "recv"
  /\ mailbox' = IF msg = "stop" THEN <<>> ELSE mailbox
  /\ drain' = CASE msg = "settle" /\ drain = "settling" -> "settled"
                [] msg = "settle" /\ drain = "resettling" -> "resettled"
                [] msg = "stop" -> "drained"
                [] OTHER -> drain
  /\ flush' = CASE msg = "flush" -> "done"
                [] msg = "stop" -> Aborted
                [] OTHER -> flush
  /\ UNCHANGED <<disk, alive, cap, buffer, evicted, msg, readers, startup>>
  /\ UNCHANGED <<advanced, quiescing, gate, asked, plan>>
  /\ UNCHANGED <<base, order, acked, faults>>

\* A replay that cannot read its range stops ingress and the daemon.
ReplayFails ==
  /\ Fault
  /\ alive
  /\ task = "replay"
  /\ \E s \in Sources : Busy(readers[s])
  /\ task' = "stopped"
  /\ mailbox' = <<>>
  /\ quiescing' = TRUE
  /\ flush' = Aborted
  /\ UNCHANGED <<disk, alive, cap, buffer, evicted, msg, readers, startup>>
  /\ UNCHANGED <<advanced, gate, drain, asked, plan>>
  /\ UNCHANGED <<base, order, acked>>

Work ==
  \/ Receive
  \/ TakeEvicted
  \/ TakeEvent
  \/ \E s \in Sources : ReplayNext(s)
  \/ Replayed
  \/ Serve

\* The translation works towards the boundary it was given (external here).
Translate(s) ==
  /\ alive
  /\ committed[s] < advanced[s]
  /\ committed' = [committed EXCEPT ![s] = advanced[s]]
  /\ UNCHANGED <<journal, alive, cap, queue, worker, startup, advanced>>
  /\ UNCHANGED <<closing, base, order, acked, faults>>

\* A flush of a route, or its retirement, appends an ordered control, but not
\* while a captured record lies ahead of the translation.
Control(s) ==
  /\ alive
  /\ advanced[s] > 0
  /\ committed[s] = Len(journal[s])
  /\ Room(s)
  /\ journal' = [journal EXCEPT ![s] = Append(@, "control")]
  /\ advanced' = [advanced EXCEPT ![s] = Len(journal[s]) + 1]
  /\ UNCHANGED <<committed, alive, cap, queue, worker, startup, closing>>
  /\ UNCHANGED <<base, order, acked, faults>>
-----------------------------------------------------------------------------
(* Barriers and shutdown *)

\* Barrier and Stop wait for room in the channel; if the worker is gone the
\* caller continues at once.
Send(m) ==
  /\ task # "stopped"
  /\ Len(mailbox) < Mailbox
  /\ mailbox' = Append(mailbox, m)

Flush ==
  /\ alive
  /\ flush = "idle"
  /\ Send("flush")
  /\ flush' = "waiting"
  /\ asked' = acked
  /\ UNCHANGED <<disk, alive, cap, buffer, evicted, worker, startup, advanced>>
  /\ UNCHANGED <<quiescing, gate, drain, plan, base, order, acked, faults>>

Closing(from, to) ==
  /\ alive
  /\ drain = from
  /\ drain' = to
  /\ UNCHANGED <<alive, cap, evicted, buffer, worker, startup, advanced>>
  /\ UNCHANGED <<flush, asked, base, order, acked, faults>>

\* daemon.shutdown, an interrupt, the idle watchdog, or a failed replay.
BeginDrain ==
  /\ Closing("none", "quiesced")
  /\ quiescing \/ plan.shutdowns > 0
  /\ plan' = IF quiescing THEN plan ELSE [plan EXCEPT !.shutdowns = @ - 1]
  /\ quiescing' = TRUE
  /\ gate' = "waiting"
  /\ UNCHANGED <<disk, mailbox>>

\* Mutant: does not wait for the captures that passed the gate.
CloseGateEarly ==
  /\ Closing("quiesced", "closed")
  /\ gate' = "held"
  /\ UNCHANGED <<disk, mailbox, quiescing, plan>>

\* The write guard waits for every capture that passed the gate.
CloseGate ==
  /\ Closing("quiesced", "closed")
  /\ \A c \in Hooks : cap[c].at = "idle"
  /\ gate' = "held"
  /\ UNCHANGED <<disk, mailbox, quiescing, plan>>

\* A barrier is answered by the worker, or dropped with it.
Settle(from, during, after) ==
  /\ \/ Closing(from, during) /\ Send("settle")
     \/ /\ Closing(from, after) \/ Closing(during, after)
        /\ task = "stopped"
        /\ UNCHANGED mailbox
  /\ UNCHANGED <<disk, quiescing, gate, plan>>

\* Transcripts are observed in between; their events settle as well.
SettleTwice ==
  \/ Settle("closed", "settling", "settled")
  \/ Settle("settled", "resettling", "resettled")

\* Translations finish what they were given; the retirement boundary they
\* publish is Control.  A translation that is recovering leaves its work.
Retire ==
  /\ Closing("resettled", "retired")
  /\ \E able \in SUBSET Sources :
       committed' = [s \in Sources |-> IF s \in able
                      THEN Larger(committed[s], advanced[s]) ELSE committed[s]]
  /\ UNCHANGED <<journal, mailbox, quiescing, gate, plan>>

StopWorker ==
  /\ \/ Closing("retired", "stopping") /\ Send("stop")
     \/ /\ Closing("retired", "drained") \/ Closing("stopping", "drained")
        /\ task = "stopped"
        /\ UNCHANGED mailbox
  /\ UNCHANGED <<disk, quiescing, gate, plan>>

Exit ==
  /\ alive
  /\ drain = "drained"
  /\ alive' = FALSE
  /\ Volatile
  /\ UNCHANGED <<disk, base, acked, faults, plan>>

Crash ==
  /\ Fault
  /\ alive
  /\ alive' = FALSE
  /\ Volatile
  /\ UNCHANGED <<disk, base, acked, plan>>

\* A client finds no daemon and starts one.
Start ==
  /\ ~alive
  /\ alive' = TRUE
  /\ base' = [s \in Sources |-> Len(journal[s])]
  /\ UNCHANGED <<disk, cap, queue, worker, startup, advanced, closing>>
  /\ UNCHANGED <<order, acked, faults>>

Drain == BeginDrain \/ CloseGate \/ SettleTwice \/ Retire \/ StopWorker \/ Exit
-----------------------------------------------------------------------------
Next ==
  \/ \E c \in Captures : Capture(c)
  \/ Recover
  \/ Work
  \/ \E s \in Sources : Translate(s) \/ Control(s)
  \/ ReplayFails
  \/ Flush
  \/ Drain
  \/ Crash
  \/ Start

Spec == Init /\ [][Next]_vars

\* Every task of a running daemon makes progress, each on its own, and a
\* stopped daemon is started again by the next client.  Clients, observers,
\* flushes, shutdowns and faults are never owed.
Fairness ==
  /\ \A c \in Captures : WF_vars(cap[c].at # "idle" /\ Capture(c))
  /\ WF_vars(Recover)
  /\ WF_vars(Work)
  /\ \A s \in Sources : WF_vars(Translate(s))
  /\ WF_vars(quiescing /\ Drain)
  /\ WF_vars(Start)

FairSpec == Spec /\ Fairness
-----------------------------------------------------------------------------
(* Properties *)

Dispatched(s) == {order[s][k] : k \in 1..Len(order[s])}

\* Since the daemon started, the events of a source were dispatched one by
\* one, in journal order, none twice and none skipped, whether they came
\* from the buffer or, after an overflow, from the journal.
DispatchedInSourceOrder ==
  \A s \in Sources :
    /\ \A j, k \in 1..Len(order[s]) : j < k => order[s][j] < order[s][k]
    /\ \A d \in Dispatched(s) : \A p \in Events(s) :
         base[s] < p /\ p <= d => p \in Dispatched(s)

\* "Recovery must not absorb queued live events into its historical head":
\* startup recovery dispatches what a journal held when the daemon started,
\* no less and no more, however captures race with its discovery.
RecoveryIsHistory ==
  /\ \A s \in Sources : bound[s] \in {0, base[s]}
  /\ ~finding => \A s \in Sources :
       \/ committed[s] >= base[s]
       \/ bound[s] = base[s] /\ (s \in todo \/ advanced[s] >= base[s])

Settled(e) ==
  \/ e.position \in Dispatched(e.source)
  \/ e.position <= committed[e.source]
  \/ e.position <= base[e.source] /\ e.position <= advanced[e.source]

ReplayFailed == task = "stopped" /\ msg # "stop"

\* Once a shutdown has settled ingress nothing acknowledged is left behind
\* undispatched: no capture slips between the quiescing check and the drain.
ShutdownSettlesAcknowledged ==
  drain \in {"settled", "resettling", "resettled", "retired", "stopping",
            "drained"} /\ ~ReplayFailed
    => \A e \in acked : Settled(e)

\* A flush that is answered by the worker covers every event acknowledged
\* before it was requested.
FlushCoversAcknowledged ==
  flush = "done" => \A e \in asked : Settled(e)
=============================================================================
