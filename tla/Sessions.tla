------------------------------- MODULE Sessions -------------------------------
(***************************************************************************)
(* The life of one source session in the daemon: hooks capture its events, *)
(* the ingress worker and the reconciler of held events dispatch them to   *)
(* delivery sessions (one per route) that share a translation producer,    *)
(* idle sessions retire, and retention deletes what is complete            *)
(* (server/sessions.rs, dispatch.rs, server/maintenance.rs).               *)
(*                                                                         *)
(* The journal file and the storage (the SQLite partition of the source)   *)
(* are durable.  The producer, the sessions, the journal writer and two    *)
(* locks live in maps: a capture lock, taken by hooks and by retention,    *)
(* and a dispatch lock, taken by dispatchers and by retirement.  A lock    *)
(* that is removed from its map lives on for those who hold a reference;   *)
(* the next request creates another one, so a lock is a number here.       *)
(* Positions count records, and a record is translated into one row.       *)
(***************************************************************************)
EXTENDS Integers, Sequences, FiniteSets, SequencesExt

CONSTANTS
  Hooks,
  Routes,
  Plans     \* bounds on the operations of a behaviour (faults are crashes
            \* and failed deletions, refusals failed authentications), and
            \* the route that delivers each captured route, its parent's
            \* when it is linked

ASSUME RoutesAssumption == IsFiniteSet(Routes)

\* A plan bounds every kind of operation that could repeat for ever.  The
\* route of a linked session names a parent span, and a session whose own
\* route names one is not linked any further.
ASSUME PlansAssumption ==
  /\ Plans \subseteq [captures : Nat, retirements : Nat, collections : Nat,
                      refusals : Nat, faults : Nat, deadlines : Nat,
                      linked : [Routes -> Routes]]
  /\ \A p \in Plans, r \in Routes : p.linked[p.linked[r]] = p.linked[r]

Dispatchers == {"worker", "reconciler"}
Retirement == 0       \* a Retire control in the journal; events have numbers
Unregistered == -1

VARIABLES
  \* durable
  log,        \* the journal file
  storage,    \* rows translated and committed, the head of every route
  pending,    \* events of a route that could not be handed over yet
  \* in memory
  writer,     \* entry of `journals`: "none", "open", or "stale", whose file
              \* is no longer the one in the directory
  made,       \* every producer since the start
  current,    \* the producer in `translations`, or 0
  sessions,   \* the producer of each route's session, or 0
  queue,      \* captured events not dispatched yet
  captureLock, dispatchLock,  \* the lock each map has, or will create
  \* tasks
  hooks, busy, retiring, gc,
  aged,       \* the files have not changed for the retention time
  \* history and bounds
  captured,   \* routes of the acknowledged events
  delivered,  \* events that reached the destination of their route
  cut,        \* routes that were shut down with events left to deliver
  left        \* what the plan still allows

disk == <<log, storage, pending>>
maps == <<writer, made, current, sessions, captureLock, dispatchLock>>
tasks == <<hooks, busy, retiring, gc>>
history == <<captured, delivered, cut>>
vars == <<disk, maps, queue, tasks, aged, history, left>>

Absent == [exists |-> FALSE, rows |-> <<>>,
           heads |-> [r \in Routes |-> Unregistered]]
Idle == [at |-> "idle"]
Use(n) == left[n] > 0 /\ left' = [left EXCEPT ![n] = @ - 1]
Home(i) == left.linked[captured[i]]
Committed == Len(storage.rows)
Registered == {r \in Routes : storage.heads[r] # Unregistered}

\* prune: the lowest head; a head that is registered now starts there.
Floor == IF Registered = {} THEN 0
         ELSE CHOOSE n \in {storage.heads[r] : r \in Registered} :
                \A r \in Registered : n <= storage.heads[r]
Register(heads, r) == [heads EXCEPT ![r] = IF @ = Unregistered THEN Floor ELSE @]

Init ==
  /\ log = <<>> /\ storage = Absent
  /\ pending = [r \in Routes |-> <<>>]
  /\ writer = "none" /\ made = <<>> /\ current = 0
  /\ sessions = [r \in Routes |-> 0]
  /\ queue = <<>>
  /\ captureLock = 1 /\ dispatchLock = 1
  /\ hooks = [h \in Hooks |-> Idle]
  /\ busy = [p \in Dispatchers |-> Idle]
  /\ retiring = Idle /\ gc = Idle
  /\ aged = FALSE
  /\ captured = <<>> /\ delivered = {} /\ cut = {}
  /\ left \in Plans
-----------------------------------------------------------------------------
(* Capture *)

CaptureLockIsFree(l) ==
  /\ \A h \in Hooks : hooks[h].at = "holding" => hooks[h].lock # l
  /\ gc.at \in {"checking", "deleting", "unlinking"} => gc.lock # l

\* An append through a writer whose file was deleted changes no file that
\* anybody can find.
Written(x) == IF writer = "stale" THEN log ELSE Append(log, x)

Ask(h) ==
  /\ hooks[h].at = "idle"
  /\ left.captures > Cardinality({k \in Hooks : hooks[k].at # "idle"})
  /\ hooks' = [hooks EXCEPT ![h] = [at |-> "waiting", lock |-> captureLock]]
  /\ UNCHANGED <<disk, maps, queue, busy, retiring, gc, aged, history, left>>

Lock(h) ==
  /\ hooks[h].at = "waiting"
  /\ CaptureLockIsFree(hooks[h].lock)
  /\ hooks' = [hooks EXCEPT ![h].at = "holding"]
  /\ UNCHANGED <<disk, maps, queue, busy, retiring, gc, aged, history, left>>

\* journal_and_enqueue: opens the writer if nobody has, and acknowledges.
Capture(h, r) ==
  /\ hooks[h].at = "holding"
  /\ Use("captures")
  /\ writer' = IF writer = "none" THEN "open" ELSE writer
  /\ captured' = Append(captured, r)
  /\ log' = Written(Len(captured'))
  /\ queue' = Append(queue, [route |-> r, before |-> Len(log),
                             through |-> Len(log) + 1])
  /\ hooks' = [hooks EXCEPT ![h] = Idle]
  /\ aged' = FALSE
  /\ UNCHANGED <<storage, pending, made, current, sessions, captureLock,
                 dispatchLock, busy, retiring, gc, delivered, cut>>
-----------------------------------------------------------------------------
(* Dispatch *)

\* Mutant: retirement does not exclude the dispatch of new events.
DispatchersAreOut(l) == \A p \in Dispatchers : busy[p].at = "subscribe" => busy[p].lock # l

DispatchLockIsFree(l) ==
  /\ \A p \in Dispatchers : busy[p].at = "subscribe" => busy[p].lock # l
  /\ retiring.at \in {"control", "drain", "stop", "finish", "clean"} =>
       retiring.lock # l

\* translation_for: the producer in the map, or a new one that opens the
\* storage and the journal writer.  Nothing here holds the capture lock.
Opened == IF current # 0 THEN current ELSE Len(made) + 1
Producers ==
  IF current # 0 THEN made
  ELSE Append(made, [on |-> TRUE, active |-> 0, draining |-> 0,
                     target |-> Committed])
TranslationFor ==
  /\ current' = Opened
  /\ writer' = IF current = 0 /\ writer = "none" THEN "open" ELSE writer
  /\ storage' = [storage EXCEPT !.exists = TRUE]

Later(m, n) == IF m > n THEN m ELSE n
Advanced(ps, p, n) ==
  [ps EXCEPT ![p].target = IF ps[p].on THEN Later(@, n) ELSE @]

\* The correlation lock of a route is held from taking its event to handing
\* it over or holding it.
Accepting(r) == \E p \in Dispatchers :
                  busy[p].at \in {"accept", "subscribe"} /\ busy[p].event.route = r

Take ==
  /\ busy["worker"].at = "idle"
  /\ queue # <<>>
  /\ LET e == Head(queue) IN
       /\ ~Accepting(e.route)
       /\ IF pending[e.route] # <<>>
          THEN /\ pending' = [pending EXCEPT ![e.route] = Append(@, e)]
               /\ busy' = [busy EXCEPT !["worker"] =
                             [at |-> "advance", event |-> e]]
          ELSE /\ busy' = [busy EXCEPT !["worker"] =
                             [at |-> "accept", event |-> e, lock |-> dispatchLock]]
               /\ UNCHANGED pending
  /\ queue' = Tail(queue)
  /\ UNCHANGED <<log, storage, maps, hooks, retiring, gc, aged, history, left>>

Reconcile(r) ==
  /\ busy["reconciler"].at = "idle"
  /\ pending[r] # <<>> /\ ~Accepting(r)
  /\ busy' = [busy EXCEPT !["reconciler"] =
                [at |-> "accept", event |-> Head(pending[r]), lock |-> dispatchLock]]
  /\ UNCHANGED <<disk, maps, queue, hooks, retiring, gc, aged, history, left>>

\* finish_correlation: an event handed over leaves `pending`, one that is
\* refused stays or becomes the first of it.
HandedOver(p, e) ==
  /\ pending' = IF p = "worker" THEN pending
                ELSE [pending EXCEPT ![e.route] = Tail(@)]
  /\ busy' = [busy EXCEPT ![p] = IF p = "worker"
                                 THEN [at |-> "advance", event |-> e] ELSE Idle]
Held(p, e) ==
  /\ pending' = IF p = "worker" THEN [pending EXCEPT ![e.route] = Append(@, e)]
                ELSE pending
  /\ busy' = [busy EXCEPT ![p] = IF p = "worker"
                                 THEN [at |-> "advance", event |-> e] ELSE Idle]

Accept(p) == busy[p].at = "accept" /\ DispatchLockIsFree(busy[p].lock)

\* configure_event fails: no credentials.
Refuse(p) ==
  /\ Accept(p) /\ Use("refusals")
  /\ Held(p, busy[p].event)
  /\ UNCHANGED <<log, storage, maps, queue, hooks, retiring, gc, aged, history>>

Enqueue(p) ==
  /\ Accept(p)
  /\ LET e == busy[p].event
         s == sessions[left.linked[e.route]]
     IN /\ s # 0
        /\ made' = Advanced(made, s, e.through)
        /\ HandedOver(p, e)
  /\ UNCHANGED <<log, storage, writer, current, sessions, captureLock,
                 dispatchLock, queue, hooks, retiring, gc, aged, history, left>>

\* session_for, as far as the barrier it waits for.
Observe(p) ==
  /\ Accept(p)
  /\ sessions[left.linked[busy[p].event.route]] = 0
  /\ TranslationFor
  /\ LET e == busy[p].event IN
       IF Producers[Opened].on
       THEN /\ made' = [Advanced(Producers, Opened, e.before)
                        EXCEPT ![Opened].active = @ + 1]
            /\ busy' = [busy EXCEPT ![p] = [at |-> "subscribe", event |-> e,
                                           lock |-> @.lock, producer |-> Opened]]
            /\ UNCHANGED pending
       ELSE made' = Producers /\ Held(p, e)
  /\ UNCHANGED <<log, sessions, captureLock, dispatchLock, queue, hooks,
                 retiring, gc, aged, history, left>>

Subscribe(p) ==
  /\ busy[p].at = "subscribe"
  /\ LET e == busy[p].event
         r == left.linked[e.route]
         s == IF sessions[r] # 0 THEN sessions[r] ELSE busy[p].producer
     IN /\ Committed >= e.before \/ ~made[busy[p].producer].on
        /\ storage' = [storage EXCEPT !.heads = Register(storage.heads, r)]
        /\ sessions' = [sessions EXCEPT ![r] = s]
        /\ made' = Advanced(made, s, e.through)
        /\ HandedOver(p, e)
        /\ cut' = cut \ {r}
  /\ aged' = FALSE
  /\ UNCHANGED <<log, writer, current, captureLock, dispatchLock, queue, hooks,
                 retiring, gc, captured, delivered, left>>

\* The worker also advances the producer for an event that was held.
Advance ==
  /\ busy["worker"].at = "advance"
  /\ TranslationFor
  /\ made' = Advanced(Producers, Opened, busy["worker"].event.through)
  /\ busy' = [busy EXCEPT !["worker"] = Idle]
  /\ UNCHANGED <<log, pending, sessions, captureLock, dispatchLock, queue, hooks,
                 retiring, gc, aged, history, left>>

Dispatch ==
  \/ Take
  \/ \E r \in Routes : Reconcile(r)
  \/ \E p \in Dispatchers : Refuse(p) \/ Enqueue(p) \/ Observe(p) \/ Subscribe(p)
  \/ Advance
-----------------------------------------------------------------------------
(* Translation and delivery *)

\* The producer reads the next record, registers its route and commits.
Translate(p) ==
  /\ made[p].on
  /\ Committed < made[p].target
  /\ Committed < Len(log)
  /\ LET x == log[Committed + 1] IN
       storage' = [storage EXCEPT
         !.rows = Append(@, x),
         !.heads = IF x = Retirement THEN @
                  ELSE Register(storage.heads, captured[x])]
  /\ aged' = FALSE
  /\ UNCHANGED <<log, pending, maps, queue, tasks, history, left>>

Consuming(r) == \/ sessions[r] # 0
                \/ retiring.at \in {"control", "drain", "stop"} /\ retiring.route = r
Deliver(r) ==
  /\ Consuming(r)
  /\ storage.heads[r] < Committed
  /\ LET n == storage.heads[r] + 1
         x == storage.rows[n]
     IN /\ storage' = [storage EXCEPT !.heads[r] = n]
        /\ delivered' = IF x # Retirement /\ Home(x) = r THEN delivered \cup {x}
                        ELSE delivered
  /\ aged' = FALSE
  /\ UNCHANGED <<log, pending, maps, queue, tasks, captured, cut, left>>
-----------------------------------------------------------------------------
(* Retirement: retire_session *)

\* idle_sessions: nothing is pending for the route.
Retire(r) ==
  /\ retiring = Idle
  /\ Use("retirements")
  /\ sessions[r] # 0
  /\ storage.heads[r] = Committed
  /\ made[sessions[r]].target <= Committed
  /\ retiring' = [at |-> "barrier", route |-> r]
  /\ UNCHANGED <<disk, maps, queue, hooks, busy, gc, aged, history>>

Barrier ==
  /\ retiring.at = "barrier"
  /\ queue = <<>> /\ busy["worker"].at = "idle"
  /\ retiring' = [at |-> "waiting", route |-> retiring.route, lock |-> dispatchLock]
  /\ UNCHANGED <<disk, maps, queue, hooks, busy, gc, aged, history, left>>

\* The last session of a producer also appends a Retire control.
Shutdown ==
  /\ retiring.at = "waiting"
  /\ DispatchLockIsFree(retiring.lock)
  /\ LET s == sessions[retiring.route] IN
       /\ sessions' = [sessions EXCEPT ![retiring.route] = 0]
       /\ made' = [made EXCEPT ![s].active = @ - 1, ![s].draining = @ + 1]
       /\ retiring' = [at |-> IF made[s].active = 1 THEN "control" ELSE "stop",
                       route |-> retiring.route, lock |-> retiring.lock,
                       producer |-> s]
  /\ UNCHANGED <<disk, writer, current, captureLock, dispatchLock, queue, hooks,
                 busy, gc, aged, history, left>>

\* The control waits for what was requested; it is dropped if captures are
\* ahead of the producer.
Control ==
  /\ retiring.at = "control"
  /\ LET p == retiring.producer IN
       /\ Committed >= made[p].target
       /\ IF Len(log) > Committed THEN UNCHANGED <<log, made, aged>>
          ELSE /\ log' = Written(Retirement)
               /\ made' = [made EXCEPT ![p].target = Len(log')]
               /\ aged' = FALSE
       /\ retiring' = [retiring EXCEPT !.at = "drain"]
  /\ UNCHANGED <<storage, pending, writer, current, sessions, captureLock,
                 dispatchLock, queue, hooks, busy, gc, history, left>>

\* Two seconds for the route to deliver everything up to the control.
Drained ==
  /\ retiring.at = "drain"
  /\ Committed >= made[retiring.producer].target
  /\ storage.heads[retiring.route] = Committed
  /\ retiring' = [retiring EXCEPT !.at = "stop"]
  /\ UNCHANGED <<disk, maps, queue, hooks, busy, gc, aged, history, left>>

Deadline ==
  /\ retiring.at = "drain"
  /\ Use("deadlines")
  /\ retiring' = [retiring EXCEPT !.at = "stop"]
  /\ UNCHANGED <<disk, maps, queue, hooks, busy, gc, aged, history>>

Owed(r) == {i \in DOMAIN captured : Home(i) = r} \ delivered

\* The consumer stops; the producer with its last route.
Stop ==
  /\ retiring.at = "stop"
  /\ cut' = IF Owed(retiring.route) = {} THEN cut ELSE cut \cup {retiring.route}
  /\ made' = [made EXCEPT ![retiring.producer].draining = @ - 1]
  /\ retiring' = [retiring EXCEPT !.at = "finish"]
  /\ UNCHANGED <<disk, writer, current, sessions, captureLock, dispatchLock, queue,
                 hooks, busy, gc, aged, captured, delivered, left>>

Finish ==
  /\ retiring.at = "finish"
  /\ LET p == retiring.producer
         last == made[p].active = 0 /\ made[p].draining = 0
     IN /\ last => Committed >= made[p].target
        /\ made' = [made EXCEPT ![p].on = ~last]
  /\ retiring' = IF \A r \in Routes : sessions[r] = 0
                 THEN [at |-> "clean", lock |-> retiring.lock, capture |-> captureLock]
                 ELSE Idle
  /\ UNCHANGED <<disk, writer, current, sessions, captureLock, dispatchLock, queue,
                 hooks, busy, gc, aged, history, left>>

Users(l) == {h \in Hooks : hooks[h].at # "idle" /\ hooks[h].lock = l}
            \cup (IF gc.at \notin {"idle", "recovering"} /\ gc.lock = l THEN {"gc"} ELSE {})

\* Mutant: a capture lock somebody waits for is removed, too.
CleanEveryLock ==
  /\ retiring.at = "clean"
  /\ CaptureLockIsFree(retiring.capture)
  /\ writer' = "none" /\ current' = 0
  /\ captureLock' = captureLock + 1 /\ dispatchLock' = dispatchLock + 1
  /\ retiring' = Idle
  /\ UNCHANGED <<disk, made, sessions, queue, hooks, busy, gc, aged, history, left>>

\* The final route releases the maps; a capture lock in use stays.
Clean ==
  /\ retiring.at = "clean"
  /\ CaptureLockIsFree(retiring.capture)
  /\ writer' = "none" /\ current' = 0
  /\ captureLock' = IF Users(retiring.capture) = {} THEN captureLock + 1
                    ELSE captureLock
  /\ dispatchLock' = dispatchLock + 1
  /\ retiring' = Idle
  /\ UNCHANGED <<disk, made, sessions, queue, hooks, busy, gc, aged, history, left>>

Retiring ==
  \/ \E r \in Routes : Retire(r)
  \/ Barrier \/ Shutdown \/ Control \/ Drained \/ Deadline
  \/ Stop \/ Finish \/ Clean
-----------------------------------------------------------------------------
(* Retention: collect_partitions *)

\* Nothing takes as long as the retention time.
Age ==
  /\ ~aged /\ left.collections > 0
  /\ log # <<>> /\ queue = <<>>
  /\ \A h \in Hooks : hooks[h].at = "idle"
  /\ \A p \in Dispatchers : busy[p].at = "idle"
  /\ retiring = Idle /\ gc = Idle
  /\ aged' = TRUE
  /\ UNCHANGED <<disk, maps, queue, tasks, history, left>>

\* captured_routes_registered
Covered == \A n \in DOMAIN log : log[n] # Retirement => Home(log[n]) \in Registered

Scan ==
  /\ gc = Idle
  /\ aged /\ log # <<>> /\ storage.exists
  /\ Use("collections")
  /\ gc' = IF Covered THEN [at |-> "waiting", lock |-> captureLock,
                            recorded |-> Len(log), routes |-> Registered]
           ELSE Idle
  /\ UNCHANGED <<disk, maps, queue, hooks, busy, retiring, aged, history>>

\* Mutant: what the scan saw is not compared again under the lock.
CheckOnce ==
  /\ gc.at = "waiting"
  /\ CaptureLockIsFree(gc.lock)
  /\ gc' = IF writer = "none" /\ current = 0
           THEN [gc EXCEPT !.at = "checking"] ELSE Idle
  /\ UNCHANGED <<disk, maps, queue, hooks, busy, retiring, aged, history, left>>

\* Under the lock: no writer, no producer, nothing captured or registered.
\* Only captures are kept out from here on: a held event may be dispatched.
Check ==
  /\ gc.at = "waiting"
  /\ CaptureLockIsFree(gc.lock)
  /\ gc' = IF /\ writer = "none" /\ current = 0
              /\ Len(log) = gc.recorded
              /\ Registered = gc.routes
           THEN [gc EXCEPT !.at = "checking"] ELSE Idle
  /\ UNCHANGED <<disk, maps, queue, hooks, busy, retiring, aged, history, left>>

Collectible ==
  /\ Registered # {}
  /\ \A r \in Registered : storage.heads[r] = Committed
  /\ Committed >= gc.recorded

CheckWork ==
  /\ gc.at = "checking"
  /\ gc' = IF Collectible /\ \A r \in Routes : pending[r] = <<>>
           THEN [gc EXCEPT !.at = "deleting"] ELSE Idle
  /\ UNCHANGED <<disk, maps, queue, hooks, busy, retiring, aged, history, left>>

\* Mutant: the journal is deleted before the storage.
DeleteJournalFirst ==
  /\ gc.at = "deleting"
  /\ IF log # <<>> THEN log' = <<>> /\ UNCHANGED <<storage, gc>>
     ELSE storage' = Absent /\ gc' = Idle /\ UNCHANGED log
  /\ UNCHANGED <<pending, maps, queue, hooks, busy, retiring, aged, history, left>>

DeleteStorage ==
  /\ gc.at = "deleting"
  /\ storage' = Absent
  /\ gc' = [gc EXCEPT !.at = "unlinking"]
  /\ UNCHANGED <<log, pending, maps, queue, hooks, busy, retiring, aged, history, left>>

DeleteJournal ==
  /\ gc.at = "unlinking"
  /\ log' = <<>>
  /\ writer' = IF writer = "open" THEN "stale" ELSE writer
  /\ gc' = Idle
  /\ UNCHANGED <<storage, pending, made, current, sessions, captureLock, dispatchLock,
                 queue, hooks, busy, retiring, aged, history, left>>

KeepJournal ==
  /\ gc.at = "unlinking"
  /\ Use("faults")
  /\ gc' = Idle
  /\ UNCHANGED <<disk, maps, queue, hooks, busy, retiring, aged, history>>

\* Retention starts when recovery has released the ingress worker.
StartCollecting ==
  /\ gc.at = "recovering"
  /\ queue = <<>> /\ busy["worker"].at = "idle"
  /\ gc' = Idle
  /\ UNCHANGED <<disk, maps, queue, hooks, busy, retiring, aged, history, left>>

Collect == StartCollecting \/ Age \/ Scan \/ Check \/ CheckWork
           \/ DeleteStorage \/ DeleteJournal \/ KeepJournal
-----------------------------------------------------------------------------
(* Restart: discover_unprocessed_journals finds the routes that are not      *)
(* complete, unless their latest event is held.                              *)

\* A route that has only a head is as late as the events of the other routes.
Latest(r) ==
  LET events == {n \in DOMAIN log : log[n] # Retirement}
      own == {n \in events : captured[log[n]] = r}
      at == IF own = {} /\ r \in Registered THEN events ELSE own
  IN  IF at = {} THEN 0 ELSE CHOOSE n \in at : \A m \in at : m <= n

\* Mutant: the captures behind the committed rows are not looked at.
CompleteAsFarAsRead(r) ==
  storage.exists /\ storage.heads[left.linked[r]] >= Committed

Complete(r) == /\ storage.exists
               /\ Committed >= Len(log)
               /\ storage.heads[left.linked[r]] >= Committed

Undone == {r \in Routes : /\ Latest(r) > 0 /\ ~Complete(r)
                          /\ \A k \in DOMAIN pending[r] :
                               pending[r][k].through # Latest(r)}

\* The candidates are sorted by the time of their latest event.
Orders == {o \in [1..Cardinality(Undone) -> Undone] :
             \A j, k \in 1..Cardinality(Undone) :
               j < k => o[j] # o[k] /\ Latest(o[j]) <= Latest(o[k])}
Candidates ==
  {[k \in 1..Cardinality(Undone) |->
      [route |-> o[k], before |-> Len(log), through |-> Len(log)]] : o \in Orders}

Crash ==
  /\ Use("faults")
  /\ writer' = "none" /\ made' = <<>> /\ current' = 0
  /\ sessions' = [r \in Routes |-> 0]
  /\ captureLock' = 1 /\ dispatchLock' = 1
  /\ queue' \in Candidates
  /\ hooks' = [h \in Hooks |-> Idle]
  /\ busy' = [p \in Dispatchers |-> Idle]
  /\ retiring' = Idle /\ gc' = [at |-> "recovering"]
  /\ cut' = {}
  /\ UNCHANGED <<disk, aged, captured, delivered>>

Next ==
  \/ \E h \in Hooks : Ask(h) \/ Lock(h) \/ \E r \in Routes : Capture(h, r)
  \/ Dispatch
  \/ \E p \in DOMAIN made : Translate(p)
  \/ \E r \in Routes : Deliver(r)
  \/ Retiring
  \/ Collect
  \/ Crash

Spec == Init /\ [][Next]_vars
-----------------------------------------------------------------------------
(* Properties *)

\* An acknowledged event is at its destination or in the journal file.
CapturesAreKept ==
  \A i \in DOMAIN captured : i \in delivered \/ \E n \in DOMAIN log : log[n] = i

\* The storage is about the journal that is on disk: receipts of an earlier
\* file would hide the captures of a new one.
StorageIsOfThisJournal == storage.exists => IsPrefix(storage.rows, log)

\* One task at a time works on the files of a source under the capture lock.
OneHolder ==
  Cardinality({h \in Hooks : hooks[h].at = "holding"})
    + (IF gc.at \in {"checking", "deleting", "unlinking"} THEN 1 ELSE 0) <= 1

\* A source has one running producer, the one in the map, and every session
\* works on it.
SessionsShareProducer ==
  /\ Cardinality({p \in DOMAIN made : made[p].on}) <= 1
  /\ \A r \in Routes : sessions[r] # 0 => sessions[r] = current /\ made[current].on
-----------------------------------------------------------------------------
\* Every task that can take a step is scheduled; a hook in its critical
\* section finishes it.  Nothing need be captured, retired, collected,
\* refused or cut off by a deadline.
HookSteps(h) == Lock(h) \/ \E r \in Routes : Capture(h, r)
DispatcherSteps(p) ==
  \/ p = "worker" /\ (Take \/ Advance)
  \/ p = "reconciler" /\ \E r \in Routes : Reconcile(r)
  \/ Enqueue(p) \/ Observe(p) \/ Subscribe(p)
RetirementSteps ==
  Barrier \/ Shutdown \/ Control \/ Drained \/ Stop \/ Finish \/ Clean
CollectionSteps ==
  StartCollecting \/ Check \/ CheckWork \/ DeleteStorage \/ DeleteJournal
Fairness ==
  /\ \A h \in Hooks : WF_vars(HookSteps(h))
  /\ \A p \in Dispatchers : WF_vars(DispatcherSteps(p))
  /\ WF_vars(\E p \in DOMAIN made : Translate(p))
  /\ \A r \in Routes : WF_vars(Deliver(r))
  /\ WF_vars(RetirementSteps)
  /\ WF_vars(CollectionSteps)
FairSpec == Spec /\ Fairness

MaxCaptures == CHOOSE n \in {p.captures : p \in Plans} :
                 \A p \in Plans : p.captures <= n

\* Every acknowledged event reaches the destination of its route in the end,
\* through holding, retirement, restarts and retention; only a route that was
\* shut down while it owed events may stay behind, until it is attached again
\* (retire_session drops its queue).
Settled(i) == i \in DOMAIN captured /\ (i \in delivered \/ Home(i) \in cut)
DeliveredUnlessCut ==
  \A i \in 1..MaxCaptures : i \in DOMAIN captured ~> []Settled(i)
=============================================================================
