--------------------------- MODULE SessionsProof ---------------------------
(***************************************************************************)
(* Proofs about Sessions.  Base (types, references between the maps, the   *)
(* capture lock and its one holder) is inductive for every plan.  Sharing  *)
(* (the dispatch lock excludes retirement, one producer runs, its counts   *)
(* are exact) is inductive as long as nothing is held back or one session  *)
(* retires at most; Keeping (rows repeat the journal, no head passes an    *)
(* event its route has not delivered, no capture is lost) as long as       *)
(* nothing is held back or nothing is collected.                           *)
(***************************************************************************)
EXTENDS Sessions, FiniteSetTheorems, TLAPS

\* The types of the variables.
Event == [route : Routes, before : Nat, through : Nat]
Producer == [on : BOOLEAN, active : Int, draining : Int, target : Nat]
Storage == [exists : BOOLEAN, rows : Seq(Nat), heads : [Routes -> Int]]
Left == [captures : Nat, retirements : Nat, collections : Nat, refusals : Nat,
         faults : Nat, deadlines : Nat, linked : [Routes -> Routes]]
HookStates == {Idle} \cup [at : {"waiting", "holding"}, lock : Nat]
BusyStates ==
  {Idle} \cup [at : {"accept"}, event : Event, lock : Nat]
         \cup [at : {"subscribe"}, event : Event, lock : Nat, producer : Nat]
         \cup [at : {"advance"}, event : Event]
RetiringStates ==
  {Idle} \cup [at : {"barrier"}, route : Routes]
         \cup [at : {"waiting"}, route : Routes, lock : Nat]
         \cup [at : {"control", "drain", "stop", "finish"}, route : Routes,
               lock : Nat, producer : Nat]
         \cup [at : {"clean"}, lock : Nat, capture : Nat]
GcStates ==
  {Idle, [at |-> "recovering"]}
         \cup [at : {"waiting", "checking", "deleting", "unlinking"}, lock : Nat,
               recorded : Nat, routes : SUBSET Routes]

DataOK ==
  /\ log \in Seq(Nat)
  /\ storage \in Storage
  /\ pending \in [Routes -> Seq(Event)]
  /\ queue \in Seq(Event)
  /\ captured \in Seq(Routes)
  /\ writer \in {"none", "open", "stale"}
  /\ aged \in BOOLEAN
  /\ left \in Left
MapsOK ==
  /\ made \in Seq(Producer)
  /\ current \in 0..Len(made)
  /\ sessions \in [Routes -> 0..Len(made)]
  /\ captureLock \in Nat /\ dispatchLock \in Nat
TasksOK ==
  /\ hooks \in [Hooks -> HookStates]
  /\ busy \in [Dispatchers -> BusyStates]
  /\ retiring \in RetiringStates
  /\ gc \in GcStates
TypeOK == DataOK /\ MapsOK /\ TasksOK

Dispatching(p) == busy[p].at \in {"accept", "subscribe"}

\* What one structure says of another exists there.
Refs ==
  /\ \A n \in 1..Len(log) : log[n] <= Len(captured)
  /\ \A n \in 1..Committed : storage.rows[n] <= Len(captured)
  /\ \A r \in Routes : storage.heads[r] >= Unregistered
  /\ \A p \in Dispatchers :
       busy[p].at = "subscribe" => busy[p].producer \in 1..Len(made)
  /\ retiring.at \in {"barrier", "waiting"} => sessions[retiring.route] # 0
  /\ retiring.at \in {"control", "drain", "stop", "finish"} =>
       retiring.producer \in 1..Len(made)
  /\ \A r \in Routes : left.linked[left.linked[r]] = left.linked[r]
  /\ \A p \in Dispatchers :
       p = "reconciler" /\ Dispatching(p) => pending[busy[p].event.route] # <<>>
  /\ \A r \in Routes : \A k \in 1..Len(pending[r]) : pending[r][k].route = r

Holding == {h \in Hooks : hooks[h].at = "holding"}
Collecting == gc.at \in {"checking", "deleting", "unlinking"}

\* Whoever waits for the capture lock or holds it has the one in the map.
CaptureLocks ==
  /\ \A h \in Hooks : hooks[h].at # "idle" => hooks[h].lock = captureLock
  /\ gc.at = "waiting" \/ Collecting => gc.lock = captureLock
  /\ retiring.at = "clean" => retiring.capture = captureLock
Holders ==
  /\ \A h, k \in Holding : h = k
  /\ Collecting => Holding = {}

Base == TypeOK /\ Refs /\ CaptureLocks /\ Holders
-----------------------------------------------------------------------------
Locking == retiring.at \in {"waiting", "control", "drain", "stop", "finish", "clean"}
Locked == retiring.at \in {"control", "drain", "stop", "finish", "clean"}
Subscribing == {p \in Dispatchers : busy[p].at = "subscribe"}
Open == {r \in Routes : sessions[r] # 0}
Retirable == left.retirements > 0 \/ retiring # Idle

\* No event was ever held back, so that only the worker dispatches.
Unheld ==
  /\ left.refusals = 0
  /\ \A r \in Routes : pending[r] = <<>>
  /\ busy["reconciler"] = Idle

\* One retirement at most until the next start.
Once ==
  /\ left.retirements <= 1
  /\ retiring # Idle => left.retirements = 0
  /\ dispatchLock # 1 => left.retirements = 0 /\ retiring = Idle
  /\ dispatchLock = 1 => \A p \in Dispatchers : Dispatching(p) => busy[p].lock = 1

\* While a retirement has the dispatch lock of the map, so have the dispatchers,
\* and none of them is inside.
DispatchLocks ==
  /\ Locking => /\ retiring.lock = dispatchLock
                /\ \A p \in Dispatchers : Dispatching(p) => busy[p].lock = dispatchLock
  /\ Locked => Subscribing = {}
  /\ Retirable => \A p, q \in Subscribing : p = q

\* The producer in the map is the one that runs, until the last retirement has
\* stopped it, and everybody works on it.
OneProducer ==
  /\ \A p \in 1..Len(made) : made[p].on => p = current
  /\ \A r \in Open : sessions[r] = current
  /\ \A p \in Subscribing : busy[p].producer = current
  /\ Locked => current # 0
  /\ retiring.at \in {"control", "drain", "stop", "finish"} => retiring.producer = current
  /\ current # 0 => (made[current].on <=> retiring.at # "clean")
  /\ retiring.at = "clean" => Open = {}

\* The producer knows how many routes it serves as long as one can retire.
Counted ==
  Retirable =>
    /\ \A p \in Subscribing : left.linked[busy[p].event.route] \notin Open
    /\ current # 0 =>
         /\ made[current].active = Cardinality(Open) + Cardinality(Subscribing)
         /\ made[current].draining =
              IF retiring.at \in {"control", "drain", "stop"} THEN 1 ELSE 0

Sharing == DispatchLocks /\ OneProducer /\ Counted
-----------------------------------------------------------------------------
\* The rows of the storage repeat the records of the journal.
Faithful ==
  /\ Committed <= Len(log)
  /\ \A n \in 1..Committed : storage.rows[n] = log[n]

Behind(r, n) == r \in Registered /\ storage.heads[r] < n
\* A row waits behind the head of its route, or of the route it was captured
\* for when its own is not registered yet.
Delivering ==
  /\ \A r \in Routes : storage.heads[r] <= Committed
  /\ \A r \in Routes : Consuming(r) \/ sessions[r] # 0 =>
        r \in Registered /\ left.linked[r] = r
  /\ \A n \in 1..Committed :
        LET x == storage.rows[n] IN
        \/ x = Retirement \/ x \in delivered
        \/ Behind(Home(x), n)
        \/ Home(x) \notin Registered /\ Behind(captured[x], n)
\* A captured event is delivered or in the journal.
Kept == /\ writer # "stale"
        /\ \A i \in 1..Len(captured) :
             i \in delivered \/ \E n \in 1..Len(log) : log[n] = i
Keeping == Faithful /\ Delivering /\ Kept

\* Retention never starts.
Uncollected == left.collections = 0 /\ gc.at \in {"idle", "recovering"}

WorkerIdle == queue = <<>> /\ busy["worker"] = Idle
\* Nobody works on a source that retention has found complete.
Quiet ==
  /\ aged /\ gc.at # "recovering" => WorkerIdle
  /\ gc.at = "waiting" => /\ gc.recorded <= Len(log)
                          /\ gc.recorded = Len(log) => WorkerIdle
  /\ Collecting => WorkerIdle /\ current = 0 /\ writer = "none"
  /\ gc.at = "checking" => gc.recorded = Len(log)
  /\ gc.at \in {"deleting", "unlinking"} =>
       \A i \in 1..Len(captured) : i \in delivered
  /\ gc.at = "unlinking" => storage = Absent
UnheldInv == Unheld /\ Sharing /\ Keeping /\ Quiet
UncollectedInv == Uncollected /\ Keeping
-----------------------------------------------------------------------------
Bounded == {"captures", "retirements", "collections", "refusals", "faults", "deadlines"}

\* Use takes one of what a plan allows of an operation and leaves the rest.
LEMMA UseStep ==
  ASSUME left \in Left, NEW n \in Bounded, Use(n)
  PROVE  /\ left' \in Left /\ left'.linked = left.linked
         /\ left'.retirements <= left.retirements
         /\ left'.collections <= left.collections
         /\ left'.refusals <= left.refusals
         /\ n # "retirements" => left'.retirements = left.retirements
         /\ n = "retirements" => /\ left.retirements > 0
                                 /\ left'.retirements = left.retirements - 1
         /\ n = "refusals" => left.refusals > 0
         /\ n = "collections" => left.collections > 0
BY DEF Use, Left, Bounded

\* No step gives back what a plan allowed, and only Retire takes a retirement.
LEMMA LeftStep ==
  ASSUME left \in Left, [Next]_vars
  PROVE  /\ left' \in Left /\ left'.linked = left.linked
         /\ left'.retirements <= left.retirements
         /\ left'.collections <= left.collections
         /\ left'.refusals <= left.refusals
         /\ left'.retirements # left.retirements => \E r \in Routes : Retire(r)
<1>1. \/ UNCHANGED left \/ Use("captures") \/ Use("collections") \/ Use("refusals")
      \/ Use("faults") \/ Use("deadlines")
      \/ Use("retirements") /\ \E r \in Routes : Retire(r)
  BY Zenon DEF Next, vars, disk, maps, tasks, history, Ask, Lock, Capture, Dispatch, Take,
         Reconcile, Refuse, Enqueue, Observe, Subscribe, Advance, Translate, Deliver,
         Retiring, Retire, Barrier, Shutdown, Control, Drained, Deadline, Stop, Finish,
         Clean, Collect, StartCollecting, Age, Scan, Check, CheckWork, DeleteStorage,
         DeleteJournal, KeepJournal, Crash
<1>2. \A n \in Bounded : Use(n) =>
        /\ left' \in Left /\ left'.linked = left.linked
        /\ left'.retirements <= left.retirements
        /\ left'.collections <= left.collections
        /\ left'.refusals <= left.refusals
        /\ n # "retirements" => left'.retirements = left.retirements
  BY UseStep
<1>3. left.retirements \in Nat /\ left.collections \in Nat /\ left.refusals \in Nat
  BY DEF Left
<1> QED BY <1>1, <1>2, <1>3 DEF Bounded
-----------------------------------------------------------------------------
\* A set of natural numbers that is not empty has a least element.
LEMMA Least ==
  ASSUME NEW S, S \subseteq Nat, S # {}
  PROVE  \E n \in S : \A m \in S : n <= m
<1> DEFINE T == {0..n : n \in S}
           R == StrictSubsetOrdering(Nat)
           F == FiniteSubsetsOf(Nat)
<1>1. T \subseteq F /\ T # {}
  <2>1. ASSUME NEW n \in S PROVE IsFiniteSet(0..n) /\ 0..n \subseteq Nat
    BY FS_Interval
  <2> QED BY <2>1, Zenon DEF FiniteSubsetsOf
<1>2. \E x \in T : \A y \in T : ~ (<<y, x>> \in R)
  <2>1. IsWellFoundedOn(R, F)
    BY FS_StrictSubsetOrderingWellFounded
  <2> HIDE DEF R, F, T
  <2> QED BY <1>1, <2>1, WFMin
<1>3. PICK n \in S : \A m \in S : <<0..m, 0..n>> \notin R
  BY <1>2, Zenon
<1>4. ASSUME NEW m \in S, m < n PROVE FALSE
  <2>1. 0..m \subseteq 0..n /\ n \in 0..n /\ n \notin 0..m
    BY <1>4
  <2>2. <<0..m, 0..n>> \in R
    BY <2>1 DEF StrictSubsetOrdering
  <2> QED BY <2>2, <1>3
<1> QED BY <1>3, <1>4

\* The floor of prune is the lowest registered head, and 0 without one.
LEMMA FloorIsLeast ==
  ASSUME storage \in Storage, \A r \in Routes : storage.heads[r] >= Unregistered
  PROVE  /\ Floor \in Nat
         /\ \A r \in Registered : Floor <= storage.heads[r]
         /\ Registered # {} => \E r \in Registered : Floor = storage.heads[r]
<1> DEFINE S == {storage.heads[r] : r \in Registered}
<1>1. S \subseteq Nat
  BY DEF Registered, Storage, Unregistered
<1>2. CASE Registered = {}
  BY <1>2 DEF Floor
<1>3. CASE Registered # {}
  <2>1. \E n \in S : \A m \in S : n <= m
    BY <1>1, <1>3, Least, Zenon
  <2>2. \E n \in S : \A r \in Registered : n <= storage.heads[r]
    BY <2>1
  <2>3. Floor \in S /\ \A r \in Registered : Floor <= storage.heads[r]
    BY <2>2, <1>3 DEF Floor
  <2> QED BY <2>3, <1>1
<1> QED BY <1>2, <1>3

\* Registering a route changes the head of a new route only, which starts at
\* the lowest head.
LEMMA Registering ==
  ASSUME storage \in Storage, \A q \in Routes : storage.heads[q] >= Unregistered,
         NEW r \in Routes
  PROVE  LET h == Register(storage.heads, r) IN
         /\ h \in [Routes -> Int]
         /\ \A q \in Routes : h[q] >= Unregistered
         /\ \A q \in Routes : q # r \/ r \in Registered => h[q] = storage.heads[q]
         /\ h[r] >= 0
         /\ r \notin Registered => \A q \in Registered : h[r] <= storage.heads[q]
         /\ (\A q \in Routes : storage.heads[q] <= Committed)
               => \A q \in Routes : h[q] <= Committed
<1>1. /\ Floor \in Nat
      /\ \A q \in Registered : Floor <= storage.heads[q]
      /\ Registered # {} => \E q \in Registered : Floor = storage.heads[q]
  BY FloorIsLeast
<1>2. /\ storage.heads \in [Routes -> Int] /\ Committed \in Nat
  BY DEF Storage, Committed
<1>3. Registered = {} => Floor = 0
  BY DEF Floor
<1>4. (\A q \in Routes : storage.heads[q] <= Committed) => Floor <= Committed
  BY <1>1, <1>2, <1>3 DEF Registered
<1> DEFINE h == Register(storage.heads, r)
<1>5. h = [storage.heads EXCEPT ![r] =
             IF storage.heads[r] = Unregistered THEN Floor ELSE storage.heads[r]]
  BY DEF Register
<1>6. /\ h \in [Routes -> Int]
      /\ \A q \in Routes : q # r => h[q] = storage.heads[q]
      /\ h[r] = IF storage.heads[r] = Unregistered THEN Floor ELSE storage.heads[r]
  BY <1>1, <1>2, <1>5
<1>7. r \in Registered <=> storage.heads[r] # Unregistered
  BY DEF Registered
<1> HIDE DEF h
<1>8. h[r] >= 0
  BY <1>1, <1>2, <1>6 DEF Unregistered
<1>9. \A q \in Routes : h[q] >= Unregistered
  BY <1>6, <1>8, <1>2 DEF Unregistered
<1>10. (\A q \in Routes : storage.heads[q] <= Committed)
               => \A q \in Routes : h[q] <= Committed
  BY <1>6, <1>4, <1>2
<1>11. r \notin Registered => \A q \in Registered : h[r] <= storage.heads[q]
  BY <1>6, <1>7, <1>1
<1>12. \A q \in Routes : q # r \/ r \in Registered => h[q] = storage.heads[q]
  BY <1>6, <1>7
<1>13. /\ h \in [Routes -> Int]
       /\ \A q \in Routes : h[q] >= Unregistered
       /\ \A q \in Routes : q # r \/ r \in Registered => h[q] = storage.heads[q]
       /\ h[r] >= 0
       /\ r \notin Registered => \A q \in Registered : h[r] <= storage.heads[q]
       /\ (\A q \in Routes : storage.heads[q] <= Committed)
               => \A q \in Routes : h[q] <= Committed
  BY <1>6, <1>8, <1>9, <1>10, <1>11, <1>12
<1> QED BY <1>13 DEF h

\* translation_for returns the producer in the map or appends a fresh one.
LEMMA ProducersMade ==
  ASSUME MapsOK, Committed \in Nat
  PROVE  /\ Producers \in Seq(Producer)
         /\ Len(made) <= Len(Producers)
         /\ Opened \in 1..Len(Producers)
         /\ \A p \in 1..Len(made) : Producers[p] = made[p]
         /\ current # 0 => Opened = current /\ Producers = made
         /\ current = 0 =>
              /\ Opened = Len(made) + 1 /\ Len(Producers) = Len(made) + 1
              /\ Producers[Opened] = [on |-> TRUE, active |-> 0, draining |-> 0,
                                      target |-> Committed]
<1>1. made \in Seq(Producer) /\ current \in 0..Len(made) /\ Len(made) \in Nat
  BY DEF MapsOK
<1>2. CASE current # 0
  BY <1>1, <1>2 DEF Producers, Opened
<1>3. CASE current = 0
  <2> DEFINE x == [on |-> TRUE, active |-> 0, draining |-> 0, target |-> Committed]
  <2>1. x \in Producer
    BY DEF Producer
  <2>2. Producers = Append(made, x) /\ Opened = Len(made) + 1
    BY <1>3 DEF Producers, Opened
  <2> HIDE DEF x
  <2>3. /\ Producers \in Seq(Producer) /\ Len(Producers) = Len(made) + 1
        /\ \A p \in 1..Len(made) : Producers[p] = made[p]
        /\ Producers[Len(made) + 1] = x
    BY <2>1, <2>2, <1>1
  <2> QED BY <2>2, <2>3, <1>1, <1>3 DEF x
<1> QED BY <1>2, <1>3

\* A new target changes no other field of a producer, and no other producer.
LEMMA Advancing ==
  ASSUME NEW ps \in Seq(Producer), NEW p \in 1..Len(ps), NEW n \in Nat
  PROVE  /\ Advanced(ps, p, n) \in Seq(Producer)
         /\ Len(Advanced(ps, p, n)) = Len(ps)
         /\ \A q \in 1..Len(ps) : /\ Advanced(ps, p, n)[q].on = ps[q].on
                                  /\ Advanced(ps, p, n)[q].active = ps[q].active
                                  /\ Advanced(ps, p, n)[q].draining = ps[q].draining
<1>1. \A q \in 1..Len(ps) : ps[q] \in Producer
  OBVIOUS
<1> DEFINE t == IF ps[p].on THEN Later(ps[p].target, n) ELSE ps[p].target
           x == [ps[p] EXCEPT !.target = t]
<1>2. t \in Nat
  BY <1>1, Zenon DEF Producer, Later
<1>3. x \in Producer /\ x.on = ps[p].on /\ x.active = ps[p].active
      /\ x.draining = ps[p].draining
  BY <1>1, <1>2, Zenon DEF Producer
<1>4. Advanced(ps, p, n) = [ps EXCEPT ![p] = x]
  BY DEF Advanced
<1> HIDE DEF x
<1> QED BY <1>3, <1>4, <1>1

\* What the state of a dispatcher holds at each point of dispatch.
LEMMA BusyFields ==
  ASSUME TasksOK, NEW p \in Dispatchers
  PROVE  /\ busy[p].at \in {"accept", "subscribe"} =>
              busy[p].event \in Event /\ busy[p].lock \in Nat
         /\ busy[p].at = "subscribe" => busy[p].producer \in Nat
         /\ busy[p].at = "advance" => busy[p].event \in Event
         /\ busy[p].at \in {"idle", "accept", "subscribe", "advance"}
         /\ busy[p].at = "idle" <=> busy[p] = Idle
BY DEF TasksOK, BusyStates, Idle

\* What the state of a retirement holds at each of its points.
LEMMA RetiringFields ==
  ASSUME TasksOK
  PROVE  /\ retiring.at \in {"idle", "barrier", "waiting", "control", "drain", "stop",
                             "finish", "clean"}
         /\ retiring.at = "idle" <=> retiring = Idle
         /\ retiring.at \notin {"idle", "clean"} => retiring.route \in Routes
         /\ retiring.at \notin {"idle", "barrier"} => retiring.lock \in Nat
         /\ retiring.at = "clean" => retiring.capture \in Nat
         /\ retiring.at \in {"control", "drain", "stop", "finish"} =>
              retiring.producer \in Nat
BY DEF TasksOK, RetiringStates, Idle

\* The delivering route of an event is a route.
LEMMA EventRoute ==
  ASSUME left \in Left, NEW e \in Event
  PROVE  /\ e.route \in Routes /\ e.before \in Nat /\ e.through \in Nat
         /\ left.linked[e.route] \in Routes
BY DEF Left, Event
-----------------------------------------------------------------------------
\* Handing an event over or holding it frees the dispatcher and no other.
LEMMA HandOver ==
  ASSUME DataOK, TasksOK, Refs, NEW p \in Dispatchers, busy[p].at \in {"accept", "subscribe"},
         HandedOver(p, busy[p].event) \/ Held(p, busy[p].event)
  PROVE  /\ pending' \in [Routes -> Seq(Event)]
         /\ busy' \in [Dispatchers -> BusyStates]
         /\ \A q \in Dispatchers : q # p => busy'[q] = busy[q]
         /\ busy'[p].at \in {"idle", "advance"}
         /\ p = "reconciler" => busy'[p] = Idle
<1> DEFINE e == busy[p].event
<1>1. e \in Event /\ e.route \in Routes
  BY BusyFields DEF Event
<1>2. [at |-> "advance", event |-> e] \in BusyStates /\ Idle \in BusyStates
  BY <1>1 DEF BusyStates
<1>3. busy' = [busy EXCEPT ![p] = IF p = "worker" THEN [at |-> "advance", event |-> e]
                                  ELSE Idle]
  BY DEF HandedOver, Held
<1>4. pending \in [Routes -> Seq(Event)] /\ busy \in [Dispatchers -> BusyStates]
  BY DEF DataOK, TasksOK
<1>5. \/ pending' = pending
      \/ /\ p = "reconciler"
         /\ pending' = [pending EXCEPT ![e.route] = Tail(pending[e.route])]
      \/ pending' = [pending EXCEPT ![e.route] = Append(pending[e.route], e)]
  BY DEF HandedOver, Held, Dispatchers
<1> HIDE DEF e
<1>6. busy' \in [Dispatchers -> BusyStates]
  BY <1>2, <1>3, <1>4
<1>7. /\ \A q \in Dispatchers : q # p => busy'[q] = busy[q]
      /\ busy'[p].at \in {"idle", "advance"}
      /\ p = "reconciler" => busy'[p] = Idle
  BY <1>3, <1>4 DEF Idle
<1>8. Append(pending[e.route], e) \in Seq(Event)
  BY <1>1, <1>4
<1>9. CASE pending' = [pending EXCEPT ![e.route] = Append(pending[e.route], e)]
  BY <1>1, <1>4, <1>6, <1>7, <1>8, <1>9
<1>10. CASE pending' = pending
  BY <1>4, <1>6, <1>7, <1>10
<1>11. CASE pending' = [pending EXCEPT ![e.route] = Tail(pending[e.route])]
  <2>1. CASE pending[e.route] # <<>>
    <3>1. Tail(pending[e.route]) \in Seq(Event)
      BY <1>1, <1>4, <2>1
    <3> QED BY <1>1, <1>4, <1>6, <1>7, <3>1, <1>11
  <2>2. CASE p = "worker"
    BY <1>5, <1>9, <1>10, <2>2
  <2>3. p = "reconciler" => pending[e.route] # <<>>
    BY DEF Refs, Dispatching, e
  <2> QED BY <2>1, <2>2, <2>3 DEF Dispatchers
<1> QED BY <1>5, <1>9, <1>10, <1>11

\* Every step keeps the types of the held events and of the dispatchers.
LEMMA PendingStep ==
  ASSUME TypeOK, Refs, [Next]_vars
  PROVE  /\ pending' \in [Routes -> Seq(Event)]
         /\ busy' \in [Dispatchers -> BusyStates]
<1>1. /\ pending \in [Routes -> Seq(Event)] /\ queue \in Seq(Event)
      /\ busy \in [Dispatchers -> BusyStates] /\ dispatchLock \in Nat
      /\ Idle \in BusyStates
  BY DEF TypeOK, DataOK, TasksOK, MapsOK, BusyStates
<1>2. CASE Take
  <2> DEFINE e == Head(queue)
  <2>0. queue # <<>>
    BY <1>2 DEF Take
  <2>4. e \in Event
    BY <1>1, <2>0
  <2>1. e \in Event /\ e.route \in Routes
    BY <2>4 DEF Event
  <2>2. CASE UNCHANGED pending /\ busy' = [busy EXCEPT !["worker"] =
                             [at |-> "accept", event |-> e, lock |-> dispatchLock]]
    <3>1. [at |-> "accept", event |-> e, lock |-> dispatchLock] \in BusyStates
      BY <1>1, <2>1 DEF BusyStates
    <3> QED BY <3>1, <2>2, <1>1, Zenon
  <2>3. CASE /\ pending' = [pending EXCEPT ![e.route] = Append(pending[e.route], e)]
             /\ busy' = [busy EXCEPT !["worker"] = [at |-> "advance", event |-> e]]
    <3>1. [at |-> "advance", event |-> e] \in BusyStates
      BY <1>1, <2>1 DEF BusyStates
    <3>2. Append(pending[e.route], e) \in Seq(Event)
      BY <1>1, <2>1
    <3> HIDE DEF e
    <3> QED BY <3>1, <3>2, <2>3, <1>1, <2>1, Zenon
  <2> QED BY <2>2, <2>3, <1>2 DEF Take
<1>3. ASSUME NEW r \in Routes, Reconcile(r)
      PROVE  /\ pending' \in [Routes -> Seq(Event)]
             /\ busy' \in [Dispatchers -> BusyStates]
  <2>1. Head(pending[r]) \in Event
    BY <1>1, <1>3 DEF Reconcile
  <2>2. [at |-> "accept", event |-> Head(pending[r]), lock |-> dispatchLock] \in BusyStates
    BY <1>1, <2>1 DEF BusyStates
  <2> QED BY <1>1, <1>3, <2>2, Zenon DEF Reconcile, disk
<1>4. ASSUME NEW p \in Dispatchers, Refuse(p) \/ Enqueue(p) \/ Subscribe(p)
      PROVE  /\ pending' \in [Routes -> Seq(Event)]
             /\ busy' \in [Dispatchers -> BusyStates]
  <2>1. /\ busy[p].at \in {"accept", "subscribe"}
        /\ HandedOver(p, busy[p].event) \/ Held(p, busy[p].event)
    BY <1>4 DEF Refuse, Enqueue, Subscribe, Accept
  <2> QED BY <2>1, HandOver DEF TypeOK
<1>5. ASSUME NEW p \in Dispatchers, Observe(p)
      PROVE  /\ pending' \in [Routes -> Seq(Event)]
             /\ busy' \in [Dispatchers -> BusyStates]
  <2>1. busy[p].at = "accept"
    BY <1>5 DEF Observe, Accept
  <2>2. CASE Held(p, busy[p].event)
    BY <2>1, <2>2, HandOver DEF TypeOK
  <2>3. CASE /\ busy' = [busy EXCEPT ![p] = [at |-> "subscribe", event |-> busy[p].event,
                                            lock |-> busy[p].lock, producer |-> Opened]]
             /\ UNCHANGED pending
    <3>1. Opened \in Nat
      BY ProducersMade DEF TypeOK, DataOK, MapsOK, Opened
    <3>2. busy[p].event \in Event /\ busy[p].lock \in Nat
      BY <2>1, BusyFields DEF TypeOK
    <3>3. [at |-> "subscribe", event |-> busy[p].event,
           lock |-> busy[p].lock, producer |-> Opened] \in BusyStates
      BY <3>1, <3>2 DEF BusyStates
    <3> QED BY <2>3, <3>3, <1>1
  <2> QED BY <1>5, <2>2, <2>3 DEF Observe
<1>6. CASE Advance
  BY <1>1, <1>6, Zenon DEF Advance
<1>7. CASE Crash
  BY <1>1, <1>7 DEF Crash, disk
<1>8. CASE UNCHANGED <<pending, busy>>
  BY <1>8, <1>1
<1>9. CASE ~(Dispatch \/ Crash)
  BY <1>8, <1>9, Zenon DEF Next, vars, disk, maps, tasks, history, Ask, Lock, Capture,
         Translate, Deliver,
         Retiring, Retire, Barrier, Shutdown, Control, Drained, Deadline, Stop, Finish,
         Clean, Collect, StartCollecting, Age, Scan, Check, CheckWork, DeleteStorage,
         DeleteJournal, KeepJournal
<1> QED BY <1>2, <1>3, <1>4, <1>5, <1>6, <1>7, <1>9 DEF Dispatch
-----------------------------------------------------------------------------
\* Types and references, which the step lemmas assume.
Referable == TypeOK /\ Refs

\* The lengths of the sequences are natural numbers.
LEMMA LengthsAreNat ==
  ASSUME TypeOK
  PROVE  /\ Committed \in Nat /\ Len(log) \in Nat /\ Len(captured) \in Nat
         /\ Len(made) \in Nat
BY DEF TypeOK, DataOK, MapsOK, Storage, Committed

\* What the steps that open a producer do to the maps.
LEMMA OpenStep ==
  ASSUME TypeOK, TranslationFor, NEW n \in Nat, NEW p \in 1..Len(Producers),
         made' = Advanced(Producers, p, n)
  PROVE  /\ made' \in Seq(Producer) /\ Len(made') = Len(Producers)
         /\ Len(made) <= Len(made')
         /\ current' \in 1..Len(made')
         /\ storage' \in Storage /\ storage'.rows = storage.rows
         /\ storage'.heads = storage.heads
         /\ writer' \in {"none", "open", "stale"}
<1>1. /\ Producers \in Seq(Producer) /\ Len(made) <= Len(Producers)
      /\ Opened \in 1..Len(Producers)
  BY ProducersMade, LengthsAreNat DEF TypeOK
<1>2. /\ made' \in Seq(Producer) /\ Len(made') = Len(Producers)
  BY <1>1, Advancing
<1>3. current' = Opened
  BY DEF TranslationFor
<1>4. writer' \in {"none", "open", "stale"}
  BY DEF TypeOK, DataOK, TranslationFor
<1>5. storage \in Storage /\ storage' = [storage EXCEPT !.exists = TRUE]
  BY DEF TypeOK, DataOK, TranslationFor
<1>6. /\ storage' \in Storage /\ storage'.rows = storage.rows
      /\ storage'.heads = storage.heads
  BY <1>5, Zenon DEF Storage
<1> QED BY <1>1, <1>2, <1>3, <1>4, <1>6

\* Observe counts one more user at the producer it opens.
LEMMA ObserveMade ==
  ASSUME Referable, NEW p \in Dispatchers, Observe(p)
  PROVE  /\ made' \in Seq(Producer) /\ Len(made') = Len(Producers)
         /\ Len(made) <= Len(made')
         /\ \A q \in 1..Len(Producers) :
              /\ made'[q].on = Producers[q].on
              /\ made'[q].draining = Producers[q].draining
              /\ made'[q].active = IF q = Opened /\ Producers[Opened].on
                                   THEN Producers[q].active + 1
                                   ELSE Producers[q].active
<1>1. /\ Producers \in Seq(Producer) /\ Len(made) <= Len(Producers)
      /\ Opened \in 1..Len(Producers)
  BY ProducersMade, LengthsAreNat DEF Referable, TypeOK
<1>2. busy[p].event.before \in Nat
  BY BusyFields DEF Observe, Accept, Referable, TypeOK, Event
<1> DEFINE a == Advanced(Producers, Opened, busy[p].event.before)
<1>3. /\ a \in Seq(Producer) /\ Len(a) = Len(Producers)
      /\ \A q \in 1..Len(Producers) : /\ a[q].on = Producers[q].on
                                      /\ a[q].active = Producers[q].active
                                      /\ a[q].draining = Producers[q].draining
  BY <1>1, <1>2, Advancing
<1>4. CASE ~Producers[Opened].on
  BY <1>1, <1>4 DEF Observe
<1>5. CASE Producers[Opened].on
  <2>1. made' = [a EXCEPT ![Opened].active = a[Opened].active + 1]
    BY <1>5 DEF Observe
  <2> HIDE DEF a
  <2> DEFINE x == [a[Opened] EXCEPT !.active = a[Opened].active + 1]
  <2>2. a[Opened] \in Producer
    BY <1>1, <1>3
  <2>3. /\ x \in Producer /\ x.on = a[Opened].on /\ x.draining = a[Opened].draining
        /\ x.active = a[Opened].active + 1
    BY <2>2 DEF Producer
  <2>4. made' = [a EXCEPT ![Opened] = x]
    BY <2>1
  <2> HIDE DEF x
  <2>5. /\ made' \in Seq(Producer) /\ Len(made') = Len(Producers)
        /\ \A q \in 1..Len(Producers) : q # Opened => made'[q] = a[q]
        /\ made'[Opened] = x
    BY <2>3, <2>4, <1>3, <1>1
  <2> QED BY <2>3, <2>5, <1>1, <1>3, <1>5
<1> QED BY <1>4, <1>5

\* Every step keeps the types of the maps and of the storage; only a restart
\* forgets producers.
LEMMA MapsStep ==
  ASSUME Referable, [Next]_vars
  PROVE  /\ MapsOK' /\ storage' \in Storage /\ writer' \in {"none", "open", "stale"}
         /\ \A r \in Routes : storage'.heads[r] >= Unregistered
         /\ Len(made) <= Len(made') \/ Crash
<1> USE DEF Referable
<1>1. /\ made \in Seq(Producer) /\ current \in 0..Len(made)
      /\ sessions \in [Routes -> 0..Len(made)]
      /\ captureLock \in Nat /\ dispatchLock \in Nat
      /\ storage \in Storage /\ writer \in {"none", "open", "stale"}
      /\ log \in Seq(Nat) /\ captured \in Seq(Routes) /\ left \in Left
      /\ \A r \in Routes : storage.heads[r] >= Unregistered
      /\ Committed \in Nat /\ Len(log) \in Nat /\ Len(captured) \in Nat
      /\ Len(made) \in Nat
  BY LengthsAreNat DEF TypeOK, DataOK, MapsOK, Refs
<1> DEFINE G == /\ MapsOK' /\ storage' \in Storage /\ writer' \in {"none", "open", "stale"}
                /\ \A r \in Routes : storage'.heads[r] >= Unregistered
                /\ Len(made) <= Len(made') \/ Crash
           M == /\ made' \in Seq(Producer) /\ Len(made) <= Len(made')
                /\ current' \in 0..Len(made')
                /\ sessions' \in [Routes -> 0..Len(made')]
           S == /\ storage' \in Storage
                /\ \A r \in Routes : storage'.heads[r] >= Unregistered
<1>2. ASSUME M, S, UNCHANGED <<captureLock, dispatchLock>>,
             writer' \in {"none", "open", "stale"}
      PROVE G
  BY <1>2, <1>1 DEF MapsOK
<1>3. UNCHANGED <<made, current, sessions>> => M
  BY <1>1
<1>4. UNCHANGED storage => S
  BY <1>1
<1> HIDE DEF M, S, G
<1>5. ASSUME UNCHANGED <<disk, maps>> \/ UNCHANGED <<storage, maps>> PROVE G
  BY <1>2, <1>3, <1>4, <1>5, <1>1 DEF disk, maps
<1>6. ASSUME NEW h \in Hooks, NEW r \in Routes, Capture(h, r) PROVE G
  BY <1>6, <1>2, <1>3, <1>4, <1>1 DEF Capture
<1>7. ASSUME NEW p \in Dispatchers, Enqueue(p) PROVE G
  <2>1. busy[p].event \in Event /\ busy[p].event.route \in Routes
        /\ busy[p].event.through \in Nat /\ left.linked[busy[p].event.route] \in Routes
    BY <1>1, <1>7, BusyFields, EventRoute DEF Enqueue, Accept, TypeOK
  <2> DEFINE s == sessions[left.linked[busy[p].event.route]]
  <2>2. s \in 1..Len(made)
    BY <2>1, <1>1, <1>7 DEF Enqueue
  <2>3. made' = Advanced(made, s, busy[p].event.through)
    BY <1>7 DEF Enqueue
  <2> HIDE DEF s
  <2>4. made' \in Seq(Producer) /\ Len(made') = Len(made)
    BY <2>1, <2>2, <2>3, <1>1, Advancing, Zenon
  <2>5. UNCHANGED <<storage, writer, current, sessions, captureLock, dispatchLock>>
    BY <1>7 DEF Enqueue
  <2>6. M
    BY <2>4, <2>5, <1>1 DEF M
  <2> QED BY <2>5, <2>6, <1>2, <1>4, <1>1
<1>8. ASSUME NEW p \in Dispatchers, Observe(p) PROVE G
  <2>1. /\ made' \in Seq(Producer) /\ Len(made') = Len(Producers)
        /\ Len(made) <= Len(made')
    BY <1>8, ObserveMade
  <2>2. Opened \in 1..Len(Producers)
    BY ProducersMade, LengthsAreNat DEF TypeOK
  <2>3. /\ current' = Opened /\ UNCHANGED <<sessions, captureLock, dispatchLock>>
        /\ writer' \in {"none", "open", "stale"}
        /\ storage' = [storage EXCEPT !.exists = TRUE]
    BY <1>8, <1>1 DEF Observe, TranslationFor
  <2>4. M
    BY <2>1, <2>2, <2>3, <1>1 DEF M
  <2>5. S
    BY <2>3, <1>1, Zenon DEF S, Storage
  <2> QED BY <2>3, <2>4, <2>5, <1>2
<1>9. ASSUME NEW p \in Dispatchers, Subscribe(p) PROVE G
  <2>1. /\ busy[p].event.through \in Nat /\ left.linked[busy[p].event.route] \in Routes
    BY <1>1, <1>9, BusyFields, EventRoute, Zenon DEF Subscribe, TypeOK
  <2> DEFINE r == left.linked[busy[p].event.route]
             s == IF sessions[r] # 0 THEN sessions[r] ELSE busy[p].producer
  <2>2. s \in 1..Len(made)
    <3>1. busy[p].producer \in 1..Len(made)
      BY <1>9 DEF Subscribe, Refs
    <3>2. sessions[r] \in 0..Len(made)
      BY <2>1, <1>1
    <3> QED BY <3>1, <3>2
  <2>3. /\ made' = Advanced(made, s, busy[p].event.through)
        /\ sessions' = [sessions EXCEPT ![r] = s]
        /\ storage' = [storage EXCEPT !.heads = Register(storage.heads, r)]
        /\ UNCHANGED <<writer, current, captureLock, dispatchLock>>
    BY <1>9 DEF Subscribe
  <2>4. r \in Routes
    BY <2>1
  <2> HIDE DEF s, r
  <2>5. made' \in Seq(Producer) /\ Len(made') = Len(made)
    BY <2>1, <2>2, <2>3, <1>1, Advancing, Zenon
  <2>6. M
    BY <2>2, <2>3, <2>4, <2>5, <1>1 DEF M
  <2>7. /\ Register(storage.heads, r) \in [Routes -> Int]
        /\ \A q \in Routes : Register(storage.heads, r)[q] >= Unregistered
    BY <2>4, <1>1, Registering
  <2>8. S
    BY <2>3, <2>7, <1>1, Zenon DEF S, Storage
  <2> QED BY <2>3, <2>6, <2>8, <1>2, <1>1
<1>10. ASSUME Advance PROVE G
  <2>1. busy["worker"].event.through \in Nat
    BY <1>10, <1>1, BusyFields, EventRoute DEF Advance, TypeOK, Dispatchers
  <2>2. Opened \in 1..Len(Producers)
    BY ProducersMade, LengthsAreNat DEF TypeOK
  <2>3. /\ TranslationFor /\ UNCHANGED <<sessions, captureLock, dispatchLock>>
        /\ made' = Advanced(Producers, Opened, busy["worker"].event.through)
    BY <1>10 DEF Advance
  <2>4. /\ made' \in Seq(Producer) /\ Len(made) <= Len(made')
        /\ current' \in 1..Len(made')
        /\ storage' \in Storage /\ storage'.heads = storage.heads
        /\ writer' \in {"none", "open", "stale"}
    BY <2>1, <2>2, <2>3, OpenStep
  <2>5. M
    BY <2>3, <2>4, <1>1 DEF M
  <2>6. S
    BY <2>4, <1>1 DEF S
  <2> QED BY <2>3, <2>4, <2>5, <2>6, <1>2
<1>11. ASSUME NEW p \in DOMAIN made, Translate(p) PROVE G
  <2>1. /\ Committed < Len(log) /\ UNCHANGED maps
    BY <1>11 DEF Translate
  <2> DEFINE x == log[Committed + 1]
  <2>2. x \in Nat /\ x <= Len(captured)
    BY <2>1, <1>1 DEF Refs
  <2>6. Append(storage.rows, x) \in Seq(Nat) /\ storage.heads \in [Routes -> Int]
        /\ DOMAIN storage = {"exists", "rows", "heads"} /\ storage.exists \in BOOLEAN
    BY <2>2, <1>1 DEF Storage
  <2> DEFINE hs == IF x = Retirement THEN storage.heads
                   ELSE Register(storage.heads, captured[x])
  <2>3. storage' = [storage EXCEPT !.rows = Append(storage.rows, x), !.heads = hs]
    BY <1>11 DEF Translate
  <2>4. CASE x = Retirement
    <3>1. hs = storage.heads
      BY <2>4
    <3> HIDE DEF hs, x
    <3>2. S
      BY <3>1, <2>6, <2>3, <1>1, Zenon DEF S, Storage
    <3> QED BY <3>2, <2>1, <1>2, <1>3, <1>1 DEF maps
  <2>5. CASE x # Retirement
    <3>1. captured[x] \in Routes
      BY <2>2, <2>5, <1>1 DEF Retirement
    <3>2. /\ hs \in [Routes -> Int] /\ \A q \in Routes : hs[q] >= Unregistered
      BY <3>1, <2>5, <1>1, Registering, Zenon
    <3> HIDE DEF hs, x
    <3>3. S
      BY <3>2, <2>6, <2>3, <1>1, Zenon DEF S, Storage
    <3> QED BY <3>3, <2>1, <1>2, <1>3, <1>1 DEF maps
  <2> QED BY <2>4, <2>5
<1>12. ASSUME NEW r \in Routes, Deliver(r) PROVE G
  <2>1. /\ storage' = [storage EXCEPT !.heads[r] = storage.heads[r] + 1]
        /\ UNCHANGED maps
    BY <1>12 DEF Deliver
  <2>2. storage.heads \in [Routes -> Int]
    BY <1>1 DEF Storage
  <2> DEFINE hs == [storage.heads EXCEPT ![r] = storage.heads[r] + 1]
  <2>3. /\ hs \in [Routes -> Int] /\ \A q \in Routes : hs[q] >= Unregistered
    BY <2>2, <1>1 DEF Unregistered
  <2>4. storage' = [storage EXCEPT !.heads = hs]
    BY <2>1, <1>1 DEF Storage
  <2> HIDE DEF hs
  <2>5. S
    BY <2>3, <2>4, <1>1, Zenon DEF S, Storage
  <2> QED BY <2>1, <2>5, <1>2, <1>3, <1>1 DEF maps
<1>13. ASSUME Shutdown PROVE G
  <2> DEFINE s == sessions[retiring.route]
             x == [made[s] EXCEPT !.active = made[s].active - 1,
                                  !.draining = made[s].draining + 1]
  <2>1. retiring.route \in Routes /\ s # 0
    BY <1>13, RetiringFields DEF Shutdown, TypeOK, Refs
  <2>2. s \in 1..Len(made)
    BY <2>1, <1>1
  <2>3. /\ made' = [made EXCEPT ![s].active = made[s].active - 1,
                               ![s].draining = made[s].draining + 1]
        /\ sessions' = [sessions EXCEPT ![retiring.route] = 0]
        /\ UNCHANGED <<storage, writer, current, captureLock, dispatchLock>>
    BY <1>13 DEF Shutdown, disk
  <2>4. made[s] \in Producer
    BY <2>2, <1>1
  <2> HIDE DEF s
  <2>5. ASSUME NEW m \in Producer
        PROVE  [m EXCEPT !.active = m.active - 1, !.draining = m.draining + 1] \in Producer
    <3>1. m.active - 1 \in Int /\ m.draining + 1 \in Int
      BY DEF Producer
    <3> QED BY <3>1, Zenon DEF Producer
  <2>9. x \in Producer
    BY <2>4, <2>5, Zenon
  <2>6. made' = [made EXCEPT ![s] = x]
    BY <2>3, <2>2, <2>4, <1>1, Zenon DEF Producer
  <2> HIDE DEF x
  <2>7. made' \in Seq(Producer) /\ Len(made') = Len(made)
    BY <2>2, <2>9, <2>6, <1>1
  <2>8. M
    BY <2>1, <2>3, <2>7, <1>1 DEF M
  <2> QED BY <2>3, <2>8, <1>2, <1>4, <1>1
<1>14. ASSUME Control PROVE G
  <2>1. /\ UNCHANGED <<storage, writer, current, sessions, captureLock, dispatchLock>>
        /\ retiring.producer \in 1..Len(made)
        /\ \/ UNCHANGED made
           \/ /\ log' \in Seq(Nat)
              /\ made' = [made EXCEPT ![retiring.producer].target = Len(log')]
    <3>1. Written(Retirement) \in Seq(Nat)
      BY <1>1 DEF Written, Retirement
    <3>2. /\ UNCHANGED <<storage, writer, current, sessions, captureLock, dispatchLock>>
          /\ retiring.at = "control"
          /\ \/ UNCHANGED made
             \/ /\ log' = Written(Retirement)
                /\ made' = [made EXCEPT ![retiring.producer].target = Len(log')]
      BY <1>14 DEF Control
    <3> QED BY <3>1, <3>2 DEF Refs
  <2> DEFINE p == retiring.producer
             x == [made[p] EXCEPT !.target = Len(log')]
  <2>2. ASSUME log' \in Seq(Nat), made' = [made EXCEPT ![p].target = Len(log')]
        PROVE  made' \in Seq(Producer) /\ Len(made') = Len(made)
    <3>1. made[p] \in Producer /\ Len(log') \in Nat
      BY <2>1, <2>2, <1>1
    <3>2. x \in Producer
      BY <3>1 DEF Producer
    <3>3. made' = [made EXCEPT ![p] = x]
      BY <2>2
    <3> HIDE DEF x
    <3> QED BY <3>2, <3>3, <2>1, <1>1
  <2>3. M
    BY <2>1, <2>2, <1>1 DEF M
  <2> QED BY <2>1, <2>3, <1>2, <1>4, <1>1
<1>15. ASSUME Stop PROVE G
  <2> DEFINE p == retiring.producer
             x == [made[p] EXCEPT !.draining = made[p].draining - 1]
  <2>1. /\ UNCHANGED <<storage, writer, current, sessions, captureLock, dispatchLock>>
        /\ p \in 1..Len(made)
        /\ made' = [made EXCEPT ![p].draining = made[p].draining - 1]
    BY <1>15 DEF Stop, Refs, disk
  <2>2. made[p] \in Producer
    BY <2>1, <1>1
  <2>3. x \in Producer /\ made' = [made EXCEPT ![p] = x]
    BY <2>1, <2>2 DEF Producer
  <2> HIDE DEF x
  <2>4. made' \in Seq(Producer) /\ Len(made') = Len(made)
    BY <2>1, <2>3, <1>1
  <2>5. M
    BY <2>1, <2>4, <1>1 DEF M
  <2> QED BY <2>1, <2>5, <1>2, <1>4, <1>1
<1>16. ASSUME Finish PROVE G
  <2> DEFINE p == retiring.producer
             b == ~(made[p].active = 0 /\ made[p].draining = 0)
             x == [made[p] EXCEPT !.on = b]
  <2>1. /\ UNCHANGED <<storage, writer, current, sessions, captureLock, dispatchLock>>
        /\ p \in 1..Len(made)
        /\ made' = [made EXCEPT ![p].on = b]
    BY <1>16 DEF Finish, Refs, disk
  <2>2. made[p] \in Producer
    BY <2>1, <1>1
  <2>6. b \in BOOLEAN
    OBVIOUS
  <2> HIDE DEF b
  <2>3. x \in Producer /\ made' = [made EXCEPT ![p] = x]
    BY <2>1, <2>2, <2>6, Zenon DEF Producer
  <2> HIDE DEF x
  <2>4. made' \in Seq(Producer) /\ Len(made') = Len(made)
    BY <2>1, <2>3, <1>1
  <2>5. M
    BY <2>1, <2>4, <1>1 DEF M
  <2> QED BY <2>1, <2>5, <1>2, <1>4, <1>1
<1>17. ASSUME Clean PROVE G
  <2>1. /\ UNCHANGED <<storage, made, sessions>> /\ writer' = "none"
        /\ current' = 0 /\ captureLock' \in Nat /\ dispatchLock' \in Nat
    BY <1>17, <1>1 DEF Clean, disk
  <2> QED BY <2>1, <1>1 DEF G, MapsOK
<1>18. ASSUME DeleteStorage PROVE G
  <2>1. S
    BY <1>18 DEF DeleteStorage, Absent, Storage, Unregistered, S
  <2>2. UNCHANGED maps
    BY <1>18 DEF DeleteStorage
  <2> QED BY <2>1, <2>2, <1>2, <1>3, <1>1 DEF maps
<1>19. ASSUME DeleteJournal PROVE G
  BY <1>19, <1>1, <1>2, <1>3, <1>4 DEF DeleteJournal
<1>20. ASSUME Crash PROVE G
  <2>1. /\ made' = <<>> /\ current' = 0 /\ sessions' = [r \in Routes |-> 0]
        /\ captureLock' = 1 /\ dispatchLock' = 1 /\ writer' = "none"
        /\ UNCHANGED storage
    BY <1>20 DEF Crash, disk
  <2>2. <<>> \in Seq(Producer) /\ Len(<<>>) = 0
    OBVIOUS
  <2> QED BY <2>1, <2>2, <1>1, <1>20 DEF G, MapsOK
<1>21. \/ UNCHANGED <<disk, maps>> \/ UNCHANGED <<storage, maps>>
       \/ \E h \in Hooks, r \in Routes : Capture(h, r)
       \/ \E p \in Dispatchers : Enqueue(p) \/ Observe(p) \/ Subscribe(p)
       \/ Advance \/ \E p \in DOMAIN made : Translate(p)
       \/ \E r \in Routes : Deliver(r)
       \/ Shutdown \/ Control \/ Stop \/ Finish \/ Clean
       \/ DeleteStorage \/ DeleteJournal \/ Crash
  BY Zenon DEF Next, vars, disk, maps, tasks, history, Ask, Lock, Dispatch, Take,
         Reconcile, Refuse, Retiring, Retire, Barrier, Drained, Deadline,
         Collect, StartCollecting, Age, Scan, Check, CheckWork, KeepJournal
<1>22. G
  BY <1>21, <1>5, <1>6, <1>7, <1>8, <1>9, <1>10, <1>11, <1>12, <1>13, <1>14, <1>15,
     <1>16, <1>17, <1>18, <1>19, <1>20
<1> QED BY <1>22 DEF G
-----------------------------------------------------------------------------
\* Every step keeps the types of the hooks.
LEMMA HooksStep ==
  ASSUME Referable, [Next]_vars
  PROVE  hooks' \in [Hooks -> HookStates]
<1>1. hooks \in [Hooks -> HookStates] /\ captureLock \in Nat
  BY DEF Referable, TypeOK, TasksOK, MapsOK
<1>2. ASSUME NEW h \in Hooks, Ask(h) PROVE hooks' \in [Hooks -> HookStates]
  <2>1. [at |-> "waiting", lock |-> captureLock] \in HookStates
    BY <1>1 DEF HookStates
  <2> QED BY <1>1, <1>2, <2>1 DEF Ask
<1>3. ASSUME NEW h \in Hooks, Lock(h) PROVE hooks' \in [Hooks -> HookStates]
  <2>1. [hooks[h] EXCEPT !.at = "holding"] \in HookStates
    BY <1>1, <1>3 DEF HookStates, Lock, Idle
  <2>2. hooks' = [hooks EXCEPT ![h] = [hooks[h] EXCEPT !.at = "holding"]]
    BY <1>3, <1>1 DEF Lock
  <2> QED BY <1>1, <2>1, <2>2
<1>4. ASSUME NEW h \in Hooks, NEW r \in Routes, Capture(h, r)
      PROVE hooks' \in [Hooks -> HookStates]
  BY <1>1, <1>4 DEF Capture, HookStates
<1>5. CASE Crash
  BY <1>5 DEF Crash, HookStates
<1>6. CASE UNCHANGED hooks
  BY <1>6, <1>1
<1>7. \/ \E h \in Hooks : Ask(h) \/ Lock(h) \/ \E r \in Routes : Capture(h, r)
      \/ Crash \/ UNCHANGED hooks
  BY Zenon DEF Next, vars, tasks, Dispatch, Take,
         Reconcile, Refuse, Enqueue, Observe, Subscribe, Advance, Translate, Deliver,
         Retiring, Retire, Barrier, Shutdown, Control, Drained, Deadline, Stop, Finish,
         Clean, Collect, StartCollecting, Age, Scan, Check, CheckWork, DeleteStorage,
         DeleteJournal, KeepJournal
<1> QED BY <1>2, <1>3, <1>4, <1>5, <1>6, <1>7

\* Every step keeps the type of the retirement.
LEMMA RetiringStep ==
  ASSUME Referable, [Next]_vars
  PROVE  retiring' \in RetiringStates
<1>1. /\ retiring \in RetiringStates /\ captureLock \in Nat /\ dispatchLock \in Nat
      /\ Idle \in RetiringStates
  BY DEF Referable, TypeOK, TasksOK, MapsOK, RetiringStates
<1>2. /\ retiring.at \notin {"idle", "clean"} => retiring.route \in Routes
      /\ retiring.at \notin {"idle", "barrier"} => retiring.lock \in Nat
      /\ retiring.at \in {"control", "drain", "stop", "finish"} =>
              retiring.producer \in Nat
  BY RetiringFields DEF Referable, TypeOK
<1>3. ASSUME NEW r \in Routes, Retire(r) PROVE retiring' \in RetiringStates
  BY <1>3 DEF Retire, RetiringStates
<1>4. CASE Barrier
  BY <1>1, <1>2, <1>4 DEF Barrier, RetiringStates
<1>5. CASE Shutdown
  <2>1. sessions[retiring.route] \in Nat
    BY <1>2, <1>5 DEF Shutdown, Referable, TypeOK, MapsOK
  <2> QED BY <1>2, <1>5, <2>1 DEF Shutdown, RetiringStates
<1>6. ASSUME NEW a \in {"drain", "stop", "finish"},
             retiring.at \in {"control", "drain", "stop"},
             retiring' = [retiring EXCEPT !.at = a]
      PROVE  retiring' \in RetiringStates
  BY <1>1, <1>6 DEF RetiringStates, Idle
<1>7. CASE Control \/ Drained \/ Deadline \/ Stop
  BY <1>6, <1>7 DEF Control, Drained, Deadline, Stop
<1>8. CASE Finish
  BY <1>1, <1>2, <1>8 DEF Finish, RetiringStates
<1>9. CASE Clean \/ Crash
  BY <1>1, <1>9 DEF Clean, Crash
<1>10. \/ \E r \in Routes : Retire(r)
       \/ Barrier \/ Shutdown \/ Control \/ Drained \/ Deadline \/ Stop \/ Finish
       \/ Clean \/ Crash \/ UNCHANGED retiring
  BY Zenon DEF Next, vars, tasks, Ask, Lock, Capture, Dispatch, Take,
         Reconcile, Refuse, Enqueue, Observe, Subscribe, Advance, Translate, Deliver,
         Retiring, Collect, StartCollecting, Age, Scan, Check, CheckWork, DeleteStorage,
         DeleteJournal, KeepJournal
<1> QED BY <1>1, <1>3, <1>4, <1>5, <1>7, <1>8, <1>9, <1>10

\* Every step keeps the type of the retention.
LEMMA GcStep ==
  ASSUME Referable, [Next]_vars
  PROVE  gc' \in GcStates
<1>1. /\ gc \in GcStates /\ captureLock \in Nat /\ Idle \in GcStates
      /\ [at |-> "recovering"] \in GcStates /\ Len(log) \in Nat
  BY LengthsAreNat DEF Referable, TypeOK, TasksOK, MapsOK, GcStates
<1>2. CASE Scan
  <2>1. [at |-> "waiting", lock |-> captureLock,
         recorded |-> Len(log), routes |-> Registered] \in GcStates
    BY <1>1 DEF GcStates, Registered
  <2> QED BY <1>1, <1>2, <2>1 DEF Scan
<1>3. ASSUME NEW a \in {"checking", "deleting", "unlinking"},
             gc.at \in {"waiting", "checking", "deleting"},
             gc' = [gc EXCEPT !.at = a]
      PROVE  gc' \in GcStates
  <2>1. gc \in [at : {"waiting", "checking", "deleting", "unlinking"}, lock : Nat,
               recorded : Nat, routes : SUBSET Routes]
    BY <1>1, <1>3 DEF GcStates, Idle
  <2> QED BY <2>1, <1>3 DEF GcStates
<1>4. CASE Check \/ CheckWork \/ DeleteStorage
  BY <1>1, <1>3, <1>4 DEF Check, CheckWork, DeleteStorage
<1>5. CASE DeleteJournal \/ KeepJournal \/ StartCollecting \/ Crash
  BY <1>1, <1>5 DEF DeleteJournal, KeepJournal, StartCollecting, Crash
<1>6. \/ Scan \/ Check \/ CheckWork \/ DeleteStorage \/ DeleteJournal \/ KeepJournal
      \/ StartCollecting \/ Crash \/ UNCHANGED gc
  BY Zenon DEF Next, vars, tasks, Ask, Lock, Capture, Dispatch, Take,
         Reconcile, Refuse, Enqueue, Observe, Subscribe, Advance, Translate, Deliver,
         Retiring, Retire, Barrier, Shutdown, Control, Drained, Deadline, Stop, Finish,
         Clean, Collect, Age
<1> QED BY <1>1, <1>2, <1>4, <1>5, <1>6

\* Captures and journal records are only appended, except that retention
\* deletes the journal file as a whole.
LEMMA DataStep ==
  ASSUME Referable, [Next]_vars
  PROVE  /\ log' \in Seq(Nat) /\ queue' \in Seq(Event) /\ captured' \in Seq(Routes)
         /\ aged' \in BOOLEAN
         /\ Len(captured) <= Len(captured')
         /\ \A n \in 1..Len(captured) : captured'[n] = captured[n]
         /\ \A n \in 1..Len(log') : log'[n] <= Len(captured')
         /\ \/ Len(log) <= Len(log') /\ (\A n \in 1..Len(log) : log'[n] = log[n])
            \/ DeleteJournal
<1>1. /\ log \in Seq(Nat) /\ queue \in Seq(Event) /\ captured \in Seq(Routes)
      /\ aged \in BOOLEAN /\ Len(log) \in Nat /\ Len(captured) \in Nat
      /\ \A n \in 1..Len(log) : log[n] <= Len(captured)
  BY LengthsAreNat DEF Referable, TypeOK, DataOK, Refs
<1> DEFINE Grows(x) == log' = log \/ log' = Append(log, x)
<1>2. \A x \in Nat : Grows(x) =>
        /\ log' \in Seq(Nat) /\ Len(log) <= Len(log')
        /\ \A n \in 1..Len(log) : log'[n] = log[n]
        /\ \A n \in 1..Len(log') : log'[n] = x \/ (n \in 1..Len(log) /\ log'[n] = log[n])
  <2>1. ASSUME NEW x \in Nat, log' = Append(log, x)
        PROVE  /\ log' \in Seq(Nat) /\ Len(log') = Len(log) + 1
               /\ \A n \in 1..Len(log) : log'[n] = log[n]
               /\ log'[Len(log) + 1] = x
    BY <2>1, <1>1
  <2>2. ASSUME NEW x \in Nat, log' = Append(log, x), NEW n \in 1..Len(log')
        PROVE  log'[n] = x \/ (n \in 1..Len(log) /\ log'[n] = log[n])
    <3>1. n = Len(log) + 1 \/ n \in 1..Len(log)
      BY <2>1, <2>2, <1>1
    <3> QED BY <2>1, <2>2, <3>1
  <2>3. ASSUME log' = log, NEW n \in 1..Len(log')
        PROVE  n \in 1..Len(log) /\ log'[n] = log[n]
    BY <2>3
  <2> QED BY <2>1, <2>2, <2>3, <1>1
<1>3. ASSUME NEW h \in Hooks, NEW r \in Routes, Capture(h, r)
      PROVE  /\ log' \in Seq(Nat) /\ queue' \in Seq(Event) /\ captured' \in Seq(Routes)
             /\ aged' \in BOOLEAN
             /\ Len(captured) <= Len(captured')
             /\ \A n \in 1..Len(captured) : captured'[n] = captured[n]
             /\ \A n \in 1..Len(log') : log'[n] <= Len(captured')
             /\ Len(log) <= Len(log') /\ (\A n \in 1..Len(log) : log'[n] = log[n])
  <2>1. /\ captured' = Append(captured, r) /\ aged' = FALSE
        /\ queue' = Append(queue, [route |-> r, before |-> Len(log),
                                   through |-> Len(log) + 1])
    BY <1>3 DEF Capture
  <2>2. captured' \in Seq(Routes) /\ Len(captured') = Len(captured) + 1
        /\ \A n \in 1..Len(captured) : captured'[n] = captured[n]
    BY <2>1, <1>1
  <2>3. [route |-> r, before |-> Len(log), through |-> Len(log) + 1] \in Event
    BY <1>1 DEF Event
  <2>4. queue' \in Seq(Event)
    BY <2>1, <2>3, <1>1
  <2>5. Grows(Len(captured'))
    BY <1>3 DEF Capture, Written
  <2>6. /\ log' \in Seq(Nat) /\ Len(log) <= Len(log')
        /\ \A n \in 1..Len(log) : log'[n] = log[n]
        /\ \A n \in 1..Len(log') : log'[n] = Len(captured') \/ (n \in 1..Len(log) /\ log'[n] = log[n])
    <3> HIDE DEF Grows
    <3>1. Len(captured') \in Nat
      BY <2>2
    <3> QED BY <2>5, <3>1, <1>2
  <2>7. \A n \in 1..Len(log') : log'[n] <= Len(captured')
    <3> SUFFICES ASSUME NEW n \in 1..Len(log') PROVE log'[n] <= Len(captured')
      OBVIOUS
    <3>1. log'[n] = Len(captured') \/ (n \in 1..Len(log) /\ log'[n] = log[n])
      BY <2>6
    <3>2. ASSUME n \in 1..Len(log), log'[n] = log[n] PROVE log'[n] <= Len(captured')
      <4>1. log[n] <= Len(captured) /\ log[n] \in Nat
        BY <3>2, <1>1
      <4> QED BY <4>1, <3>2, <2>2, <1>1
    <3> QED BY <3>1, <3>2, <2>2, <1>1
  <2>8. aged' \in BOOLEAN /\ Len(captured) <= Len(captured')
    <3>1. Len(captured) <= Len(captured')
      BY <2>2, <1>1
    <3> QED BY <2>1, <3>1, Zenon
  <2> HIDE DEF Grows
  <2> QED BY <2>2, <2>4, <2>6, <2>7, <2>8
<1>4. CASE Control
  <2>1. Grows(Retirement) /\ UNCHANGED <<queue, captured>> /\ aged' \in BOOLEAN
    BY <1>4, <1>1, Zenon DEF Control, Written, history
  <2>2. /\ log' \in Seq(Nat) /\ Len(log) <= Len(log')
        /\ \A n \in 1..Len(log) : log'[n] = log[n]
        /\ \A n \in 1..Len(log') : log'[n] = Retirement \/ (n \in 1..Len(log) /\ log'[n] = log[n])
    <3> HIDE DEF Grows
    <3> QED BY <2>1, <1>2 DEF Retirement
  <2>3. \A n \in 1..Len(log') : log'[n] <= Len(captured')
    BY <2>1, <2>2, <1>1 DEF Retirement
  <2> QED BY <2>1, <2>2, <2>3, <1>1
<1>5. CASE DeleteJournal
  BY <1>5, <1>1 DEF DeleteJournal, history
<1>6. CASE Take
  <2>1. queue' \in Seq(Event) /\ UNCHANGED <<log, captured, aged>>
    BY <1>6, <1>1 DEF Take, history
  <2> QED BY <2>1, <1>1
<1>7. CASE Crash
  <2>1. UNCHANGED <<log, captured, aged>>
    BY <1>7 DEF Crash, disk
  <2> DEFINE N == Cardinality(Undone)
  <2>2. N \in Nat
    <3>1. IsFiniteSet(Undone)
      BY RoutesAssumption, FS_Subset DEF Undone
    <3> QED BY <3>1, FS_CardinalityType
  <2>3. PICK o \in Orders :
          queue' = [k \in 1..N |->
            [route |-> o[k], before |-> Len(log), through |-> Len(log)]]
    BY <1>7 DEF Crash, Candidates
  <2>4. \A k \in 1..N : o[k] \in Routes
    BY <2>3 DEF Orders, Undone
  <2> HIDE DEF N
  <2>5. queue' \in [1..N -> Event]
    BY <2>3, <2>4, <1>1 DEF Event
  <2>6. queue' \in Seq(Event)
    BY <2>5, <2>2
  <2> QED BY <2>1, <2>6, <1>1
<1>8. CASE UNCHANGED <<log, queue, captured>> /\ aged' \in BOOLEAN
  BY <1>8, <1>1
<1>9. \/ \E h \in Hooks, r \in Routes : Capture(h, r)
      \/ Control \/ DeleteJournal \/ Take \/ Crash
      \/ UNCHANGED <<log, queue, captured>> /\ (aged' \in BOOLEAN \/ UNCHANGED aged)
  BY Zenon DEF Next, vars, disk, maps, tasks, history, Ask, Lock, Dispatch,
         Reconcile, Refuse, Enqueue, Observe, Subscribe, Advance, Translate, Deliver,
         Retiring, Retire, Barrier, Shutdown, Drained, Deadline, Stop, Finish,
         Clean, Collect, StartCollecting, Age, Scan, Check, CheckWork, DeleteStorage,
         KeepJournal
<1> QED BY <1>1, <1>3, <1>4, <1>5, <1>6, <1>7, <1>8, <1>9

\* Every step keeps the types.
LEMMA TypeStep ==
  ASSUME Referable, [Next]_vars
  PROVE  TypeOK'
<1>1. log' \in Seq(Nat) /\ queue' \in Seq(Event) /\ captured' \in Seq(Routes)
      /\ aged' \in BOOLEAN
  BY DataStep
<1>2. MapsOK' /\ storage' \in Storage /\ writer' \in {"none", "open", "stale"}
  BY MapsStep
<1>3. pending' \in [Routes -> Seq(Event)] /\ busy' \in [Dispatchers -> BusyStates]
  BY PendingStep DEF Referable
<1>4. hooks' \in [Hooks -> HookStates] /\ retiring' \in RetiringStates /\ gc' \in GcStates
  BY HooksStep, RetiringStep, GcStep
<1>5. left' \in Left
  BY LeftStep DEF Referable, TypeOK, DataOK
<1> QED BY <1>1, <1>2, <1>3, <1>4, <1>5 DEF TypeOK, DataOK, TasksOK
-----------------------------------------------------------------------------
\* A row is about a captured event.
LEMMA RowsStep ==
  ASSUME Referable, [Next]_vars
  PROVE  \A n \in 1..Committed' : storage'.rows[n] <= Len(captured')
<1>1. /\ storage \in Storage /\ log \in Seq(Nat)
      /\ Committed \in Nat /\ Len(log) \in Nat /\ Len(captured) \in Nat
      /\ storage.rows \in Seq(Nat) /\ Committed = Len(storage.rows)
      /\ Committed' = Len(storage'.rows)
  BY LengthsAreNat DEF Referable, TypeOK, DataOK, Storage, Committed
<1>2. /\ \A n \in 1..Len(log) : log[n] <= Len(captured)
      /\ \A n \in 1..Committed : storage.rows[n] <= Len(captured)
  BY DEF Referable, Refs
<1>3. Len(captured) <= Len(captured') /\ Len(captured') \in Nat
  BY DataStep
<1>4. CASE storage'.rows = storage.rows
  <2> SUFFICES ASSUME NEW n \in 1..Committed PROVE storage.rows[n] <= Len(captured')
    BY <1>1, <1>4
  <2>1. storage.rows[n] \in Nat /\ storage.rows[n] <= Len(captured)
    BY <1>1, <1>2
  <2> QED BY <2>1, <1>1, <1>3
<1>5. ASSUME NEW p \in DOMAIN made, Translate(p)
      PROVE  \A n \in 1..Committed' : storage'.rows[n] <= Len(captured')
  <2> DEFINE x == log[Committed + 1]
  <2>1. /\ Committed < Len(log) /\ storage'.rows = Append(storage.rows, x)
        /\ UNCHANGED captured
    BY <1>1, <1>5 DEF Translate, history, Storage
  <2>2. x \in Nat /\ x <= Len(captured)
    BY <2>1, <1>1, <1>2
  <2> HIDE DEF x
  <2>3. Committed' = Committed + 1
    BY <2>1, <2>2, <1>1
  <2> SUFFICES ASSUME NEW n \in 1..Committed'
               PROVE  storage'.rows[n] <= Len(captured)
    BY <2>1, Zenon
  <2>4. CASE n = Committed + 1
    BY <2>1, <2>2, <2>4, <1>1
  <2>5. CASE n \in 1..Committed
    <3>1. storage'.rows[n] = storage.rows[n]
      BY <2>1, <2>2, <2>5, <1>1
    <3> QED BY <3>1, <2>5, <1>2
  <2> QED BY <2>3, <2>4, <2>5, <1>1
<1>6. CASE DeleteStorage
  <2>1. storage'.rows = <<>>
    BY <1>6 DEF DeleteStorage, Absent
  <2> QED BY <2>1, <1>1
<1>7. \/ \E p \in DOMAIN made : Translate(p)
      \/ DeleteStorage \/ UNCHANGED storage
      \/ storage' = [storage EXCEPT !.exists = TRUE]
      \/ \E h : storage' = [storage EXCEPT !.heads = h]
      \/ \E r, n : storage' = [storage EXCEPT !.heads[r] = n]
  BY Zenon DEF Next, vars, disk, Ask, Lock, Capture, Dispatch, Take, TranslationFor,
         Reconcile, Refuse, Enqueue, Observe, Subscribe, Advance, Deliver,
         Retiring, Retire, Barrier, Shutdown, Control, Drained, Deadline, Stop, Finish,
         Clean, Collect, StartCollecting, Age, Scan, Check, CheckWork, DeleteJournal,
         KeepJournal, Crash
<1>8. \/ \E p \in DOMAIN made : Translate(p)
      \/ DeleteStorage \/ storage'.rows = storage.rows
  BY <1>7, <1>1 DEF Storage
<1> QED BY <1>4, <1>5, <1>6, <1>8

\* A dispatcher keeps its event, and the reconciler's event stays the first one.
LEMMA DispatcherStep ==
  ASSUME Referable, [Next]_vars, NEW p \in Dispatchers
  PROVE  /\ busy'[p].at = "subscribe" => busy'[p].producer \in 1..Len(made')
         /\ p = "reconciler" /\ busy'[p].at \in {"accept", "subscribe"} =>
              pending'[busy'[p].event.route] # <<>>
<1> USE DEF Referable, Dispatchers
<1> DEFINE G == /\ busy'[p].at = "subscribe" => busy'[p].producer \in 1..Len(made')
                /\ p = "reconciler" /\ busy'[p].at \in {"accept", "subscribe"} =>
                     pending'[busy'[p].event.route] # <<>>
<1>1. /\ pending \in [Routes -> Seq(Event)] /\ busy \in [Dispatchers -> BusyStates]
      /\ queue \in Seq(Event) /\ Len(made) \in Nat
  BY LengthsAreNat DEF TypeOK, DataOK, TasksOK
<1>2. /\ busy[p].at = "subscribe" => busy[p].producer \in 1..Len(made)
      /\ p = "reconciler" /\ busy[p].at \in {"accept", "subscribe"} =>
              pending[busy[p].event.route] # <<>>
  BY DEF Refs, Dispatching
<1>3. busy[p].at \in {"accept", "subscribe"} => busy[p].event.route \in Routes
  BY BusyFields DEF TypeOK, Event
<1>4. (Len(made) <= Len(made') /\ Len(made') \in Nat) \/ Crash
  BY MapsStep DEF MapsOK
<1>5. CASE Crash
  BY <1>5 DEF Crash, Idle
<1>6. ASSUME busy'[p] = busy[p], ~Crash,
             \/ UNCHANGED pending
             \/ \E r \in Routes, e \in Event :
                  pending' = [pending EXCEPT ![r] = Append(pending[r], e)]
      PROVE  G
  <2>1. p = "reconciler" /\ busy'[p].at \in {"accept", "subscribe"} =>
          pending'[busy[p].event.route] # <<>>
    BY <1>6, <1>1, <1>2, <1>3
  <2> QED BY <2>1, <1>2, <1>4, <1>6
<1>7. ASSUME busy'[p].at \in {"idle", "advance"} PROVE G
  BY <1>7
<1>8. ASSUME Take PROVE G
  <2>0. queue # <<>>
    BY <1>8 DEF Take
  <2> DEFINE e == Head(queue)
  <2>1. e \in Event /\ e.route \in Routes
    <3>1. e \in Event
      BY <2>0, <1>1
    <3> QED BY <3>1 DEF Event
  <2>2. CASE p = "worker"
    <3>1. busy'[p].at \in {"accept", "advance"}
      BY <1>8, <1>1, <2>2 DEF Take
    <3> QED BY <3>1, <2>2
  <2>3. CASE p = "reconciler"
    <3>1. /\ busy'[p] = busy[p]
          /\ \/ UNCHANGED pending
             \/ pending' = [pending EXCEPT ![e.route] = Append(pending[e.route], e)]
      BY <1>8, <1>1, <2>3 DEF Take
    <3>2. ~Crash \/ G
      BY <1>5
    <3> HIDE DEF e, G
    <3> QED BY <3>1, <3>2, <2>1, <1>6
  <2> QED BY <2>2, <2>3
<1>9. ASSUME NEW r \in Routes, Reconcile(r) PROVE G
  <2>1. UNCHANGED pending /\ pending[r] # <<>>
    BY <1>9 DEF Reconcile, disk
  <2>2. CASE p = "reconciler"
    <3>1. busy'[p] = [at |-> "accept", event |-> Head(pending[r]), lock |-> dispatchLock]
      BY <1>9, <1>1, <2>2 DEF Reconcile
    <3>2. Head(pending[r]).route = r
      BY <2>1, <1>1 DEF Refs
    <3> QED BY <2>1, <3>1, <3>2
  <2>3. CASE p = "worker"
    <3>1. busy'[p] = busy[p]
      BY <1>9, <1>1, <2>3 DEF Reconcile
    <3>2. ~Crash \/ G
      BY <1>5
    <3> HIDE DEF G
    <3> QED BY <2>1, <3>1, <3>2, <1>6
  <2> QED BY <2>2, <2>3
<1>10. ASSUME NEW q \in Dispatchers, Refuse(q) \/ Enqueue(q) \/ Subscribe(q) \/ Observe(q)
       PROVE  G
  <2>0. busy[q].at \in {"accept", "subscribe"} /\ busy[q].event \in Event
    <3>1. busy[q].at \in {"accept", "subscribe"}
      BY <1>10 DEF Refuse, Enqueue, Subscribe, Observe, Accept
    <3> QED BY <3>1, BusyFields DEF TypeOK
  <2> DEFINE e == busy[q].event
  <2>1. CASE HandedOver(q, e) \/ Held(q, e)
    <3>1. CASE p = q
      <4>1. busy'[p].at \in {"idle", "advance"}
        BY <2>0, <2>1, <3>1, HandOver DEF TypeOK
      <4> QED BY <4>1, <1>7
    <3>2. CASE p # q
      <4>1. busy'[p] = busy[p]
        BY <2>0, <2>1, <3>2, HandOver DEF TypeOK
      <4>2. \/ UNCHANGED pending
            \/ p = "worker"
            \/ pending' = [pending EXCEPT ![e.route] = Append(pending[e.route], e)]
        BY <2>1, <3>2 DEF HandedOver, Held
      <4>3. e \in Event /\ e.route \in Routes
        BY <2>0 DEF Event
      <4>4. ~Crash \/ G
        BY <1>5
      <4>5. p = "worker" /\ ~Crash => G
        BY <4>1, <1>2, <1>4
      <4> HIDE DEF e, G
      <4> QED BY <4>1, <4>2, <4>3, <4>4, <4>5, <1>6
    <3> QED BY <3>1, <3>2
  <2>2. CASE Observe(q) /\ Producers[Opened].on
    <3>1. /\ busy' = [busy EXCEPT ![q] = [at |-> "subscribe", event |-> e,
                                          lock |-> busy[q].lock, producer |-> Opened]]
          /\ UNCHANGED pending
      BY <2>2 DEF Observe
    <3>2. CASE p = q
      <4>1. Len(made') = Len(Producers)
        BY <2>2, ObserveMade
      <4>2. Opened \in 1..Len(Producers)
        BY ProducersMade, LengthsAreNat DEF TypeOK
      <4>3. busy[q].event.route = busy'[p].event.route /\ busy'[p].producer = Opened
        BY <3>1, <3>2, <1>1
      <4>4. p = "reconciler" => pending[busy[q].event.route] # <<>>
        BY <2>0, <1>2, <3>2
      <4> QED BY <3>1, <3>2, <4>1, <4>2, <4>3, <4>4
    <3>3. CASE p # q
      <4>1. busy'[p] = busy[p]
        BY <3>1, <3>3, <1>1
      <4>2. ~Crash \/ G
        BY <1>5
      <4> HIDE DEF e, G
      <4> QED BY <3>1, <4>1, <4>2, <1>6
    <3> QED BY <3>2, <3>3
  <2> QED BY <2>1, <2>2, <1>10, Zenon DEF Refuse, Enqueue, Subscribe, Observe
<1>11. ASSUME Advance PROVE G
  <2>1. UNCHANGED pending /\ (p = "worker" => busy'[p] = Idle)
        /\ (p # "worker" => busy'[p] = busy[p])
    BY <1>11, <1>1 DEF Advance
  <2>2. ~Crash \/ G
    BY <1>5
  <2>3. busy'[p] = Idle => G
    BY DEF Idle
  <2> HIDE DEF G
  <2> QED BY <2>1, <2>2, <2>3, <1>6
<1>12. ASSUME UNCHANGED <<pending, busy>> PROVE G
  <2>2. ~Crash \/ G
    BY <1>5
  <2> HIDE DEF G
  <2> QED BY <1>12, <2>2, <1>6
<1>13. Crash => G
  BY <1>5
<1>14. Dispatch \/ Crash \/ UNCHANGED <<pending, busy>>
  BY Zenon DEF Next, vars, disk, maps, tasks, history, Ask, Lock, Capture,
         Translate, Deliver,
         Retiring, Retire, Barrier, Shutdown, Control, Drained, Deadline, Stop, Finish,
         Clean, Collect, StartCollecting, Age, Scan, Check, CheckWork, DeleteStorage,
         DeleteJournal, KeepJournal
<1>15. G
  <2> HIDE DEF G
  <2> QED BY <1>8, <1>9, <1>10, <1>11, <1>12, <1>13, <1>14 DEF Dispatch
<1> QED BY <1>15

\* The events held for a route are events of that route.
LEMMA PendingRoutesStep ==
  ASSUME Referable, [Next]_vars
  PROVE  \A r \in Routes : \A k \in 1..Len(pending'[r]) : pending'[r][k].route = r
<1> USE DEF Referable
<1>1. /\ pending \in [Routes -> Seq(Event)] /\ queue \in Seq(Event)
      /\ \A r \in Routes : \A k \in 1..Len(pending[r]) : pending[r][k].route = r
  BY DEF TypeOK, DataOK, Refs
<1> DEFINE G == \A r \in Routes : \A k \in 1..Len(pending'[r]) : pending'[r][k].route = r
<1>2. ASSUME NEW e \in Event,
             pending' = [pending EXCEPT ![e.route] = Append(pending[e.route], e)]
      PROVE  G
  <2> SUFFICES ASSUME NEW r \in Routes, NEW k \in 1..Len(pending'[r])
               PROVE  pending'[r][k].route = r
    OBVIOUS
  <2>1. CASE r # e.route
    BY <1>1, <1>2, <2>1
  <2>2. CASE r = e.route
    <3>1. pending'[r] = Append(pending[r], e) /\ pending[r] \in Seq(Event)
      BY <1>1, <1>2, <2>2
    <3>2. k = Len(pending[r]) + 1 \/ k \in 1..Len(pending[r])
      BY <3>1
    <3> QED BY <3>1, <3>2, <2>2, <1>1
  <2> QED BY <2>1, <2>2
<1>3. ASSUME NEW q \in Routes, pending[q] # <<>>,
             pending' = [pending EXCEPT ![q] = Tail(pending[q])]
      PROVE  G
  <2> SUFFICES ASSUME NEW r \in Routes, NEW k \in 1..Len(pending'[r])
               PROVE  pending'[r][k].route = r
    OBVIOUS
  <2>1. CASE r # q
    BY <1>1, <1>3, <2>1
  <2>2. CASE r = q
    <3>1. pending'[r] = Tail(pending[r]) /\ pending[r] \in Seq(Event) /\ pending[r] # <<>>
      BY <1>1, <1>3, <2>2
    <3>2. k + 1 \in 1..Len(pending[r]) /\ pending'[r][k] = pending[r][k + 1]
      BY <3>1
    <3> QED BY <3>2, <1>1
  <2> QED BY <2>1, <2>2
<1>4. ASSUME UNCHANGED pending PROVE G
  BY <1>1, <1>4
<1>5. ASSUME NEW p \in Dispatchers, busy[p].at \in {"accept", "subscribe"},
             HandedOver(p, busy[p].event) \/ Held(p, busy[p].event)
      PROVE  G
  <2> DEFINE e == busy[p].event
  <2>1. e \in Event /\ e.route \in Routes
    BY <1>5, BusyFields DEF TypeOK, Event
  <2>2. p = "reconciler" => pending[e.route] # <<>>
    BY <1>5 DEF Refs, Dispatching
  <2>3. \/ UNCHANGED pending
        \/ pending' = [pending EXCEPT ![e.route] = Append(pending[e.route], e)]
        \/ /\ p = "reconciler"
           /\ pending' = [pending EXCEPT ![e.route] = Tail(pending[e.route])]
    BY <1>5 DEF HandedOver, Held, Dispatchers
  <2> HIDE DEF e, G
  <2> QED BY <2>1, <2>2, <2>3, <1>2, <1>3, <1>4, Zenon
<1>6. ASSUME Take PROVE G
  <2>0. queue # <<>>
    BY <1>6 DEF Take
  <2>1. Head(queue) \in Event
    BY <2>0, <1>1
  <2>2. \/ UNCHANGED pending
        \/ pending' = [pending EXCEPT ![Head(queue).route] =
                                Append(pending[Head(queue).route], Head(queue))]
    BY <1>6 DEF Take
  <2> HIDE DEF G
  <2> QED BY <2>1, <2>2, <1>2, <1>4
<1>7. ASSUME NEW p \in Dispatchers, Refuse(p) \/ Enqueue(p) \/ Subscribe(p) \/ Observe(p)
      PROVE  G
  <2>1. /\ busy[p].at \in {"accept", "subscribe"}
        /\ HandedOver(p, busy[p].event) \/ Held(p, busy[p].event) \/ UNCHANGED pending
    BY <1>7 DEF Refuse, Enqueue, Subscribe, Observe, Accept
  <2> HIDE DEF G
  <2> QED BY <2>1, <1>4, <1>5
<1>8. \/ Take \/ UNCHANGED pending
      \/ \E p \in Dispatchers : Refuse(p) \/ Enqueue(p) \/ Subscribe(p) \/ Observe(p)
  BY Zenon DEF Next, vars, disk, maps, tasks, history, Ask, Lock, Capture, Dispatch, Advance,
         Translate, Deliver, Reconcile, Crash,
         Retiring, Retire, Barrier, Shutdown, Control, Drained, Deadline, Stop, Finish,
         Clean, Collect, StartCollecting, Age, Scan, Check, CheckWork, DeleteStorage,
         DeleteJournal, KeepJournal
<1>9. G
  <2> HIDE DEF G
  <2> QED BY <1>4, <1>6, <1>7, <1>8
<1> QED BY <1>9
-----------------------------------------------------------------------------
\* A retirement names a session and a producer that exist.
LEMMA RetiringRefsStep ==
  ASSUME Referable, [Next]_vars
  PROVE  /\ retiring'.at \in {"barrier", "waiting"} => sessions'[retiring'.route] # 0
         /\ retiring'.at \in {"control", "drain", "stop", "finish"} =>
              retiring'.producer \in 1..Len(made')
<1> USE DEF Referable
<1> DEFINE G == /\ retiring'.at \in {"barrier", "waiting"} => sessions'[retiring'.route] # 0
                /\ retiring'.at \in {"control", "drain", "stop", "finish"} =>
                     retiring'.producer \in 1..Len(made')
<1>1. /\ retiring \in RetiringStates /\ sessions \in [Routes -> 0..Len(made)]
      /\ Len(made) \in Nat
  BY LengthsAreNat DEF TypeOK, TasksOK, MapsOK
<1>2. /\ retiring.at \in {"barrier", "waiting"} => sessions[retiring.route] # 0
      /\ retiring.at \in {"control", "drain", "stop", "finish"} =>
              retiring.producer \in 1..Len(made)
  BY DEF Refs
<1>3. retiring.at \notin {"idle", "clean"} => retiring.route \in Routes
  BY RetiringFields DEF TypeOK
<1>4. (Len(made) <= Len(made') /\ Len(made') \in Nat) \/ Crash
  BY MapsStep DEF MapsOK
<1>5. ASSUME Crash \/ Clean PROVE G
  BY <1>5 DEF Crash, Clean, Idle
<1>6. ASSUME UNCHANGED <<retiring, sessions>>, ~Crash PROVE G
  BY <1>6, <1>2, <1>4
<1>7. ASSUME NEW p \in Dispatchers, Subscribe(p), ~Crash PROVE G
  <2>1. UNCHANGED retiring
    BY <1>7 DEF Subscribe
  <2>2. /\ busy[p].event \in Event /\ left.linked[busy[p].event.route] \in Routes
        /\ busy[p].producer \in 1..Len(made)
    BY <1>7, BusyFields, EventRoute DEF Subscribe, TypeOK, DataOK, Refs
  <2>3. \A r \in Routes : sessions[r] # 0 => sessions'[r] # 0
    <3> DEFINE r == left.linked[busy[p].event.route]
               s == IF sessions[r] # 0 THEN sessions[r] ELSE busy[p].producer
    <3>1. sessions' = [sessions EXCEPT ![r] = s]
      BY <1>7 DEF Subscribe
    <3>2. s # 0 /\ r \in Routes
      BY <2>2, <1>1
    <3> HIDE DEF s, r
    <3> QED BY <3>1, <3>2, <1>1
  <2> QED BY <2>1, <2>3, <1>2, <1>3, <1>4, <1>7
<1>8. ASSUME NEW r \in Routes, Retire(r) PROVE G
  BY <1>8 DEF Retire, maps
<1>9. ASSUME Barrier PROVE G
  BY <1>9, <1>2 DEF Barrier, maps
<1>10. ASSUME Shutdown, ~Crash PROVE G
  <2>1. sessions[retiring.route] \in 1..Len(made)
    BY <1>10, <1>1, <1>2, <1>3 DEF Shutdown
  <2>2. /\ retiring'.at \in {"control", "stop"}
        /\ retiring'.producer = sessions[retiring.route]
    BY <1>10 DEF Shutdown
  <2> QED BY <2>1, <2>2, <1>1, <1>4, <1>10
<1>11. ASSUME NEW a \in {"drain", "stop", "finish"},
              retiring.at \in {"control", "drain", "stop"},
              retiring' = [retiring EXCEPT !.at = a], ~Crash
       PROVE  G
  <2>1. retiring'.at = a /\ retiring'.producer = retiring.producer
    BY <1>11, <1>1 DEF RetiringStates, Idle
  <2> QED BY <2>1, <1>2, <1>4, <1>11
<1>12. ASSUME Control \/ Drained \/ Deadline \/ Stop, ~Crash PROVE G
  <2> HIDE DEF G
  <2> QED BY <1>11, <1>12 DEF Control, Drained, Deadline, Stop
<1>13. ASSUME Finish PROVE G
  BY <1>13 DEF Finish, Idle
<1>14. \/ Crash \/ Clean \/ UNCHANGED <<retiring, sessions>>
       \/ \E p \in Dispatchers : Subscribe(p)
       \/ \E r \in Routes : Retire(r)
       \/ Barrier \/ Shutdown \/ Control \/ Drained \/ Deadline \/ Stop \/ Finish
  BY Zenon DEF Next, vars, disk, maps, tasks, history, Ask, Lock, Capture, Dispatch, Advance,
         Translate, Deliver, Reconcile, Take, Refuse, Enqueue, Observe,
         Retiring, Collect, StartCollecting, Age, Scan, Check, CheckWork, DeleteStorage,
         DeleteJournal, KeepJournal
<1>15. G
  <2> HIDE DEF G
  <2> QED BY <1>5, <1>6, <1>7, <1>8, <1>9, <1>10, <1>12, <1>13, <1>14
<1> QED BY <1>15

\* Every step keeps the references between the structures.
LEMMA RefsStep ==
  ASSUME Referable, [Next]_vars
  PROVE  Refs'
<1>1. \A n \in 1..Len(log') : log'[n] <= Len(captured')
  BY DataStep
<1>2. \A n \in 1..Committed' : storage'.rows[n] <= Len(captured')
  BY RowsStep
<1>3. \A r \in Routes : storage'.heads[r] >= Unregistered
  BY MapsStep
<1>4. \A p \in Dispatchers :
        /\ busy'[p].at = "subscribe" => busy'[p].producer \in 1..Len(made')
        /\ p = "reconciler" /\ busy'[p].at \in {"accept", "subscribe"} =>
              pending'[busy'[p].event.route] # <<>>
  BY DispatcherStep
<1>5. /\ retiring'.at \in {"barrier", "waiting"} => sessions'[retiring'.route] # 0
      /\ retiring'.at \in {"control", "drain", "stop", "finish"} =>
              retiring'.producer \in 1..Len(made')
  BY RetiringRefsStep
<1>6. \A r \in Routes : left'.linked[left'.linked[r]] = left'.linked[r]
  <2>1. left'.linked = left.linked
    BY LeftStep DEF Referable, TypeOK, DataOK
  <2> QED BY <2>1 DEF Referable, Refs
<1>7. \A r \in Routes : \A k \in 1..Len(pending'[r]) : pending'[r][k].route = r
  BY PendingRoutesStep
<1> QED BY <1>1, <1>2, <1>3, <1>4, <1>5, <1>6, <1>7 DEF Refs, Dispatching
-----------------------------------------------------------------------------
\* The capture lock of the map is changed only when nobody refers to it.
LEMMA CaptureLocksStep ==
  ASSUME Base, [Next]_vars
  PROVE  CaptureLocks'
<1>1. /\ hooks \in [Hooks -> HookStates] /\ gc \in GcStates /\ retiring \in RetiringStates
      /\ captureLock \in Nat
  BY DEF Base, TypeOK, TasksOK, MapsOK
<1>2. /\ \A h \in Hooks : hooks[h].at # "idle" => hooks[h].lock = captureLock
      /\ gc.at = "waiting" \/ Collecting => gc.lock = captureLock
      /\ retiring.at = "clean" => retiring.capture = captureLock
  BY DEF Base, CaptureLocks
<1>3. CASE UNCHANGED captureLock
  <2>1. \A h \in Hooks : hooks'[h].at # "idle" => hooks'[h].lock = captureLock
    <3>4. ASSUME NEW h \in Hooks, Ask(h)
          PROVE \A k \in Hooks : hooks'[k].at # "idle" => hooks'[k].lock = captureLock
      BY <3>4, <1>1, <1>2 DEF Ask
    <3>5. ASSUME NEW h \in Hooks, Lock(h)
          PROVE \A k \in Hooks : hooks'[k].at # "idle" => hooks'[k].lock = captureLock
      <4>1. hooks[h].at # "idle" /\ hooks[h].lock = captureLock
        BY <3>5, <1>2 DEF Lock
      <4>2. [hooks[h] EXCEPT !.at = "holding"].lock = hooks[h].lock
        BY <1>1, <3>5 DEF Lock, HookStates, Idle
      <4>3. hooks' = [hooks EXCEPT ![h] = [hooks[h] EXCEPT !.at = "holding"]]
        BY <3>5, <1>1 DEF Lock
      <4> QED BY <4>1, <4>2, <4>3, <1>1, <1>2
    <3>6. ASSUME NEW h \in Hooks, NEW r \in Routes, Capture(h, r)
          PROVE \A k \in Hooks : hooks'[k].at # "idle" => hooks'[k].lock = captureLock
      BY <3>6, <1>1, <1>2 DEF Capture, Idle
    <3>1. CASE \E h \in Hooks : \/ Ask(h) \/ Lock(h)
                                \/ \E r \in Routes : Capture(h, r)
      BY <3>1, <3>4, <3>5, <3>6
    <3>2. CASE Crash
      BY <3>2 DEF Crash, Idle
    <3>3. CASE UNCHANGED hooks
      BY <3>3, <1>2
    <3> QED BY <3>1, <3>2, <3>3, Zenon
          DEF Next, vars, tasks, Dispatch, Take, Reconcile, Refuse, Enqueue, Observe,
         Subscribe, Advance, Translate, Deliver,
         Retiring, Retire, Barrier, Shutdown, Control, Drained, Deadline, Stop, Finish,
         Clean, Collect, StartCollecting, Age, Scan, Check, CheckWork, DeleteStorage,
         DeleteJournal, KeepJournal
  <2>2. gc'.at \in {"waiting", "checking", "deleting", "unlinking"} => gc'.lock = captureLock
    <3>1. CASE Scan
      BY <3>1 DEF Scan, Idle
    <3>2. CASE Check \/ CheckWork \/ DeleteStorage
      <4>1. gc.at \in {"waiting", "checking", "deleting"} /\ gc.lock = captureLock
        BY <3>2, <1>2 DEF Check, CheckWork, DeleteStorage, Collecting
      <4>2. gc' = Idle \/ \E a \in {"checking", "deleting", "unlinking"} :
                            gc' = [gc EXCEPT !.at = a]
        BY <3>2 DEF Check, CheckWork, DeleteStorage
      <4>4. gc \in [at : {"waiting", "checking", "deleting", "unlinking"}, lock : Nat,
                    recorded : Nat, routes : SUBSET Routes]
        BY <4>1, <1>1 DEF GcStates, Idle
      <4>3. gc' = Idle \/ gc'.lock = gc.lock
        BY <4>2, <4>4
      <4> QED BY <4>1, <4>3 DEF Idle
    <3>3. CASE DeleteJournal \/ KeepJournal \/ StartCollecting \/ Crash
      BY <3>3 DEF DeleteJournal, KeepJournal, StartCollecting, Crash, Idle
    <3>4. CASE UNCHANGED gc
      BY <3>4, <1>2 DEF Collecting
    <3> QED BY <3>1, <3>2, <3>3, <3>4, Zenon
          DEF Next, vars, tasks, Ask, Lock, Capture, Dispatch, Take,
         Reconcile, Refuse, Enqueue, Observe, Subscribe, Advance, Translate, Deliver,
         Retiring, Retire, Barrier, Shutdown, Control, Drained, Deadline, Stop, Finish,
         Clean, Collect, Age
  <2>3. retiring'.at = "clean" => retiring'.capture = captureLock
    <3>1. CASE Finish
      BY <3>1 DEF Finish, Idle
    <3>2. CASE UNCHANGED retiring
      BY <3>2, <1>2
    <3>3. CASE retiring'.at # "clean"
      BY <3>3
    <3>4. CASE Control \/ Drained \/ Deadline \/ Stop
      <4>1. \E a \in {"drain", "stop", "finish"} : retiring' = [retiring EXCEPT !.at = a]
        BY <3>4 DEF Control, Drained, Deadline, Stop
      <4> QED BY <4>1, <1>1 DEF RetiringStates, Idle
    <3>6. \/ Finish \/ UNCHANGED retiring
          \/ (\E r \in Routes : Retire(r)) \/ Barrier \/ Shutdown \/ Clean \/ Crash
          \/ Control \/ Drained \/ Deadline \/ Stop
      BY Zenon DEF Next, vars, tasks, Ask, Lock, Capture, Dispatch, Take,
         Reconcile, Refuse, Enqueue, Observe, Subscribe, Advance, Translate, Deliver,
         Retiring, Collect, StartCollecting, Age, Scan, Check, CheckWork, DeleteStorage,
         DeleteJournal, KeepJournal
    <3>5. \/ Finish \/ UNCHANGED retiring \/ retiring'.at # "clean"
          \/ Control \/ Drained \/ Deadline \/ Stop
      BY <3>6 DEF Retire, Barrier, Shutdown, Clean, Crash, Idle
    <3> QED BY <3>1, <3>2, <3>3, <3>4, <3>5
  <2> QED BY <1>3, <2>1, <2>2, <2>3 DEF CaptureLocks, Collecting
<1>4. CASE Crash
  BY <1>4 DEF Crash, CaptureLocks, Collecting, Idle
<1>5. CASE Clean /\ captureLock' # captureLock
  <2>1. /\ retiring.at = "clean" /\ Users(retiring.capture) = {} /\ retiring' = Idle
        /\ UNCHANGED <<hooks, gc>>
    BY <1>5 DEF Clean
  <2>2. Users(captureLock) = {}
    BY <2>1, <1>2
  <2>3. \A h \in Hooks : hooks[h].at = "idle" \/ hooks[h].lock # captureLock
    BY <2>2 DEF Users
  <2>4. gc.at \in {"idle", "recovering"} \/ gc.lock # captureLock
    BY <2>2 DEF Users
  <2>5. \A h \in Hooks : hooks[h].at = "idle"
    BY <2>3, <1>2
  <2>6. ~(gc.at = "waiting" \/ Collecting)
    BY <2>4, <1>2 DEF Collecting
  <2> QED BY <2>1, <2>5, <2>6 DEF CaptureLocks, Collecting, Idle
<1>6. UNCHANGED captureLock \/ Crash \/ Clean
  BY Zenon DEF Next, vars, maps, Ask, Lock, Capture, Dispatch, Take,
         Reconcile, Refuse, Enqueue, Observe, Subscribe, Advance, Translate, Deliver,
         Retiring, Retire, Barrier, Shutdown, Control, Drained, Deadline, Stop, Finish,
         Collect, StartCollecting, Age, Scan, Check, CheckWork, DeleteStorage,
         DeleteJournal, KeepJournal
<1> QED BY <1>3, <1>4, <1>5, <1>6

\* One hook, or retention, holds the capture lock.
LEMMA HoldersStep ==
  ASSUME Base, [Next]_vars
  PROVE  Holders'
<1>1. hooks \in [Hooks -> HookStates] /\ gc \in GcStates
  BY DEF Base, TypeOK, TasksOK
<1>2. /\ \A h \in Hooks : hooks[h].at # "idle" => hooks[h].lock = captureLock
      /\ gc.at = "waiting" \/ Collecting => gc.lock = captureLock
  BY DEF Base, CaptureLocks
<1>3. /\ \A h, k \in Holding : h = k
      /\ Collecting => Holding = {}
  BY DEF Base, Holders
<1>4. CaptureLockIsFree(captureLock) => Holding = {} /\ ~Collecting
  BY <1>2 DEF CaptureLockIsFree, Holding, Collecting
<1>5. ASSUME NEW h \in Hooks, Lock(h) PROVE Holders'
  <2>1. Holding = {} /\ ~Collecting
    BY <1>5, <1>2, <1>4 DEF Lock
  <2>2. Holding' \subseteq {h} /\ gc' = gc
    BY <1>5, <2>1, <1>1 DEF Lock, Holding
  <2> QED BY <2>1, <2>2 DEF Holders, Collecting
<1>6. CASE Check
  <2>1. Holding = {}
    BY <1>6, <1>2, <1>4 DEF Check
  <2> QED BY <1>6, <2>1 DEF Check, Holders, Holding, maps
<1>7. CASE CheckWork \/ DeleteStorage
  <2>1. Collecting /\ UNCHANGED hooks
    BY <1>7 DEF CheckWork, DeleteStorage, Collecting
  <2> QED BY <2>1, <1>3 DEF Holders, Holding
<1>8. CASE Crash
  BY <1>8 DEF Crash, Holders, Holding, Collecting, Idle
<1>9. ASSUME Holding' \subseteq Holding, Collecting' => Collecting PROVE Holders'
  BY <1>9, <1>3 DEF Holders
<1>10. ASSUME NEW h \in Hooks, Ask(h) PROVE Holding' \subseteq Holding /\ UNCHANGED gc
  BY <1>10, <1>1 DEF Ask, Holding
<1>11. ASSUME NEW h \in Hooks, NEW r \in Routes, Capture(h, r)
       PROVE Holding' \subseteq Holding /\ UNCHANGED gc
  BY <1>11, <1>1 DEF Capture, Holding, Idle
<1>12. CASE UNCHANGED hooks /\ (Collecting' => Collecting)
  BY <1>12, <1>9 DEF Holding
<1>13. ASSUME UNCHANGED gc PROVE Collecting' => Collecting
  BY <1>13 DEF Collecting
<1>14. \/ \E h \in Hooks : Ask(h) \/ Lock(h) \/ \E r \in Routes : Capture(h, r)
       \/ Check \/ CheckWork \/ DeleteStorage \/ Crash
       \/ UNCHANGED hooks /\ (UNCHANGED gc \/ gc'.at \in {"idle", "waiting"})
  <2>1. \/ \E h \in Hooks : Ask(h) \/ Lock(h) \/ \E r \in Routes : Capture(h, r)
        \/ Check \/ CheckWork \/ DeleteStorage \/ Crash
        \/ StartCollecting \/ Scan \/ DeleteJournal \/ KeepJournal
        \/ UNCHANGED <<hooks, gc>>
    BY Zenon DEF Next, vars, tasks, Dispatch, Take,
         Reconcile, Refuse, Enqueue, Observe, Subscribe, Advance, Translate, Deliver,
         Retiring, Retire, Barrier, Shutdown, Control, Drained, Deadline, Stop, Finish,
         Clean, Collect, Age
  <2>2. StartCollecting \/ Scan \/ DeleteJournal \/ KeepJournal =>
          UNCHANGED hooks /\ gc'.at \in {"idle", "waiting"}
    BY DEF StartCollecting, Scan, DeleteJournal, KeepJournal, Idle
  <2> QED BY <2>1, <2>2
<1>15. gc'.at \in {"idle", "waiting"} => (Collecting' => Collecting)
  BY DEF Collecting
<1> QED BY <1>5, <1>6, <1>7, <1>8, <1>9, <1>10, <1>11, <1>12, <1>13, <1>14, <1>15

\* The base invariant holds at the start.
LEMMA BaseInit ==
  ASSUME Init
  PROVE  Base
<1>1. left \in Left /\ \A r \in Routes : left.linked[left.linked[r]] = left.linked[r]
  BY PlansAssumption DEF Init, Left
<1>2. DataOK
  <2>1. <<>> \in Seq(Nat) /\ <<>> \in Seq(Event) /\ <<>> \in Seq(Routes)
    OBVIOUS
  <2>2. Absent \in Storage
    BY <2>1 DEF Absent, Storage, Unregistered
  <2> QED BY <1>1, <2>1, <2>2, Zenon DEF Init, DataOK
<1>3. MapsOK
  BY DEF Init, MapsOK
<1>4. TasksOK
  BY DEF Init, TasksOK, HookStates, BusyStates, RetiringStates, GcStates
<1>5. Refs
  BY <1>1 DEF Init, Refs, Absent, Committed, Unregistered, Idle, Dispatching
<1>6. CaptureLocks /\ Holders
  BY DEF Init, CaptureLocks, Holders, Holding, Collecting, Idle
<1> QED BY <1>2, <1>3, <1>4, <1>5, <1>6 DEF Base, TypeOK

\* Every step keeps the base invariant.
LEMMA BaseStep ==
  ASSUME Base, [Next]_vars
  PROVE  Base'
<1>1. Referable
  BY DEF Base, Referable
<1>2. TypeOK' /\ Refs'
  BY <1>1, TypeStep, RefsStep
<1> QED BY <1>2, CaptureLocksStep, HoldersStep DEF Base

\* The types, the references, the capture lock and its one holder: for any hooks,
\* routes and plans the base invariant always holds.
THEOREM Typed == Spec => []Base
BY BaseInit, BaseStep, PTL DEF Spec

\* One hook at a time, or retention, works on the files of a source under the
\* capture lock (server/sessions.rs capture_lock, maintenance.rs collect_partitions).
THEOREM OneWorksOnTheFiles == Spec => []OneHolder
<1>1. Base => OneHolder
  <2> SUFFICES ASSUME Base PROVE OneHolder
    OBVIOUS
  <2>1. /\ \A h, k \in Holding : h = k
        /\ Collecting => Holding = {}
    BY DEF Base, Holders
  <2>2. CASE Holding = {}
    <3>1. Cardinality(Holding) = 0
      BY <2>2, FS_EmptySet
    <3> QED BY <3>1 DEF OneHolder, Holding
  <2>3. CASE Holding # {}
    <3>1. PICK h \in Holding : Holding = {h}
      BY <2>1, <2>3
    <3>2. Cardinality(Holding) = 1
      BY <3>1, FS_Singleton
    <3> QED BY <3>2, <2>1, <2>3 DEF OneHolder, Holding, Collecting
  <2> QED BY <2>2, <2>3
<1> QED BY <1>1, Typed, PTL
-----------------------------------------------------------------------------
\* retire_session goes through its points in order; only the end of it, the
\* release of the maps and a restart make it idle.
LEMMA RetiringMoves ==
  ASSUME TasksOK, [Next]_vars
  PROVE  \/ UNCHANGED retiring /\ ~Crash /\ ~Clean
         \/ retiring' = Idle /\ (Crash \/ Clean)
         \/ retiring' = Idle /\ Finish /\ retiring.at = "finish"
         \/ /\ retiring = Idle
            /\ \E r \in Routes :
                 Retire(r) /\ retiring' = [at |-> "barrier", route |-> r]
         \/ /\ Barrier /\ retiring.at = "barrier" /\ retiring'.at = "waiting"
            /\ retiring'.route = retiring.route /\ retiring'.lock = dispatchLock
         \/ /\ Shutdown /\ retiring.at = "waiting" /\ retiring'.at \in {"control", "stop"}
            /\ retiring'.route = retiring.route /\ retiring'.lock = retiring.lock
            /\ retiring'.producer = sessions[retiring.route]
         \/ /\ \/ Control /\ retiring.at = "control" /\ retiring'.at = "drain"
               \/ Drained /\ retiring.at = "drain" /\ retiring'.at = "stop"
               \/ Deadline /\ retiring.at = "drain" /\ retiring'.at = "stop"
               \/ Stop /\ retiring.at = "stop" /\ retiring'.at = "finish"
            /\ retiring'.route = retiring.route /\ retiring'.lock = retiring.lock
            /\ retiring'.producer = retiring.producer
         \/ /\ Finish /\ retiring.at = "finish" /\ retiring'.at = "clean"
            /\ retiring'.lock = retiring.lock
            /\ \A r \in Routes : sessions[r] = 0
<1>1. retiring \in RetiringStates
  BY DEF TasksOK
<1>2. \A a \in {"drain", "stop", "finish"} :
        retiring.at \in {"control", "drain", "stop"} /\ retiring' = [retiring EXCEPT !.at = a] =>
          /\ retiring'.at = a /\ retiring'.route = retiring.route
          /\ retiring'.lock = retiring.lock /\ retiring'.producer = retiring.producer
  BY <1>1 DEF RetiringStates, Idle
<1>3. Control \/ Drained \/ Deadline \/ Stop =>
        \/ /\ \/ Control /\ retiring.at = "control" /\ retiring'.at = "drain"
              \/ Drained /\ retiring.at = "drain" /\ retiring'.at = "stop"
              \/ Deadline /\ retiring.at = "drain" /\ retiring'.at = "stop"
              \/ Stop /\ retiring.at = "stop" /\ retiring'.at = "finish"
           /\ retiring'.route = retiring.route /\ retiring'.lock = retiring.lock
           /\ retiring'.producer = retiring.producer
  BY <1>2 DEF Control, Drained, Deadline, Stop
<1>4. Shutdown =>
        /\ retiring.at = "waiting" /\ retiring'.at \in {"control", "stop"}
        /\ retiring'.route = retiring.route /\ retiring'.lock = retiring.lock
        /\ retiring'.producer = sessions[retiring.route]
  BY DEF Shutdown
<1>5. Barrier => /\ retiring.at = "barrier" /\ retiring'.at = "waiting"
                 /\ retiring'.route = retiring.route /\ retiring'.lock = dispatchLock
  BY DEF Barrier
<1>6. \A r \in Routes : Retire(r) =>
        retiring = Idle /\ retiring' = [at |-> "barrier", route |-> r]
  BY DEF Retire
<1>7. Crash \/ Clean => retiring' = Idle
  BY DEF Crash, Clean
<1>8. Finish => /\ retiring.at = "finish"
                /\ \/ retiring' = Idle
                   \/ /\ retiring'.at = "clean" /\ retiring'.lock = retiring.lock
                      /\ \A r \in Routes : sessions[r] = 0
  BY DEF Finish
<1>9. \/ UNCHANGED retiring \/ Finish
          \/ (\E r \in Routes : Retire(r)) \/ Barrier \/ Shutdown \/ Clean \/ Crash
          \/ Control \/ Drained \/ Deadline \/ Stop
  BY Zenon DEF Next, vars, tasks, Ask, Lock, Capture, Dispatch, Take,
         Reconcile, Refuse, Enqueue, Observe, Subscribe, Advance, Translate, Deliver,
         Retiring, Collect, StartCollecting, Age, Scan, Check, CheckWork, DeleteStorage,
         DeleteJournal, KeepJournal
<1> QED BY <1>3, <1>4, <1>5, <1>6, <1>7, <1>8, <1>9

\* A dispatcher changes by taking an event, by observing, by being done, or
\* not at all.
LEMMA BusyMoves ==
  ASSUME Referable, [Next]_vars, NEW p \in Dispatchers
  PROVE  \/ busy'[p] = busy[p]
         \/ busy'[p].at \in {"idle", "advance"}
         \/ /\ busy[p] = Idle /\ busy'[p].at = "accept" /\ busy'[p].lock = dispatchLock
            /\ UNCHANGED <<dispatchLock, retiring, left>>
            /\ \/ p = "worker" /\ queue # <<>>
               \/ p = "reconciler" /\ \E r \in Routes : pending[r] # <<>>
         \/ /\ Observe(p) /\ busy[p].at = "accept" /\ busy'[p].at = "subscribe"
            /\ busy'[p].event = busy[p].event /\ busy'[p].lock = busy[p].lock
            /\ busy'[p].producer = Opened /\ Producers[Opened].on
<1> USE DEF Referable
<1>1. busy \in [Dispatchers -> BusyStates]
  BY DEF TypeOK, TasksOK
<1>2. busy[p].at = "idle" <=> busy[p] = Idle
  BY BusyFields DEF TypeOK
<1> DEFINE G == \/ busy'[p] = busy[p]
         \/ busy'[p].at \in {"idle", "advance"}
         \/ /\ busy[p] = Idle /\ busy'[p].at = "accept" /\ busy'[p].lock = dispatchLock
            /\ UNCHANGED <<dispatchLock, retiring, left>>
            /\ \/ p = "worker" /\ queue # <<>>
               \/ p = "reconciler" /\ \E r \in Routes : pending[r] # <<>>
         \/ /\ Observe(p) /\ busy[p].at = "accept" /\ busy'[p].at = "subscribe"
            /\ busy'[p].event = busy[p].event /\ busy'[p].lock = busy[p].lock
            /\ busy'[p].producer = Opened /\ Producers[Opened].on
<1>3. ASSUME NEW q \in Dispatchers, busy[q].at \in {"accept", "subscribe"},
             HandedOver(q, busy[q].event) \/ Held(q, busy[q].event)
      PROVE  G
  <2>1. /\ \A k \in Dispatchers : k # q => busy'[k] = busy[k]
        /\ busy'[q].at \in {"idle", "advance"}
    BY <1>3, HandOver DEF TypeOK
  <2> QED BY <2>1
<1>4. ASSUME Take PROVE G
  <2>1. CASE p = "worker"
    <3>1. /\ busy[p].at = "idle" /\ queue # <<>> /\ UNCHANGED <<dispatchLock, retiring, left>>
      BY <1>4, <2>1 DEF Take, maps
    <3>2. \/ busy' = [busy EXCEPT !["worker"] = [at |-> "advance", event |-> Head(queue)]]
          \/ busy' = [busy EXCEPT !["worker"] =
                             [at |-> "accept", event |-> Head(queue), lock |-> dispatchLock]]
      BY <1>4 DEF Take
    <3>3. busy'[p].at = "advance" \/ (busy'[p].at = "accept" /\ busy'[p].lock = dispatchLock)
      BY <3>2, <2>1, <1>1
    <3> QED BY <3>1, <3>3, <2>1, <1>2
  <2>2. CASE p # "worker"
    BY <1>4, <1>1, <2>2 DEF Take
  <2> QED BY <2>1, <2>2
<1>5. ASSUME NEW r \in Routes, Reconcile(r) PROVE G
  <2>1. CASE p = "reconciler"
    <3>1. /\ busy[p].at = "idle" /\ pending[r] # <<>>
          /\ UNCHANGED <<dispatchLock, retiring, left>>
      BY <1>5, <2>1 DEF Reconcile, maps
    <3>2. busy'[p].at = "accept" /\ busy'[p].lock = dispatchLock
      BY <1>5, <2>1, <1>1 DEF Reconcile
    <3> QED BY <3>1, <3>2, <2>1, <1>2
  <2>2. CASE p # "reconciler"
    BY <1>5, <1>1, <2>2 DEF Reconcile
  <2> QED BY <2>1, <2>2
<1>6. ASSUME NEW q \in Dispatchers, Observe(q) PROVE G
  <2>0. busy[q].at = "accept"
    BY <1>6 DEF Observe, Accept
  <2>1. CASE Held(q, busy[q].event)
    BY <2>0, <2>1, <1>3
  <2>2. CASE /\ Producers[Opened].on
             /\ busy' = [busy EXCEPT ![q] = [at |-> "subscribe", event |-> busy[q].event,
                                             lock |-> busy[q].lock, producer |-> Opened]]
    <3>1. CASE p = q
      <4>1. /\ busy'[p].at = "subscribe" /\ busy'[p].event = busy[p].event
            /\ busy'[p].lock = busy[p].lock /\ busy'[p].producer = Opened
        BY <2>2, <3>1, <1>1
      <4> QED BY <4>1, <2>0, <2>2, <3>1, <1>6
    <3>2. CASE p # q
      BY <2>2, <3>2, <1>1
    <3> QED BY <3>1, <3>2
  <2> QED BY <2>1, <2>2, <1>6 DEF Observe
<1>7. ASSUME NEW q \in Dispatchers, Refuse(q) \/ Enqueue(q) \/ Subscribe(q) PROVE G
  <2>1. /\ busy[q].at \in {"accept", "subscribe"}
        /\ HandedOver(q, busy[q].event) \/ Held(q, busy[q].event)
    BY <1>7 DEF Refuse, Enqueue, Subscribe, Accept
  <2> HIDE DEF G
  <2> QED BY <2>1, <1>3
<1>8. ASSUME Advance PROVE G
  BY <1>8, <1>1 DEF Advance, Idle
<1>9. ASSUME Crash PROVE G
  BY <1>9 DEF Crash, Idle
<1>10. UNCHANGED busy \/ Dispatch \/ Crash
  BY Zenon DEF Next, vars, tasks, Ask, Lock, Capture,
         Translate, Deliver,
         Retiring, Retire, Barrier, Shutdown, Control, Drained, Deadline, Stop, Finish,
         Clean, Collect, StartCollecting, Age, Scan, Check, CheckWork, DeleteStorage,
         DeleteJournal, KeepJournal
<1>11. G
  <2>1. UNCHANGED busy => G
    OBVIOUS
  <2> HIDE DEF G
  <2> QED BY <2>1, <1>4, <1>5, <1>6, <1>7, <1>8, <1>9, <1>10 DEF Dispatch
<1> QED BY <1>11

\* What can still retire could retire before.
LEMMA StaysRetirable ==
  ASSUME TypeOK, [Next]_vars
  PROVE  /\ Retirable' => Retirable
         /\ left'.retirements <= left.retirements
         /\ \A r \in Routes : Retire(r) => left.retirements > 0
                                       /\ left'.retirements = left.retirements - 1
<1>1. /\ left' \in Left /\ left \in Left /\ left'.retirements <= left.retirements
      /\ left.retirements \in Nat /\ left'.retirements \in Nat
  BY LeftStep, Zenon DEF TypeOK, DataOK, Left
<1>2. \A r \in Routes : Retire(r) => left.retirements > 0
                                   /\ left'.retirements = left.retirements - 1
  BY <1>1, UseStep DEF Retire, Bounded
<1>3. retiring' # Idle => retiring # Idle \/ \E r \in Routes : Retire(r)
  <2> USE DEF Idle
  <2> QED BY RetiringMoves DEF TypeOK
<1> QED BY <1>1, <1>2, <1>3 DEF Retirable

\* With one retirement left at most, every step keeps Once.
LEMMA OnceStep ==
  ASSUME Base, Once, [Next]_vars
  PROVE  Once'
<1>1. /\ TypeOK /\ TasksOK /\ Referable /\ left.retirements \in Nat
      /\ left'.retirements \in Nat /\ dispatchLock \in Nat
  BY LeftStep, Zenon DEF Base, TypeOK, DataOK, MapsOK, Referable, Left
<1>2. /\ left'.retirements <= left.retirements
      /\ \A r \in Routes : Retire(r) => left.retirements > 0
                                       /\ left'.retirements = left.retirements - 1
  BY <1>1, StaysRetirable
<1>3. /\ left.retirements <= 1
      /\ retiring # Idle => left.retirements = 0
      /\ dispatchLock # 1 => left.retirements = 0 /\ retiring = Idle
      /\ dispatchLock = 1 => \A p \in Dispatchers : Dispatching(p) => busy[p].lock = 1
  BY DEF Once
<1>4. retiring' # Idle => retiring # Idle \/ \E r \in Routes : Retire(r)
  BY RetiringMoves, <1>1 DEF Idle
<1>5. retiring' # Idle => left'.retirements = 0
  BY <1>1, <1>2, <1>3, <1>4
<1>6. \/ UNCHANGED dispatchLock
      \/ Crash /\ dispatchLock' = 1
      \/ Clean /\ retiring.at = "clean" /\ dispatchLock' = dispatchLock + 1 /\ retiring' = Idle
  BY ZenonT(40) DEF Next, vars, maps, Ask, Lock, Capture, Dispatch, Take, Crash, Clean,
         Reconcile, Refuse, Enqueue, Observe, Subscribe, Advance, Translate, Deliver,
         Retiring, Retire, Barrier, Shutdown, Control, Drained, Deadline, Stop, Finish,
         Collect, StartCollecting, Age, Scan, Check, CheckWork, DeleteStorage,
         DeleteJournal, KeepJournal
<1>7. dispatchLock' # 1 => left'.retirements = 0 /\ retiring' = Idle
  <2>1. CASE UNCHANGED dispatchLock
    <3>1. dispatchLock # 1 => left'.retirements = 0 /\ retiring = Idle /\
             ~\E r \in Routes : Retire(r)
      BY <1>1, <1>2, <1>3
    <3> QED BY <3>1, <2>1, <1>4
  <2>2. CASE Clean /\ retiring.at = "clean" /\ retiring' = Idle
    BY <2>2, <1>1, <1>2, <1>3 DEF Idle
  <2> QED BY <2>1, <2>2, <1>6
<1>8. dispatchLock' = 1 =>
        \A p \in Dispatchers : busy'[p].at \in {"accept", "subscribe"} => busy'[p].lock = 1
  <2> SUFFICES ASSUME dispatchLock' = 1, NEW p \in Dispatchers,
                      busy'[p].at \in {"accept", "subscribe"}
               PROVE  busy'[p].lock = 1
    OBVIOUS
  <2>1. CASE Crash
    BY <2>1 DEF Crash, Idle
  <2>2. ~Clean
    BY <1>1, <1>3 DEF Clean, Idle
  <2>3. CASE UNCHANGED dispatchLock
    <3>1. busy[p].at \in {"accept", "subscribe"} => busy[p].lock = 1
      BY <2>3, <1>3 DEF Dispatching
    <3> QED BY <3>1, <2>3, BusyMoves, <1>1
  <2> QED BY <2>1, <2>2, <2>3, <1>6
<1> QED BY <1>1, <1>2, <1>3, <1>5, <1>7, <1>8 DEF Once, Dispatching

\* While a dispatcher can observe, the producer it finds is running.
LEMMA ObserveFindsRunning ==
  ASSUME Base, Sharing, NEW p \in Dispatchers, Observe(p)
  PROVE  Producers[Opened].on
<1>1. CASE current = 0
  BY <1>1, ProducersMade, LengthsAreNat DEF Base, TypeOK
<1>2. CASE current # 0
  <2>1. made[current].on <=> retiring.at # "clean"
    BY <1>2 DEF Sharing, OneProducer
  <2>2. ASSUME retiring.at = "clean" PROVE FALSE
    <3>1. retiring.lock = dispatchLock /\ (Dispatching(p) => busy[p].lock = dispatchLock)
      BY <2>2 DEF Sharing, DispatchLocks, Locking
    <3>2. busy[p].at = "accept" /\ DispatchLockIsFree(busy[p].lock)
      BY DEF Observe, Accept
    <3> QED BY <2>2, <3>1, <3>2 DEF Dispatching, DispatchLockIsFree
  <2>3. Producers = made /\ Opened = current
    BY <1>2 DEF Producers, Opened
  <2> QED BY <2>1, <2>2, <2>3
<1> QED BY <1>1, <1>2

\* Without refusals, every step keeps Unheld: nothing is held.
LEMMA UnheldStep ==
  ASSUME Base, Unheld, Sharing, [Next]_vars
  PROVE  Unheld'
<1>1. /\ TypeOK /\ TasksOK /\ DataOK /\ Referable /\ left.refusals = 0
      /\ \A r \in Routes : pending[r] = <<>>
      /\ busy["reconciler"] = Idle
      /\ busy \in [Dispatchers -> BusyStates] /\ pending \in [Routes -> Seq(Event)]
  BY DEF Base, TypeOK, Referable, DataOK, TasksOK, Unheld
<1>2. left'.refusals = 0
  <2>1. left' \in Left /\ left'.refusals <= left.refusals
    BY <1>1, LeftStep DEF DataOK
  <2> QED BY <2>1, <1>1 DEF Left
<1>3. \A p \in Dispatchers : ~Refuse(p)
  BY <1>1, UseStep DEF Refuse, Bounded, DataOK
<1>4. \A p \in Dispatchers : busy[p].at \in {"accept", "subscribe"} => p = "worker"
  BY <1>1 DEF Dispatchers, Idle
<1>5. UNCHANGED pending
  <2>1. CASE Take
    <3>1. queue # <<>>
      BY <2>1 DEF Take
    <3>2. Head(queue) \in Event
      BY <3>1, <1>1 DEF DataOK
    <3>3. pending[Head(queue).route] = <<>>
      BY <3>2, <1>1 DEF Event
    <3> QED BY <2>1, <3>3 DEF Take
  <2>2. ASSUME NEW p \in Dispatchers, Enqueue(p) \/ Subscribe(p) PROVE UNCHANGED pending
    <3>1. busy[p].at \in {"accept", "subscribe"} /\ HandedOver(p, busy[p].event)
      BY <2>2 DEF Enqueue, Subscribe, Accept
    <3> QED BY <3>1, <1>4 DEF HandedOver
  <2>3. ASSUME NEW p \in Dispatchers, Observe(p) PROVE UNCHANGED pending
    BY <2>3, ObserveFindsRunning DEF Observe
  <2> QED BY <1>3, <2>1, <2>2, <2>3, Zenon
       DEF Next, vars, disk, Ask, Lock, Capture, Dispatch, Advance,
         Translate, Deliver, Reconcile, Crash,
         Retiring, Retire, Barrier, Shutdown, Control, Drained, Deadline, Stop, Finish,
         Clean, Collect, StartCollecting, Age, Scan, Check, CheckWork, DeleteStorage,
         DeleteJournal, KeepJournal
<1>6. busy'["reconciler"] = Idle
  <2>1. "reconciler" \in Dispatchers /\ "worker" # "reconciler"
    BY DEF Dispatchers
  <2>2. busy["reconciler"].at = "idle"
    BY <1>1 DEF Idle
  <2>3. ASSUME NEW p \in Dispatchers, Enqueue(p) \/ Subscribe(p) \/ Observe(p)
        PROVE  busy'["reconciler"] = Idle
    <3>1. busy[p].at \in {"accept", "subscribe"}
      BY <2>3 DEF Enqueue, Subscribe, Observe, Accept
    <3>2. p = "worker"
      BY <3>1, <1>4
    <3>3. \E x : busy' = [busy EXCEPT !["worker"] = x]
      BY <2>3, <3>2, ObserveFindsRunning, Zenon
         DEF Enqueue, Subscribe, Observe, HandedOver, Held
    <3> QED BY <3>3, <1>1, <2>1
  <2>4. CASE Take \/ Advance
    <3>1. \E x : busy' = [busy EXCEPT !["worker"] = x]
      BY <2>4 DEF Take, Advance
    <3> QED BY <3>1, <1>1, <2>1
  <2>5. \A r \in Routes : ~Reconcile(r)
    BY <1>1 DEF Reconcile
  <2>6. CASE Crash
    BY <2>6, <2>1 DEF Crash
  <2>7. CASE UNCHANGED busy
    BY <2>7, <1>1
  <2> QED BY <1>3, <2>3, <2>4, <2>5, <2>6, <2>7, Zenon
       DEF Next, vars, tasks, Ask, Lock, Capture, Dispatch,
         Translate, Deliver,
         Retiring, Retire, Barrier, Shutdown, Control, Drained, Deadline, Stop, Finish,
         Clean, Collect, StartCollecting, Age, Scan, Check, CheckWork, DeleteStorage,
         DeleteJournal, KeepJournal
<1> QED BY <1>1, <1>2, <1>5, <1>6 DEF Unheld
-----------------------------------------------------------------------------
\* The two ways in which the dispatch lock is enough.
Moded == (Unheld /\ Unheld') \/ (Once /\ Once')

\* Only the release of the maps and a restart replace the dispatch lock.
LEMMA DispatchLockMoves ==
  ASSUME [Next]_vars
  PROVE  UNCHANGED dispatchLock \/ Crash \/ Clean
BY Zenon DEF Next, vars, maps, Ask, Lock, Capture, Dispatch, Take,
         Reconcile, Refuse, Enqueue, Observe, Subscribe, Advance, Translate, Deliver,
         Retiring, Retire, Barrier, Shutdown, Control, Drained, Deadline, Stop, Finish,
         Collect, StartCollecting, Age, Scan, Check, CheckWork, DeleteStorage,
         DeleteJournal, KeepJournal

\* A retirement changes no dispatcher.
LEMMA RetiringLeavesBusy ==
  ASSUME \/ Barrier \/ Shutdown \/ Control \/ Drained \/ Deadline \/ Stop \/ Finish \/ Clean
         \/ \E r \in Routes : Retire(r)
  PROVE  UNCHANGED busy
BY DEF Retire, Barrier, Shutdown, Control, Drained, Deadline, Stop, Finish, Clean

\* Every step keeps the dispatch lock exclusive.
LEMMA DispatchLocksStep ==
  ASSUME Base, Sharing, Moded, [Next]_vars
  PROVE  DispatchLocks'
<1>1. TypeOK /\ TasksOK /\ Referable
  BY DEF Base, TypeOK, Referable
<1>2. /\ Locking => /\ retiring.lock = dispatchLock
                    /\ \A p \in Dispatchers : Dispatching(p) => busy[p].lock = dispatchLock
      /\ Locked => Subscribing = {}
      /\ Retirable => \A p, q \in Subscribing : p = q
  BY DEF Sharing, DispatchLocks
<1>3. CASE Crash
  BY <1>3 DEF Crash, DispatchLocks, Locking, Locked, Dispatching, Subscribing, Idle
<1>4. CASE Clean
  <2>1. retiring' = Idle /\ UNCHANGED busy /\ retiring # Idle
    BY <1>4 DEF Clean, Idle
  <2>2. \A p, q \in Subscribing : p = q
    BY <2>1, <1>2 DEF Retirable
  <2> QED BY <2>1, <2>2 DEF DispatchLocks, Locking, Locked, Dispatching, Subscribing, Idle
<1>5. CASE ~Crash /\ ~Clean
  <2>1. UNCHANGED dispatchLock
    BY <1>5, DispatchLockMoves
  <2>2. ASSUME NEW p \in Dispatchers, Locked PROVE ~Observe(p)
    <3>1. Observe(p) => busy[p].at = "accept" /\ DispatchLockIsFree(busy[p].lock)
      BY DEF Observe, Accept
    <3>2. Locking
      BY <2>2 DEF Locked, Locking
    <3>3. DispatchLockIsFree(busy[p].lock) => retiring.lock # busy[p].lock
      BY <2>2 DEF Locked, DispatchLockIsFree
    <3> QED BY <3>1, <3>2, <3>3, <1>2 DEF Dispatching
  <2>3. ASSUME Locking' PROVE
          /\ retiring'.lock = dispatchLock
          /\ \A p \in Dispatchers :
               busy'[p].at \in {"accept", "subscribe"} => busy'[p].lock = dispatchLock
    <3>1. CASE Barrier
      <4>1. /\ retiring'.lock = dispatchLock /\ retiring # Idle
            /\ busy["worker"].at = "idle" /\ UNCHANGED busy
        BY <3>1 DEF Barrier, Idle
      <4>2. busy["reconciler"].at \in {"accept", "subscribe"} =>
              busy["reconciler"].lock = dispatchLock
        <5>1. CASE Unheld
          BY <5>1 DEF Unheld, Idle
        <5>2. CASE Once
          BY <5>2, <4>1 DEF Once, Dispatching, Dispatchers
        <5> QED BY <5>1, <5>2 DEF Moded
      <4> QED BY <4>1, <4>2 DEF Dispatchers
    <3>2. CASE Locking /\ retiring'.lock = retiring.lock
      <4>1. \A p \in Dispatchers :
              busy[p].at \in {"accept", "subscribe"} => busy[p].lock = dispatchLock
        BY <3>2, <1>2 DEF Dispatching
      <4>2. \A p \in Dispatchers :
              busy'[p].at \in {"accept", "subscribe"} => busy'[p].lock = dispatchLock
        BY <4>1, <1>1, BusyMoves
      <4> QED BY <4>2, <3>2, <1>2
    <3>3. Barrier \/ (Locking /\ retiring'.lock = retiring.lock)
      BY <2>3, <1>1, <1>5, RetiringMoves DEF Locking, Idle
    <3> QED BY <3>1, <3>2, <3>3
  <2>4. ASSUME Locked' PROVE Subscribing' = {}
    <3>1. CASE Shutdown
      <4>1. /\ UNCHANGED busy /\ retiring.at = "waiting" /\ DispatchLockIsFree(retiring.lock)
        BY <3>1 DEF Shutdown
      <4>2. \A p \in Dispatchers : busy[p].at # "subscribe"
        BY <4>1, <1>2 DEF Locking, DispatchLockIsFree, Dispatching
      <4> QED BY <4>1, <4>2 DEF Subscribing
    <3>2. CASE Locked
      <4>1. \A p \in Dispatchers : busy[p].at # "subscribe"
        BY <3>2, <1>2 DEF Subscribing
      <4>2. \A p \in Dispatchers : busy'[p].at # "subscribe"
        BY <4>1, <1>1, <2>2, <3>2, BusyMoves
      <4> QED BY <4>2 DEF Subscribing
    <3>3. Shutdown \/ Locked
      BY <2>4, <1>1, <1>5, RetiringMoves DEF Locked, Idle
    <3> QED BY <3>1, <3>2, <3>3
  <2>5. ASSUME Retirable', NEW p \in Subscribing', NEW q \in Subscribing' PROVE p = q
    <3>1. Retirable
      BY <2>5, <1>1, StaysRetirable
    <3>2. p \in Dispatchers /\ q \in Dispatchers /\ busy'[p].at = "subscribe"
          /\ busy'[q].at = "subscribe"
      BY <2>5 DEF Subscribing
    <3>3. CASE Unheld'
      BY <3>2, <3>3 DEF Unheld, Dispatchers, Idle
    <3>4. CASE Once
      <4>1. dispatchLock = 1
        BY <3>1, <3>4 DEF Retirable, Once
      <4>2. \A k \in Dispatchers : busy[k].at \in {"accept", "subscribe"} => busy[k].lock = 1
        BY <4>1, <3>4 DEF Once, Dispatching
      <4>3. ASSUME NEW k \in Dispatchers, Observe(k) PROVE
              /\ \A j \in Dispatchers : busy[j].at # "subscribe"
              /\ \A j \in Dispatchers : j # k => busy'[j] = busy[j]
        <5>1. busy[k].at = "accept" /\ DispatchLockIsFree(busy[k].lock)
          BY <4>3 DEF Observe, Accept
        <5>2. \A j \in Dispatchers : busy[j].at # "subscribe"
          BY <5>1, <4>2 DEF DispatchLockIsFree
        <5>3. \E x : busy' = [busy EXCEPT ![k] = x]
          BY <4>3, <1>1, ObserveFindsRunning DEF Observe, Held
        <5>4. busy \in [Dispatchers -> BusyStates]
          BY <1>1 DEF TasksOK
        <5> QED BY <5>2, <5>3, <5>4
      <4>4. CASE \E k \in Dispatchers : Observe(k)
        BY <4>3, <4>4, <3>2
      <4>5. CASE \A k \in Dispatchers : ~Observe(k)
        <5>1. busy'[p] = busy[p] /\ busy'[q] = busy[q]
          BY <4>5, <3>2, <1>1, BusyMoves
        <5> QED BY <5>1, <3>1, <3>2, <1>2 DEF Subscribing
      <4> QED BY <4>4, <4>5
    <3> QED BY <3>3, <3>4 DEF Moded
  <2> QED BY <2>1, <2>3, <2>4, <2>5 DEF DispatchLocks, Dispatching
<1> QED BY <1>3, <1>4, <1>5
-----------------------------------------------------------------------------
\* The producers of ps, but for their targets.
Like(ps) == /\ Len(made') = Len(ps)
            /\ \A p \in 1..Len(ps) : /\ made'[p].on = ps[p].on
                                     /\ made'[p].active = ps[p].active
                                     /\ made'[p].draining = ps[p].draining

\* Enqueue changes targets only.
LEMMA EnqueueLike ==
  ASSUME Referable, NEW p \in Dispatchers, Enqueue(p)
  PROVE  Like(made) /\ UNCHANGED <<current, sessions, retiring>>
<1> USE DEF Referable
<1>1. /\ busy[p].event.through \in Nat /\ left.linked[busy[p].event.route] \in Routes
  BY BusyFields, EventRoute DEF Enqueue, Accept, TypeOK, DataOK
<1> DEFINE s == sessions[left.linked[busy[p].event.route]]
<1>2. made \in Seq(Producer) /\ sessions \in [Routes -> 0..Len(made)] /\ Len(made) \in Nat
  BY LengthsAreNat DEF TypeOK, MapsOK
<1>3. s \in 1..Len(made) /\ made' = Advanced(made, s, busy[p].event.through)
  BY <1>1, <1>2 DEF Enqueue
<1> HIDE DEF s
<1>4. Like(made)
  BY <1>1, <1>2, <1>3, Advancing, Zenon DEF Like
<1> QED BY <1>4 DEF Enqueue

\* Subscribe gives its route a session of an existing producer, and changes
\* no count.
LEMMA SubscribeLike ==
  ASSUME Referable, NEW p \in Dispatchers, Subscribe(p)
  PROVE  /\ Like(made) /\ UNCHANGED <<current, retiring>>
         /\ left.linked[busy[p].event.route] \in Routes
         /\ LET r == left.linked[busy[p].event.route]
                s == IF sessions[r] # 0 THEN sessions[r] ELSE busy[p].producer
            IN s \in 1..Len(made) /\ sessions' = [sessions EXCEPT ![r] = s]
<1> USE DEF Referable
<1>1. /\ busy[p].event.through \in Nat /\ left.linked[busy[p].event.route] \in Routes
  BY BusyFields, EventRoute DEF Subscribe, TypeOK, DataOK
<1> DEFINE r == left.linked[busy[p].event.route]
           s == IF sessions[r] # 0 THEN sessions[r] ELSE busy[p].producer
<1>2. made \in Seq(Producer) /\ sessions \in [Routes -> 0..Len(made)] /\ Len(made) \in Nat
  BY LengthsAreNat DEF TypeOK, MapsOK
<1>3. s \in 1..Len(made) /\ made' = Advanced(made, s, busy[p].event.through)
  <2>1. busy[p].producer \in 1..Len(made)
    BY DEF Subscribe, Refs
  <2>2. sessions[r] \in 0..Len(made)
    BY <1>1, <1>2
  <2>3. made' = Advanced(made, s, busy[p].event.through)
    BY DEF Subscribe
  <2>4. s = sessions[r] \/ s = busy[p].producer
    BY Zenon
  <2>5. s # 0
    BY <2>1
  <2> HIDE DEF Referable, r, s
  <2> QED BY <1>2, <2>1, <2>2, <2>3, <2>4, <2>5
<1>4. Like(made)
  <2> HIDE DEF s, r
  <2> QED BY <1>1, <1>2, <1>3, Advancing, Zenon DEF Like
<1>5. UNCHANGED <<current, retiring>> /\ sessions' = [sessions EXCEPT ![r] = s]
  BY DEF Subscribe
<1> QED BY <1>1, <1>3, <1>4, <1>5, Zenon

\* Advance opens the producer and changes no count.
LEMMA AdvanceLike ==
  ASSUME Referable, Advance
  PROVE  Like(Producers) /\ current' = Opened /\ UNCHANGED <<sessions, retiring>>
<1> USE DEF Referable
<1>1. busy["worker"].event.through \in Nat
  BY BusyFields, EventRoute DEF Advance, TypeOK, Dispatchers, DataOK
<1>2. Producers \in Seq(Producer) /\ Opened \in 1..Len(Producers)
  BY ProducersMade, LengthsAreNat DEF TypeOK
<1>3. /\ made' = Advanced(Producers, Opened, busy["worker"].event.through)
      /\ current' = Opened /\ UNCHANGED <<sessions, retiring>>
  BY DEF Advance, TranslationFor
<1>4. Like(Producers)
  BY <1>1, <1>2, <1>3, Advancing DEF Like
<1> QED BY <1>3, <1>4

\* Control changes targets only.
LEMMA ControlLike ==
  ASSUME Referable, Control
  PROVE  Like(made) /\ UNCHANGED <<current, sessions>>
<1> USE DEF Referable
<1> DEFINE p == retiring.producer
<1>1. made \in Seq(Producer) /\ p \in 1..Len(made)
  BY DEF TypeOK, MapsOK, Control, Refs
<1>2. \/ UNCHANGED made
      \/ \E n : made' = [made EXCEPT ![p].target = n]
  BY Zenon DEF Control
<1>3. ASSUME NEW n, made' = [made EXCEPT ![p].target = n] PROVE Like(made)
  <2> DEFINE x == [made[p] EXCEPT !.target = n]
  <2>1. made' = [made EXCEPT ![p] = x]
    BY <1>3
  <2>2. x.on = made[p].on /\ x.active = made[p].active /\ x.draining = made[p].draining
    BY <1>1 DEF Producer
  <2> HIDE DEF x
  <2>3. Len(made') = Len(made) /\ made'[p] = x
        /\ \A q \in 1..Len(made) : q # p => made'[q] = made[q]
    BY <1>1, <2>1
  <2> QED BY <2>2, <2>3 DEF Like
<1>4. UNCHANGED made => Like(made)
  BY DEF Like
<1>5. UNCHANGED <<current, sessions>>
  BY DEF Control
<1> QED BY <1>2, <1>3, <1>4, <1>5, Zenon

\* Shutdown moves one session of its producer from active to draining.
LEMMA ShutdownMade ==
  ASSUME Referable, Shutdown
  PROVE  LET s == sessions[retiring.route] IN
         /\ s \in 1..Len(made) /\ Len(made') = Len(made)
         /\ \A q \in 1..Len(made) : /\ made'[q].on = made[q].on
                                    /\ q # s => made'[q] = made[q]
         /\ made'[s].active = made[s].active - 1
         /\ made'[s].draining = made[s].draining + 1
         /\ sessions' = [sessions EXCEPT ![retiring.route] = 0]
         /\ retiring.route \in Routes
         /\ UNCHANGED current
<1> USE DEF Referable
<1> DEFINE s == sessions[retiring.route]
           x == [made[s] EXCEPT !.active = made[s].active - 1,
                                !.draining = made[s].draining + 1]
<1>1. made \in Seq(Producer) /\ sessions \in [Routes -> 0..Len(made)] /\ Len(made) \in Nat
  BY LengthsAreNat DEF TypeOK, MapsOK
<1>2. retiring.route \in Routes /\ s # 0
  BY RetiringFields DEF Shutdown, TypeOK, Refs
<1>3. s \in 1..Len(made)
  BY <1>1, <1>2
<1>4. made[s] \in Producer
  BY <1>1, <1>3
<1>5. /\ made' = [made EXCEPT ![s].active = made[s].active - 1,
                               ![s].draining = made[s].draining + 1]
      /\ sessions' = [sessions EXCEPT ![retiring.route] = 0] /\ UNCHANGED current
  BY DEF Shutdown
<1> HIDE DEF s
<1>6. made' = [made EXCEPT ![s] = x]
  BY <1>5, <1>3, <1>4, <1>1, Zenon DEF Producer
<1>7. /\ x.on = made[s].on /\ x.active = made[s].active - 1
      /\ x.draining = made[s].draining + 1
  BY <1>4 DEF Producer
<1> HIDE DEF x
<1>8. Len(made') = Len(made) /\ made'[s] = x
        /\ \A q \in 1..Len(made) : q # s => made'[q] = made[q]
  BY <1>1, <1>3, <1>6
<1>9. /\ Len(made') = Len(made)
      /\ \A q \in 1..Len(made) : /\ made'[q].on = made[q].on
                                 /\ q # s => made'[q] = made[q]
      /\ made'[s].active = made[s].active - 1
      /\ made'[s].draining = made[s].draining + 1
  BY <1>7, <1>8
<1> QED BY <1>2, <1>3, <1>5, <1>9 DEF s

\* Stop ends the draining of one session.
LEMMA StopMade ==
  ASSUME Referable, Stop
  PROVE  LET s == retiring.producer IN
         /\ s \in 1..Len(made) /\ Len(made') = Len(made)
         /\ \A q \in 1..Len(made) : /\ made'[q].on = made[q].on
                                    /\ made'[q].active = made[q].active
                                    /\ q # s => made'[q] = made[q]
         /\ made'[s].draining = made[s].draining - 1
         /\ UNCHANGED <<current, sessions>>
<1> USE DEF Referable
<1> DEFINE s == retiring.producer
           x == [made[s] EXCEPT !.draining = made[s].draining - 1]
<1>1. made \in Seq(Producer) /\ Len(made) \in Nat
  BY LengthsAreNat DEF TypeOK, MapsOK
<1>3. s \in 1..Len(made)
  BY DEF Stop, Refs
<1>4. made[s] \in Producer
  BY <1>1, <1>3
<1>5. /\ made' = [made EXCEPT ![s].draining = made[s].draining - 1]
      /\ UNCHANGED <<current, sessions>>
  BY DEF Stop
<1>6. made' = [made EXCEPT ![s] = x]
  BY <1>5
<1>7. /\ x.on = made[s].on /\ x.active = made[s].active
      /\ x.draining = made[s].draining - 1
  BY <1>4 DEF Producer
<1> HIDE DEF x
<1>8. Len(made') = Len(made) /\ made'[s] = x
        /\ \A q \in 1..Len(made) : q # s => made'[q] = made[q]
  BY <1>1, <1>3, <1>6
<1> QED BY <1>3, <1>5, <1>7, <1>8

\* Finish stops the producer if it serves nobody.
LEMMA FinishMade ==
  ASSUME Referable, Finish
  PROVE  LET s == retiring.producer IN
         /\ s \in 1..Len(made) /\ Len(made') = Len(made)
         /\ \A q \in 1..Len(made) : /\ made'[q].active = made[q].active
                                    /\ made'[q].draining = made[q].draining
                                    /\ q # s => made'[q] = made[q]
         /\ made'[s].on = ~(made[s].active = 0 /\ made[s].draining = 0)
         /\ UNCHANGED <<current, sessions>>
<1> USE DEF Referable
<1> DEFINE s == retiring.producer
           b == ~(made[s].active = 0 /\ made[s].draining = 0)
           x == [made[s] EXCEPT !.on = b]
<1>1. made \in Seq(Producer) /\ Len(made) \in Nat
  BY LengthsAreNat DEF TypeOK, MapsOK
<1>3. s \in 1..Len(made)
  BY DEF Finish, Refs
<1>4. made[s] \in Producer
  BY <1>1, <1>3
<1>5. /\ made' = [made EXCEPT ![s].on = b]
      /\ UNCHANGED <<current, sessions>>
  BY DEF Finish
<1>6. made' = [made EXCEPT ![s] = x]
  BY <1>5
<1>9. b \in BOOLEAN
  OBVIOUS
<1> HIDE DEF b
<1>7. /\ x.on = b /\ x.active = made[s].active
      /\ x.draining = made[s].draining
  BY <1>4 DEF Producer
<1> HIDE DEF x
<1>8. Len(made') = Len(made) /\ made'[s] = x
        /\ \A q \in 1..Len(made) : q # s => made'[q] = made[q]
  BY <1>1, <1>3, <1>6
<1> QED BY <1>3, <1>5, <1>7, <1>8 DEF b

\* Who opens a producer that is not there yet, opens one that nobody refers to.
LEMMA OpensTheCurrent ==
  ASSUME Base, Sharing
  PROVE  /\ Opened \in 1..Len(Producers)
         /\ \A p \in 1..Len(Producers) : Producers[p].on => p = Opened
         /\ \A r \in Open : sessions[r] = Opened
         /\ \A p \in Subscribing : busy[p].producer = Opened
         /\ retiring.at \in {"control", "drain", "stop", "finish"} =>
              retiring.producer = Opened
         /\ Producers[Opened].on <=> retiring.at # "clean"
         /\ current = 0 => /\ Open = {} /\ Subscribing = {} /\ ~Locked
                           /\ Producers[Opened].active = 0
                           /\ Producers[Opened].draining = 0
<1>1. TypeOK /\ MapsOK /\ TasksOK /\ Refs
  BY DEF Base, TypeOK
<1>2. /\ \A p \in 1..Len(made) : made[p].on => p = current
      /\ \A r \in Open : sessions[r] = current
      /\ \A p \in Subscribing : busy[p].producer = current
      /\ Locked => current # 0
      /\ retiring.at \in {"control", "drain", "stop", "finish"} => retiring.producer = current
      /\ current # 0 => (made[current].on <=> retiring.at # "clean")
  BY DEF Sharing, OneProducer
<1>3. /\ Opened \in 1..Len(Producers)
      /\ \A p \in 1..Len(made) : Producers[p] = made[p]
      /\ current # 0 => Opened = current /\ Producers = made
      /\ current = 0 =>
              /\ Opened = Len(made) + 1 /\ Len(Producers) = Len(made) + 1
              /\ Producers[Opened] = [on |-> TRUE, active |-> 0, draining |-> 0,
                                      target |-> Committed]
  BY <1>1, ProducersMade, LengthsAreNat
<1>4. CASE current # 0
  BY <1>2, <1>3, <1>4
<1>5. CASE current = 0
  <2>1. Open = {}
    BY <1>2, <1>5 DEF Open
  <2>2. Subscribing = {}
    <3>1. \A p \in Subscribing : busy[p].producer \in 1..Len(made)
      BY <1>1 DEF Refs, Subscribing
    <3> QED BY <3>1, <1>2, <1>5
  <2>3. ~Locked
    BY <1>2, <1>5
  <2>4. \A p \in 1..Len(Producers) : Producers[p].on => p = Opened
    <3> SUFFICES ASSUME NEW p \in 1..Len(Producers), Producers[p].on, p # Opened
                 PROVE  FALSE
      OBVIOUS
    <3>1. p \in 1..Len(made)
      BY <1>3, <1>5, LengthsAreNat, <1>1
    <3> QED BY <3>1, <1>2, <1>3, <1>5
  <2> QED BY <2>1, <2>2, <2>3, <2>4, <1>3, <1>5 DEF Locked
<1> QED BY <1>4, <1>5
-----------------------------------------------------------------------------
\* No dispatcher starts to subscribe, and the retirement, if there is one, does
\* not come to the points where it touches the producer.
Follows == \A p \in Subscribing' : /\ p \in Subscribing
                                   /\ busy'[p].producer = busy[p].producer
                                   /\ busy'[p].event = busy[p].event
Proceeds == /\ Locked' => Locked
            /\ retiring'.at = "clean" <=> retiring.at = "clean"
            /\ retiring'.at \in {"control", "drain", "stop", "finish"} =>
                 /\ retiring.at \in {"control", "drain", "stop", "finish"}
                 /\ retiring'.producer = retiring.producer

\* The steps that touch the producers, the map or the sessions.
LEMMA MapCases ==
  ASSUME [Next]_vars
  PROVE  \/ Crash \/ Clean \/ Advance \/ Shutdown \/ Control \/ Stop \/ Finish
         \/ \E p \in Dispatchers : Enqueue(p) \/ Observe(p) \/ Subscribe(p)
         \/ UNCHANGED <<made, current, sessions>>
BY Zenon DEF Next, vars, maps, Ask, Lock, Capture, Dispatch, Take, Reconcile, Refuse,
         Translate, Deliver, Retiring, Retire, Barrier, Drained, Deadline,
         Collect, StartCollecting, Age, Scan, Check, CheckWork, DeleteStorage,
         DeleteJournal, KeepJournal

\* Only Observe makes a dispatcher wait for a producer.
LEMMA FollowsUnlessObserved ==
  ASSUME Referable, [Next]_vars, \A p \in Dispatchers : ~Observe(p)
  PROVE  Follows
<1>1. \A p \in Dispatchers : busy'[p].at = "subscribe" => busy'[p] = busy[p]
  BY BusyMoves
<1> QED BY <1>1 DEF Follows, Subscribing

\* Only four steps change what a retirement says of its producer.
LEMMA ProceedsUnless ==
  ASSUME Base, [Next]_vars, ~Shutdown, ~Finish, ~Clean, ~Crash
  PROVE  Proceeds
BY RetiringMoves DEF Base, TypeOK, Proceeds, Locked, Idle

\* What Observe does when the producers are shared as they should be.
LEMMA DisjointDispatch ==
  ASSUME Base, Sharing, NEW p \in Dispatchers, Observe(p)
  PROVE  /\ UNCHANGED retiring
         /\ busy' = [busy EXCEPT ![p] = [at |-> "subscribe", event |-> busy[p].event,
                                        lock |-> busy[p].lock, producer |-> Opened]]
         /\ UNCHANGED sessions /\ current' = Opened
         /\ sessions[left.linked[busy[p].event.route]] = 0
         /\ busy[p].at = "accept"
         /\ busy \in [Dispatchers -> BusyStates]
BY ObserveFindsRunning DEF Observe, TranslationFor, Accept, Base, TypeOK, TasksOK

\* Every step keeps one running producer, the one in the map.
LEMMA OneProducerStep ==
  ASSUME Base, Sharing, Moded, [Next]_vars
  PROVE  OneProducer'
<1>1. TypeOK /\ MapsOK /\ TasksOK /\ Refs /\ Referable
  BY DEF Base, TypeOK, Referable
<1>2. /\ \A p \in 1..Len(made) : made[p].on => p = current
      /\ \A r \in Open : sessions[r] = current
      /\ \A p \in Subscribing : busy[p].producer = current
      /\ Locked => current # 0
      /\ retiring.at \in {"control", "drain", "stop", "finish"} => retiring.producer = current
      /\ current # 0 => (made[current].on <=> retiring.at # "clean")
      /\ retiring.at = "clean" => Open = {}
  BY DEF Sharing, OneProducer
<1>3. /\ current \in 0..Len(made) /\ Len(made) \in Nat
      /\ sessions \in [Routes -> 0..Len(made)]
  BY <1>1, LengthsAreNat DEF MapsOK
<1>4. ASSUME Like(made), UNCHANGED <<current, sessions>>, Follows, Proceeds
      PROVE  OneProducer'
  <2>1. \A p \in 1..Len(made') : made'[p].on => p = current
    BY <1>4, <1>2 DEF Like
  <2>2. Open' = Open /\ \A r \in Open : sessions'[r] = current'
    BY <1>4, <1>2 DEF Open
  <2>3. \A p \in Subscribing' : busy'[p].producer = current
    BY <1>4, <1>2 DEF Follows
  <2>4. current # 0 => (made'[current].on <=> retiring'.at # "clean")
    <3>1. current # 0 => made'[current].on = made[current].on
      BY <1>3, <1>4 DEF Like
    <3> QED BY <3>1, <1>2, <1>4 DEF Proceeds
  <2> QED BY <2>1, <2>2, <2>3, <2>4, <1>2, <1>4 DEF OneProducer, Proceeds
<1>5. CASE Crash
  BY <1>5 DEF Crash, OneProducer, Open, Subscribing, Locked, Idle
<1>6. CASE Clean
  <2>1. /\ UNCHANGED <<made, sessions, busy>> /\ retiring' = Idle /\ current' = 0
        /\ retiring.at = "clean"
    BY <1>6 DEF Clean
  <2>2. \A p \in 1..Len(made) : ~made[p].on
    BY <2>1, <1>2, <1>3
  <2>3. Open' = {} /\ Subscribing' = {}
    BY <2>1, <1>2 DEF Open, Subscribing, Sharing, DispatchLocks, Locked
  <2> QED BY <2>1, <2>2, <2>3 DEF OneProducer, Locked, Idle
<1>7. CASE Advance
  <2>1. Like(Producers) /\ current' = Opened /\ UNCHANGED <<sessions, retiring>>
    BY <1>7, <1>1, AdvanceLike
  <2>2. Follows
    <3>1. \A p \in Dispatchers : busy'[p] = busy[p] \/ busy'[p] = Idle
      BY <1>7, <1>1 DEF Advance, TasksOK
    <3> QED BY <3>1 DEF Follows, Subscribing, Idle
  <2>3. /\ Opened \in 1..Len(Producers)
        /\ \A p \in 1..Len(Producers) : Producers[p].on => p = Opened
        /\ \A r \in Open : sessions[r] = Opened
        /\ \A p \in Subscribing : busy[p].producer = Opened
        /\ retiring.at \in {"control", "drain", "stop", "finish"} =>
              retiring.producer = Opened
        /\ Producers[Opened].on <=> retiring.at # "clean"
    BY OpensTheCurrent
  <2>4. Open' = Open
    BY <2>1 DEF Open
  <2>5. /\ \A p \in 1..Len(made') : made'[p].on => p = current'
        /\ made'[current'].on <=> retiring'.at # "clean"
    BY <2>1, <2>3 DEF Like
  <2>6. \A p \in Subscribing' : busy'[p].producer = current'
    BY <2>1, <2>2, <2>3 DEF Follows
  <2>7. current' # 0
    BY <2>1, <2>3
  <2> QED BY <2>1, <2>3, <2>4, <2>5, <2>6, <2>7, <1>2 DEF OneProducer
<1>8. ASSUME NEW p \in Dispatchers, Observe(p) PROVE OneProducer'
  <2>1. /\ UNCHANGED retiring
        /\ busy' = [busy EXCEPT ![p] = [at |-> "subscribe", event |-> busy[p].event,
                                        lock |-> busy[p].lock, producer |-> Opened]]
        /\ UNCHANGED sessions /\ current' = Opened
        /\ busy \in [Dispatchers -> BusyStates]
    BY <1>8, DisjointDispatch
  <2>2. /\ Len(made') = Len(Producers)
        /\ \A q \in 1..Len(Producers) : made'[q].on = Producers[q].on
    BY <1>8, <1>1, ObserveMade
  <2>3. /\ Opened \in 1..Len(Producers)
        /\ \A q \in 1..Len(Producers) : Producers[q].on => q = Opened
        /\ \A r \in Open : sessions[r] = Opened
        /\ \A q \in Subscribing : busy[q].producer = Opened
        /\ retiring.at \in {"control", "drain", "stop", "finish"} =>
              retiring.producer = Opened
        /\ Producers[Opened].on <=> retiring.at # "clean"
    BY OpensTheCurrent
  <2>4. Open' = Open
    BY <2>1 DEF Open
  <2>5. /\ \A q \in 1..Len(made') : made'[q].on => q = current'
        /\ made'[current'].on <=> retiring'.at # "clean"
    BY <2>1, <2>2, <2>3
  <2>6. \A q \in Subscribing' : busy'[q].producer = current'
    <3> SUFFICES ASSUME NEW q \in Subscribing' PROVE busy'[q].producer = Opened
      BY <2>1
    <3>1. CASE q = p
      BY <3>1, <2>1
    <3>2. CASE q # p
      <4>1. busy'[q] = busy[q] /\ q \in Dispatchers /\ busy'[q].at = "subscribe"
        BY <3>2, <2>1 DEF Subscribing
      <4> QED BY <4>1, <2>3 DEF Subscribing
    <3> QED BY <3>1, <3>2
  <2>7. current' # 0
    BY <2>1, <2>3
  <2> QED BY <2>1, <2>3, <2>4, <2>5, <2>6, <2>7, <1>2 DEF OneProducer
<1>9. ASSUME NEW p \in Dispatchers, Enqueue(p) PROVE OneProducer'
  <2>1. Like(made) /\ UNCHANGED <<current, sessions, retiring>>
    BY <1>9, <1>1, EnqueueLike
  <2>2. Follows
    <3>1. /\ \A q \in Dispatchers : q # p => busy'[q] = busy[q]
          /\ busy'[p].at \in {"idle", "advance"}
      BY <1>9, <1>1, HandOver DEF Enqueue, Accept, TypeOK
    <3> QED BY <3>1 DEF Follows, Subscribing
  <2>3. Proceeds
    BY <2>1 DEF Proceeds, Locked
  <2> QED BY <2>1, <2>2, <2>3, <1>4
<1>10. ASSUME NEW p \in Dispatchers, Subscribe(p) PROVE OneProducer'
  <2> DEFINE r == left.linked[busy[p].event.route]
             s == IF sessions[r] # 0 THEN sessions[r] ELSE busy[p].producer
  <2>1. /\ Like(made) /\ UNCHANGED <<current, retiring>> /\ r \in Routes
        /\ s \in 1..Len(made) /\ sessions' = [sessions EXCEPT ![r] = s]
    BY <1>10, <1>1, SubscribeLike
  <2>2. p \in Subscribing
    BY <1>10 DEF Subscribe, Subscribing
  <2>3. s = current
    BY <2>1, <2>2, <1>2 DEF Open
  <2> HIDE DEF s, r
  <2>4. Open' = Open \cup {r} /\ \A q \in Open' : sessions'[q] = current
    BY <2>1, <2>3, <1>2, <1>3 DEF Open
  <2>5. Follows
    <3>1. /\ \A q \in Dispatchers : q # p => busy'[q] = busy[q]
          /\ busy'[p].at \in {"idle", "advance"}
      BY <1>10, <1>1, HandOver DEF Subscribe, TypeOK
    <3> QED BY <3>1 DEF Follows, Subscribing
  <2>6. /\ \A q \in 1..Len(made') : made'[q].on => q = current
        /\ \A q \in Subscribing' : busy'[q].producer = current
        /\ current # 0 => (made'[current].on <=> retiring'.at # "clean")
    BY <2>1, <2>5, <1>2, <1>3 DEF Like, Follows
  <2>7. retiring.at # "clean"
    BY <2>2 DEF Sharing, DispatchLocks, Locked
  <2> QED BY <2>1, <2>4, <2>6, <2>7, <1>2 DEF OneProducer, Locked
<1>11. CASE Shutdown
  <2> DEFINE s == sessions[retiring.route]
  <2>1. /\ s \in 1..Len(made) /\ Len(made') = Len(made)
        /\ \A q \in 1..Len(made) : made'[q].on = made[q].on
        /\ sessions' = [sessions EXCEPT ![retiring.route] = 0]
        /\ retiring.route \in Routes
        /\ UNCHANGED current
    BY <1>11, <1>1, ShutdownMade
  <2>2. /\ UNCHANGED busy /\ retiring'.at \in {"control", "stop"}
        /\ retiring'.producer = s /\ retiring.at = "waiting"
    BY <1>11 DEF Shutdown
  <2>3. s = current
    BY <2>1, <1>2 DEF Open
  <2> HIDE DEF s
  <2>4. \A r \in Open' : sessions'[r] = current
    BY <2>1, <1>2, <1>3 DEF Open
  <2>5. /\ \A q \in 1..Len(made') : made'[q].on => q = current
        /\ made'[current].on <=> retiring'.at # "clean"
    BY <2>1, <2>2, <2>3, <1>2
  <2>6. \A p \in Subscribing' : busy'[p].producer = current
    BY <2>2, <1>2 DEF Subscribing
  <2> QED BY <2>1, <2>2, <2>3, <2>4, <2>5, <2>6 DEF OneProducer
<1>12. CASE Control
  <2>1. Like(made) /\ UNCHANGED <<current, sessions>>
    BY <1>12, <1>1, ControlLike
  <2>2. Follows
    BY <1>12 DEF Control, Follows, Subscribing
  <2>3. Proceeds
    BY <1>12, <1>1 DEF Control, Proceeds, Locked, TasksOK, RetiringStates, Idle
  <2> QED BY <2>1, <2>2, <2>3, <1>4
<1>13. CASE Stop
  <2>1. Like(made) \/ (/\ Len(made') = Len(made)
                       /\ \A q \in 1..Len(made) : made'[q].on = made[q].on)
    BY <1>13, <1>1, StopMade
  <2>2. UNCHANGED <<current, sessions, busy>>
    BY <1>13 DEF Stop
  <2>3. Proceeds
    BY <1>13, <1>1 DEF Stop, Proceeds, Locked, TasksOK, RetiringStates, Idle
  <2>4. \A q \in 1..Len(made') : made'[q].on => q = current
    BY <2>1, <1>2 DEF Like
  <2>5. current # 0 => (made'[current].on <=> retiring'.at # "clean")
    <3>1. current # 0 => made'[current].on = made[current].on
      BY <1>3, <2>1 DEF Like
    <3> QED BY <3>1, <1>2, <2>3 DEF Proceeds
  <2>6. Open' = Open /\ Subscribing' = Subscribing
    BY <2>2 DEF Open, Subscribing
  <2> QED BY <2>2, <2>3, <2>4, <2>5, <2>6, <1>2 DEF OneProducer, Proceeds
<1>14. CASE Finish
  <2> DEFINE s == retiring.producer
  <2>1. /\ s \in 1..Len(made) /\ Len(made') = Len(made)
        /\ \A q \in 1..Len(made) : q # s => made'[q] = made[q]
        /\ made'[s].on = ~(made[s].active = 0 /\ made[s].draining = 0)
        /\ UNCHANGED <<current, sessions>>
    BY <1>14, <1>1, FinishMade
  <2>2. retiring.at = "finish" /\ UNCHANGED busy
    BY <1>14 DEF Finish
  <2>3. s = current /\ current # 0
    BY <2>2, <1>2 DEF Locked
  <2>4. Subscribing = {}
    BY <2>2 DEF Sharing, DispatchLocks, Locked
  <2>5. made[s].active = Cardinality(Open) + 0 /\ made[s].draining = 0
    <3>1. Retirable
      BY <2>2 DEF Retirable, Idle
    <3>2. Cardinality(Subscribing) = 0
      BY <2>4, FS_EmptySet
    <3> QED BY <3>1, <3>2, <2>2, <2>3 DEF Sharing, Counted
  <2>6. IsFiniteSet(Open) /\ (Cardinality(Open) = 0 <=> Open = {})
        /\ Cardinality(Open) \in Nat
    <3>1. IsFiniteSet(Open)
      BY RoutesAssumption, FS_Subset DEF Open
    <3> QED BY <3>1, FS_EmptySet, FS_CardinalityType
  <2>7. made'[s].on <=> Open # {}
    <3>1. (made[s].active = 0 /\ made[s].draining = 0) <=> Open = {}
      BY <2>5, <2>6
    <3> HIDE DEF s
    <3>2. made'[s].on = ~(made[s].active = 0 /\ made[s].draining = 0)
      BY <2>1
    <3> QED BY <3>1, <3>2, Zenon
  <2>8. /\ Open = {} <=> \A r \in Routes : sessions[r] = 0
        /\ Open' = Open
    BY <2>1 DEF Open
  <2>9. /\ Open = {} => retiring'.at = "clean"
        /\ Open # {} => retiring' = Idle
    BY <1>14, <2>8 DEF Finish
  <2>10. /\ retiring'.at = "clean" <=> Open = {}
         /\ retiring'.at \notin {"control", "drain", "stop", "finish"}
         /\ Locked' => current # 0
    BY <2>9, <2>3 DEF Idle
  <2> HIDE DEF s
  <2>11. \A p \in 1..Len(made') : made'[p].on => p = current
    BY <2>1, <2>3, <1>2
  <2>12. Subscribing' = {}
    BY <2>2, <2>4 DEF Subscribing
  <2>13. \A r \in Open' : sessions'[r] = current'
    BY <2>1, <2>8, <1>2
  <2> QED BY <2>1, <2>3, <2>7, <2>8, <2>10, <2>11, <2>12, <2>13 DEF OneProducer
<1>15. CASE /\ UNCHANGED <<made, current, sessions>>
            /\ ~Crash /\ ~Clean /\ ~Shutdown /\ ~Finish
            /\ \A p \in Dispatchers : ~Observe(p)
  <2>1. Like(made)
    BY <1>15 DEF Like
  <2>2. Follows /\ Proceeds
    BY <1>15, <1>1, FollowsUnlessObserved, ProceedsUnless
  <2> QED BY <2>1, <2>2, <1>4, <1>15
<1> QED BY <1>5, <1>6, <1>7, <1>8, <1>9, <1>10, <1>11, <1>12, <1>13, <1>14, <1>15, MapCases
-----------------------------------------------------------------------------
\* A dispatcher that waits for its barrier stays as it is until it subscribes.
LEMMA SubscribersStay ==
  ASSUME TasksOK, [Next]_vars, NEW p \in Dispatchers, busy[p].at = "subscribe",
         ~Crash, ~Subscribe(p)
  PROVE  busy'[p] = busy[p]
<1>1. busy \in [Dispatchers -> BusyStates]
  BY DEF TasksOK
<1>2. ASSUME NEW q \in Dispatchers, Refuse(q) \/ Enqueue(q) \/ Observe(q) PROVE busy'[p] = busy[p]
  <2>1. q # p
    BY <1>2 DEF Refuse, Enqueue, Observe, Accept
  <2>2. \E x : busy' = [busy EXCEPT ![q] = x]
    BY <1>2, Zenon DEF Refuse, Enqueue, Observe, HandedOver, Held
  <2> QED BY <2>1, <2>2, <1>1
<1>3. ASSUME NEW q \in Dispatchers, Subscribe(q) PROVE busy'[p] = busy[p]
  <2>1. q # p
    BY <1>3
  <2>2. \E x : busy' = [busy EXCEPT ![q] = x]
    BY <1>3, Zenon DEF Subscribe, HandedOver
  <2> QED BY <2>1, <2>2, <1>1
<1>4. CASE Take \/ Advance
  <2>1. p # "worker"
    BY <1>4 DEF Take, Advance
  <2>2. \E x : busy' = [busy EXCEPT !["worker"] = x]
    BY <1>4 DEF Take, Advance
  <2> QED BY <2>1, <2>2, <1>1
<1>5. ASSUME NEW r \in Routes, Reconcile(r) PROVE busy'[p] = busy[p]
  <2>1. p # "reconciler"
    BY <1>5 DEF Reconcile
  <2>2. \E x : busy' = [busy EXCEPT !["reconciler"] = x]
    BY <1>5, Zenon DEF Reconcile
  <2> QED BY <2>1, <2>2, <1>1
<1>6. CASE ~Dispatch
  <2>1. UNCHANGED busy
    BY <1>6, RetiringLeavesBusy, Zenon DEF Next, vars, tasks, Ask, Lock, Capture, Translate, Deliver,
         Retiring, Collect, StartCollecting, Age, Scan, Check, CheckWork, DeleteStorage,
         DeleteJournal, KeepJournal
  <2> QED BY <2>1
<1> QED BY <1>2, <1>3, <1>4, <1>5, <1>6 DEF Dispatch
\* Every step keeps the counts of the producer in the map exact.
LEMMA CountedStep ==
  ASSUME Base, Sharing, Moded, DispatchLocks', [Next]_vars
  PROVE  Counted'
<1>1. TypeOK /\ DataOK /\ MapsOK /\ TasksOK /\ Refs /\ Referable /\ left'.linked = left.linked
  BY LeftStep DEF Base, TypeOK, Referable, DataOK
<1> SUFFICES ASSUME Retirable'
             PROVE  /\ \A p \in Subscribing' : left.linked[busy'[p].event.route] \notin Open'
                    /\ current' # 0 =>
                         /\ made'[current'].active = Cardinality(Open') + Cardinality(Subscribing')
                         /\ made'[current'].draining =
                              IF retiring'.at \in {"control", "drain", "stop"} THEN 1 ELSE 0
  BY <1>1 DEF Counted
<1>2. Retirable
  BY <1>1, StaysRetirable
<1>3. /\ \A p \in Subscribing : left.linked[busy[p].event.route] \notin Open
      /\ current # 0 =>
           /\ made[current].active = Cardinality(Open) + Cardinality(Subscribing)
           /\ made[current].draining =
                IF retiring.at \in {"control", "drain", "stop"} THEN 1 ELSE 0
  BY <1>2 DEF Sharing, Counted
<1>4. /\ current \in 0..Len(made) /\ Len(made) \in Nat
      /\ sessions \in [Routes -> 0..Len(made)] /\ made \in Seq(Producer)
      /\ busy \in [Dispatchers -> BusyStates]
  BY <1>1, LengthsAreNat DEF MapsOK, TasksOK
<1>5. /\ \A r \in Open : sessions[r] = current
      /\ \A p \in Subscribing : busy[p].producer = current
      /\ Locked => current # 0
      /\ retiring.at \in {"control", "drain", "stop", "finish"} => retiring.producer = current
  BY DEF Sharing, OneProducer
<1>6. /\ \A p, q \in Subscribing : p = q
      /\ \A p, q \in Subscribing' : p = q
  BY <1>2 DEF Sharing, DispatchLocks
<1>7. /\ IsFiniteSet(Open) /\ Cardinality(Open) \in Nat
      /\ IsFiniteSet(Open') /\ Cardinality(Open') \in Nat
  <2>1. IsFiniteSet(Open) /\ IsFiniteSet(Open')
    BY RoutesAssumption, FS_Subset DEF Open
  <2> QED BY <2>1, FS_CardinalityType
<1>8. Cardinality({}) = 0 /\ \A p : Cardinality({p}) = 1
  BY FS_EmptySet, FS_Singleton, Zenon
<1> DEFINE G == /\ \A p \in Subscribing' : left.linked[busy'[p].event.route] \notin Open'
                /\ current' # 0 =>
                     /\ made'[current'].active = Cardinality(Open') + Cardinality(Subscribing')
                     /\ made'[current'].draining =
                          IF retiring'.at \in {"control", "drain", "stop"} THEN 1 ELSE 0
<1>9. ASSUME Like(made), UNCHANGED <<current, sessions, busy>>,
             retiring'.at \in {"control", "drain", "stop"} <=>
               retiring.at \in {"control", "drain", "stop"}
      PROVE  G
  <2>1. Open' = Open /\ Subscribing' = Subscribing
    BY <1>9 DEF Open, Subscribing
  <2>2. current # 0 => /\ made'[current].active = made[current].active
                       /\ made'[current].draining = made[current].draining
    BY <1>4, <1>9 DEF Like
  <2> QED BY <2>1, <2>2, <1>3, <1>9
<1>10. CASE Crash
  BY <1>10 DEF Crash, Subscribing, Idle
<1>11. CASE Clean
  BY <1>11 DEF Clean, Subscribing, Sharing, DispatchLocks, Locked
<1>12. CASE Advance
  <2>1. Like(Producers) /\ current' = Opened /\ UNCHANGED <<sessions, retiring>>
    BY <1>12, <1>1, AdvanceLike
  <2>2. Subscribing' = Subscribing /\ \A p \in Subscribing : busy'[p] = busy[p]
    BY <1>12, <1>4 DEF Advance, Subscribing, Idle
  <2>3. Open' = Open
    BY <2>1 DEF Open
  <2>4. /\ Opened \in 1..Len(Producers)
        /\ current = 0 => /\ Open = {} /\ Subscribing = {} /\ ~Locked
                          /\ Producers[Opened].active = 0
                          /\ Producers[Opened].draining = 0
        /\ current # 0 => Opened = current /\ Producers = made
    BY <1>1, OpensTheCurrent, ProducersMade, LengthsAreNat
  <2>5. made'[Opened].active = Producers[Opened].active
        /\ made'[Opened].draining = Producers[Opened].draining
    BY <2>1, <2>4 DEF Like
  <2>6. CASE current = 0
    <3>1. Open' = {} /\ Subscribing' = {}
      BY <2>2, <2>3, <2>4, <2>6
    <3>2. retiring'.at \notin {"control", "drain", "stop"}
      BY <2>1, <2>4, <2>6 DEF Locked
    <3>3. made'[current'].active = 0 /\ made'[current'].draining = 0
      BY <2>1, <2>4, <2>5, <2>6
    <3>4. Cardinality(Open') = 0 /\ Cardinality(Subscribing') = 0
      BY <3>1, <1>8
    <3> QED BY <3>1, <3>2, <3>3, <3>4
  <2>7. CASE current # 0
    BY <2>1, <2>2, <2>3, <2>4, <2>5, <2>7, <1>3
  <2> QED BY <2>6, <2>7
<1>13. ASSUME NEW p \in Dispatchers, Observe(p) PROVE G
  <2>1. /\ UNCHANGED retiring
        /\ busy' = [busy EXCEPT ![p] = [at |-> "subscribe", event |-> busy[p].event,
                                        lock |-> busy[p].lock, producer |-> Opened]]
        /\ UNCHANGED sessions /\ current' = Opened
        /\ sessions[left.linked[busy[p].event.route]] = 0
        /\ busy[p].at = "accept"
    BY <1>13, DisjointDispatch
  <2>2. Open' = Open /\ left.linked[busy[p].event.route] \notin Open
    BY <2>1 DEF Open
  <2>3. p \in Subscribing' /\ busy'[p].event = busy[p].event
    BY <2>1, <1>4 DEF Subscribing
  <2>4. Subscribing' = {p}
    BY <2>3, <1>6
  <2>5. Subscribing = {}
    <3>1. \A q \in Subscribing : q # p /\ q \in Subscribing'
      BY <2>1, <1>4 DEF Subscribing
    <3> QED BY <3>1, <2>4
  <2>6. /\ Opened \in 1..Len(Producers)
        /\ current = 0 => /\ Open = {} /\ Subscribing = {} /\ ~Locked
                          /\ Producers[Opened].active = 0
                          /\ Producers[Opened].draining = 0
        /\ current # 0 => Opened = current /\ Producers = made
    BY <1>1, OpensTheCurrent, ProducersMade, LengthsAreNat
  <2>7. /\ made'[Opened].active = Producers[Opened].active + 1
        /\ made'[Opened].draining = Producers[Opened].draining
    BY <1>13, <1>1, <2>6, ObserveMade, ObserveFindsRunning
  <2>8. CASE current = 0
    <3>1. Cardinality(Open') = 0 /\ Cardinality(Subscribing') = 1
      BY <2>2, <2>4, <2>6, <2>8, <1>8, Zenon
    <3>2. retiring'.at \notin {"control", "drain", "stop"}
      BY <2>1, <2>6, <2>8 DEF Locked
    <3> QED BY <3>1, <3>2, <2>1, <2>2, <2>3, <2>4, <2>6, <2>7, <2>8
  <2>9. CASE current # 0
    <3>1. Cardinality(Subscribing) = 0 /\ Cardinality(Subscribing') = 1
      BY <2>4, <2>5, <1>8, Zenon
    <3>2. made[current].active = Cardinality(Open)
      BY <3>1, <2>9, <1>3, <1>7
    <3>3. made'[current'].active = Cardinality(Open') + Cardinality(Subscribing')
      BY <3>1, <3>2, <2>1, <2>2, <2>6, <2>7, <2>9
    <3>4. made'[current'].draining =
             IF retiring'.at \in {"control", "drain", "stop"} THEN 1 ELSE 0
      BY <2>1, <2>6, <2>7, <2>9, <1>3
    <3> QED BY <3>3, <3>4, <2>2, <2>3, <2>4
  <2> QED BY <2>8, <2>9
<1>14. ASSUME NEW p \in Dispatchers, Enqueue(p) PROVE G
  <2>1. Like(made) /\ UNCHANGED <<current, sessions, retiring>>
    BY <1>14, <1>1, EnqueueLike
  <2>2. /\ \A q \in Dispatchers : q # p => busy'[q] = busy[q]
        /\ busy'[p].at \in {"idle", "advance"} /\ busy[p].at = "accept"
    BY <1>14, <1>1, HandOver DEF Enqueue, Accept, TypeOK
  <2>3. Subscribing' = Subscribing /\ \A q \in Subscribing : busy'[q] = busy[q]
    BY <2>2 DEF Subscribing
  <2>4. Open' = Open
    BY <2>1 DEF Open
  <2>5. current # 0 => /\ made'[current].active = made[current].active
                       /\ made'[current].draining = made[current].draining
    BY <1>4, <2>1 DEF Like
  <2> QED BY <2>1, <2>3, <2>4, <2>5, <1>3
<1>15. ASSUME NEW p \in Dispatchers, Subscribe(p) PROVE G
  <2> DEFINE r == left.linked[busy[p].event.route]
             s == IF sessions[r] # 0 THEN sessions[r] ELSE busy[p].producer
  <2>1. /\ Like(made) /\ UNCHANGED <<current, retiring>> /\ r \in Routes
        /\ s \in 1..Len(made) /\ sessions' = [sessions EXCEPT ![r] = s]
    BY <1>15, <1>1, SubscribeLike
  <2>2. p \in Subscribing
    BY <1>15 DEF Subscribe, Subscribing
  <2>3. r \notin Open
    BY <2>2, <1>3
  <2> HIDE DEF s, r
  <2>4. Subscribing = {p}
    BY <2>2, <1>6
  <2>5. Subscribing' = {}
    <3>1. /\ \A q \in Dispatchers : q # p => busy'[q] = busy[q]
          /\ busy'[p].at \in {"idle", "advance"}
      BY <1>15, <1>1, HandOver DEF Subscribe, TypeOK
    <3> QED BY <3>1, <2>4 DEF Subscribing
  <2>6. Open' = Open \cup {r}
    BY <2>1, <1>4 DEF Open
  <2>7. Cardinality(Open') = Cardinality(Open) + 1
    BY <2>3, <2>6, <1>7, FS_AddElement
  <2>8. Cardinality(Subscribing) = 1 /\ Cardinality(Subscribing') = 0
    BY <2>4, <2>5, <1>8, Zenon
  <2>9. current # 0 => /\ made'[current].active = made[current].active
                       /\ made'[current].draining = made[current].draining
    BY <1>4, <2>1 DEF Like
  <2>10. current' # 0 =>
            made'[current'].active = Cardinality(Open') + Cardinality(Subscribing')
    <3>1. current # 0 => made'[current].active = Cardinality(Open) + 1
      BY <2>8, <2>9, <1>3
    <3> QED BY <3>1, <2>1, <2>7, <2>8, <1>7
  <2>11. current' # 0 =>
           made'[current'].draining =
              IF retiring'.at \in {"control", "drain", "stop"} THEN 1 ELSE 0
    BY <2>1, <2>9, <1>3
  <2> QED BY <2>5, <2>10, <2>11
<1>16. CASE Shutdown
  <2> DEFINE s == sessions[retiring.route]
             r == retiring.route
  <2>1. /\ s \in 1..Len(made) /\ Len(made') = Len(made)
        /\ made'[s].active = made[s].active - 1
        /\ made'[s].draining = made[s].draining + 1
        /\ sessions' = [sessions EXCEPT ![r] = 0]
        /\ r \in Routes
        /\ UNCHANGED current
    BY <1>16, <1>1, ShutdownMade
  <2>2. /\ UNCHANGED busy /\ retiring'.at \in {"control", "stop"}
        /\ retiring.at = "waiting"
    BY <1>16 DEF Shutdown
  <2>3. s = current /\ r \in Open
    BY <2>1, <1>5 DEF Open
  <2> HIDE DEF s, r
  <2>4. Subscribing' = {}
    BY <2>2 DEF DispatchLocks, Locked
  <2>5. Subscribing' = Subscribing
    BY <2>2 DEF Subscribing
  <2>6. Open' = Open \ {r}
    BY <2>1, <1>4 DEF Open
  <2>7. Cardinality(Open') = Cardinality(Open) - 1
    BY <2>3, <2>6, <1>7, FS_RemoveElement
  <2>8. current # 0 /\ current' = current
    BY <2>1, <2>3
  <2>9. made[current].active = Cardinality(Open) + 0 /\ made[current].draining = 0
    BY <2>2, <2>4, <2>5, <2>8, <1>3, <1>8
  <2>10. made'[current].active = Cardinality(Open') + 0 /\ made'[current].draining = 1
    <3>1. made'[current].active = made[current].active - 1
          /\ made'[current].draining = made[current].draining + 1
      BY <2>1, <2>3
    <3> QED BY <3>1, <2>7, <2>9, <1>7
  <2> QED BY <2>2, <2>4, <2>8, <2>10, <1>8, <1>7
<1>17. CASE Control
  <2>1. Like(made) /\ UNCHANGED <<current, sessions>>
    BY <1>17, <1>1, ControlLike
  <2>2. UNCHANGED busy /\ retiring.at = "control" /\ retiring'.at = "drain"
    BY <1>17, <1>1 DEF Control, TasksOK, RetiringStates, Idle
  <2> QED BY <2>1, <2>2, <1>9
<1>18. CASE Stop
  <2>1. /\ current \in 1..Len(made)
        /\ made'[current].active = made[current].active
        /\ made'[current].draining = made[current].draining - 1
        /\ UNCHANGED <<current, sessions>>
    BY <1>18, <1>1, <1>5, StopMade DEF Stop
  <2>2. UNCHANGED busy /\ retiring.at = "stop" /\ retiring'.at = "finish"
    BY <1>18, <1>1 DEF Stop, TasksOK, RetiringStates, Idle
  <2>3. Open' = Open /\ Subscribing' = Subscribing
    BY <2>1, <2>2 DEF Open, Subscribing
  <2>4. current # 0
    BY <2>1
  <2>5. made[current].draining = 1
    BY <2>2, <2>4, <1>3
  <2> QED BY <2>1, <2>2, <2>3, <2>4, <2>5, <1>3
<1>19. CASE Finish
  <2>1. /\ current \in 1..Len(made)
        /\ made'[current].active = made[current].active
        /\ made'[current].draining = made[current].draining
        /\ UNCHANGED <<current, sessions>>
    BY <1>19, <1>1, <1>5, FinishMade DEF Finish
  <2>2. UNCHANGED busy /\ retiring.at = "finish" /\ retiring'.at \in {"clean", "idle"}
    BY <1>19 DEF Finish, Idle
  <2>3. Open' = Open /\ Subscribing' = Subscribing
    BY <2>1, <2>2 DEF Open, Subscribing
  <2> QED BY <2>1, <2>2, <2>3, <1>3
<1>20. CASE /\ UNCHANGED <<made, current, sessions>>
            /\ ~Crash /\ ~Clean /\ ~Shutdown /\ ~Finish /\ ~Stop /\ ~Control
            /\ \A p \in Dispatchers : ~Observe(p) /\ ~Subscribe(p)
  <2>1. \A p \in Subscribing : busy'[p] = busy[p]
    BY <1>20, <1>1, SubscribersStay DEF Subscribing
  <2>2. \A p \in Dispatchers : busy'[p].at = "subscribe" => busy'[p] = busy[p]
    BY <1>20, <1>1, BusyMoves
  <2>3. Subscribing' = Subscribing
    BY <2>1, <2>2 DEF Subscribing
  <2>4. Open' = Open
    BY <1>20 DEF Open
  <2>5. retiring'.at \in {"control", "drain", "stop"} <=>
          retiring.at \in {"control", "drain", "stop"}
    BY <1>20, <1>1, RetiringMoves DEF Idle
  <2> QED BY <2>1, <2>3, <2>4, <2>5, <1>20, <1>3
<1>21. CASE /\ UNCHANGED <<made, current, sessions>>
            /\ ~(\A p \in Dispatchers : ~Observe(p) /\ ~Subscribe(p))
  BY <1>21, <1>13, <1>15
<1> QED BY <1>10, <1>11, <1>12, <1>13, <1>14, <1>15, <1>16, <1>17, <1>18, <1>19, <1>20, <1>21, MapCases
-----------------------------------------------------------------------------
\* Sharing is inductive as long as nothing is held or one session retires.
LEMMA SharingStep ==
  ASSUME Base, Sharing, Unheld \/ Once, [Next]_vars
  PROVE  Sharing' /\ (Unheld => Unheld') /\ (Once => Once')
<1>1. (Unheld => Unheld') /\ (Once => Once')
  BY UnheldStep, OnceStep
<1>2. Moded
  BY <1>1 DEF Moded
<1> QED BY <1>1, <1>2, DispatchLocksStep, OneProducerStep, CountedStep DEF Sharing

\* Sharing holds at the start.
LEMMA SharingInit ==
  ASSUME Init
  PROVE  Sharing
<1>1. /\ \A p \in Dispatchers : busy[p].at = "idle"
      /\ retiring.at = "idle" /\ current = 0 /\ Len(made) = 0
      /\ \A r \in Routes : sessions[r] = 0
  BY DEF Init, Idle
<1>2. Subscribing = {} /\ Open = {} /\ ~Locking /\ ~Locked
  BY <1>1 DEF Subscribing, Open, Locking, Locked
<1>3. 1..Len(made) = {}
  BY <1>1
<1>4. DispatchLocks
  BY <1>2 DEF DispatchLocks
<1>5. OneProducer
  BY <1>1, <1>2, <1>3 DEF OneProducer
<1>6. Counted
  BY <1>1, <1>2 DEF Counted
<1> QED BY <1>4, <1>5, <1>6 DEF Sharing

\* Sharing contains the property.
LEMMA SharedProducer ==
  ASSUME Base, Sharing
  PROVE  SessionsShareProducer
<1> DEFINE On == {p \in DOMAIN made : made[p].on}
<1>1. /\ DOMAIN made = 1..Len(made) /\ current \in 0..Len(made) /\ Len(made) \in Nat
      /\ sessions \in [Routes -> 0..Len(made)]
  BY LengthsAreNat DEF Base, TypeOK, MapsOK
<1>2. /\ \A p \in 1..Len(made) : made[p].on => p = current
      /\ \A r \in Open : sessions[r] = current
      /\ current # 0 => (made[current].on <=> retiring.at # "clean")
      /\ retiring.at = "clean" => Open = {}
  BY DEF Sharing, OneProducer
<1>3. On \subseteq {current}
  BY <1>1, <1>2
<1>4. On = {} \/ On = {current}
  BY <1>3
<1>5. Cardinality(On) <= 1
  <2>1. Cardinality({}) = 0 /\ Cardinality({current}) = 1
    BY FS_EmptySet, FS_Singleton, Zenon
  <2> HIDE DEF On
  <2> QED BY <2>1, <1>4
<1>6. ASSUME NEW r \in Routes, sessions[r] # 0
      PROVE  sessions[r] = current /\ made[current].on
  BY <1>2, <1>6 DEF Open
<1> QED BY <1>5, <1>6 DEF SessionsShareProducer

\* No plan both refuses an event and retires twice.
OneOrTheOther == \A p \in Plans : p.refusals = 0 \/ p.retirements <= 1

\* A source has one running producer, the one in `translations`, and every
\* session works on it (server/sessions.rs session_for and retire_session), for
\* any hooks and routes, unless a behaviour both holds an event back and retires
\* twice: then the dispatch lock that retirement removes lets two dispatchers in.
THEOREM ShareOneProducer ==
  ASSUME OneOrTheOther
  PROVE  Spec => []SessionsShareProducer
<1> DEFINE I == Base /\ Sharing /\ (Unheld \/ Once)
<1>1. Init => I
  <2> SUFFICES ASSUME Init PROVE I
    OBVIOUS
  <2>1. left.refusals = 0 \/ left.retirements <= 1
    BY DEF Init, OneOrTheOther
  <2>2. left.retirements <= 1 => Once
    BY DEF Init, Once, Dispatching, Idle
  <2>3. left.refusals = 0 => Unheld
    BY DEF Init, Unheld, Dispatchers
  <2> QED BY <2>1, <2>2, <2>3, BaseInit, SharingInit
<1>2. I /\ [Next]_vars => I'
  BY BaseStep, SharingStep
<1>3. I => SessionsShareProducer
  BY SharedProducer
<1> QED BY <1>1, <1>2, <1>3, PTL DEF Spec
-----------------------------------------------------------------------------
\* Without a producer in the map no route has a session or drains.
LEMMA NoConsumer ==
  ASSUME Base, Sharing, current = 0, NEW r \in Routes
  PROVE  ~Consuming(r) /\ sessions[r] = 0
<1>1. \A q \in Open : sessions[q] = current
  BY DEF Sharing, OneProducer
<1>2. Open = {}
  BY <1>1 DEF Open
<1>3. ~Locked
  BY DEF Sharing, OneProducer
<1> QED BY <1>2, <1>3 DEF Consuming, Open, Locked

\* Without collections nothing is deleted.
LEMMA UncollectedStep ==
  ASSUME TypeOK, Uncollected, [Next]_vars
  PROVE  Uncollected' /\ ~DeleteStorage /\ ~DeleteJournal
<1>1. left \in Left
  BY DEF TypeOK, DataOK
<1>2. left'.collections = 0
  <2>1. left' \in Left /\ left'.collections <= left.collections
    BY <1>1, LeftStep
  <2> QED BY <2>1 DEF Uncollected, Left
<1>3. \/ UNCHANGED gc \/ gc' = Idle \/ Crash \/ Scan \/ CheckWork \/ Check \/ DeleteStorage
  BY Zenon DEF Next, vars, tasks, Ask, Lock, Capture, Dispatch, Take,
         Reconcile, Refuse, Enqueue, Observe, Subscribe, Advance, Translate, Deliver,
         Retiring, Retire, Barrier, Shutdown, Control, Drained, Deadline, Stop, Finish,
         Clean, Collect, StartCollecting, Age, DeleteJournal, KeepJournal
<1>4. ~Scan
  BY DEF Scan, Use, Uncollected
<1>5. ~CheckWork /\ ~Check /\ ~DeleteStorage /\ ~DeleteJournal
  BY DEF CheckWork, Check, DeleteStorage, DeleteJournal, Uncollected
<1> QED BY <1>2, <1>3, <1>4, <1>5 DEF Uncollected, Crash, Idle

\* While retention works under the capture lock with an idle worker and nothing
\* held, the source changes only by its hand or by a restart.
LEMMA Alone ==
  ASSUME Base, UnheldInv, Collecting, [Next]_vars
  PROVE  \/ Crash
         \/ /\ UNCHANGED <<captured, delivered, queue, busy, current, pending, aged>>
            /\ UNCHANGED <<log, storage, writer>> \/ DeleteStorage \/ DeleteJournal
<1>1. /\ queue = <<>> /\ busy["worker"] = Idle /\ busy["reconciler"] = Idle
      /\ \A r \in Routes : pending[r] = <<>>
      /\ current = 0 /\ writer = "none"
  BY DEF UnheldInv, Unheld, Quiet, WorkerIdle
<1>2. ~Dispatch
  <2>1. \A p \in Dispatchers : busy[p].at = "idle"
    BY <1>1 DEF Dispatchers, Idle
  <2>2. ~Take /\ ~Advance /\ \A r \in Routes : ~Reconcile(r)
    BY <1>1, <2>1 DEF Take, Advance, Reconcile, Dispatchers
  <2>3. \A p \in Dispatchers : ~Refuse(p) /\ ~Enqueue(p) /\ ~Observe(p) /\ ~Subscribe(p)
    BY <2>1 DEF Refuse, Enqueue, Observe, Subscribe, Accept
  <2> QED BY <2>2, <2>3 DEF Dispatch
<1>3. \A h \in Hooks, r \in Routes : ~Capture(h, r)
  BY DEF Base, Holders, Holding, Capture
<1>4. \A p \in DOMAIN made : ~Translate(p)
  <2>1. DOMAIN made = 1..Len(made) /\ Len(made) \in Nat
    BY LengthsAreNat DEF Base, TypeOK, MapsOK
  <2>2. \A p \in 1..Len(made) : made[p].on => p = 0
    BY <1>1 DEF UnheldInv, Sharing, OneProducer
  <2> QED BY <2>1, <2>2 DEF Translate
<1>5. \A r \in Routes : ~Deliver(r) /\ ~Retire(r)
  BY <1>1, NoConsumer DEF Deliver, Retire, UnheldInv
<1>6. ~Locked
  BY <1>1 DEF UnheldInv, Sharing, OneProducer
<1>7. ~Control /\ ~Stop /\ ~Finish /\ ~Clean
  BY <1>6 DEF Locked, Control, Stop, Finish, Clean
<1>8. ~Age /\ ~StartCollecting
  BY DEF Age, StartCollecting, Collecting, Idle
<1>9. \/ Crash \/ DeleteStorage \/ DeleteJournal
      \/ UNCHANGED <<log, storage, writer, captured, delivered, queue, busy, current, pending,
                     aged>>
  BY <1>2, <1>3, <1>4, <1>5, <1>7, <1>8, Zenon
  DEF Next, vars, disk, maps, tasks, history, Ask, Lock, Retiring, Barrier, Shutdown, Drained,
      Deadline, Collect, Scan, Check, CheckWork, KeepJournal
<1> QED BY <1>9 DEF DeleteStorage, DeleteJournal, maps, history

\* The storage is deleted without a consumer; the journal only after it, without
\* a writer, and when every event has been delivered.
LEMMA Deleting ==
  ASSUME Base, UncollectedInv \/ UnheldInv, [Next]_vars
  PROVE  /\ DeleteStorage => current = 0 /\ Sharing
         /\ DeleteJournal => /\ storage = Absent /\ writer = "none"
                             /\ \A i \in 1..Len(captured) : i \in delivered
<1>1. CASE UncollectedInv
  BY <1>1, UncollectedStep DEF UncollectedInv, Base
<1>2. CASE UnheldInv
  BY <1>2 DEF UnheldInv, DeleteStorage, DeleteJournal, Quiet, Collecting
<1> QED BY <1>1, <1>2
-----------------------------------------------------------------------------
\* An idle worker gets work from a capture or a restart only.
LEMMA WorkerStaysIdle ==
  ASSUME [Next]_vars, WorkerIdle, TasksOK
  PROVE  \/ WorkerIdle'
         \/ Crash \/ \E h \in Hooks, r \in Routes : Capture(h, r)
<1>1. queue = <<>> /\ busy["worker"] = Idle /\ busy \in [Dispatchers -> BusyStates]
  BY DEF WorkerIdle, TasksOK
<1>2. ~Take /\ ~Advance
  BY <1>1 DEF Take, Advance, Idle
<1>3. ASSUME NEW p \in Dispatchers, Refuse(p) \/ Enqueue(p) \/ Observe(p) \/ Subscribe(p)
      PROVE  WorkerIdle'
  <2>1. p # "worker"
    <3>1. busy[p].at \in {"accept", "subscribe"}
      BY <1>3, Zenon DEF Refuse, Enqueue, Observe, Subscribe, Accept
    <3>2. busy["worker"].at = "idle"
      BY <1>1 DEF Idle
    <3> QED BY <3>1, <3>2, SMTT(20)
  <2>2. \E x : busy' = [busy EXCEPT ![p] = x]
    BY <1>3, Zenon DEF Refuse, Enqueue, Observe, Subscribe, HandedOver, Held
  <2>3. UNCHANGED queue
    BY <1>3 DEF Refuse, Enqueue, Observe, Subscribe
  <2>4. "worker" \in Dispatchers
    BY DEF Dispatchers
  <2> QED BY <1>1, <2>1, <2>2, <2>3, <2>4 DEF WorkerIdle
<1>4. ASSUME NEW r \in Routes, Reconcile(r) PROVE WorkerIdle'
  BY <1>1, <1>4 DEF Reconcile, WorkerIdle, Dispatchers
<1>5. \/ Dispatch \/ Crash \/ (\E h \in Hooks, r \in Routes : Capture(h, r))
      \/ UNCHANGED <<queue, busy>>
  BY Zenon DEF Next, vars, tasks, Ask, Lock, Translate, Deliver,
         Retiring, Retire, Barrier, Shutdown, Control, Drained, Deadline, Stop, Finish,
         Clean, Collect, StartCollecting, Age, Scan, Check, CheckWork, DeleteStorage,
         DeleteJournal, KeepJournal
<1>6. UNCHANGED <<queue, busy>> => WorkerIdle'
  BY <1>1 DEF WorkerIdle
<1> QED BY <1>2, <1>3, <1>4, <1>5, <1>6 DEF Dispatch

\* The steps of retention.
LEMMA GcMoves ==
  ASSUME [Next]_vars
  PROVE  \/ UNCHANGED gc /\ ~Crash /\ ~StartCollecting
         \/ Crash \/ StartCollecting \/ gc' = Idle \/ Scan \/ Check \/ CheckWork \/ DeleteStorage
BY Zenon DEF Next, vars, tasks, Ask, Lock, Capture, Dispatch, Take,
         Reconcile, Refuse, Enqueue, Observe, Subscribe, Advance, Translate, Deliver,
         Retiring, Retire, Barrier, Shutdown, Control, Drained, Deadline, Stop, Finish,
         Clean, Collect, Age, DeleteJournal, KeepJournal, Crash, StartCollecting, Idle

\* What CheckWork found collectible has been delivered: every record has a row,
\* and every row is behind the head of its route.
LEMMA AllDelivered ==
  ASSUME Base, UnheldInv, CheckWork, gc'.at = "deleting"
  PROVE  \A i \in 1..Len(captured) : i \in delivered
<1>1. /\ \A r \in Registered : storage.heads[r] = Committed
      /\ Committed >= gc.recorded /\ gc.at = "checking"
  BY DEF CheckWork, Collectible, Idle
<1>2. gc.recorded = Len(log) /\ Committed <= Len(log) /\ Committed \in Nat /\ Len(log) \in Nat
  BY <1>1, LengthsAreNat DEF UnheldInv, Quiet, Keeping, Faithful, Base
<1>3. Committed = Len(log)
  BY <1>1, <1>2
<1>4. \A n \in 1..Committed : LET x == storage.rows[n] IN x = Retirement \/ x \in delivered
  <2>1. \A r \in Registered, n \in 1..Committed : ~Behind(r, n)
    BY <1>1, <1>2 DEF Behind
  <2>2. \A r, n : Behind(r, n) => r \in Registered
    BY DEF Behind
  <2>3. \A n \in 1..Committed :
        LET x == storage.rows[n] IN
        \/ x = Retirement \/ x \in delivered
        \/ Behind(Home(x), n)
        \/ Home(x) \notin Registered /\ Behind(captured[x], n)
    BY DEF UnheldInv, Keeping, Delivering
  <2> QED BY <2>1, <2>2, <2>3
<1>5. ASSUME NEW i \in 1..Len(captured) PROVE i \in delivered
  <2>1. i \in delivered \/ \E n \in 1..Len(log) : log[n] = i
    BY DEF UnheldInv, Keeping, Kept
  <2>2. ASSUME NEW n \in 1..Len(log), log[n] = i PROVE i \in delivered
    <3>1. storage.rows[n] = i
      BY <1>3, <2>2 DEF UnheldInv, Keeping, Faithful
    <3>2. i # Retirement
      BY LengthsAreNat DEF Retirement, Base
    <3> QED BY <1>3, <1>4, <3>1, <3>2
  <2> QED BY <2>1, <2>2
<1> QED BY <1>5

\* Unless it is deleted, the journal keeps its length or gets one record, and
\* a capture is a record.
LEMMA LogGrows ==
  ASSUME Base, Kept, [Next]_vars, ~DeleteJournal
  PROVE  /\ Len(log) <= Len(log')
         /\ UNCHANGED log \/ Len(log') = Len(log) + 1
         /\ \A h \in Hooks, r \in Routes : Capture(h, r) => Len(log') = Len(log) + 1
<1>1. writer # "stale" /\ log \in Seq(Nat) /\ Len(log) \in Nat
  BY LengthsAreNat DEF Kept, Base, TypeOK, DataOK
<1>2. \A x : Written(x) = Append(log, x)
  BY <1>1 DEF Written
<1>3. \/ UNCHANGED log
      \/ log' = Append(log, Retirement)
      \/ \E h \in Hooks, r \in Routes : Capture(h, r)
  BY <1>2, Zenon DEF Next, vars, disk, Ask, Lock, Dispatch, Take,
         Reconcile, Refuse, Enqueue, Observe, Subscribe, Advance, Translate, Deliver,
         Retiring, Retire, Barrier, Shutdown, Control, Drained, Deadline, Stop, Finish,
         Clean, Collect, StartCollecting, Age, Scan, Check, CheckWork, DeleteStorage,
         KeepJournal, Crash
<1>4. ASSUME NEW h \in Hooks, NEW r \in Routes, Capture(h, r) PROVE Len(log') = Len(log) + 1
  BY <1>4, <1>2, <1>1 DEF Capture
<1> QED BY <1>1, <1>3, <1>4

\* Every step keeps what retention relies on between its check and its deletions.
LEMMA QuietStep ==
  ASSUME Base, UnheldInv, [Next]_vars
  PROVE  Quiet'
<1>1. TypeOK /\ TasksOK /\ Len(log) \in Nat /\ Len(log') \in Nat
  <2>1. Base'
    BY BaseStep
  <2> QED BY <2>1, LengthsAreNat DEF Base, TypeOK, DataOK
<1>2. /\ aged /\ gc.at # "recovering" => WorkerIdle
      /\ gc.at = "waiting" => /\ gc.recorded <= Len(log)
                              /\ gc.recorded = Len(log) => WorkerIdle
      /\ Collecting => WorkerIdle /\ current = 0 /\ writer = "none"
      /\ gc.at = "checking" => gc.recorded = Len(log)
      /\ gc.at \in {"deleting", "unlinking"} =>
           \A i \in 1..Len(captured) : i \in delivered
      /\ gc.at = "unlinking" => storage = Absent
  BY DEF UnheldInv, Quiet
<1>3. CASE Crash
  BY <1>3 DEF Crash, Quiet, Collecting
<1>4. CASE ~Crash /\ Collecting
  <2>1. /\ UNCHANGED <<captured, delivered, queue, busy, current, pending, aged>>
        /\ UNCHANGED <<log, storage, writer>> \/ DeleteStorage \/ DeleteJournal
    BY <1>4, Alone
  <2>2. WorkerIdle' /\ current' = 0
    BY <2>1, <1>2, <1>4 DEF WorkerIdle
  <2>3. CASE DeleteStorage
    BY <2>1, <2>2, <2>3, <1>2 DEF DeleteStorage, Quiet, Collecting, maps
  <2>4. CASE DeleteJournal
    BY <2>2, <2>4 DEF DeleteJournal, Quiet, Collecting, Idle
  <2>5. CASE UNCHANGED <<log, storage, writer>> /\ ~DeleteStorage /\ ~DeleteJournal
    <3>1. CASE UNCHANGED gc
      BY <3>1, <2>1, <2>2, <2>5, <1>2, <1>4 DEF Quiet, Collecting
    <3>2. CASE gc' = Idle
      BY <3>2, <2>2 DEF Quiet, Collecting, Idle
    <3>3. CASE CheckWork /\ gc' # Idle
      <4>1. gc'.at = "deleting"
        BY <3>3, <1>1 DEF CheckWork, TasksOK, GcStates, Idle
      <4>2. \A i \in 1..Len(captured) : i \in delivered
        BY <4>1, <3>3, AllDelivered
      <4> QED BY <4>1, <4>2, <2>1, <2>2, <2>5, <1>2, <1>4 DEF Quiet, Collecting
    <3>4. ~Scan /\ ~Check /\ ~StartCollecting
      BY <1>4 DEF Scan, Check, StartCollecting, Collecting, Idle
    <3> QED BY <3>1, <3>2, <3>3, <3>4, <2>5, <1>4, GcMoves
  <2> QED BY <2>1, <2>3, <2>4, <2>5
<1>5. CASE ~Crash /\ ~Collecting
  <2>1. ~DeleteJournal /\ ~DeleteStorage /\ ~CheckWork
    BY <1>5 DEF DeleteJournal, DeleteStorage, CheckWork, Collecting
  <2>2. /\ Len(log) <= Len(log')
        /\ UNCHANGED log \/ Len(log') = Len(log) + 1
        /\ \A h \in Hooks, r \in Routes : Capture(h, r) => Len(log') = Len(log) + 1
    BY <2>1, LogGrows DEF UnheldInv, Keeping
  <2>3. aged' => aged \/ Age
    BY <1>5, Zenon DEF Next, vars, tasks, Ask, Lock, Capture, Dispatch, Take,
         Reconcile, Refuse, Enqueue, Observe, Subscribe, Advance, Translate, Deliver,
         Retiring, Retire, Barrier, Shutdown, Control, Drained, Deadline, Stop, Finish,
         Clean, Collect, StartCollecting, Scan, Check, CheckWork, DeleteStorage,
         DeleteJournal, KeepJournal
  <2>4. Age => WorkerIdle'
    BY <1>1, BusyFields DEF Age, WorkerIdle, Dispatchers, tasks
  <2>5. StartCollecting => WorkerIdle'
    BY <1>1, BusyFields DEF StartCollecting, WorkerIdle, Dispatchers
  <2>6. (\E h \in Hooks, r \in Routes : Capture(h, r)) => ~aged'
    BY DEF Capture
  <2>7. WorkerIdle => WorkerIdle' \/ \E h \in Hooks, r \in Routes : Capture(h, r)
    BY <1>1, <1>5, WorkerStaysIdle
  <2>8. aged' /\ gc'.at # "recovering" => WorkerIdle'
    <3>1. gc'.at # "recovering" => gc.at # "recovering" \/ StartCollecting
      <4>1. \/ UNCHANGED gc \/ Crash \/ StartCollecting \/ Scan \/ Check \/ CheckWork
            \/ DeleteStorage \/ DeleteJournal \/ KeepJournal
        BY Zenon DEF Next, vars, tasks, Ask, Lock, Capture, Dispatch, Take,
         Reconcile, Refuse, Enqueue, Observe, Subscribe, Advance, Translate, Deliver,
         Retiring, Retire, Barrier, Shutdown, Control, Drained, Deadline, Stop, Finish,
         Clean, Collect, Age
      <4>2. gc.at = "recovering" => ~Scan /\ ~Check /\ ~KeepJournal
        BY DEF Scan, Check, KeepJournal, Idle
      <4> QED BY <4>1, <4>2, <1>5, <2>1
    <3> QED BY <3>1, <2>3, <2>4, <2>5, <2>6, <2>7, <1>2
  <2>9. CASE UNCHANGED gc
    <3>1. gc.at = "waiting" => gc.recorded \in Nat
      BY <1>1 DEF TasksOK, GcStates, Idle
    <3>2. gc.at = "waiting" => /\ gc.recorded <= Len(log')
                               /\ gc.recorded = Len(log') => WorkerIdle'
      <4> SUFFICES ASSUME gc.at = "waiting"
                   PROVE  /\ gc.recorded <= Len(log')
                          /\ gc.recorded = Len(log') => WorkerIdle'
        OBVIOUS
      <4>1. gc.recorded <= Len(log')
        BY <3>1, <2>2, <1>1, <1>2
      <4>2. ASSUME gc.recorded = Len(log') PROVE WorkerIdle'
        <5>1. Len(log') = Len(log) /\ gc.recorded = Len(log)
          BY <4>2, <3>1, <2>2, <1>1, <1>2
        <5>2. ~\E h \in Hooks, r \in Routes : Capture(h, r)
          BY <5>1, <2>2, <1>1
        <5> QED BY <5>1, <5>2, <2>7, <1>2
      <4> QED BY <4>1, <4>2
    <3> QED BY <2>8, <2>9, <3>2, <1>5 DEF Quiet, Collecting
  <2>10. CASE gc' = Idle
    BY <2>8, <2>10 DEF Quiet, Collecting, Idle
  <2>11. CASE Scan
    <3>1. WorkerIdle /\ UNCHANGED <<log, queue, busy>>
      BY <2>11, <1>2 DEF Scan, Idle, disk
    <3>2. WorkerIdle'
      BY <3>1 DEF WorkerIdle
    <3>3. \/ gc' = Idle
          \/ gc'.at = "waiting" /\ gc'.recorded = Len(log)
      BY <2>11 DEF Scan
    <3>4. CASE gc'.at = "waiting" /\ gc'.recorded = Len(log)
      BY <3>1, <3>2, <3>4, <1>1 DEF Quiet, Collecting
    <3> QED BY <3>3, <3>4, <2>10
  <2>12. CASE Check /\ gc' # Idle
    <3>1. /\ gc.at = "waiting" /\ writer = "none" /\ current = 0
          /\ Len(log) = gc.recorded
          /\ gc' = [gc EXCEPT !.at = "checking"]
          /\ UNCHANGED <<log, queue, busy, writer, current>>
      BY <2>12 DEF Check, disk, maps
    <3>2. gc'.at = "checking" /\ gc'.recorded = gc.recorded
      BY <3>1, <1>1 DEF TasksOK, GcStates, Idle
    <3>3. WorkerIdle'
      BY <3>1, <1>2 DEF WorkerIdle
    <3> QED BY <3>1, <3>2, <3>3 DEF Quiet, Collecting
  <2>13. UNCHANGED gc \/ gc' = Idle \/ Scan \/ Check
    BY <2>1, <1>5, GcMoves DEF StartCollecting
  <2> QED BY <2>9, <2>10, <2>11, <2>12, <2>13
<1> QED BY <1>3, <1>4, <1>5
-----------------------------------------------------------------------------
\* What the heads h and the delivered events d say of row n.
Fate(h, d, n) ==
  LET x == storage.rows[n] IN
  \/ x = Retirement \/ x \in d
  \/ h[Home(x)] # Unregistered /\ h[Home(x)] < n
  \/ h[Home(x)] = Unregistered /\ h[captured[x]] # Unregistered /\ h[captured[x]] < n

\* A row that is no control is about a captured event, with a route to deliver it.
LEMMA Rows ==
  ASSUME Referable, NEW n \in 1..Committed, storage.rows[n] # Retirement
  PROVE  /\ storage.rows[n] \in 1..Len(captured)
         /\ captured[storage.rows[n]] \in Routes
         /\ Home(storage.rows[n]) \in Routes
<1>1. /\ storage.rows \in Seq(Nat) /\ Committed = Len(storage.rows) /\ Len(captured) \in Nat
      /\ captured \in Seq(Routes) /\ left.linked \in [Routes -> Routes]
  BY LengthsAreNat, Zenon DEF Referable, TypeOK, DataOK, Storage, Committed, Left
<1> DEFINE x == storage.rows[n]
<1>2. x \in Nat /\ x <= Len(captured) /\ x # 0
  BY <1>1 DEF Referable, Refs, Retirement
<1> HIDE DEF x
<1>3. x \in 1..Len(captured)
  BY <1>1, <1>2
<1>4. captured[x] \in Routes /\ Home(x) \in Routes
  BY <1>1, <1>3 DEF Home
<1> QED BY <1>3, <1>4 DEF x

\* Delivering, said with the fates of the rows.
LEMMA FatesAreHeads ==
  ASSUME Referable
  PROVE  Delivering <=>
           /\ \A r \in Routes : storage.heads[r] <= Committed
           /\ \A r \in Routes : Consuming(r) \/ sessions[r] # 0 =>
                r \in Registered /\ left.linked[r] = r
           /\ \A n \in 1..Committed : Fate(storage.heads, delivered, n)
<1>1. ASSUME NEW n \in 1..Committed
      PROVE  Fate(storage.heads, delivered, n) <=>
               LET x == storage.rows[n] IN
               \/ x = Retirement \/ x \in delivered
               \/ Behind(Home(x), n)
               \/ Home(x) \notin Registered /\ Behind(captured[x], n)
  <2>1. CASE storage.rows[n] = Retirement
    BY <2>1 DEF Fate
  <2>2. CASE storage.rows[n] # Retirement
    BY <2>2, Rows DEF Fate, Behind, Registered
  <2> QED BY <2>1, <2>2
<1> QED BY <1>1 DEF Delivering

\* Registering a route loses no row: the new head is at most the lowest head,
\* behind which the row waited for the captured route.
LEMMA RegisteringKeepsFate ==
  ASSUME Referable, NEW r \in Routes, NEW n \in 1..Committed,
         Fate(storage.heads, delivered, n)
  PROVE  Fate(Register(storage.heads, r), delivered, n)
<1> DEFINE h == Register(storage.heads, r)
           x == storage.rows[n]
<1>1. storage \in Storage /\ storage.heads \in [Routes -> Int] /\ n \in Nat
      /\ \A q \in Routes : storage.heads[q] >= Unregistered
  BY LengthsAreNat DEF Referable, TypeOK, DataOK, Storage, Refs
<1>2. /\ h \in [Routes -> Int]
      /\ \A q \in Routes : q # r \/ r \in Registered => h[q] = storage.heads[q]
      /\ h[r] >= 0
      /\ r \notin Registered => \A q \in Registered : h[r] <= storage.heads[q]
  BY <1>1, Registering
<1>3. \A q \in Routes : q \in Registered <=> storage.heads[q] # Unregistered
  BY DEF Registered
<1>4. CASE x = Retirement \/ x \in delivered
  BY <1>4 DEF Fate
<1>5. CASE x # Retirement /\ x \notin delivered
  <2>1. captured[x] \in Routes /\ Home(x) \in Routes
    BY <1>5, Rows
  <2>2. \/ storage.heads[Home(x)] # Unregistered /\ storage.heads[Home(x)] < n
        \/ /\ storage.heads[Home(x)] = Unregistered
           /\ storage.heads[captured[x]] # Unregistered /\ storage.heads[captured[x]] < n
    BY <1>5 DEF Fate
  <2> HIDE DEF h, x
  <2>3. \/ h[Home(x)] # Unregistered /\ h[Home(x)] < n
        \/ h[Home(x)] = Unregistered /\ h[captured[x]] # Unregistered /\ h[captured[x]] < n
    <3>1. CASE r \in Registered \/ (Home(x) # r /\ captured[x] # r)
      BY <3>1, <2>1, <2>2, <1>2
    <3>2. CASE r \notin Registered /\ Home(x) = r
      <4>1. captured[x] \in Registered /\ storage.heads[captured[x]] < n
        BY <3>2, <2>1, <2>2, <1>3
      <4>2. h[r] <= storage.heads[captured[x]]
        BY <3>2, <4>1, <1>2
      <4>3. h[r] < n /\ h[r] # Unregistered
        BY <4>1, <4>2, <1>1, <1>2, <2>1 DEF Unregistered
      <4> QED BY <4>3, <3>2
    <3>3. CASE r \notin Registered /\ Home(x) # r /\ captured[x] = r
      BY <3>3, <2>1, <2>2, <1>2, <1>3
    <3> QED BY <3>1, <3>2, <3>3
  <2> QED BY <2>3 DEF Fate, x, h
<1> QED BY <1>4, <1>5 DEF h

\* The steps that change rows, heads or what is delivered.
LEMMA StorageMoves ==
  ASSUME Referable, [Next]_vars
  PROVE  \/ storage'.rows = storage.rows /\ storage'.heads = storage.heads /\ UNCHANGED delivered
         \/ \E p \in DOMAIN made : Translate(p)
         \/ \E p \in Dispatchers : Subscribe(p)
         \/ \E r \in Routes : Deliver(r)
         \/ DeleteStorage
<1>1. storage \in Storage
  BY DEF Referable, TypeOK, DataOK
<1>2. \/ UNCHANGED <<storage, delivered>>
      \/ storage' = [storage EXCEPT !.exists = TRUE] /\ UNCHANGED delivered
      \/ \E p \in DOMAIN made : Translate(p)
      \/ \E p \in Dispatchers : Subscribe(p)
      \/ \E r \in Routes : Deliver(r)
      \/ DeleteStorage
  BY Zenon DEF Next, vars, disk, history, Ask, Lock, Capture, Dispatch, Take, TranslationFor,
         Reconcile, Refuse, Enqueue, Observe, Advance,
         Retiring, Retire, Barrier, Shutdown, Control, Drained, Deadline, Stop, Finish,
         Clean, Collect, StartCollecting, Age, Scan, Check, CheckWork, DeleteJournal,
         KeepJournal, Crash
<1> QED BY <1>1, <1>2 DEF Storage

\* Translate appends the next record as a row and registers its route.
LEMMA Translated ==
  ASSUME Referable, NEW p \in DOMAIN made, Translate(p)
  PROVE  LET x == log[Committed + 1] IN
         /\ Committed < Len(log) /\ x \in Nat /\ x <= Len(captured)
         /\ storage'.rows = Append(storage.rows, x) /\ Committed' = Committed + 1
         /\ storage'.rows[Committed + 1] = x
         /\ \A n \in 1..Committed : storage'.rows[n] = storage.rows[n]
         /\ storage'.heads = IF x = Retirement THEN storage.heads
                             ELSE Register(storage.heads, captured[x])
         /\ x # Retirement => captured[x] \in Routes /\ Home(x) \in Routes
         /\ UNCHANGED <<log, captured, delivered, left, sessions, retiring, gc>>
<1>1. /\ storage \in Storage /\ log \in Seq(Nat)
      /\ Committed \in Nat /\ Len(log) \in Nat /\ Len(captured) \in Nat
      /\ storage.rows \in Seq(Nat) /\ Committed = Len(storage.rows)
      /\ Committed' = Len(storage'.rows)
      /\ captured \in Seq(Routes) /\ left.linked \in [Routes -> Routes]
  BY LengthsAreNat, Zenon DEF Referable, TypeOK, DataOK, Storage, Committed, Left
<1> DEFINE x == log[Committed + 1]
<1>2. /\ Committed < Len(log) /\ storage'.rows = Append(storage.rows, x)
      /\ storage'.heads = IF x = Retirement THEN storage.heads
                             ELSE Register(storage.heads, captured[x])
  BY <1>1 DEF Translate, Storage
<1>3. UNCHANGED <<log, captured, delivered, left, sessions, retiring, gc>>
  BY DEF Translate, maps, tasks, history
<1>4. x \in Nat /\ x <= Len(captured)
  BY <1>1, <1>2 DEF Referable, Refs
<1> HIDE DEF x
<1>5. /\ Committed' = Committed + 1 /\ storage'.rows[Committed + 1] = x
      /\ \A n \in 1..Committed : storage'.rows[n] = storage.rows[n]
  BY <1>1, <1>2, <1>4
<1>6. ASSUME x # Retirement PROVE captured[x] \in Routes /\ Home(x) \in Routes
  <2>1. x \in 1..Len(captured)
    BY <1>6, <1>4, <1>1 DEF Retirement
  <2> QED BY <2>1, <1>1 DEF Home
<1> QED BY <1>2, <1>3, <1>4, <1>5, <1>6, Zenon DEF x
-----------------------------------------------------------------------------
\* Every step keeps the rows equal to the records of the journal.
LEMMA FaithfulStep ==
  ASSUME Base, Faithful, UncollectedInv \/ UnheldInv, [Next]_vars
  PROVE  Faithful'
<1>1. /\ Referable /\ Committed \in Nat /\ Len(log) \in Nat
      /\ Committed' = Len(storage'.rows)
  BY LengthsAreNat DEF Base, Referable, Committed
<1>2. Committed <= Len(log) /\ \A n \in 1..Committed : storage.rows[n] = log[n]
  BY DEF Faithful
<1>3. CASE DeleteStorage
  <2>1. Committed' = 0
    BY <1>3, <1>1 DEF DeleteStorage, Absent
  <2>2. UNCHANGED log
    BY <1>3 DEF DeleteStorage
  <2> QED BY <2>1, <2>2, <1>1 DEF Faithful
<1>4. CASE DeleteJournal
  <2>1. storage = Absent /\ UNCHANGED storage /\ log' = <<>>
    BY <1>4, Deleting DEF DeleteJournal
  <2>2. Committed' = 0
    BY <2>1, <1>1 DEF Absent
  <2> QED BY <2>1, <2>2, <1>1 DEF Faithful
<1>5. ASSUME NEW p \in DOMAIN made, Translate(p) PROVE Faithful'
  <2>1. /\ Committed < Len(log) /\ Committed' = Committed + 1
        /\ storage'.rows[Committed + 1] = log[Committed + 1]
        /\ \A n \in 1..Committed : storage'.rows[n] = storage.rows[n]
        /\ UNCHANGED log
    BY <1>5, <1>1, Translated
  <2> QED BY <2>1, <1>1, <1>2 DEF Faithful
<1>6. CASE /\ ~DeleteStorage /\ ~DeleteJournal
           /\ \A p \in DOMAIN made : ~Translate(p)
  <2>1. storage'.rows = storage.rows
    <3>1. storage \in Storage
      BY <1>1 DEF Referable, TypeOK, DataOK
    <3>2. ASSUME NEW p \in Dispatchers, Subscribe(p) PROVE storage'.rows = storage.rows
      BY <3>1, <3>2 DEF Subscribe, Storage
    <3>3. ASSUME NEW r \in Routes, Deliver(r) PROVE storage'.rows = storage.rows
      BY <3>1, <3>3 DEF Deliver, Storage
    <3> QED BY <3>2, <3>3, <1>6, <1>1, StorageMoves
  <2>2. Len(log) <= Len(log') /\ (\A n \in 1..Len(log) : log'[n] = log[n])
        /\ Len(log') \in Nat
    <3>1. Base'
      BY BaseStep
    <3>2. Len(log') \in Nat
      BY <3>1, LengthsAreNat DEF Base, TypeOK, DataOK
    <3> QED BY <3>2, <1>1, <1>6, DataStep
  <2>3. Committed' = Committed
    BY <2>1 DEF Committed
  <2> QED BY <2>1, <2>2, <2>3, <1>1, <1>2 DEF Faithful
<1> QED BY <1>3, <1>4, <1>5, <1>6

\* Every step keeps each captured event in the journal until it is delivered.
LEMMA KeptStep ==
  ASSUME Base, Kept, UncollectedInv \/ UnheldInv, [Next]_vars
  PROVE  Kept'
<1>1. /\ writer # "stale" /\ Len(captured) \in Nat /\ Len(log) \in Nat /\ log \in Seq(Nat)
      /\ captured \in Seq(Routes) /\ Referable
      /\ \A i \in 1..Len(captured) :
             i \in delivered \/ \E n \in 1..Len(log) : log[n] = i
  BY LengthsAreNat DEF Base, TypeOK, DataOK, Kept, Referable
<1>2. writer' # "stale"
  <2>1. DeleteJournal => writer = "none"
    BY Deleting
  <2>2. DeleteJournal \/ writer' \in {writer, "open", "none"}
    BY Zenon DEF Next, vars, disk, maps, Ask, Lock, Capture, Dispatch, Take, TranslationFor,
         Reconcile, Refuse, Enqueue, Observe, Subscribe, Advance, Translate, Deliver,
         Retiring, Retire, Barrier, Shutdown, Control, Drained, Deadline, Stop, Finish,
         Clean, Collect, StartCollecting, Age, Scan, Check, CheckWork, DeleteStorage,
         KeepJournal, Crash
  <2> QED BY <2>1, <2>2, <1>1 DEF DeleteJournal
<1>3. delivered \subseteq delivered'
  BY Zenon DEF Next, vars, history, Ask, Lock, Capture, Dispatch, Take,
         Reconcile, Refuse, Enqueue, Observe, Subscribe, Advance, Translate, Deliver,
         Retiring, Retire, Barrier, Shutdown, Control, Drained, Deadline, Stop, Finish,
         Clean, Collect, StartCollecting, Age, Scan, Check, CheckWork, DeleteStorage,
         DeleteJournal, KeepJournal, Crash
<1>4. ASSUME NEW h \in Hooks, NEW r \in Routes, Capture(h, r) PROVE Kept'
  <2>1. captured' = Append(captured, r) /\ log' = Append(log, Len(captured'))
    BY <1>4, <1>1 DEF Capture, Written
  <2>2. Len(captured') = Len(captured) + 1
    BY <2>1, <1>1
  <2>3. /\ Len(log') = Len(log) + 1 /\ log'[Len(log) + 1] = Len(captured) + 1
        /\ \A n \in 1..Len(log) : log'[n] = log[n]
    BY <2>1, <2>2, <1>1
  <2>4. ASSUME NEW i \in 1..Len(captured')
        PROVE  i \in delivered' \/ \E n \in 1..Len(log') : log'[n] = i
    <3>1. CASE i = Len(captured) + 1
      <4>1. Len(log) + 1 \in 1..Len(log')
        BY <2>3, <1>1
      <4> QED BY <4>1, <3>1, <2>3
    <3>2. CASE i \in 1..Len(captured)
      <4>1. i \in delivered \/ \E n \in 1..Len(log) : log[n] = i
        BY <3>2, <1>1
      <4>2. \A n \in 1..Len(log) : n \in 1..Len(log')
        BY <2>3, <1>1
      <4> QED BY <4>1, <4>2, <2>3, <1>3
    <3> QED BY <3>1, <3>2, <2>2, <1>1
  <2> QED BY <2>4, <1>2 DEF Kept
<1>5. CASE DeleteJournal
  <2>1. \A i \in 1..Len(captured) : i \in delivered
    BY <1>5, Deleting
  <2>2. UNCHANGED captured
    BY <1>5 DEF DeleteJournal, history
  <2> QED BY <2>1, <2>2, <1>2, <1>3 DEF Kept
<1>6. CASE ~DeleteJournal /\ \A h \in Hooks, r \in Routes : ~Capture(h, r)
  <2>1. UNCHANGED captured
    BY <1>6, Zenon DEF Next, vars, history, Ask, Lock, Dispatch, Take,
         Reconcile, Refuse, Enqueue, Observe, Subscribe, Advance, Translate, Deliver,
         Retiring, Retire, Barrier, Shutdown, Control, Drained, Deadline, Stop, Finish,
         Clean, Collect, StartCollecting, Age, Scan, Check, CheckWork, DeleteStorage,
         DeleteJournal, KeepJournal, Crash
  <2>2. Len(log) <= Len(log') /\ (\A n \in 1..Len(log) : log'[n] = log[n])
        /\ Len(log') \in Nat
    <3>1. Base'
      BY BaseStep
    <3>2. Len(log') \in Nat
      BY <3>1, LengthsAreNat DEF Base, TypeOK, DataOK
    <3> QED BY <3>2, <1>1, <1>6, DataStep
  <2>3. \A n \in 1..Len(log) : n \in 1..Len(log')
    BY <2>2, <1>1
  <2> QED BY <2>1, <2>2, <2>3, <1>1, <1>2, <1>3 DEF Kept
<1> QED BY <1>4, <1>5, <1>6
-----------------------------------------------------------------------------
\* A route becomes consuming by Subscribe only.
LEMMA ConsumingMoves ==
  ASSUME Referable, [Next]_vars, NEW r \in Routes,
         Consuming(r)' \/ sessions'[r] # 0
  PROVE  \/ Consuming(r)
         \/ \E p \in Dispatchers : Subscribe(p) /\ r = left.linked[busy[p].event.route]
<1>1. TasksOK /\ sessions \in [Routes -> 0..Len(made)]
      /\ (retiring.at \in {"barrier", "waiting"} => sessions[retiring.route] # 0)
  BY DEF Referable, TypeOK, MapsOK, Refs
<1>2. CASE sessions'[r] # 0
  <2>1. CASE sessions[r] # 0
    BY <2>1 DEF Consuming
  <2>2. CASE sessions[r] = 0
    <3>1. \/ UNCHANGED sessions \/ Crash \/ Shutdown \/ \E p \in Dispatchers : Subscribe(p)
      BY Zenon DEF Next, vars, maps, Ask, Lock, Capture, Dispatch, Take, TranslationFor,
         Reconcile, Refuse, Enqueue, Observe, Advance, Translate, Deliver,
         Retiring, Retire, Barrier, Control, Drained, Deadline, Stop, Finish,
         Clean, Collect, StartCollecting, Age, Scan, Check, CheckWork, DeleteStorage,
         DeleteJournal, KeepJournal
    <3>2. ~Crash
      BY <1>2 DEF Crash
    <3>3. ~Shutdown
      BY <1>1, <1>2, <2>2 DEF Shutdown
    <3>4. ASSUME NEW p \in Dispatchers, Subscribe(p)
          PROVE  r = left.linked[busy[p].event.route]
      <4>1. \E s : sessions' = [sessions EXCEPT ![left.linked[busy[p].event.route]] = s]
        BY <3>4, Zenon DEF Subscribe
      <4> QED BY <4>1, <1>1, <1>2, <2>2
    <3> QED BY <3>1, <3>2, <3>3, <3>4, <1>2, <2>2
  <2> QED BY <2>1, <2>2
<1>3. CASE retiring'.at \in {"control", "drain", "stop"} /\ retiring'.route = r
  <2>1. \/ retiring' = retiring
        \/ retiring.at = "waiting" /\ retiring.route = r
        \/ retiring.at \in {"control", "drain", "stop"} /\ retiring.route = r
    BY <1>1, <1>3, RetiringMoves DEF Idle
  <2> QED BY <2>1, <1>1, <1>3 DEF Consuming
<1> QED BY <1>2, <1>3 DEF Consuming

\* Subscribe registers the delivering route of its event.
LEMMA Registers ==
  ASSUME Referable, NEW p \in Dispatchers, Subscribe(p)
  PROVE  LET r == left.linked[busy[p].event.route] IN
         /\ r \in Routes /\ left.linked[r] = r
         /\ storage'.rows = storage.rows
         /\ storage'.heads = Register(storage.heads, r)
         /\ UNCHANGED <<captured, delivered>>
<1>1. storage \in Storage /\ left \in Left /\ busy[p].event \in Event
  BY BusyFields DEF Referable, TypeOK, DataOK, Subscribe
<1>2. busy[p].event.route \in Routes /\ left.linked[busy[p].event.route] \in Routes
  BY <1>1, EventRoute
<1>3. left.linked[left.linked[busy[p].event.route]] = left.linked[busy[p].event.route]
  BY <1>2 DEF Referable, Refs
<1>4. /\ storage'.rows = storage.rows
      /\ storage'.heads = Register(storage.heads, left.linked[busy[p].event.route])
      /\ UNCHANGED <<captured, delivered>>
  BY <1>1 DEF Subscribe, Storage
<1> QED BY <1>2, <1>3, <1>4

\* Delivering, of the heads, rows and delivered events of the next state.
LEMMA DeliveringNext ==
  ASSUME Referable, Referable', left'.linked = left.linked,
         \A r \in Routes : storage'.heads[r] <= Committed',
         \A r \in Routes : Consuming(r)' \/ sessions'[r] # 0 =>
              storage'.heads[r] # Unregistered /\ left.linked[r] = r,
         \A n \in 1..Committed' :
            LET x == storage'.rows[n] IN
            \/ x = Retirement \/ x \in delivered'
            \/ /\ x \in 1..Len(captured')
               /\ LET c == captured'[x] IN
                  \/ /\ storage'.heads[left.linked[c]] # Unregistered
                     /\ storage'.heads[left.linked[c]] < n
                  \/ /\ storage'.heads[left.linked[c]] = Unregistered
                     /\ storage'.heads[c] # Unregistered /\ storage'.heads[c] < n
  PROVE  Delivering'
<1>1. /\ captured' \in Seq(Routes) /\ left.linked \in [Routes -> Routes]
  BY DEF Referable, TypeOK, DataOK, Left
<1>2. ASSUME NEW n \in 1..Committed'
      PROVE  (LET x == storage.rows[n] IN
              \/ x = Retirement \/ x \in delivered
              \/ Behind(Home(x), n)
              \/ Home(x) \notin Registered /\ Behind(captured[x], n))'
  <2>1. CASE storage'.rows[n] \notin 1..Len(captured')
    BY <2>1
  <2>2. CASE storage'.rows[n] \in 1..Len(captured')
    <3>1. /\ captured'[storage'.rows[n]] \in Routes
          /\ left.linked[captured'[storage'.rows[n]]] \in Routes
      BY <2>2, <1>1
    <3> QED BY <3>1, <2>2 DEF Behind, Home, Registered
  <2> QED BY <2>1, <2>2
<1>3. (\A r \in Routes : storage.heads[r] <= Committed)'
  OBVIOUS
<1>4. (\A r \in Routes : Consuming(r) \/ sessions[r] # 0 =>
        r \in Registered /\ left.linked[r] = r)'
  BY DEF Registered
<1>5. (\A n \in 1..Committed :
        LET x == storage.rows[n] IN
        \/ x = Retirement \/ x \in delivered
        \/ Behind(Home(x), n)
        \/ Home(x) \notin Registered /\ Behind(captured[x], n))'
  BY <1>2
<1> QED BY <1>3, <1>4, <1>5 DEF Delivering
-----------------------------------------------------------------------------
\* A fate said of the next state's captures.
LEMMA FateNext ==
  ASSUME Referable, [Next]_vars, NEW n \in 1..Committed, NEW h, NEW d, Fate(h, d, n)
  PROVE  LET x == storage.rows[n] IN
         \/ x = Retirement \/ x \in d
         \/ /\ x \in 1..Len(captured')
            /\ LET c == captured'[x] IN
               \/ h[left.linked[c]] # Unregistered /\ h[left.linked[c]] < n
               \/ /\ h[left.linked[c]] = Unregistered
                  /\ h[c] # Unregistered /\ h[c] < n
<1>1. CASE storage.rows[n] = Retirement
  BY <1>1
<1>2. CASE storage.rows[n] # Retirement
  <2>1. storage.rows[n] \in 1..Len(captured)
    BY <1>2, Rows
  <2>2. /\ Len(captured) \in Nat /\ Len(captured') \in Nat /\ Len(captured) <= Len(captured')
        /\ \A m \in 1..Len(captured) : captured'[m] = captured[m]
    <3>1. TypeOK'
      BY TypeStep
    <3>2. Len(captured) \in Nat /\ Len(captured') \in Nat
      BY <3>1, LengthsAreNat DEF Referable, TypeOK, DataOK
    <3> QED BY <3>2, DataStep
  <2>3. /\ storage.rows[n] \in 1..Len(captured')
        /\ captured'[storage.rows[n]] = captured[storage.rows[n]]
    BY <2>1, <2>2
  <2> QED BY <2>3, <1>2 DEF Fate, Home
<1> QED BY <1>1, <1>2

\* No step moves a head past a row that its route has not delivered.
LEMMA DeliveringStep ==
  ASSUME Base, Delivering, UncollectedInv \/ UnheldInv, [Next]_vars
  PROVE  Delivering'
<1>1. Referable /\ Base' /\ Referable' /\ left'.linked = left.linked
  BY BaseStep, LeftStep DEF Base, Referable, TypeOK, DataOK
<1>2. /\ \A r \in Routes : storage.heads[r] <= Committed
      /\ \A r \in Routes : Consuming(r) \/ sessions[r] # 0 =>
           r \in Registered /\ left.linked[r] = r
      /\ \A n \in 1..Committed : Fate(storage.heads, delivered, n)
  BY <1>1, FatesAreHeads
<1>3. /\ storage \in Storage /\ storage.heads \in [Routes -> Int] /\ Committed \in Nat
      /\ \A q \in Routes : storage.heads[q] >= Unregistered
      /\ \A q \in Routes : q \in Registered <=> storage.heads[q] # Unregistered
  BY <1>1, LengthsAreNat, Zenon DEF Referable, TypeOK, DataOK, Storage, Refs, Registered
<1>4. ASSUME storage'.rows = storage.rows,
             \A r \in Routes : storage'.heads[r] <= Committed,
             \A r \in Registered : storage'.heads[r] # Unregistered,
             \A p \in Dispatchers : Subscribe(p) =>
               storage'.heads[left.linked[busy[p].event.route]] # Unregistered,
             \A n \in 1..Committed : Fate(storage'.heads, delivered', n)
      PROVE  Delivering'
  <2>1. Committed' = Committed
    BY <1>4 DEF Committed
  <2>2. ASSUME NEW r \in Routes, Consuming(r)' \/ sessions'[r] # 0
        PROVE  storage'.heads[r] # Unregistered /\ left.linked[r] = r
    <3>1. CASE Consuming(r)
      BY <3>1, <1>2, <1>4
    <3>2. ASSUME NEW p \in Dispatchers, Subscribe(p), r = left.linked[busy[p].event.route]
          PROVE  storage'.heads[r] # Unregistered /\ left.linked[r] = r
      BY <3>2, <1>1, <1>4, Registers
    <3> QED BY <3>1, <3>2, <2>2, <1>1, ConsumingMoves
  <2>3. ASSUME NEW n \in 1..Committed
        PROVE  LET x == storage'.rows[n] IN
               \/ x = Retirement \/ x \in delivered'
               \/ /\ x \in 1..Len(captured')
                  /\ LET c == captured'[x] IN
                     \/ /\ storage'.heads[left.linked[c]] # Unregistered
                        /\ storage'.heads[left.linked[c]] < n
                     \/ /\ storage'.heads[left.linked[c]] = Unregistered
                        /\ storage'.heads[c] # Unregistered /\ storage'.heads[c] < n
    <3>1. Fate(storage'.heads, delivered', n)
      BY <1>4
    <3> QED BY <3>1, <1>1, <1>4, FateNext
  <2> QED BY <2>1, <2>2, <2>3, <1>1, <1>4, DeliveringNext
<1>5. CASE /\ storage'.rows = storage.rows /\ storage'.heads = storage.heads
           /\ UNCHANGED delivered /\ \A p \in Dispatchers : ~Subscribe(p)
  <2>1. \A n \in 1..Committed : Fate(storage'.heads, delivered', n)
    BY <1>5, <1>2
  <2>2. \A r \in Routes : storage'.heads[r] <= Committed
    BY <1>5, <1>2
  <2>3. \A r \in Registered : storage'.heads[r] # Unregistered
    BY <1>5 DEF Registered
  <2> QED BY <1>5, <1>4, <2>1, <2>2, <2>3
<1>6. ASSUME NEW p \in Dispatchers, Subscribe(p) PROVE Delivering'
  <2> DEFINE r == left.linked[busy[p].event.route]
             h == Register(storage.heads, r)
  <2>1. /\ r \in Routes /\ storage'.rows = storage.rows /\ storage'.heads = h
        /\ UNCHANGED delivered
    BY <1>1, <1>6, Registers
  <2>2. /\ \A q \in Routes : q # r \/ r \in Registered => h[q] = storage.heads[q]
        /\ h[r] >= 0 /\ h \in [Routes -> Int]
        /\ \A q \in Routes : h[q] <= Committed
    BY <2>1, <1>2, <1>3, Registering
  <2>3. \A n \in 1..Committed : Fate(h, delivered, n)
    BY <2>1, <1>1, <1>2, RegisteringKeepsFate
  <2>4. \A q \in Registered : h[q] # Unregistered
    BY <2>1, <2>2, <1>3 DEF Registered, Unregistered
  <2>5. ASSUME NEW q \in Dispatchers, Subscribe(q)
        PROVE  h[left.linked[busy[q].event.route]] # Unregistered
    <3>1. left.linked[busy[q].event.route] \in Routes
      BY <2>5, <1>1, Registers
    <3>2. storage'.heads[left.linked[busy[q].event.route]] >= 0
      BY <3>1, <2>5, <1>1, <1>2, <1>3, Registering, Registers
    <3> QED BY <3>2, <2>1 DEF Unregistered
  <2> HIDE DEF h, r
  <2> QED BY <2>1, <2>2, <2>3, <2>4, <2>5, <1>4
<1>7. ASSUME NEW r \in Routes, Deliver(r) PROVE Delivering'
  <2> DEFINE n == storage.heads[r] + 1
             x == storage.rows[n]
             h == [storage.heads EXCEPT ![r] = n]
  <2>1. /\ Consuming(r) /\ storage.heads[r] < Committed
        /\ storage'.rows = storage.rows /\ storage'.heads = h
        /\ delivered' = IF x # Retirement /\ Home(x) = r THEN delivered \cup {x}
                        ELSE delivered
        /\ \A p \in Dispatchers : ~Subscribe(p)
    <3>1. \A p \in Dispatchers : Subscribe(p) => busy'[p] # busy[p]
      BY <1>1, HandOver DEF Referable, TypeOK, Subscribe, Idle
    <3>2. UNCHANGED busy
      BY <1>7 DEF Deliver, tasks
    <3> QED BY <3>1, <3>2, <1>3, <1>7 DEF Deliver, Storage
  <2>2. r \in Registered /\ left.linked[r] = r
    BY <2>1, <1>2
  <2>3. /\ h \in [Routes -> Int] /\ h[r] = n /\ \A q \in Routes : q # r => h[q] = storage.heads[q]
        /\ n \in 1..Committed /\ n # Unregistered /\ storage.heads[r] < n
    <3>1. storage.heads[r] \in Int /\ storage.heads[r] >= 0
      BY <2>2, <1>3 DEF Unregistered
    <3> QED BY <3>1, <2>1, <1>3 DEF Unregistered
  <2>4. ASSUME NEW m \in 1..Committed PROVE Fate(h, delivered', m)
    <3> DEFINE y == storage.rows[m]
    <3>1. CASE y = Retirement \/ y \in delivered'
      BY <3>1 DEF Fate
    <3>2. CASE y # Retirement /\ y \notin delivered'
      <4>1. captured[y] \in Routes /\ Home(y) \in Routes /\ Home(y) = left.linked[captured[y]]
        BY <3>2, <1>1, Rows DEF Home
      <4>2. y \notin delivered
        BY <3>2, <2>1
      <4>3. \/ storage.heads[Home(y)] # Unregistered /\ storage.heads[Home(y)] < m
            \/ /\ storage.heads[Home(y)] = Unregistered
               /\ storage.heads[captured[y]] # Unregistered /\ storage.heads[captured[y]] < m
        BY <3>2, <4>2, <1>2 DEF Fate
      <4>4. m = n => Home(y) # r
        BY <3>2, <2>1
      <4> HIDE DEF h, y, n
      <4>5. CASE Home(y) = r
        <5>1. storage.heads[r] < m /\ m # n
          BY <4>3, <4>4, <4>5, <2>2, <1>3
        <5>2. n < m
          BY <5>1, <1>3 DEF n
        <5> QED BY <5>2, <4>5, <2>3 DEF Fate, y
      <4>6. CASE Home(y) # r /\ captured[y] # r
        BY <4>1, <4>3, <4>6, <2>3 DEF Fate, y
      <4>7. Home(y) # r => captured[y] # r
        BY <4>1, <2>2
      <4> QED BY <4>5, <4>6, <4>7
    <3> QED BY <3>1, <3>2
  <2> HIDE DEF h, n, x
  <2>5. \A q \in Routes : h[q] <= Committed
    BY <2>3, <1>2, <1>3
  <2>6. \A q \in Registered : h[q] # Unregistered
    BY <2>3, <1>3 DEF Registered
  <2> QED BY <2>1, <2>4, <2>5, <2>6, <1>4
<1>8. CASE DeleteStorage
  <2>1. storage' = Absent /\ UNCHANGED <<sessions, retiring>>
    BY <1>8 DEF DeleteStorage, maps
  <2>2. Committed' = 0 /\ \A r \in Routes : storage'.heads[r] = Unregistered
    BY <2>1 DEF Absent, Committed
  <2>3. \A r \in Routes : ~Consuming(r) /\ sessions[r] = 0
    BY <1>8, Deleting, NoConsumer
  <2>4. \A r \in Routes : ~(Consuming(r)') /\ sessions'[r] = 0
    BY <2>1, <2>3 DEF Consuming
  <2> QED BY <2>2, <2>4, <1>1, DeliveringNext DEF Unregistered
<1>9. ASSUME NEW p \in DOMAIN made, Translate(p) PROVE Delivering'
  <2> DEFINE x == log[Committed + 1]
             h == IF x = Retirement THEN storage.heads
                  ELSE Register(storage.heads, captured[x])
  <2>1. /\ Committed' = Committed + 1 /\ storage'.rows[Committed + 1] = x
        /\ \A n \in 1..Committed : storage'.rows[n] = storage.rows[n]
        /\ storage'.heads = h
        /\ x # Retirement => captured[x] \in Routes /\ Home(x) \in Routes
        /\ x \in Nat /\ x <= Len(captured)
        /\ UNCHANGED <<captured, delivered, left, sessions, retiring>>
    BY <1>1, <1>9, Translated
  <2>2. /\ \A q \in Routes : h[q] <= Committed
        /\ \A q \in Registered : h[q] # Unregistered
        /\ x # Retirement => h[captured[x]] # Unregistered
        /\ h \in [Routes -> Int]
    <3>1. CASE x = Retirement
      BY <3>1, <1>2, <1>3 DEF Registered
    <3>2. CASE x # Retirement
      <4>1. h = Register(storage.heads, captured[x]) /\ captured[x] \in Routes
        BY <3>2, <2>1
      <4>2. /\ \A q \in Routes : q # captured[x] \/ captured[x] \in Registered =>
                 h[q] = storage.heads[q]
            /\ h[captured[x]] >= 0 /\ h \in [Routes -> Int]
            /\ \A q \in Routes : h[q] <= Committed
        BY <4>1, <1>2, <1>3, Registering
      <4> HIDE DEF h, x
      <4>3. \A q \in Registered : h[q] # Unregistered
        BY <4>1, <4>2, <1>3 DEF Registered, Unregistered
      <4> QED BY <4>2, <4>3 DEF Unregistered
    <3> QED BY <3>1, <3>2
  <2>3. \A n \in 1..Committed : Fate(h, delivered, n)
    BY <2>1, <1>1, <1>2, RegisteringKeepsFate
  <2> HIDE DEF h
  <2>4. \A r \in Routes : storage'.heads[r] <= Committed'
    BY <2>1, <2>2, <1>3
  <2>5. ASSUME NEW r \in Routes, Consuming(r)' \/ sessions'[r] # 0
        PROVE  storage'.heads[r] # Unregistered /\ left.linked[r] = r
    <3>1. Consuming(r)
      BY <2>1, <2>5 DEF Consuming
    <3> QED BY <3>1, <1>2, <2>1, <2>2
  <2>6. ASSUME NEW n \in 1..Committed'
        PROVE  LET y == storage'.rows[n] IN
               \/ y = Retirement \/ y \in delivered'
               \/ /\ y \in 1..Len(captured')
                  /\ LET c == captured'[y] IN
                     \/ /\ storage'.heads[left.linked[c]] # Unregistered
                        /\ storage'.heads[left.linked[c]] < n
                     \/ /\ storage'.heads[left.linked[c]] = Unregistered
                        /\ storage'.heads[c] # Unregistered /\ storage'.heads[c] < n
    <3>1. CASE n \in 1..Committed
      <4>1. Fate(storage'.heads, delivered', n) /\ storage'.rows[n] = storage.rows[n]
        BY <3>1, <2>1, <2>3
      <4> QED BY <4>1, <3>1, <1>1, FateNext
    <3>2. CASE n = Committed + 1
      <4>1. storage'.rows[n] = x
        BY <3>2, <2>1
      <4>2. CASE x # Retirement
        <5>1. x \in 1..Len(captured) /\ captured[x] \in Routes
              /\ left.linked[captured[x]] \in Routes
          <6>1. Len(captured) \in Nat
            BY <1>1, LengthsAreNat DEF Referable
          <6> HIDE DEF x
          <6> QED BY <6>1, <2>1, <4>2 DEF Home, Retirement
        <5>2. h[captured[x]] < n /\ h[left.linked[captured[x]]] < n
          BY <5>1, <2>2, <1>3, <3>2
        <5> HIDE DEF x
        <5>3. \/ /\ h[left.linked[captured[x]]] # Unregistered
                 /\ h[left.linked[captured[x]]] < n
              \/ /\ h[left.linked[captured[x]]] = Unregistered
                 /\ h[captured[x]] # Unregistered /\ h[captured[x]] < n
          BY <5>2, <2>2, <4>2
        <5> QED BY <5>1, <5>3, <4>1, <2>1
      <4> QED BY <4>1, <4>2
    <3> QED BY <3>1, <3>2, <2>1, <1>3
  <2> QED BY <2>4, <2>5, <2>6, <1>1, DeliveringNext
<1> QED BY <1>1, <1>5, <1>6, <1>7, <1>8, <1>9, StorageMoves
-----------------------------------------------------------------------------
\* Every step keeps Keeping while retention deletes nothing or only quietly.
LEMMA KeepingStep ==
  ASSUME Base, Keeping, UncollectedInv \/ UnheldInv, [Next]_vars
  PROVE  Keeping'
BY FaithfulStep, KeptStep, DeliveringStep DEF Keeping

\* Keeping holds at the start.
LEMMA KeepingInit ==
  ASSUME Init
  PROVE  Keeping
<1>1. /\ Committed = 0 /\ Len(log) = 0 /\ Len(captured) = 0 /\ writer = "none"
      /\ \A r \in Routes : storage.heads[r] = Unregistered /\ sessions[r] = 0
      /\ retiring.at = "idle"
  BY DEF Init, Committed, Absent, Idle
<1>2. Faithful /\ Kept
  BY <1>1 DEF Faithful, Kept
<1>3. Delivering
  BY <1>1 DEF Delivering, Consuming, Unregistered
<1> QED BY <1>2, <1>3 DEF Keeping

\* Faithful rows are a prefix of the journal.
LEMMA FaithfulIsPrefix ==
  ASSUME Base, Faithful
  PROVE  StorageIsOfThisJournal
<1>1. /\ storage.rows \in Seq(Nat) /\ log \in Seq(Nat) /\ Committed = Len(storage.rows)
      /\ Committed \in Nat
  BY LengthsAreNat DEF Base, TypeOK, DataOK, Storage, Committed
<1>2. Len(storage.rows) <= Len(log)
      /\ \A n \in 1..Len(storage.rows) : storage.rows[n] = log[n]
  BY <1>1, Zenon DEF Faithful
<1>3. IsPrefix(storage.rows, log)
  BY <1>1, <1>2 DEF IsPrefix
<1> QED BY <1>3 DEF StorageIsOfThisJournal

\* Kept contains the property.
LEMMA KeptIsCaptures ==
  ASSUME Base, Kept
  PROVE  CapturesAreKept
<1>1. DOMAIN log = 1..Len(log) /\ DOMAIN captured = 1..Len(captured)
  BY DEF Base, TypeOK, DataOK
<1> QED BY <1>1 DEF Kept, CapturesAreKept

\* No plan both refuses an event and collects.
HeldOrCollected == \A p \in Plans : p.refusals = 0 \/ p.collections = 0

\* Rows, heads and journal agree in every reachable state of such plans.
THEOREM KeepingInductive ==
  ASSUME HeldOrCollected
  PROVE  Spec => [](Base /\ (UncollectedInv \/ UnheldInv))
<1> DEFINE I == Base /\ (UncollectedInv \/ UnheldInv)
<1>1. Init => I
  <2> SUFFICES ASSUME Init PROVE I
    OBVIOUS
  <2>1. left.refusals = 0 \/ left.collections = 0
    BY DEF Init, HeldOrCollected
  <2>2. left.collections = 0 => Uncollected
    BY DEF Init, Uncollected, Idle
  <2>3. left.refusals = 0 => Unheld
    BY DEF Init, Unheld, Dispatchers
  <2>4. Quiet
    BY DEF Init, Quiet, Collecting, Idle
  <2> QED BY <2>1, <2>2, <2>3, <2>4, BaseInit, SharingInit, KeepingInit
      DEF UnheldInv, UncollectedInv
<1>2. I /\ [Next]_vars => I'
  <2> SUFFICES ASSUME I, [Next]_vars PROVE I'
    OBVIOUS
  <2>1. Base' /\ Keeping'
    BY BaseStep, KeepingStep DEF UncollectedInv, UnheldInv
  <2>2. CASE UncollectedInv
    BY <2>1, <2>2, UncollectedStep DEF UncollectedInv, Base
  <2>3. CASE UnheldInv
    BY <2>1, <2>3, SharingStep, QuietStep DEF UnheldInv
  <2> QED BY <2>2, <2>3, <2>1
<1> QED BY <1>1, <1>2, PTL DEF Spec

\* An acknowledged event is at its destination or in the journal file, through
\* dispatch, retirement, restarts and retention (maintenance.rs), unless a behaviour
\* both holds an event back and collects.
THEOREM KeepsCaptures ==
  ASSUME HeldOrCollected
  PROVE  Spec => []CapturesAreKept
<1>1. Base /\ (UncollectedInv \/ UnheldInv) => CapturesAreKept
  BY KeptIsCaptures DEF UncollectedInv, UnheldInv, Keeping
<1> QED BY <1>1, KeepingInductive, PTL

\* The receipts in the storage are about the journal on disk (maintenance.rs
\* deletes the storage before the journal), for the same plans.
THEOREM StorageFollowsJournal ==
  ASSUME HeldOrCollected
  PROVE  Spec => []StorageIsOfThisJournal
<1>1. Base /\ (UncollectedInv \/ UnheldInv) => StorageIsOfThisJournal
  BY FaithfulIsPrefix DEF UncollectedInv, UnheldInv, Keeping
<1> QED BY <1>1, KeepingInductive, PTL
====
