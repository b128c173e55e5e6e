----------------------------- MODULE Correlation -----------------------------
(* How a new session finds its parent (server/correlation_store.rs, with the  *)
(* parts of ingress.rs, recovery.rs and sessions.rs it depends on): the       *)
(* daemon dispatches captured events one by one; the spans of the sessions    *)
(* that may be parents are observed as their events are translated; a child   *)
(* is held for a short time until its agent process is known.                 *)
EXTENDS ParentRegistry

CONSTANTS Child,      \* the session whose parent is looked for
          Chains,     \* for each key, chains from its agent up: a session may
                      \* be resumed in another process
          Compatible, \* keys with the credential and destination of the child
          Scenarios,  \* instances: which sessions there are; where the child may
                      \* run (a chain of processes from its agent up); whether
                      \* its hooks are commands, captures may be blind, sessions
                      \* may move to another process, flushes force decisions;
                      \* bounds on events, those of the child, those that are not
                      \* dispatched, crashes, failures of storage or delivery,
                      \* and retirements
          ReadFails,  \* whether reading a stored decision may fail
          EventLimit  \* CORRELATION_EVENT_LIMIT

ASSUME ScenariosAssumption ==
  \A s \in Scenarios :
    /\ s.agents \subseteq Seq(Processes) /\ s.keys \subseteq Keys
    /\ {s.command, s.blind, s.forced, s.moves} \subseteq BOOLEAN
    /\ {s.events, s.child, s.behind, s.crashes, s.failures, s.retires} \subseteq Nat
ASSUME EventLimitAssumption == EventLimit \in Nat \ {0, 1}
\* A chain begins with an agent and has no process twice.  The processes of
\* agents have numbers below 100; hooks that run as a command have one each.
ASSUME ProcessesAssumption ==
  /\ \A k \in Keys : Chains[k] # {}
  /\ \A s \in Scenarios : \A n \in 1..s.events : 99 + n \in Processes
  /\ \A chain \in UNION ({Chains[k] : k \in Keys} \cup {s.agents : s \in Scenarios}) :
       chain \in Seq(Processes \cap 0..99) \ {<<>>} /\ IsInjective(chain)
ASSUME ChildAssumption == \A k \in Keys : Child # Native[k] /\ Child # k

VARIABLES log,        \* captured events, in the order of their capture
          next,       \* first captured event that is not dispatched
          startup,    \* the events that a restart dispatches before
          reg,        \* the registry
          attached,   \* keys whose session has a pipeline and an observer
          seen,       \* on disk: for each key, the events that were translated
          waiting,    \* keys whose producer waits to write a snapshot again
          snapshots,  \* on disk: active parent snapshots
          stored,     \* on disk: the child's PendingSession
          pending,    \* pending_sessions: the same in memory
          link,       \* automatic_links and standalone_links
          work,       \* the child's state while its lock is held
          given,      \* for each route, the last event the child delivered there
          at,         \* the processes of each session, and of the child
          exited,     \* retired sessions whose processes were found dead
          dead,       \* agent processes that exited
          faults,     \* crashes, failures and retirements so far
          scene       \* the instance, one of Scenarios

vars == <<log, next, startup, reg, attached, seen, waiting, snapshots, stored,
          pending, link, work, given, at, exited, dead, faults, scene>>
child == <<stored, pending, link, work, given>>
parents == <<reg, attached, seen, waiting, snapshots>>
world == <<at, dead, scene>>

MaxEvents == Max({s.events : s \in Scenarios})
Alone == <<"alone">>       \* the route of a session that has no parent

\* PendingSession: the route once it is decided, the candidate before, events,
\* whether it waited too long, and whether its recovery is due.
NewPending ==
  [route |-> None, parent |-> None, events |-> <<>>, expired |-> FALSE, recovery |-> FALSE]
Decided(state) == state.route # None

Init ==
  /\ scene \in Scenarios
  /\ log = <<>> /\ next = 1 /\ startup = {}
  /\ reg = Empty
  /\ attached = {} /\ seen = [k \in Keys |-> 0]
  /\ waiting = {} /\ snapshots = [k \in Keys |-> None]
  /\ stored = None /\ pending = None /\ link = None /\ work = None
  /\ given = <<>>
  /\ \E chain \in scene.agents :
       at = [k \in Keys \cup {Child} |->
               IF k = Child THEN chain ELSE CHOOSE c \in Chains[k] : TRUE]
  /\ exited = {} /\ dead = {}
  /\ faults = [crashes |-> 0, failures |-> 0, retires |-> 0]
-----------------------------------------------------------------------------
(* Captured events.                                                           *)

EventsOf(k, from, to) == {i \in from..to : log[i].key = k}
Latest(k) == Max(EventsOf(k, 1, Len(log)) \cup {0})

\* The chain from the process that connects; one of the hooks that run as a
\* command has a process of its own, which is numbered by the event.
Captured(command, chain) == IF command THEN <<100 + Len(log)>> \o chain ELSE chain

Capture(key, kind, tool, capture) ==
  log' = Append(log, [key |-> key, kind |-> kind, tool |-> tool, capture |-> capture])

\* attach_process_capture: what is captured depends on the registry now.
Captures(native, start, chain) ==
  IF start \/ NeedsProcessCapture(reg, native)
  THEN {chain} \cup (IF scene.blind THEN {None} ELSE {}) ELSE {None}

MoreEvents == Len(log) < scene.events /\ Len(log) < next + scene.behind - 1

\* The events of a session that may be a parent.
OpenIn(k, n) == ObserveHistory(Empty, k, SubSeq(log, 1, n))
CaptureParent(k, kind, tool) ==
  LET start == kind = "start"
      open == OpenIn(k, Len(log))
  IN  /\ MoreEvents /\ k \in scene.keys
      /\ CASE kind = "start" -> TRUE
           [] kind = "open" -> /\ open.span[k] = "active"
                               /\ \A i \in EventsOf(k, 1, Len(log)) : log[i].tool # tool
           [] kind = "close" -> tool \in open.tools[k]
           [] OTHER -> open.span[k] = "active"
      /\ \E chain \in (IF start /\ scene.moves THEN Chains[k] ELSE {at[k]}) :
           /\ Range(chain) \cap dead = {}
           /\ at' = [at EXCEPT ![k] = chain]
           /\ \E capture \in Captures(Native[k], start, Captured(k \in Command, chain)) :
                Capture(k, kind, tool, capture)
      /\ UNCHANGED <<next, startup, parents, child, exited, dead, faults, scene>>

\* The first hook of the child is a native start, unless the daemon missed it.
CaptureChild(kind) ==
  LET before == EventsOf(Child, 1, Len(log))
      chain == Captured(scene.command, at[Child])
  IN  /\ MoreEvents /\ Cardinality(before) < scene.child
      /\ Range(at[Child]) \cap dead = {}
      /\ \E capture \in {chain} \cup (IF scene.blind THEN {None} ELSE {}) :
           Capture(Child, kind, None, capture)
      /\ UNCHANGED <<next, startup, parents, child, world, exited, faults>>
-----------------------------------------------------------------------------
(* What the worker dispatches next: what a restart found, then the log.       *)

Upcoming == IF startup # {} THEN Min(startup) ELSE next
Dispatched ==
  IF startup # {} THEN startup' = startup \ {Upcoming} /\ UNCHANGED next
  ELSE next' = next + 1 /\ UNCHANGED startup
WorkerIsFree == Upcoming <= Len(log) /\ (work # None => work[1].by # "worker")

Failures(n) ==
  faults.failures + n <= scene.failures /\ faults' = [faults EXCEPT !.failures = @ + n]
-----------------------------------------------------------------------------
(* Sessions that may be parents.                                              *)

Unseen(k) == EventsOf(k, seen[k] + 1, next - 1)

\* persist_active_parent_snapshot, and mark_active_parent_snapshot_dirty.  What
\* cannot be written is written again later, but not a mark.
Persist(k, snapshot, failed) ==
  /\ snapshots' = IF failed THEN snapshots ELSE [snapshots EXCEPT ![k] = snapshot]
  /\ Failures(IF failed THEN 1 ELSE 0)

\* accept_resolved_event of an event whose session has a pipeline.  The snapshot
\* is dirty before a call begins or ends.
DispatchParent ==
  LET event == log[Upcoming]
      k == event.key
      mark == event.kind \in {"open", "close"} /\ Snapshot(reg, k, TRUE) # None
  IN  /\ WorkerIsFree /\ k \in attached
      /\ Dispatched
      /\ reg' = ObserveSession(reg, k, event.capture, event.kind = "start")
      /\ IF mark THEN \E failed \in BOOLEAN : Persist(k, Snapshot(reg, k, TRUE), failed)
         ELSE UNCHANGED <<snapshots, faults>>
      /\ UNCHANGED <<log, attached, seen, waiting, child, world, exited>>

\* The same of one whose session gets a pipeline, which first observes what was
\* captured before.
AttachParent ==
  LET event == log[Upcoming]
      k == event.key
      observed == ObserveHistory(reg, k, SubSeq(log, 1, next - 1))
      changed == \/ observed # reg
                 \/ \E i \in EventsOf(k, 1, next - 1) : log[i].kind = "open"
      mark == event.kind \in {"open", "close"} /\ Snapshot(reg, k, TRUE) # None
      marked == IF mark THEN [snapshots EXCEPT ![k] = Snapshot(reg, k, TRUE)] ELSE snapshots
  IN  /\ WorkerIsFree /\ k \notin attached \cup {Child}
      /\ Dispatched
      /\ attached' = attached \cup {k}
      /\ seen' = [seen EXCEPT ![k] = next - 1]
      /\ reg' = ObserveSession(observed, k, event.capture, event.kind = "start")
      /\ \E failed \in {FALSE, changed} :
           /\ Failures(IF failed THEN 1 ELSE 0)
           /\ snapshots' = IF changed /\ ~failed
                           THEN [snapshots EXCEPT ![k] = Snapshot(observed, k, FALSE)]
                           ELSE marked
           /\ waiting' = IF failed THEN waiting \cup {k} ELSE waiting
      /\ UNCHANGED <<log, child, world, exited>>

\* The producer translates the next event and tells its observer, which saves
\* what changed.
Observe(k) ==
  LET i == Min(Unseen(k))
      observed == ObserveOps(reg, k, log[i])
  IN  /\ k \in attached \ waiting /\ Unseen(k) # {}
      /\ seen' = [seen EXCEPT ![k] = i]
      /\ reg' = observed
      /\ \E failed \in {FALSE, observed # reg} :
           /\ IF observed = reg THEN UNCHANGED <<snapshots, faults>>
              ELSE Persist(k, Snapshot(observed, k, FALSE), failed)
           /\ waiting' = IF failed THEN waiting \cup {k} ELSE waiting
      /\ UNCHANGED <<log, next, startup, attached, child, world, exited>>

SaveSnapshot(k) ==
  /\ k \in waiting
  /\ waiting' = waiting \ {k}
  /\ Persist(k, Snapshot(reg, k, FALSE), FALSE)
  /\ UNCHANGED <<log, next, startup, reg, attached, seen, child, world, exited>>

\* Mutant: the barrier is answered before the last event is observed.
SettledEarly == \A k \in attached \ waiting : Cardinality(Unseen(k)) <= 1

\* settle_session_actors.  A producer that waits answers barriers at once.
Settled == \A k \in attached \ waiting : Unseen(k) = {}
-----------------------------------------------------------------------------
(* The child: first its route is decided, then its events are delivered there.*)

\* The parent that a first event may have.  A route that names its parent, or
\* no evidence, is standalone.
First(i) ==
  LET event == log[i]
      agent == IF scene.command THEN None ELSE SessionAgent(FALSE, event.capture, None)
      found == Resolve(reg, Child, event.capture, agent, Compatible)
      state == [NewPending EXCEPT !.events = <<i>>]
  IN  IF event.kind # "start" \/ found.kind = "standalone" THEN [state EXCEPT !.route = Alone]
      ELSE IF found.kind = "parent" THEN [state EXCEPT !.route = found.span]
      ELSE [state EXCEPT !.parent = <<found>>]

\* The next event of a child that waits.  Two hooks tell the agent; another
\* start is another process.
Next2nd(state, i) ==
  LET t == [state EXCEPT !.events = Append(@, i)]
      captured == {n \in DOMAIN t.events : log[t.events[n]].capture # None}
      latest == Max(captured)
      others == captured \ {latest}
      CaptureIn(n) == log[t.events[n]].capture
      agent == IF others = {} THEN None
               ELSE SessionAgent(scene.command, CaptureIn(Max(others)), CaptureIn(latest))
      fresh == log[i].kind = "start"
      confirmed == ConfirmParent(t.parent[1], CaptureIn(latest), agent)
  IN  IF ~state.expired /\ ~fresh /\ agent # None
      THEN [t EXCEPT !.route = IF confirmed THEN t.parent[1].span ELSE Alone]
      ELSE IF fresh \/ state.expired \/ Len(t.events) >= EventLimit
      THEN [t EXCEPT !.route = Alone]
      ELSE t

\* write_correlation_state, after n things failed.
Write(state, n) ==
  \/ stored' = <<state>> /\ Failures(n)
  \/ UNCHANGED stored /\ Failures(n + 1)

\* finish_correlation, which holds the child's lock.
Finish(by, state) ==
  /\ work' = <<[by |-> by, saved |-> FALSE,
                state |-> [state EXCEPT !.parent = None, !.recovery = FALSE]]>>
  /\ UNCHANGED <<stored, pending, link, given, faults>>

\* store_correlation of a state that is not finished.
Hold(state, n) ==
  /\ pending' = <<state>>
  /\ Write(state, n)
  /\ UNCHANGED <<link, given>>

Deliver(route, i) ==
  given' = [r \in DOMAIN given \cup {route} |->
              IF r = route /\ (r \in DOMAIN given => given[r] < i) THEN i ELSE given[r]]

\* accept_event of the child's event.
DispatchChild ==
  LET i == Upcoming
      \* What memory or, without it, the disk says; reading may fail.
      known == IF pending # None \/ link # None THEN {pending}
               ELSE {stored} \cup (IF ReadFails THEN {None} ELSE {})
  IN  /\ WorkerIsFree /\ work = None /\ log[i].key = Child
      /\ log[i].kind = "start" /\ link = None => Settled
      /\ Dispatched
      /\ \E state \in known :
           \/ /\ state = None /\ link # None
              /\ \/ Deliver(link, i) /\ UNCHANGED <<stored, pending, link, work, faults>>
                 \/ /\ Hold([NewPending EXCEPT !.route = link, !.events = <<i>>,
                                               !.recovery = TRUE], 1)
                    /\ UNCHANGED work
           \/ /\ state = None /\ link = None
              /\ LET first == First(i)
                 IN  IF Decided(first) THEN Finish("worker", first)
                     ELSE Hold(first, 0) /\ UNCHANGED work
           \/ /\ state # None /\ Decided(state[1])
              /\ LET t == [state[1] EXCEPT !.events = Append(@, i)]
                 IN  IF t.recovery THEN Hold(t, 0) /\ UNCHANGED work
                     ELSE Finish("worker", t)
           \/ /\ state # None /\ ~Decided(state[1])
              /\ LET t == Next2nd(state[1], i)
                 IN  IF Decided(t) THEN Finish("worker", t)
                     ELSE Hold(t, 0) /\ UNCHANGED work
      /\ UNCHANGED <<log, parents, world, exited>>
\* The steps of finish_correlation: the decision is saved before anything is
\* delivered, and again after each event; at last the session is established.
Current == work[1].state
Save ==
  /\ work # None /\ ~work[1].saved
  /\ stored' = <<Current>>
  /\ IF Current.events = <<>>
     THEN pending' = None /\ link' = Current.route /\ work' = None
     ELSE /\ pending' = <<Current>> /\ work' = <<[work[1] EXCEPT !.saved = TRUE]>>
          /\ UNCHANGED link
  /\ UNCHANGED <<log, next, startup, parents, given, world, exited, faults>>

\* Mutant: an event is delivered before the decision is saved.
DeliverFirstUnsaved ==
  /\ work # None /\ Current.events # <<>>
  /\ Deliver(Current.route, Current.events[1])
  /\ work' = <<[work[1] EXCEPT !.saved = FALSE, !.state.events = Tail(@)]>>
  /\ UNCHANGED <<log, next, startup, parents, stored, pending, link, world, exited, faults>>

DeliverFirst ==
  /\ work # None /\ work[1].saved
  /\ Deliver(Current.route, Current.events[1])
  /\ work' = <<[work[1] EXCEPT !.saved = FALSE, !.state.events = Tail(@)]>>
  /\ UNCHANGED <<log, next, startup, parents, stored, pending, link, world, exited, faults>>

\* Mutant: the event that could not be delivered is not kept.
FinishFailsForgotten ==
  /\ work # None
  /\ LET state == [Current EXCEPT !.recovery = TRUE, !.events = SubSeq(@, 2, Len(@))]
         established == state.events = <<>> /\ stored' = <<state>>
     IN  /\ pending' = <<state>>
         /\ Write(state, 1)
         /\ link' = IF established THEN state.route ELSE link
  /\ work' = None
  /\ UNCHANGED <<log, next, startup, parents, given, world, exited>>

\* What is left is kept for recovery, in memory if it cannot be stored.
FinishFails ==
  /\ work # None
  /\ LET state == [Current EXCEPT !.recovery = TRUE]
         established == state.events = <<>> /\ stored' = <<state>>
     IN  /\ pending' = <<state>>
         /\ Write(state, 1)
         /\ link' = IF established THEN state.route ELSE link
  /\ work' = None
  /\ UNCHANGED <<log, next, startup, parents, given, world, exited>>

\* CORRELATION_WAIT passes, also for what is stored.
Expire ==
  /\ pending # None /\ ~Decided(pending[1]) /\ ~pending[1].expired
  /\ pending' = <<[pending[1] EXCEPT !.expired = TRUE]>>
  /\ stored' = IF stored = None THEN None ELSE <<[stored[1] EXCEPT !.expired = TRUE]>>
  /\ UNCHANGED <<log, next, startup, parents, link, work, given, world, exited, faults>>

\* resolve_pending_sessions: by the reconciler, or forced by a flush or at the
\* end.  A recovery that is due is tried again.
ResolvePending(forced) ==
  /\ pending # None /\ work = None
  /\ LET state == pending[1]
         t == IF ~Decided(state) /\ (state.expired \/ forced)
              THEN [state EXCEPT !.route = Alone] ELSE state
     IN  Decided(t) /\ Finish("reconciler", t)
  /\ UNCHANGED <<log, next, startup, parents, world, exited>>
-----------------------------------------------------------------------------
(* Retirement, exits of processes, and restarts.                              *)

\* retire_session, of one that idle_sessions found.
Retire(k) ==
  /\ faults.retires < scene.retires
  /\ faults' = [faults EXCEPT !.retires = @ + 1]
  /\ k \in attached \ waiting /\ Unseen(k) = {} /\ ~HasActiveTools(reg, k)
  /\ attached' = attached \ {k}
  /\ reg' = RetireSession(reg, k)
  /\ UNCHANGED <<log, next, startup, seen, waiting, snapshots, child, world, exited>>

Exit(k) ==
  /\ at[k][1] \notin dead /\ k \in reg.retired
  /\ dead' = dead \cup {at[k][1]}
  /\ UNCHANGED <<log, next, startup, parents, child, at, exited, faults, scene>>

\* prune_retired looks for exited processes, then takes the lock again.
FindExited ==
  /\ exited # Exited(reg, Processes \ dead)
  /\ exited' = Exited(reg, Processes \ dead)
  /\ UNCHANGED <<log, next, startup, parents, child, world, faults>>
PruneRetired ==
  /\ exited # {}
  /\ reg' = Prune(reg, exited) /\ exited' = {}
  /\ UNCHANGED <<log, next, startup, attached, seen, waiting, snapshots, child,
                 world, faults>>

\* discover_unprocessed_journals: the last event of every session that is not
\* known to be delivered, in order of time.  What was observed may be delivered
\* too, or not.
Incomplete(k) == seen[k] < Latest(k)
ChildIncomplete ==
  LET route == IF stored # None /\ stored[1].route # None THEN stored[1].route ELSE Alone
  IN  Latest(Child) # 0 /\ (route \in DOMAIN given => given[route] < Latest(Child))

\* restore_pending_sessions: what is stored with events that are not delivered.
RestorePendingSessions == IF stored # None /\ stored[1].events # <<>> THEN stored ELSE None

Restart ==
  /\ faults.crashes < scene.crashes
  /\ faults' = [faults EXCEPT !.crashes = @ + 1]
  /\ pending' = RestorePendingSessions
  /\ \E more \in SUBSET (Keys \cup {Child}) :
       LET latest == {Latest(k) : k \in more \cup {k \in Keys : Incomplete(k)}}
                     \cup (IF ChildIncomplete THEN {Latest(Child)} ELSE {})
           held == IF pending' = None THEN {} ELSE Range(pending'[1].events)
       IN  startup' = latest \ (held \cup {0})
  /\ next' = Len(log) + 1
  /\ reg' = RestoreActiveParents(snapshots) /\ attached' = {} /\ waiting' = {} /\ exited' = {}
  /\ link' = None /\ work' = None
  /\ UNCHANGED <<log, seen, snapshots, stored, given, world>>

Next ==
  \/ \E k \in Keys, kind \in {"start", "other", "end"} : CaptureParent(k, kind, None)
  \/ \E k \in Keys, kind \in {"open", "close"}, tool \in Tools : CaptureParent(k, kind, tool)
  \/ \E kind \in {"start", "other"} : CaptureChild(kind)
  \/ DispatchParent \/ AttachParent \/ DispatchChild
  \/ \E k \in Keys : 
       \/ Observe(k) \/ SaveSnapshot(k) \/ Retire(k) \/ Exit(k)
  \/ Save \/ DeliverFirst \/ FinishFails \/ Expire
  \/ \E forced \in {FALSE, scene.forced} : ResolvePending(forced)
  \/ FindExited \/ PruneRetired \/ Restart

Spec == Init /\ [][Next]_vars
-----------------------------------------------------------------------------
(* Correctness.                                                               *)

Routes == DOMAIN given \cup (IF link = None THEN {} ELSE {link})
          \cup {state.route : state \in Range(stored) \cup Range(pending)}
          \cup {w.state.route : w \in Range(work)}
Links == Routes \ {None, Alone}
FaultFree == faults.crashes = 0 /\ faults.failures = 0

\* Whatever fails, all events of a session go to one route: "splitting one
\* session across two roots is worse" (correlation_store.rs:56).
OneRoute == Cardinality(DOMAIN given) <= 1

\* A child is only ever linked to a session of an agent that runs above it.
ParentIsAncestor ==
  \A route \in Links :
    \E chain \in Chains[route[1]] : chain[1] \in Range(Tail(at[Child]))

\* What the log says about the parent of a child that starts with event n, if
\* there is enough evidence of the agent of every session.
Generation(k, n) ==
  LET last == Max({i \in EventsOf(k, 1, n - 1) : log[i].kind = "start"})
  IN  {i \in EventsOf(k, last, n - 1) : log[i].capture # None}
Begun(n) == {k \in Keys : EventsOf(k, 1, n - 1) # {}}
Evident(n) ==
  /\ log[n].kind = "start" /\ log[n].capture # None
  /\ \A k \in Begun(n) : Cardinality(Generation(k, n)) >= (IF k \in Command THEN 2 ELSE 1)
AgentAt(k, n) ==
  LET capture == log[Min(Generation(k, n))].capture
  IN  IF k \in Command THEN capture[2] ELSE capture[1]
Expected(n) ==
  LET chain == at[Child]
      agents == {i \in DOMAIN chain : (scene.command \/ i > 1)
                                      /\ \E k \in Begun(n) : AgentAt(k, n) = chain[i]}
      nearest == CHOOSE i \in agents : \A j \in agents : i <= j
      open == {k \in Begun(n) : AgentAt(k, n) = chain[nearest]
                                /\ SessionIsOpen(OpenIn(k, n - 1), k)}
      spans == UNION {ParentSpan(OpenIn(k, n - 1), k) : k \in open \cap Compatible}
  IN  IF agents = {} \/ nearest = 1 THEN Alone
      ELSE IF Cardinality({Native[k] : k \in open}) = 1 /\ Cardinality(spans) = 1
      THEN CHOOSE span \in spans : TRUE ELSE Alone

\* Without faults a child is linked exactly to what the log says, unless the
\* hook that tells its agent came too late: however far the sessions' pipelines
\* were behind when it started.
LinkIsExact ==
  LET n == Min(EventsOf(Child, 1, Len(log)))
      state == IF work # None THEN Current ELSE stored[1]
      known == EventsOf(Child, n, next - 1)
      late == \/ state.expired \/ scene.forced
              \/ \E i \in known \ {n} : log[i].kind = "start"
              \/ Cardinality({i \in known : /\ log[i].capture # None
                                            /\ Cardinality(EventsOf(Child, n, i)) <= EventLimit}) < 2
  IN  FaultFree /\ faults.retires = 0 /\ (work # None \/ stored # None) /\ Evident(n) =>
        IF ~Decided(state) THEN scene.command
        ELSE \/ state.route = Expected(n)
             \/ scene.command /\ late /\ state.route = Alone

\* Every event of the child is delivered in the end.  The log only grows: again
\* and again, the last event captured so far has been delivered.
NothingLost ==
  []<>(Latest(Child) = 0 \/ \E r \in DOMAIN given : given[r] >= Latest(Child))

\* The worker, the producers and the reconciler run on, and time passes.
Fairness ==
  /\ WF_vars(DispatchParent) /\ WF_vars(AttachParent) /\ WF_vars(DispatchChild)
  /\ \A k \in Keys : WF_vars(Observe(k)) /\ WF_vars(SaveSnapshot(k))
  /\ WF_vars(Save) /\ WF_vars(DeliverFirst) /\ WF_vars(Expire)
  /\ WF_vars(ResolvePending(FALSE))
FairSpec == Spec /\ Fairness
=============================================================================
