------------------------------ MODULE Handover ------------------------------
(***************************************************************************)
(* Hooks, the daemons they find or spawn, and the endpoint the daemons     *)
(* share (client.rs, hook.rs, transport.rs, server/rpc.rs, server/mod.rs). *)
(*                                                                         *)
(* A hook is a short-lived process with one event.  It connects to the     *)
(* socket, or spawns a daemon of its own version and polls; it declares    *)
(* itself with `initialize`, replaces a daemon older than itself through   *)
(* `daemon.shutdown`, and hands its event over with `event.log`.  A daemon *)
(* takes the endpoint's lock, claims the socket, serves, and when it stops *)
(* drains, removes the socket and releases the lock.                       *)
(*                                                                         *)
(* Time is abstract: a deadline passes when nothing it waits for is under  *)
(* way.  The one deadline that the code sets shorter than what it waits    *)
(* for, the second a contender waits for the lock, can always pass.        *)
(***************************************************************************)
EXTENDS Naturals, FiniteSets, Sequences

CONSTANTS
    Hooks,      \* hook processes, one event each
    Daemons,    \* 1..n: places for daemon processes that live at once
    Opaque,     \* versions that are not semver (development builds)
    MaxHandoverAttempts,    \* 3 in the code
    Plans       \* [first, version, spawns, exact, event]: how a history
                \* begins and the one event from outside it may contain

ASSUME HandoverAssumption ==
    /\ IsFiniteSet(Hooks)
    /\ Daemons \subseteq Nat \ {0}
    /\ IsFiniteSet(Daemons)
    /\ 1 \in Daemons
    /\ MaxHandoverAttempts \in Nat
    /\ Plans \subseteq [first : Nat, version : [Hooks -> Nat],
                       spawns : SUBSET Hooks, exact : SUBSET Hooks,
                       event : {"none", "idle", "command", "signal", "crash",
                                "cancel"}]

VARIABLES
    plan,       \* [first, version, spawns, exact, event]
    hook,       \* Hooks -> [at, to, tries, refused]
    daemon,     \* Daemons -> [at, version, quiescing, stop, drain, asked]
    lock,       \* the daemon that holds the endpoint's lock file
    path,       \* the daemon whose listener the socket node was bound by
    captured,   \* Hooks -> the versions that journaled the event, in order
    lost,       \* history: hooks that lost the answer to a capture
    missed,     \* history: hooks that polled while a daemon left, or while a
                \* contender gave the lock of a leaving daemon up
    cut         \* history: hooks that failed for a reason the code allows

vars == <<plan, hook, daemon, lock, path, captured, lost, missed, cut>>

Nobody == 0
Operator == "operator"      \* whoever runs the explicit stop command

NewHook == [at |-> "start", to |-> Nobody, tries |-> 0, refused |-> FALSE]
NoProcess == [at |-> "none", version |-> 0, quiescing |-> FALSE,
              stop |-> FALSE, drain |-> "no", asked |-> {}]
Serving(v) == [NoProcess EXCEPT !.at = "serving", !.version = v]

Init ==
    /\ plan \in Plans
    /\ hook = [h \in Hooks |-> NewHook]
    /\ daemon = [d \in Daemons |->
          IF d = 1 /\ plan.first # 0 THEN Serving(plan.first) ELSE NoProcess]
    /\ lock = (IF plan.first = 0 THEN Nobody ELSE 1)
    /\ path = lock
    /\ captured = [h \in Hooks |-> << >>]
    /\ lost = {} /\ cut = {} /\ missed = {}

-----------------------------------------------------------------------------
(* The endpoint.                                                           *)

Alive(d) == daemon[d].at \in {"serving", "closing", "unlocking", "exiting"}
Listening(d) == daemon[d].at = "serving"
Polling == {h \in Hooks : hook[h].at = "poll"}

(* connect succeeds if the listener that bound the node still exists       *)
Reachable == path # Nobody /\ Listening(path)

(* A place that no process and no trace of one uses                        *)
Free == {d \in Daemons : /\ daemon[d].at = "none"
                         /\ d # path
                         /\ \A h \in Hooks : hook[h].to # d}

(* Something is coming up, serving or leaving: the five seconds of a hook  *)
(* that polls or retries outlast it.                                       *)
Underway == \E d \in Daemons : daemon[d].at # "none"

Comparable(a, b) == {a, b} \cap Opaque = {}

DaemonNeedsUpgrade(theirs, mine) ==
    theirs # mine /\ (Comparable(theirs, mine) => theirs < mine)

(* Hooks of old releases replace every daemon of another version           *)
Replaces(h, theirs) ==
    IF h \in plan.exact THEN theirs # plan.version[h]
    ELSE DaemonNeedsUpgrade(theirs, plan.version[h])

ClientMayShutdown(client, mine) ==
    Comparable(client, mine) => client >= mine

-----------------------------------------------------------------------------
(* The hook.                                                               *)

Step(h, at) == hook' = [hook EXCEPT ![h].at = at]
Fail(h) == /\ hook' = [hook EXCEPT ![h].at = "failed", ![h].to = Nobody]
           /\ cut' = cut \cup {h}

(* The loop's connect; without a daemon, spawn or fail.  A hook that may   *)
(* not spawn waits for a replacement once it was refused.                  *)
Connect(h) ==
    /\ hook[h].at = "start"
    /\ \/ /\ Reachable
          /\ hook' = [hook EXCEPT ![h].at = "init", ![h].to = path]
          /\ UNCHANGED cut
       \/ /\ ~Reachable /\ h \in plan.spawns
          /\ Step(h, "spawn")
          /\ UNCHANGED cut
       \/ /\ ~Reachable /\ h \notin plan.spawns /\ ~hook[h].refused
          /\ Fail(h)
    /\ UNCHANGED <<plan, daemon, lock, path, captured, lost, missed>>

(* Nobody replaced the daemon that refused the event                       *)
Expire(h) ==
    /\ hook[h].at = "start" /\ hook[h].refused
    /\ h \notin plan.spawns /\ ~Underway
    /\ Fail(h)
    /\ UNCHANGED <<plan, daemon, lock, path, captured, lost, missed>>

(* The decision to spawn is older than the spawn: others may decide so too *)
Spawn(h) ==
    /\ hook[h].at = "spawn"
    /\ \E d \in Free :
          /\ \A e \in Free : d <= e
          /\ daemon' = [daemon EXCEPT ![d] =
                [NoProcess EXCEPT !.at = "locking", !.version = plan.version[h]]]
    /\ Step(h, "poll")
    /\ UNCHANGED <<plan, lock, path, captured, lost, missed, cut>>

(* Mutant: the daemon that comes up is taken for the hook's own.           *)
PollForMine(h) ==
    /\ hook[h].at = "poll" /\ Reachable
    /\ hook' = [hook EXCEPT ![h].at = "log", ![h].to = path]
    /\ UNCHANGED <<plan, daemon, lock, path, captured, lost, missed, cut>>

Poll(h) ==
    /\ hook[h].at = "poll" /\ Reachable
    /\ hook' = [hook EXCEPT ![h].at = "init", ![h].to = path]
    /\ UNCHANGED <<plan, daemon, lock, path, captured, lost, missed, cut>>

(* No daemon came up, or none that was there when the hook looked          *)
PollExpires(h) ==
    /\ hook[h].at = "poll" /\ ~Underway
    /\ hook' = [hook EXCEPT ![h].at = "failed"]
    /\ cut' = cut \cup (missed \cap {h})
    /\ UNCHANGED <<plan, daemon, lock, path, captured, lost, missed>>

(* The daemon answers with its version                                     *)
Initialize(h) ==
    LET d == hook[h].to
        replace == Replaces(h, daemon[d].version)
    IN  /\ hook[h].at = "init" /\ d # Nobody /\ Alive(d)
        /\ \/ /\ ~replace
              /\ Step(h, "log") /\ UNCHANGED cut
           \/ /\ replace /\ h \in plan.spawns
              /\ hook[h].tries < MaxHandoverAttempts
              /\ Step(h, "shutdown") /\ UNCHANGED cut
           \/ /\ replace
              /\ h \notin plan.spawns \/ hook[h].tries = MaxHandoverAttempts
              /\ Fail(h)
        /\ UNCHANGED <<plan, daemon, lock, path, captured, lost, missed>>

(* Captures that a daemon has let in and not finished                       *)
Capturing(d) == {h \in Hooks : hook[h].to = d /\ hook[h].at \in {"capture", "orphan"}}

(* Drain under the mutex: whoever comes second waits for the first         *)
BeginDrain(r) ==
    [r EXCEPT !.quiescing = TRUE, !.drain = IF @ = "no" THEN "draining" ELSE @]

(* A handover that was tried: the hook turns to whoever listens next       *)
Attempted(r) ==
    [at |-> "leave", to |-> Nobody, tries |-> r.tries + 1, refused |-> r.refused]

AskShutdown(h) ==
    LET d == hook[h].to
        may == ClientMayShutdown(plan.version[h], daemon[d].version)
    IN  /\ hook[h].at = "shutdown" /\ d # Nobody /\ Alive(d)
        /\ \/ /\ may
              /\ daemon' = [daemon EXCEPT ![d] =
                    [BeginDrain(daemon[d]) EXCEPT !.asked = @ \cup {h}]]
              /\ Step(h, "drain")
           \/ /\ ~may
              /\ hook' = [hook EXCEPT ![h] = Attempted(@)]
              /\ UNCHANGED daemon
        /\ UNCHANGED <<plan, lock, path, captured, lost, missed, cut>>

(* wait_for_daemon_exit: two seconds are enough for a daemon that stops;   *)
(* they pass if another daemon answers meanwhile.                          *)
WaitForDaemonExit(h) ==
    /\ hook[h].at = "leave"
    /\ Reachable => ~daemon[path].stop
    /\ Step(h, "start")
    /\ UNCHANGED <<plan, daemon, lock, path, captured, lost, missed, cut>>

(* Mutant: capture_event does not read the flag.                           *)
BeginCaptureAnyway(h) ==
    LET d == hook[h].to
    IN  /\ hook[h].at = "log" /\ d # Nobody /\ Alive(d)
        /\ Step(h, "capture")
        /\ UNCHANGED <<plan, daemon, lock, path, captured, lost, missed, cut>>

(* capture_event reads the flag under the gate; what it lets in, the drain *)
(* waits for.                                                              *)
BeginCapture(h) ==
    LET d == hook[h].to
    IN  /\ hook[h].at = "log" /\ d # Nobody /\ Alive(d)
        /\ hook' = [hook EXCEPT
              ![h] = IF daemon[d].quiescing
                     THEN [@ EXCEPT !.at = "start", !.to = Nobody,
                                    !.refused = TRUE]
                     ELSE [@ EXCEPT !.at = "capture"]]
        /\ UNCHANGED <<plan, daemon, lock, path, captured, lost, missed, cut>>

(* Mutant: the flag is read again after the event was journaled.           *)
EndCaptureTested(h) ==
    LET d == hook[h].to
    IN  /\ hook[h].at \in {"capture", "orphan"} /\ d # Nobody /\ Alive(d)
        /\ captured' = [captured EXCEPT ![h] = Append(@, daemon[d].version)]
        /\ hook' = [hook EXCEPT
              ![h] = CASE @.at = "orphan" -> [@ EXCEPT !.at = "failed"]
                       [] daemon[d].quiescing ->
                            [@ EXCEPT !.at = "start", !.to = Nobody, !.refused = TRUE]
                       [] OTHER -> [@ EXCEPT !.at = "answer"]]
        /\ UNCHANGED <<plan, daemon, lock, path, lost, missed, cut>>

EndCapture(h) ==
    LET d == hook[h].to
    IN  /\ hook[h].at \in {"capture", "orphan"} /\ d # Nobody /\ Alive(d)
        /\ captured' = [captured EXCEPT ![h] = Append(@, daemon[d].version)]
        /\ Step(h, IF hook[h].at = "capture" THEN "answer" ELSE "failed")
        /\ UNCHANGED <<plan, daemon, lock, path, lost, missed, cut>>

(* { "accepted": true } arrives                                            *)
Accepted(h) ==
    /\ hook[h].at = "answer" /\ hook[h].to # Nobody
    /\ hook' = [hook EXCEPT ![h].at = "ok", ![h].to = Nobody]
    /\ UNCHANGED <<plan, daemon, lock, path, captured, lost, missed, cut>>

(* The connection breaks with the daemon, or was never accepted.  Only a   *)
(* hook that was refused before tries again, and only outside a handover.  *)
Broken(h) ==
    /\ hook[h].at \in {"init", "log", "capture", "answer", "shutdown", "drain"}
    /\ \/ hook[h].to = Nobody
       \/ hook[h].at = "init" /\ hook[h].to # Nobody /\ ~Listening(hook[h].to)
    /\ IF hook[h].refused /\ hook[h].at \notin {"shutdown", "drain"}
         THEN /\ hook' = [hook EXCEPT ![h].at = "start", ![h].to = Nobody]
              /\ UNCHANGED cut
         ELSE Fail(h)
    /\ lost' = IF hook[h].at \in {"capture", "answer"} THEN lost \cup {h} ELSE lost
    /\ UNCHANGED <<plan, daemon, lock, path, captured, missed>>

(* The capture timeout drops the hook's future: what the daemon was asked  *)
(* it still does.                                                          *)
Cancel(h) ==
    /\ plan.event = "cancel"
    /\ hook[h].at \notin {"ok", "failed", "orphan"}
    /\ IF hook[h].at = "capture" /\ hook[h].to # Nobody
         THEN Step(h, "orphan") /\ cut' = cut \cup {h}
         ELSE Fail(h)
    /\ plan' = [plan EXCEPT !.event = "none"]
    /\ UNCHANGED <<daemon, lock, path, captured, lost, missed>>

-----------------------------------------------------------------------------
(* The daemon.                                                             *)

Enter(d, at) == daemon' = [daemon EXCEPT ![d].at = at]

(* Every connection of a process ends with it; a capture under way may     *)
(* have reached the journal.                                               *)
Ended(d, written) ==
    /\ daemon' = [daemon EXCEPT ![d] = NoProcess]
    /\ hook' = [h \in Hooks |->
          IF hook[h].to # d THEN hook[h]
          ELSE [hook[h] EXCEPT !.to = Nobody,
                               !.at = IF @ = "orphan" THEN "failed" ELSE @]]
    /\ captured' = [h \in Hooks |->
          IF h \in written THEN Append(captured[h], daemon[d].version)
          ELSE captured[h]]

(* With the lock in hand nobody else touches the node: a stale one is      *)
(* replaced.  Only a listener of a release without the lock would answer.  *)
Claim(d) ==
    /\ daemon[d].at = "locking" /\ lock = Nobody /\ ~Reachable
    /\ Enter(d, "serving")
    /\ lock' = d /\ path' = d
    /\ UNCHANGED <<plan, hook, captured, lost, missed, cut>>

(* After a second the contender exits; it cannot tell a daemon that serves *)
(* from one that is draining behind a closed listener.                     *)
GiveUp(d) ==
    /\ daemon[d].at = "locking" /\ lock # Nobody
    /\ daemon' = [daemon EXCEPT ![d] = NoProcess]
    /\ missed' = IF daemon[lock].at \in {"closing", "unlocking"}
                 THEN missed \cup Polling ELSE missed
    /\ UNCHANGED <<plan, hook, lock, path, captured, lost, cut>>

TriggerShutdown(r) == [r EXCEPT !.quiescing = TRUE, !.stop = TRUE]

(* Mutant: a client that has gone stops nobody.                            *)
AnswerShutdownHeard(d, h) ==
    /\ h \in daemon[d].asked /\ daemon[d].drain = "done"
    /\ LET heard == h = Operator \/ hook[h].at = "drain" IN
       daemon' = [daemon EXCEPT ![d] =
          IF heard THEN [TriggerShutdown(daemon[d]) EXCEPT !.asked = @ \ {h}]
          ELSE [@ EXCEPT !.asked = @ \ {h}]]
    /\ hook' = [g \in Hooks |->
          IF g = h /\ hook[h].at = "drain"
          THEN Attempted(hook[h]) ELSE hook[g]]
    /\ UNCHANGED <<plan, lock, path, captured, lost, missed, cut>>

(* The answer to daemon.shutdown; the daemon stops also if nobody reads it *)
AnswerShutdown(d, h) ==
    /\ h \in daemon[d].asked /\ daemon[d].drain = "done"
    /\ daemon' = [daemon EXCEPT ![d] =
          [TriggerShutdown(daemon[d]) EXCEPT !.asked = @ \ {h}]]
    /\ hook' = [g \in Hooks |->
          IF g = h /\ hook[h].at = "drain"
          THEN Attempted(hook[h]) ELSE hook[g]]
    /\ UNCHANGED <<plan, lock, path, captured, lost, missed, cut>>

(* What ends a daemon besides a handover: the idle watchdog, an explicit   *)
(* stop command, or an interrupt of the accept loop.                       *)
StopFromOutside(d) ==
    /\ Listening(d) /\ plan.event \in {"idle", "command", "signal"}
    /\ daemon' = [daemon EXCEPT ![d] =
          CASE plan.event = "idle" -> TriggerShutdown(@)
            [] plan.event = "command" ->
                 [BeginDrain(daemon[d]) EXCEPT !.asked = @ \cup {Operator}]
            [] plan.event = "signal" -> [@ EXCEPT !.at = "closing"]]
    /\ missed' = IF plan.event = "signal" THEN missed \cup Polling ELSE missed
    /\ plan' = [plan EXCEPT !.event = "none"]
    /\ UNCHANGED <<hook, lock, path, captured, lost, cut>>

(* The accept loop sees the flag and drops the listener                    *)
StopAccepting(d) ==
    /\ Listening(d) /\ daemon[d].stop
    /\ Enter(d, "closing")
    /\ missed' = missed \cup Polling
    /\ UNCHANGED <<plan, hook, lock, path, captured, lost, cut>>

DrainBeforeExit(d) ==
    /\ daemon[d].at = "closing" /\ daemon[d].drain = "no"
    /\ daemon' = [daemon EXCEPT ![d] = BeginDrain(TriggerShutdown(@))]
    /\ UNCHANGED <<plan, hook, lock, path, captured, lost, missed, cut>>

(* The drain takes the gate once the last capture has left it              *)
DrainAll(d) ==
    /\ daemon[d].drain = "draining"
    /\ Capturing(d) = {}
    /\ daemon' = [daemon EXCEPT ![d].drain = "done"]
    /\ UNCHANGED <<plan, hook, lock, path, captured, lost, missed, cut>>

(* remove_file asks nobody whose node it is                                *)
Cleanup(d) ==
    /\ daemon[d].at = "closing" /\ daemon[d].drain = "done"
    /\ path' = Nobody
    /\ Enter(d, "unlocking")
    /\ UNCHANGED <<plan, hook, lock, captured, lost, missed, cut>>

Unlock(d) ==
    /\ daemon[d].at = "unlocking"
    /\ lock' = Nobody
    /\ Enter(d, "exiting")
    /\ UNCHANGED <<plan, hook, path, captured, lost, missed, cut>>

Exit(d) ==
    /\ daemon[d].at = "exiting"
    /\ Ended(d, {})
    /\ UNCHANGED <<plan, lock, path, lost, missed, cut>>

(* The kernel releases the lock of a process that dies, not its node       *)
Crash(d) ==
    /\ plan.event = "crash" /\ Alive(d)
    /\ \E written \in SUBSET Capturing(d) : Ended(d, written)
    /\ lock' = IF lock = d THEN Nobody ELSE lock
    /\ missed' = missed \cup Polling
    /\ plan' = [plan EXCEPT !.event = "none"]
    /\ UNCHANGED <<path, lost, cut>>

-----------------------------------------------------------------------------
HookStep(h) ==
    \/ Connect(h) \/ Expire(h) \/ Spawn(h) \/ Poll(h) \/ PollExpires(h)
    \/ Initialize(h) \/ AskShutdown(h) \/ WaitForDaemonExit(h)
    \/ BeginCapture(h) \/ EndCapture(h) \/ Accepted(h) \/ Broken(h)

DaemonStep(d) ==
    \/ Claim(d) \/ GiveUp(d)
    \/ \E h \in Hooks \cup {Operator} : AnswerShutdown(d, h)
    \/ StopAccepting(d) \/ DrainBeforeExit(d) \/ DrainAll(d)
    \/ Cleanup(d) \/ Unlock(d) \/ Exit(d)

Next ==
    \/ \E h \in Hooks : HookStep(h) \/ Cancel(h)
    \/ \E d \in Daemons : DaemonStep(d) \/ StopFromOutside(d) \/ Crash(d)

(* Every process keeps running: no step that it can take is put off for    *)
(* ever.  Interrupts, idleness, crashes and impatience need not occur.     *)
Spec ==
    /\ Init /\ [][Next]_vars
    /\ \A h \in Hooks : WF_vars(HookStep(h))
    /\ \A d \in Daemons : WF_vars(DaemonStep(d))

-----------------------------------------------------------------------------
(* Whoever listens, captures or drains owns the endpoint: it holds the     *)
(* lock, and what it listens on is what hooks connect to.  Two daemons     *)
(* never write the same journals (transport.rs, server/mod.rs).            *)
WritersOwnTheEndpoint ==
    \A d \in Daemons :
        /\ Listening(d) => lock = d /\ path = d
        /\ daemon[d].drain = "draining" => lock = d
        /\ Capturing(d) # {} => lock = d

(* No event is captured by a daemon older than the hook that reports it,   *)
(* whatever was replaced, respawned or retried in between (client.rs).     *)
CapturedByNoOlder ==
    \A h \in Hooks : \A i \in DOMAIN captured[h] :
        ~DaemonNeedsUpgrade(captured[h][i], plan.version[h])

(* A hook that reports success was captured; twice only if the answer to a *)
(* capture was lost, never by a refusal and its retry (client.rs,          *)
(* server/ingress.rs).                                                     *)
SuccessIsExact ==
    \A h \in Hooks :
        /\ hook[h].at = "ok" => captured[h] # << >>
        /\ Len(captured[h]) > 1 => h \in lost

(* Every hook ends, and ends captured unless it was cut off: its           *)
(* connection died with the daemon, it may not spawn one, the daemon it    *)
(* polled for left at once, or its attempts or its time were spent         *)
(* (client.rs, hook.rs).                                                   *)
CapturedUnlessCut ==
    \A h \in Hooks :
        <>[](\/ hook[h].at = "ok"
             \/ hook[h].at = "failed" /\ h \in cut)
=============================================================================
