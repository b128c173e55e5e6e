---------------------------- MODULE HandoverProof ----------------------------
(* Machine-checked proofs about Handover.                                    *)
EXTENDS Handover, SequenceTheorems, TLAPS

PlanSet == [first : Nat, version : [Hooks -> Nat], spawns : SUBSET Hooks,
            exact : SUBSET Hooks,
            event : {"none", "idle", "command", "signal", "crash", "cancel"}]
HookSet == [at : {"start", "spawn", "poll", "init", "log", "capture", "answer",
                  "shutdown", "drain", "leave", "orphan", "ok", "failed"},
            to : Daemons \cup {Nobody}, tries : Nat, refused : BOOLEAN]
DaemonSet == [at : {"none", "locking", "serving", "closing", "unlocking",
                    "exiting"},
              version : Nat, quiescing : BOOLEAN, stop : BOOLEAN,
              drain : {"no", "draining", "done"},
              asked : SUBSET (Hooks \cup {Operator})]

TypeOK ==
    /\ plan \in PlanSet
    /\ hook \in [Hooks -> HookSet]
    /\ daemon \in [Daemons -> DaemonSet]
    /\ lock \in Daemons \cup {Nobody}
    /\ path \in Daemons \cup {Nobody}
    /\ captured \in [Hooks -> Seq(Nat)]
    /\ lost \in SUBSET Hooks

(* A daemon holds the lock from its claim until it has removed the socket,  *)
(* and drains, or has drained, before it lets go.                           *)
EndpointInv ==
    \A d \in Daemons :
        /\ daemon[d].at \in {"serving", "closing", "unlocking"} => lock = d
        /\ Listening(d) => path = d
        /\ daemon[d].drain = "draining" => daemon[d].at \in {"serving", "closing"}
        /\ daemon[d].at \in {"unlocking", "exiting"} => daemon[d].drain = "done"
        /\ daemon[d].drain # "no" => daemon[d].quiescing

(* The drain outlasts the captures that were let in before it.              *)
CaptureInv ==
    \A h \in Hooks :
        hook[h].at \in {"capture", "orphan"} /\ hook[h].to # Nobody =>
            /\ daemon[hook[h].to].at \in {"serving", "closing"}
            /\ daemon[hook[h].to].drain # "done"

(* Past initialize, a hook talks to a daemon that need not be replaced; the *)
(* place of the daemon it is connected to is not used for another one.      *)
VersionInv ==
    \A h \in Hooks :
        /\ hook[h].to # Nobody => Alive(hook[h].to)
        /\ hook[h].at \in {"log", "capture", "orphan"} /\ hook[h].to # Nobody =>
              ~DaemonNeedsUpgrade(daemon[hook[h].to].version, plan.version[h])

(* What has been captured was answered for, or its answer was lost.         *)
AnswerInv ==
    \A h \in Hooks :
        /\ hook[h].at \in {"answer", "ok"} => captured[h] # << >>
        /\ captured[h] # << >> /\ h \notin lost =>
              \/ hook[h].at \in {"answer", "ok", "failed"}
              \/ hook[h].at = "capture" /\ hook[h].to = Nobody
        /\ h \notin lost => Len(captured[h]) <= 1

Inv == /\ TypeOK /\ EndpointInv /\ CaptureInv /\ VersionInv
       /\ CapturedByNoOlder /\ AnswerInv

------------------------------------------------------------------------------
(* What a step does to the hook and the daemon it is about.                   *)

Stages == {"start", "spawn", "poll", "init", "log", "capture", "answer",
           "shutdown", "drain", "leave", "orphan", "ok", "failed"}

(* Hook h moves to a stage and a daemon, the other hooks stay.                *)
Moves(h, at, to) ==
    /\ hook' \in [Hooks -> HookSet]
    /\ hook'[h].at = at /\ hook'[h].to = to
    /\ \A g \in Hooks : g # h => hook'[g] = hook[g]

(* Daemon d becomes r, the other daemons stay.                                *)
Becomes(d, r) ==
    /\ daemon' \in [Daemons -> DaemonSet]
    /\ daemon'[d] = r
    /\ \A e \in Daemons : e # d => daemon'[e] = daemon[e]

(* Step changes the stage and keeps the connection.                           *)
LEMMA StepMoves ==
    ASSUME TypeOK, NEW h \in Hooks, NEW at \in Stages, Step(h, at)
    PROVE  Moves(h, at, hook[h].to)
BY Zenon DEF TypeOK, HookSet, Stages, Step, Moves

(* A hook that fails has no connection.                                       *)
LEMMA FailMoves ==
    ASSUME TypeOK, NEW h \in Hooks, Fail(h)
    PROVE  Moves(h, "failed", Nobody)
BY Zenon DEF TypeOK, HookSet, Fail, Moves

(* An assignment to the record of one daemon.                                 *)
LEMMA DaemonBecomes ==
    ASSUME TypeOK, NEW d \in Daemons, NEW r \in DaemonSet,
           daemon' = [daemon EXCEPT ![d] = r]
    PROVE  Becomes(d, r)
BY DEF TypeOK, Becomes

(* A change of stage.                                                         *)
LEMMA EnterBecomes ==
    ASSUME TypeOK, NEW d \in Daemons,
           NEW at \in {"none", "locking", "serving", "closing", "unlocking", "exiting"},
           Enter(d, at)
    PROVE  Becomes(d, [daemon[d] EXCEPT !.at = at])
<1>1. [daemon[d] EXCEPT !.at = at] \in DaemonSet
    BY Zenon DEF TypeOK, DaemonSet
<1>2. daemon' = [daemon EXCEPT ![d] = [daemon[d] EXCEPT !.at = at]]
    BY DEF Enter
<1> QED BY <1>1, <1>2, DaemonBecomes, Zenon

(* What begins a drain or asks a daemon to stop leaves the rest alone.        *)
LEMMA StopRecords ==
    ASSUME NEW r \in DaemonSet
    PROVE  /\ BeginDrain(r) \in DaemonSet
           /\ BeginDrain(r).at = r.at /\ BeginDrain(r).version = r.version
           /\ BeginDrain(r).quiescing
           /\ BeginDrain(r).drain = IF r.drain = "no" THEN "draining" ELSE r.drain
           /\ TriggerShutdown(r) \in DaemonSet
           /\ TriggerShutdown(r).at = r.at
           /\ TriggerShutdown(r).version = r.version
           /\ TriggerShutdown(r).quiescing
           /\ TriggerShutdown(r).drain = r.drain
BY Zenon DEF DaemonSet, BeginDrain, TriggerShutdown

(* A process that ends leaves an empty place, breaks its connections and has  *)
(* journaled what it was said to have written.                                *)
LEMMA EndedChanges ==
    ASSUME TypeOK, NEW d \in Daemons, NEW written \in SUBSET Hooks,
           Ended(d, written)
    PROVE  /\ Becomes(d, NoProcess)
           /\ hook' \in [Hooks -> HookSet]
           /\ captured' \in [Hooks -> Seq(Nat)]
           /\ \A h \in Hooks : hook[h].to # d => hook'[h] = hook[h]
           /\ \A h \in Hooks : hook[h].to = d =>
                 /\ hook'[h].to = Nobody
                 /\ hook'[h].at = IF hook[h].at = "orphan" THEN "failed"
                                  ELSE hook[h].at
           /\ \A h \in Hooks \ written : captured'[h] = captured[h]
           /\ \A h \in written :
                 captured'[h] = Append(captured[h], daemon[d].version)
<1>1. NoProcess \in DaemonSet
    BY DEF NoProcess, DaemonSet
<1>2. Becomes(d, NoProcess)
    BY <1>1, DaemonBecomes, Zenon DEF Ended
<1>3. hook' \in [Hooks -> HookSet]
    BY Zenon DEF TypeOK, HookSet, Ended
<1>4. captured' \in [Hooks -> Seq(Nat)]
    <2>1. daemon[d].version \in Nat
        BY DEF TypeOK, DaemonSet
    <2> QED BY <2>1, AppendProperties, Zenon DEF TypeOK, Ended
<1>5. ASSUME NEW h \in Hooks, hook[h].to # d PROVE hook'[h] = hook[h]
    BY <1>5, Zenon DEF Ended
<1>6. ASSUME NEW h \in Hooks, hook[h].to = d
      PROVE  /\ hook'[h].to = Nobody
             /\ hook'[h].at = IF hook[h].at = "orphan" THEN "failed" ELSE hook[h].at
    BY <1>6, Zenon DEF Ended, TypeOK, HookSet
<1>7. /\ \A h \in Hooks \ written : captured'[h] = captured[h]
      /\ \A h \in written : captured'[h] = Append(captured[h], daemon[d].version)
    BY Zenon DEF Ended
<1> QED BY <1>2, <1>3, <1>4, <1>5, <1>6, <1>7
------------------------------------------------------------------------------
(* The invariant is inductive.                                                *)

(* A step that moves one hook and no daemon keeps the invariant if what the   *)
(* hook arrives at satisfies it.                                              *)
LEMMA HookMovesInv ==
    ASSUME Inv, NEW h \in Hooks, NEW at, NEW to, Moves(h, at, to),
           UNCHANGED <<daemon, lock, path, captured>>,
           plan' \in PlanSet, plan'.version = plan.version,
           lost' \in SUBSET Hooks, lost \subseteq lost',
           to # Nobody => Alive(to),
           at \in {"capture", "orphan"} /\ to # Nobody =>
              /\ daemon[to].at \in {"serving", "closing"}
              /\ daemon[to].drain # "done",
           at \in {"log", "capture", "orphan"} /\ to # Nobody =>
              ~DaemonNeedsUpgrade(daemon[to].version, plan.version[h]),
           at \in {"answer", "ok"} => captured[h] # << >>,
           captured[h] # << >> /\ h \notin lost' =>
              \/ at \in {"answer", "ok", "failed"}
              \/ at = "capture" /\ to = Nobody
    PROVE  Inv'
<1>1. TypeOK'
    BY DEF Inv, TypeOK, Moves
<1>2. EndpointInv'
    BY DEF Inv, EndpointInv, Listening
<1>3. CaptureInv'
    BY DEF Inv, CaptureInv, Moves
<1>4. VersionInv'
    BY DEF Inv, VersionInv, Moves, Alive
<1>5. CapturedByNoOlder'
    BY DEF Inv, CapturedByNoOlder
<1>6. AnswerInv'
    BY DEF Inv, AnswerInv, Moves
<1> QED BY <1>1, <1>2, <1>3, <1>4, <1>5, <1>6 DEF Inv

(* A step that changes one daemon keeps the invariant if the daemon owns the  *)
(* endpoint afterwards as it must, and neither its version nor its captures   *)
(* are disturbed; a hook that moves with it is not about to capture.          *)
LEMMA DaemonBecomesInv ==
    ASSUME Inv, NEW d \in Daemons, NEW r \in DaemonSet, Becomes(d, r),
           UNCHANGED <<captured, lost>>,
           hook' \in [Hooks -> HookSet],
           \A h \in Hooks :
              \/ hook'[h] = hook[h]
              \/ /\ hook[h].at \notin {"capture", "answer", "ok", "failed"}
                 /\ hook'[h].at \in {"poll", "drain", "leave"}
                 /\ hook'[h].to \in {hook[h].to, Nobody},
           plan' \in PlanSet, plan'.version = plan.version,
           lock' \in Daemons \cup {Nobody}, path' \in Daemons \cup {Nobody},
           r.at \in {"serving", "closing", "unlocking"} => lock' = d,
           r.at = "serving" => path' = d,
           \A e \in Daemons : /\ e # d
                              /\ daemon[e].at \in {"serving", "closing", "unlocking"}
              => lock' = e /\ (Listening(e) => path' = e),
           r.drain = "draining" => r.at \in {"serving", "closing"},
           r.at \in {"unlocking", "exiting"} => r.drain = "done",
           r.drain # "no" => r.quiescing,
           \A h \in Hooks : hook[h].to = d =>
              /\ r.at \in {"serving", "closing", "unlocking", "exiting"}
              /\ r.version = daemon[d].version,
           Capturing(d) # {} =>
              r.at \in {"serving", "closing"} /\ r.drain # "done"
    PROVE  Inv'
<1>1. TypeOK'
    BY DEF Inv, TypeOK, Becomes
<1>2. EndpointInv'
    <2> SUFFICES ASSUME NEW e \in Daemons
                 PROVE  /\ daemon'[e].at \in {"serving", "closing", "unlocking"} => lock' = e
                        /\ Listening(e)' => path' = e
                        /\ daemon'[e].drain = "draining" =>
                              daemon'[e].at \in {"serving", "closing"}
                        /\ daemon'[e].at \in {"unlocking", "exiting"} =>
                              daemon'[e].drain = "done"
                        /\ daemon'[e].drain # "no" => daemon'[e].quiescing
        BY DEF EndpointInv
    <2>1. CASE e = d
        BY <2>1 DEF Becomes, Listening
    <2>2. CASE e # d
        BY <2>2 DEF Becomes, Listening, Inv, EndpointInv
    <2> QED BY <2>1, <2>2
<1>3. CaptureInv'
    <2> SUFFICES ASSUME NEW h \in Hooks, hook'[h].at \in {"capture", "orphan"},
                        hook'[h].to # Nobody
                 PROVE  /\ daemon'[hook'[h].to].at \in {"serving", "closing"}
                        /\ daemon'[hook'[h].to].drain # "done"
        BY DEF CaptureInv
    <2>1. hook'[h] = hook[h] /\ hook[h].to \in Daemons
        BY Zenon DEF Inv, TypeOK, HookSet
    <2>2. CASE hook[h].to = d
        BY <2>1, <2>2 DEF Becomes, Capturing
    <2>3. CASE hook[h].to # d
        BY <2>1, <2>3 DEF Inv, CaptureInv, Becomes
    <2> QED BY <2>2, <2>3
<1>4. VersionInv'
    <2> SUFFICES ASSUME NEW h \in Hooks, hook'[h].to # Nobody
                 PROVE  /\ Alive(hook[h].to)'
                        /\ hook'[h].at \in {"log", "capture", "orphan"} =>
                              ~DaemonNeedsUpgrade(daemon'[hook'[h].to].version,
                                                  plan'.version[h])
        BY DEF VersionInv
    <2>1. /\ hook'[h].to = hook[h].to /\ hook[h].to \in Daemons
          /\ hook'[h].at \in {"log", "capture", "orphan"} => hook'[h] = hook[h]
        BY Zenon DEF Inv, TypeOK, HookSet
    <2>2. CASE hook[h].to = d
        BY <2>1, <2>2 DEF Becomes, Alive, Inv, VersionInv
    <2>3. CASE hook[h].to # d
        BY <2>1, <2>3 DEF Becomes, Alive, Inv, VersionInv
    <2> QED BY <2>2, <2>3
<1>5. CapturedByNoOlder'
    BY DEF Inv, CapturedByNoOlder
<1>6. AnswerInv'
    BY DEF Inv, AnswerInv
<1> QED BY <1>1, <1>2, <1>3, <1>4, <1>5, <1>6 DEF Inv

(* What the invariant says of one hook.                                       *)
LEMMA HookFacts ==
    ASSUME Inv, NEW h \in Hooks
    PROVE  /\ TypeOK /\ plan \in PlanSet /\ lost \in SUBSET Hooks
           /\ hook[h].at \in Stages /\ hook[h].to \in Daemons \cup {Nobody}
           /\ hook[h].to # Nobody => Alive(hook[h].to)
           /\ hook[h].at \in {"capture", "orphan"} /\ hook[h].to # Nobody =>
                 /\ daemon[hook[h].to].at \in {"serving", "closing"}
                 /\ daemon[hook[h].to].drain # "done"
           /\ hook[h].at \in {"log", "capture", "orphan"} /\ hook[h].to # Nobody =>
                 ~DaemonNeedsUpgrade(daemon[hook[h].to].version, plan.version[h])
           /\ hook[h].at \in {"answer", "ok"} => captured[h] # << >>
           /\ captured[h] # << >> /\ h \notin lost =>
                 \/ hook[h].at \in {"answer", "ok", "failed"}
                 \/ hook[h].at = "capture" /\ hook[h].to = Nobody
BY DEF Inv, TypeOK, HookSet, Stages, VersionInv, CaptureInv, AnswerInv

(* A hook that connects has found a daemon that listens.                      *)
LEMMA ReachableIsAlive ==
    ASSUME TypeOK, Reachable
    PROVE  path \in Daemons /\ path # Nobody /\ Alive(path)
BY DEF TypeOK, Reachable, Listening, Alive

(* The steps in which a hook moves alone.                                     *)
LEMMA HookStepInv ==
    ASSUME Inv, NEW h \in Hooks,
           \/ Connect(h) \/ Expire(h) \/ Poll(h) \/ PollExpires(h)
           \/ Initialize(h) \/ WaitForDaemonExit(h) \/ BeginCapture(h)
           \/ Accepted(h) \/ Broken(h) \/ Cancel(h)
    PROVE  Inv'
<1> USE HookFacts, HandoverAssumption DEF Nobody
<1>t. TypeOK
    BY DEF Inv
<1>1. CASE Connect(h)
    <2>1. CASE Reachable /\ hook' = [hook EXCEPT ![h].at = "init", ![h].to = path]
        <3>1. Moves(h, "init", path)
            BY <1>t, <2>1, ReachableIsAlive, ZenonT(40) DEF TypeOK, HookSet, Moves
        <3> QED BY <1>t, <1>1, <2>1, <3>1, ReachableIsAlive, HookMovesInv DEF Connect
    <2>2. CASE Step(h, "spawn")
        <3>1. Moves(h, "spawn", hook[h].to)
            BY <1>t, <2>2, StepMoves DEF Stages
        <3> QED BY <1>1, <3>1, HookMovesInv DEF Connect
    <2>3. CASE Fail(h)
        <3>1. Moves(h, "failed", Nobody)
            BY <1>t, <2>3, FailMoves
        <3> QED BY <1>1, <3>1, HookMovesInv DEF Connect
    <2> QED BY <1>1, <2>1, <2>2, <2>3 DEF Connect
<1>2. CASE Expire(h)
    <2>1. Moves(h, "failed", Nobody)
        BY <1>t, <1>2, FailMoves DEF Expire
    <2> QED BY <1>2, <2>1, HookMovesInv DEF Expire
<1>3. CASE Poll(h)
    <2>1. Moves(h, "init", path)
        BY <1>t, <1>3, ReachableIsAlive, ZenonT(40) DEF TypeOK, HookSet, Moves, Poll
    <2> QED BY <1>t, <1>3, <2>1, ReachableIsAlive, HookMovesInv DEF Poll
<1>4. CASE PollExpires(h)
    <2>1. Moves(h, "failed", hook[h].to)
        BY <1>t, <1>4, Zenon DEF TypeOK, HookSet, Moves, PollExpires
    <2> QED BY <1>4, <2>1, HookMovesInv DEF PollExpires
<1>5. CASE Initialize(h)
    <2> DEFINE d == hook[h].to
    <2>1. CASE ~Replaces(h, daemon[d].version) /\ Step(h, "log")
        <3>1. Moves(h, "log", d)
            BY <1>t, <2>1, StepMoves DEF Stages
        <3>2. ~DaemonNeedsUpgrade(daemon[d].version, plan.version[h])
            BY <2>1 DEF Replaces, DaemonNeedsUpgrade
        <3> QED BY <1>5, <3>1, <3>2, HookMovesInv DEF Initialize
    <2>2. CASE Step(h, "shutdown")
        <3>1. Moves(h, "shutdown", d)
            BY <1>t, <2>2, StepMoves DEF Stages
        <3> QED BY <1>5, <3>1, HookMovesInv DEF Initialize
    <2>3. CASE Fail(h)
        <3>1. Moves(h, "failed", Nobody)
            BY <1>t, <2>3, FailMoves
        <3> QED BY <1>5, <3>1, HookMovesInv DEF Initialize
    <2> QED BY <1>5, <2>1, <2>2, <2>3 DEF Initialize
<1>6. CASE WaitForDaemonExit(h)
    <2>1. Moves(h, "start", hook[h].to)
        BY <1>t, <1>6, StepMoves DEF Stages, WaitForDaemonExit
    <2> QED BY <1>6, <2>1, HookMovesInv DEF WaitForDaemonExit
<1>7. CASE BeginCapture(h)
    <2> DEFINE d == hook[h].to
    <2>1. CASE daemon[d].quiescing
        <3>1. Moves(h, "start", Nobody)
            <4>1. hook' = [hook EXCEPT ![h] = [hook[h] EXCEPT !.at = "start", !.to = Nobody, !.refused = TRUE]]
                BY <1>7, <2>1 DEF BeginCapture
            <4>2. [hook[h] EXCEPT !.at = "start", !.to = Nobody, !.refused = TRUE] \in HookSet
                BY <1>t, Zenon DEF TypeOK, HookSet
            <4> QED BY <1>t, <4>1, <4>2 DEF TypeOK, HookSet, Moves
        <3> QED BY <1>7, <3>1, HookMovesInv DEF BeginCapture
    <2>2. CASE ~daemon[d].quiescing
        <3>1. Moves(h, "capture", d)
            <4>1. hook' = [hook EXCEPT ![h] = [hook[h] EXCEPT !.at = "capture"]]
                BY <1>7, <2>2 DEF BeginCapture
            <4>2. [hook[h] EXCEPT !.at = "capture"] \in HookSet
                BY <1>t, Zenon DEF TypeOK, HookSet
            <4> QED BY <1>t, <4>1, <4>2 DEF TypeOK, HookSet, Moves
        <3>2. daemon[d].at \in {"serving", "closing"} /\ daemon[d].drain # "done"
            BY <1>7, <2>2 DEF BeginCapture, Alive, Inv, EndpointInv
        <3> QED BY <1>7, <3>1, <3>2, HookMovesInv DEF BeginCapture
    <2> QED BY <2>1, <2>2
<1>8. CASE Accepted(h)
    <2>1. Moves(h, "ok", Nobody)
        BY <1>t, <1>8 DEF TypeOK, HookSet, Moves, Accepted
    <2> QED BY <1>8, <2>1, HookMovesInv DEF Accepted
<1>9. CASE Broken(h)
    <2>1. PICK at \in {"start", "failed"} : Moves(h, at, Nobody)
        <3>1. CASE Fail(h)
            BY <1>t, <3>1, FailMoves
        <3>2. CASE hook' = [hook EXCEPT ![h].at = "start", ![h].to = Nobody]
            <4>1. Moves(h, "start", Nobody)
                BY <1>t, <3>2, ZenonT(40) DEF TypeOK, HookSet, Moves
            <4> QED BY <4>1
        <3> QED BY <1>9, <3>1, <3>2 DEF Broken
    <2>2. captured[h] # << >> /\ h \notin lost' => at = "failed"
        BY <1>9 DEF Broken
    <2>3. lost' \in SUBSET Hooks /\ lost \subseteq lost'
        BY <1>9 DEF Broken
    <2> QED BY <1>9, <2>1, <2>2, <2>3, HookMovesInv DEF Broken
<1>10. CASE Cancel(h)
    <2>1. plan' \in PlanSet /\ plan'.version = plan.version
        BY <1>10, Zenon DEF Cancel, PlanSet
    <2>2. CASE Fail(h)
        <3>1. Moves(h, "failed", Nobody)
            BY <1>t, <2>2, FailMoves
        <3> QED BY <1>10, <2>1, <3>1, HookMovesInv DEF Cancel
    <2>3. CASE hook[h].at = "capture" /\ hook[h].to # Nobody /\ Step(h, "orphan")
        <3>1. Moves(h, "orphan", hook[h].to)
            BY <1>t, <2>3, StepMoves DEF Stages
        <3> QED BY <1>10, <2>1, <2>3, <3>1, HookMovesInv DEF Cancel
    <2> QED BY <1>10, <2>2, <2>3 DEF Cancel
<1> QED BY <1>1, <1>2, <1>3, <1>4, <1>5, <1>6, <1>7, <1>8, <1>9, <1>10
(* A capture that ends answers its hook, or nobody.                           *)
LEMMA EndCaptureInv ==
    ASSUME Inv, NEW h \in Hooks, EndCapture(h)
    PROVE  Inv'
<1> USE HandoverAssumption DEF Nobody
<1> DEFINE d == hook[h].to
           at == IF hook[h].at = "capture" THEN "answer" ELSE "failed"
<1>t. TypeOK
    BY DEF Inv
<1>1. Moves(h, at, d) /\ at \in {"answer", "failed"}
    BY <1>t, StepMoves DEF EndCapture, Stages
<1>2. d \in Daemons /\ Alive(d) /\ daemon[d].version \in Nat
    BY <1>t, HookFacts, Zenon DEF EndCapture, TypeOK, DaemonSet
<1>3. /\ captured' \in [Hooks -> Seq(Nat)]
      /\ captured'[h] = Append(captured[h], daemon[d].version)
      /\ captured'[h] # << >>
      /\ Len(captured'[h]) = Len(captured[h]) + 1
      /\ \A g \in Hooks : g # h => captured'[g] = captured[g]
    BY <1>t, <1>2, AppendProperties DEF EndCapture, TypeOK
<1>4. TypeOK'
    BY <1>t, <1>1, <1>3 DEF TypeOK, EndCapture, Moves
<1>5. EndpointInv'
    BY DEF Inv, EndpointInv, Listening, EndCapture
<1>6. CaptureInv'
    BY <1>1 DEF Inv, CaptureInv, EndCapture, Moves
<1>7. VersionInv'
    BY <1>1 DEF Inv, VersionInv, EndCapture, Moves, Alive
<1>8. CapturedByNoOlder'
    <2> SUFFICES ASSUME NEW g \in Hooks, NEW i \in DOMAIN captured'[g]
                 PROVE  ~DaemonNeedsUpgrade(captured'[g][i], plan.version[g])
        BY DEF CapturedByNoOlder, EndCapture
    <2>1. CASE g # h
        BY <1>3, <2>1, Zenon DEF Inv, CapturedByNoOlder
    <2>2. CASE g = h /\ i \in DOMAIN captured[h]
        <3>1. captured'[h][i] = captured[h][i]
            BY <1>t, <1>2, <1>3, <2>2, AppendProperties DEF TypeOK
        <3> QED BY <2>2, <3>1 DEF Inv, CapturedByNoOlder
    <2>3. CASE g = h /\ i \notin DOMAIN captured[h]
        <3>1. captured'[h][i] = daemon[d].version
            BY <1>t, <1>2, <1>3, <2>3, AppendProperties DEF TypeOK
        <3> QED BY <2>3, <3>1, HookFacts DEF EndCapture
    <2> QED BY <2>1, <2>2, <2>3
<1>9. AnswerInv'
    <2>1. h \notin lost => Len(captured[h]) = 0
        BY <1>t, HookFacts DEF EndCapture, TypeOK
    <2> QED BY <1>1, <1>3, <2>1 DEF Inv, AnswerInv, EndCapture, Moves
<1> QED BY <1>4, <1>5, <1>6, <1>7, <1>8, <1>9 DEF Inv
(* What the invariant says of one daemon.                                     *)
LEMMA DaemonFacts ==
    ASSUME Inv, NEW d \in Daemons
    PROVE  /\ daemon[d] \in DaemonSet
           /\ daemon[d].at \in {"none", "locking", "serving", "closing",
                               "unlocking", "exiting"}
           /\ daemon[d].drain \in {"no", "draining", "done"}
           /\ daemon[d].at \in {"serving", "closing", "unlocking"} => lock = d
           /\ Listening(d) => path = d
           /\ daemon[d].drain = "draining" => daemon[d].at \in {"serving", "closing"}
           /\ daemon[d].at \in {"unlocking", "exiting"} => daemon[d].drain = "done"
           /\ daemon[d].drain # "no" => daemon[d].quiescing
           /\ Capturing(d) # {} =>
                 daemon[d].at \in {"serving", "closing"} /\ daemon[d].drain # "done"
           /\ \A h \in Hooks : hook[h].to = d => Alive(d)
<1> USE HandoverAssumption DEF Nobody
<1>t. TypeOK /\ EndpointInv /\ CaptureInv /\ VersionInv
    BY DEF Inv
<1>1. /\ daemon[d] \in DaemonSet
      /\ daemon[d].at \in {"none", "locking", "serving", "closing",
                          "unlocking", "exiting"}
      /\ daemon[d].drain \in {"no", "draining", "done"}
    BY <1>t DEF TypeOK, DaemonSet
<1>2. Capturing(d) # {} =>
         daemon[d].at \in {"serving", "closing"} /\ daemon[d].drain # "done"
    BY <1>t DEF CaptureInv, Capturing
<1>3. \A h \in Hooks : hook[h].to = d => Alive(d)
    BY <1>t DEF VersionInv
<1> QED BY <1>t, <1>1, <1>2, <1>3 DEF EndpointInv

(* The steps in which a daemon changes and its processes go on.               *)
LEMMA DaemonStepInv ==
    ASSUME Inv, NEW d \in Daemons,
           \/ Claim(d) \/ GiveUp(d) \/ StopFromOutside(d) \/ StopAccepting(d)
           \/ DrainBeforeExit(d) \/ DrainAll(d) \/ Cleanup(d) \/ Unlock(d)
    PROVE  Inv'
<1> USE HandoverAssumption, DaemonFacts DEF Nobody
<1>t. /\ TypeOK /\ plan \in PlanSet /\ hook \in [Hooks -> HookSet]
      /\ lock \in Daemons \cup {Nobody} /\ path \in Daemons \cup {Nobody}
    BY DEF Inv, TypeOK
<1>f. ASSUME NEW at \in {"none", "locking", "serving", "closing", "unlocking", "exiting"}
      PROVE  LET r == [daemon[d] EXCEPT !.at = at]
             IN  /\ r \in DaemonSet /\ r.at = at /\ r.version = daemon[d].version
                 /\ r.drain = daemon[d].drain /\ r.quiescing = daemon[d].quiescing
    BY DEF DaemonSet
<1>1. CASE Claim(d)
    <2> DEFINE r == [daemon[d] EXCEPT !.at = "serving"]
    <2>1. Becomes(d, r) /\ r \in DaemonSet
        BY <1>t, <1>f, <1>1, EnterBecomes, Zenon DEF Claim
    <2>2. /\ r.at = "serving" /\ r.version = daemon[d].version
          /\ r.drain = daemon[d].drain /\ r.quiescing = daemon[d].quiescing
        BY <1>f
    <2> HIDE DEF r
    <2>3. Capturing(d) = {} /\ \A h \in Hooks : hook[h].to # d
        BY <1>1 DEF Claim, Alive
    <2> QED BY <1>t, <1>1, <2>1, <2>2, <2>3, DaemonBecomesInv DEF Claim
<1>2. CASE GiveUp(d)
    <2>1. NoProcess \in DaemonSet /\ NoProcess.at = "none" /\ NoProcess.drain = "no"
        BY DEF NoProcess, DaemonSet
    <2>2. Becomes(d, NoProcess)
        BY <1>t, <1>2, <2>1, DaemonBecomes, Zenon DEF GiveUp
    <2>3. Capturing(d) = {} /\ \A h \in Hooks : hook[h].to # d
        BY <1>2 DEF GiveUp, Alive
    <2> QED BY <1>t, <1>2, <2>1, <2>2, <2>3, DaemonBecomesInv DEF GiveUp
<1>3. CASE StopFromOutside(d)
    <2>1. plan' \in PlanSet /\ plan'.version = plan.version
        BY <1>t, <1>3 DEF StopFromOutside, PlanSet
    <2>2. CASE plan.event = "idle"
        <3>1. Becomes(d, TriggerShutdown(daemon[d]))
            BY <1>t, <1>3, <2>2, StopRecords, DaemonBecomes, Zenon DEF StopFromOutside
        <3> QED BY <1>t, <1>3, <2>1, <3>1, StopRecords, DaemonBecomesInv
                DEF StopFromOutside, Listening
    <2>3. CASE plan.event = "command"
        <3> DEFINE r == [BeginDrain(daemon[d]) EXCEPT !.asked = @ \cup {Operator}]
        <3>1. /\ r \in DaemonSet /\ r.at = daemon[d].at
              /\ r.version = daemon[d].version /\ r.quiescing
              /\ r.drain = IF daemon[d].drain = "no" THEN "draining"
                           ELSE daemon[d].drain
            BY StopRecords DEF DaemonSet
        <3>2. daemon' = [daemon EXCEPT ![d] = r]
            BY <1>3, <2>3 DEF StopFromOutside
        <3> HIDE DEF r
        <3>3. Becomes(d, r)
            BY <1>t, <3>1, <3>2, DaemonBecomes, Zenon
        <3> QED BY <1>t, <1>3, <2>1, <3>1, <3>3, DaemonBecomesInv
                DEF StopFromOutside, Listening
    <2>4. CASE plan.event = "signal"
        <3> DEFINE r == [daemon[d] EXCEPT !.at = "closing"]
        <3>1. /\ r \in DaemonSet /\ r.at = "closing" /\ r.version = daemon[d].version
              /\ r.drain = daemon[d].drain /\ r.quiescing = daemon[d].quiescing
            BY <1>f
        <3>2. daemon' = [daemon EXCEPT ![d] = r]
            BY <1>3, <2>4 DEF StopFromOutside
        <3> HIDE DEF r
        <3>3. Becomes(d, r)
            BY <1>t, <3>1, <3>2, DaemonBecomes, Zenon
        <3> QED BY <1>t, <1>3, <2>1, <3>1, <3>3, DaemonBecomesInv
                DEF StopFromOutside, Listening
    <2> QED BY <1>3, <2>2, <2>3, <2>4 DEF StopFromOutside
<1>4. CASE StopAccepting(d)
    <2> DEFINE r == [daemon[d] EXCEPT !.at = "closing"]
    <2>1. Becomes(d, r) /\ r \in DaemonSet
        BY <1>t, <1>f, <1>4, EnterBecomes, Zenon DEF StopAccepting
    <2>2. /\ r.at = "closing" /\ r.version = daemon[d].version
          /\ r.drain = daemon[d].drain /\ r.quiescing = daemon[d].quiescing
        BY <1>f
    <2> HIDE DEF r
    <2> QED BY <1>t, <1>4, <2>1, <2>2, DaemonBecomesInv DEF StopAccepting, Listening
<1>5. CASE DrainBeforeExit(d)
    <2> DEFINE r == BeginDrain(TriggerShutdown(daemon[d]))
    <2>1. /\ r \in DaemonSet /\ r.at = daemon[d].at
          /\ r.version = daemon[d].version /\ r.quiescing
          /\ r.drain = IF daemon[d].drain = "no" THEN "draining" ELSE daemon[d].drain
        BY StopRecords
    <2>2. Becomes(d, r)
        BY <1>t, <1>5, <2>1, DaemonBecomes, Zenon DEF DrainBeforeExit
    <2> HIDE DEF r
    <2> QED BY <1>t, <1>5, <2>1, <2>2, DaemonBecomesInv DEF DrainBeforeExit
<1>6. CASE DrainAll(d)
    <2> DEFINE r == [daemon[d] EXCEPT !.drain = "done"]
    <2>1. /\ r \in DaemonSet /\ r.at = daemon[d].at /\ r.version = daemon[d].version
          /\ r.drain = "done" /\ r.quiescing = daemon[d].quiescing
        BY DEF DaemonSet
    <2>2. daemon' = [daemon EXCEPT ![d] = r]
        BY <1>6 DEF DrainAll
    <2> HIDE DEF r
    <2>3. Becomes(d, r)
        BY <1>t, <2>1, <2>2, DaemonBecomes, Zenon
    <2> QED BY <1>t, <1>6, <2>1, <2>3, DaemonBecomesInv DEF DrainAll, Alive, Listening
<1>7. CASE Cleanup(d)
    <2> DEFINE r == [daemon[d] EXCEPT !.at = "unlocking"]
    <2>1. Becomes(d, r) /\ r \in DaemonSet
        BY <1>t, <1>f, <1>7, EnterBecomes, Zenon DEF Cleanup
    <2>2. /\ r.at = "unlocking" /\ r.version = daemon[d].version
          /\ r.drain = daemon[d].drain /\ r.quiescing = daemon[d].quiescing
        BY <1>f
    <2> HIDE DEF r
    <2> QED BY <1>t, <1>7, <2>1, <2>2, DaemonBecomesInv DEF Cleanup
<1>8. CASE Unlock(d)
    <2> DEFINE r == [daemon[d] EXCEPT !.at = "exiting"]
    <2>1. Becomes(d, r) /\ r \in DaemonSet
        BY <1>t, <1>f, <1>8, EnterBecomes, Zenon DEF Unlock
    <2>2. /\ r.at = "exiting" /\ r.version = daemon[d].version
          /\ r.drain = daemon[d].drain /\ r.quiescing = daemon[d].quiescing
        BY <1>f
    <2> HIDE DEF r
    <2> QED BY <1>t, <1>8, <2>1, <2>2, DaemonBecomesInv DEF Unlock
<1> QED BY <1>1, <1>2, <1>3, <1>4, <1>5, <1>6, <1>7, <1>8
(* The record of a hook that gives its connection up after an attempt.        *)
LEMMA AttemptedRecord ==
    ASSUME NEW r \in HookSet
    PROVE  /\ Attempted(r) \in HookSet
           /\ Attempted(r).at = "leave" /\ Attempted(r).to = Nobody
<1>1. r.tries + 1 \in Nat /\ r.refused \in BOOLEAN
    BY DEF HookSet
<1> QED BY <1>1 DEF HookSet, Attempted

(* A hook spawns a daemon, or asks one to stop and is answered.               *)
LEMMA JointStepInv ==
    ASSUME Inv,
           \/ \E h \in Hooks : Spawn(h) \/ AskShutdown(h)
           \/ \E d \in Daemons, h \in Hooks \cup {Operator} : AnswerShutdown(d, h)
    PROVE  Inv'
<1> USE HandoverAssumption, DaemonFacts, HookFacts DEF Nobody
<1>t. /\ TypeOK /\ plan \in PlanSet /\ hook \in [Hooks -> HookSet]
      /\ lock \in Daemons \cup {Nobody} /\ path \in Daemons \cup {Nobody}
    BY DEF Inv, TypeOK
<1>1. ASSUME NEW h \in Hooks, Spawn(h) PROVE Inv'
    <2> DEFINE r == [NoProcess EXCEPT !.at = "locking", !.version = plan.version[h]]
    <2>1. PICK d \in Daemons : d \in Free /\ daemon' = [daemon EXCEPT ![d] = r]
        BY <1>1, Zenon DEF Spawn, Free
    <2>2. /\ r \in DaemonSet /\ r.at = "locking" /\ r.drain = "no"
        BY <1>t, Zenon DEF PlanSet, NoProcess, DaemonSet
    <2>3. \A g \in Hooks : hook[g].to # d
        BY <2>1 DEF Free
    <2>4. Capturing(d) = {}
        BY <2>3 DEF Capturing
    <2> HIDE DEF r
    <2>5. Becomes(d, r)
        BY <1>t, <2>1, <2>2, DaemonBecomes, Zenon
    <2>6. Moves(h, "poll", hook[h].to)
        BY <1>t, <1>1, StepMoves, Zenon DEF Spawn, Stages
    <2>7. /\ hook' \in [Hooks -> HookSet]
          /\ \A g \in Hooks :
                \/ hook'[g] = hook[g]
                \/ /\ hook[g].at \notin {"capture", "answer", "ok", "failed"}
                   /\ hook'[g].at \in {"poll", "drain", "leave"}
                   /\ hook'[g].to \in {hook[g].to, Nobody}
        BY <1>1, <2>6, Zenon DEF Spawn, Moves
    <2>8. UNCHANGED <<captured, lost, plan, lock, path>>
        BY <1>1, Zenon DEF Spawn
    <2> QED BY <1>t, <2>2, <2>3, <2>4, <2>5, <2>7, <2>8, DaemonBecomesInv
<1>2. ASSUME NEW h \in Hooks, AskShutdown(h) PROVE Inv'
    <2> DEFINE d == hook[h].to
          may == ClientMayShutdown(plan.version[h], daemon[d].version)
    <2>1. CASE ~may
        <3>1. Moves(h, "leave", Nobody)
            <4>1. hook' = [hook EXCEPT ![h] = Attempted(hook[h])]
                BY <1>2, <2>1 DEF AskShutdown
            <4> QED BY <1>t, <4>1, AttemptedRecord DEF Moves
        <3> QED BY <1>2, <2>1, <3>1, HookMovesInv DEF AskShutdown
    <2>2. CASE may
        <3> DEFINE r == [BeginDrain(daemon[d]) EXCEPT !.asked = @ \cup {h}]
        <3>1. d \in Daemons /\ Alive(d)
            BY <1>2 DEF AskShutdown
        <3>2. /\ r \in DaemonSet /\ r.at = daemon[d].at
              /\ r.version = daemon[d].version /\ r.quiescing
              /\ r.drain = IF daemon[d].drain = "no" THEN "draining"
                           ELSE daemon[d].drain
            BY <3>1, StopRecords DEF DaemonSet
        <3>3. daemon' = [daemon EXCEPT ![d] = r]
            BY <1>2, <2>2 DEF AskShutdown
        <3> HIDE DEF r
        <3>4. Becomes(d, r)
            BY <1>t, <3>1, <3>2, <3>3, DaemonBecomes, Zenon
        <3>5. Moves(h, "drain", d)
            BY <1>t, <1>2, <2>2, StepMoves DEF Stages, AskShutdown
        <3>6. /\ hook' \in [Hooks -> HookSet]
              /\ \A g \in Hooks :
                    \/ hook'[g] = hook[g]
                    \/ /\ hook[g].at \notin {"capture", "answer", "ok", "failed"}
                       /\ hook'[g].at \in {"poll", "drain", "leave"}
                       /\ hook'[g].to \in {hook[g].to, Nobody}
            BY <1>2, <3>5 DEF AskShutdown, Moves
        <3>7. UNCHANGED <<captured, lost, plan, lock, path>>
            BY <1>2 DEF AskShutdown
        <3>8. /\ r.at \in {"serving", "closing", "unlocking"} => lock' = d
              /\ r.at = "serving" => path' = d
              /\ r.drain = "draining" => r.at \in {"serving", "closing"}
              /\ r.at \in {"unlocking", "exiting"} => r.drain = "done"
              /\ r.at \in {"serving", "closing", "unlocking", "exiting"}
              /\ Capturing(d) # {} => r.at \in {"serving", "closing"} /\ r.drain # "done"
            BY <3>1, <3>2, <3>7 DEF Alive, Listening
        <3>9. \A e \in Daemons : /\ e # d
                                 /\ daemon[e].at \in {"serving", "closing", "unlocking"}
                 => lock' = e /\ (Listening(e) => path' = e)
            BY <3>7, Zenon
        <3>10. \A g \in Hooks : hook[g].to = d =>
                  /\ r.at \in {"serving", "closing", "unlocking", "exiting"}
                  /\ r.version = daemon[d].version
            BY <3>2, <3>8
        <3>11. /\ plan' \in PlanSet /\ plan'.version = plan.version
               /\ lock' \in Daemons \cup {Nobody} /\ path' \in Daemons \cup {Nobody}
            BY <1>t, <3>7
        <3> QED BY <3>1, <3>2, <3>4, <3>6, <3>7, <3>8, <3>9, <3>10, <3>11,
                   DaemonBecomesInv, Zenon
    <2> QED BY <1>2, <2>1, <2>2 DEF AskShutdown
<1>3. ASSUME NEW d \in Daemons, NEW h \in Hooks \cup {Operator}, AnswerShutdown(d, h)
      PROVE  Inv'
    <2> DEFINE r == [TriggerShutdown(daemon[d]) EXCEPT !.asked = @ \ {h}]
    <2>1. /\ r \in DaemonSet /\ r.at = daemon[d].at
          /\ r.version = daemon[d].version /\ r.quiescing
          /\ r.drain = daemon[d].drain
        BY StopRecords DEF DaemonSet
    <2>2. daemon' = [daemon EXCEPT ![d] = r]
        BY <1>3 DEF AnswerShutdown
    <2> HIDE DEF r
    <2>3. Becomes(d, r)
        BY <1>t, <2>1, <2>2, DaemonBecomes, Zenon
    <2>4. ASSUME NEW g \in Hooks
          PROVE  /\ hook'[g] \in HookSet
                 /\ \/ hook'[g] = hook[g]
                    \/ /\ hook[g].at \notin {"capture", "answer", "ok", "failed"}
                       /\ hook'[g].at \in {"poll", "drain", "leave"}
                       /\ hook'[g].to \in {hook[g].to, Nobody}
        <3>1. CASE g = h /\ hook[h].at = "drain"
            <4>1. hook'[g] = Attempted(hook[g])
                BY <1>3, <3>1 DEF AnswerShutdown
            <4>2. hook[g] \in HookSet /\ hook[g].at = "drain"
                BY <1>t, <3>1
            <4> QED BY <4>1, <4>2, AttemptedRecord
        <3>2. CASE ~(g = h /\ hook[h].at = "drain")
            <4>1. hook'[g] = hook[g]
                BY <1>3, <3>2 DEF AnswerShutdown
            <4> QED BY <1>t, <4>1
        <3> QED BY <3>1, <3>2
    <2>5. hook' \in [Hooks -> HookSet]
        BY <1>3, <2>4 DEF AnswerShutdown
    <2>6. UNCHANGED <<captured, lost, plan, lock, path>> /\ daemon[d].drain = "done"
        BY <1>3 DEF AnswerShutdown
    <2>7. /\ r.at \in {"serving", "closing", "unlocking"} => lock' = d
          /\ r.at = "serving" => path' = d
          /\ Capturing(d) = {}
          /\ \A g \in Hooks : hook[g].to = d =>
                r.at \in {"serving", "closing", "unlocking", "exiting"}
        BY <2>1, <2>6 DEF Alive, Listening
    <2>8. \A e \in Daemons : /\ e # d
                             /\ daemon[e].at \in {"serving", "closing", "unlocking"}
             => lock' = e /\ (Listening(e) => path' = e)
        BY <2>6, Zenon
    <2>9. /\ UNCHANGED <<captured, lost>>
          /\ plan' \in PlanSet /\ plan'.version = plan.version
          /\ lock' \in Daemons \cup {Nobody} /\ path' \in Daemons \cup {Nobody}
          /\ r.drain = "draining" => r.at \in {"serving", "closing"}
          /\ r.at \in {"unlocking", "exiting"} => r.drain = "done"
          /\ r.drain # "no" => r.quiescing
        BY <1>t, <2>1, <2>6 DEF TypeOK
    <2>10. \A g \in Hooks :
              \/ hook'[g] = hook[g]
              \/ /\ hook[g].at \notin {"capture", "answer", "ok", "failed"}
                 /\ hook'[g].at \in {"poll", "drain", "leave"}
                 /\ hook'[g].to \in {hook[g].to, Nobody}
        BY <2>4
    <2> QED BY <2>1, <2>3, <2>5, <2>7, <2>8, <2>9, <2>10, DaemonBecomesInv
<1> QED BY <1>1, <1>2, <1>3

(* A process ends, by itself or not.                                          *)
LEMMA EndedInv ==
    ASSUME Inv, NEW d \in Daemons, NEW written \in SUBSET Capturing(d),
           Ended(d, written),
           plan' \in PlanSet, plan'.version = plan.version, UNCHANGED lost,
           lock' \in Daemons \cup {Nobody}, UNCHANGED path,
           \A e \in Daemons : e # d /\ lock = e => lock' = e
    PROVE  Inv'
<1> USE HandoverAssumption DEF Nobody
<1>t. TypeOK /\ written \in SUBSET Hooks
    BY DEF Inv, Capturing
<1>1. /\ Becomes(d, NoProcess)
      /\ hook' \in [Hooks -> HookSet]
      /\ captured' \in [Hooks -> Seq(Nat)]
      /\ \A h \in Hooks : hook[h].to # d => hook'[h] = hook[h]
      /\ \A h \in Hooks : hook[h].to = d =>
            /\ hook'[h].to = Nobody
            /\ hook'[h].at = IF hook[h].at = "orphan" THEN "failed" ELSE hook[h].at
      /\ \A h \in Hooks \ written : captured'[h] = captured[h]
      /\ \A h \in written : captured'[h] = Append(captured[h], daemon[d].version)
    BY <1>t, EndedChanges
<1>2. TypeOK'
    BY <1>t, <1>1 DEF TypeOK, Becomes
<1>3. EndpointInv'
    <2> SUFFICES ASSUME NEW e \in Daemons
                 PROVE  /\ daemon'[e].at \in {"serving", "closing", "unlocking"} => lock' = e
                        /\ Listening(e)' => path' = e
                        /\ daemon'[e].drain = "draining" =>
                              daemon'[e].at \in {"serving", "closing"}
                        /\ daemon'[e].at \in {"unlocking", "exiting"} =>
                              daemon'[e].drain = "done"
                        /\ daemon'[e].drain # "no" => daemon'[e].quiescing
        BY DEF EndpointInv
    <2>1. CASE e = d
        BY <1>1, <2>1 DEF Becomes, NoProcess, Listening
    <2>2. CASE e # d
        BY <1>1, <2>2 DEF Becomes, Listening, Inv, EndpointInv
    <2> QED BY <2>1, <2>2
<1>4. CaptureInv'
    <2> SUFFICES ASSUME NEW h \in Hooks, hook'[h].at \in {"capture", "orphan"},
                        hook'[h].to # Nobody
                 PROVE  /\ daemon'[hook'[h].to].at \in {"serving", "closing"}
                        /\ daemon'[hook'[h].to].drain # "done"
        BY DEF CaptureInv
    <2>1. hook[h].to # d /\ hook'[h] = hook[h] /\ hook[h].to \in Daemons
        BY <1>t, <1>1 DEF TypeOK, HookSet
    <2>2. daemon'[hook[h].to] = daemon[hook[h].to]
        BY <1>1, <2>1 DEF Becomes
    <2>3. hook[h].at \in {"capture", "orphan"} /\ hook[h].to # Nobody
        BY <2>1
    <2> QED BY <2>1, <2>2, <2>3 DEF Inv, CaptureInv
<1>5. VersionInv'
    BY <1>t, <1>1 DEF Inv, VersionInv, Becomes, TypeOK, HookSet, Alive
<1>6. ASSUME NEW h \in written
      PROVE  /\ h \in Hooks /\ hook[h].to = d /\ hook[h].at \in {"capture", "orphan"}
             /\ captured'[h] \in Seq(Nat) /\ captured'[h] # << >>
             /\ Len(captured'[h]) = Len(captured[h]) + 1
             /\ h \notin lost => Len(captured[h]) = 0
             /\ \A i \in DOMAIN captured'[h] :
                   (i \in DOMAIN captured[h] /\ captured'[h][i] = captured[h][i])
                   \/ captured'[h][i] = daemon[d].version
    <2>1. h \in Hooks /\ hook[h].to = d /\ hook[h].at \in {"capture", "orphan"}
        BY <1>6 DEF Capturing
    <2>2. daemon[d].version \in Nat /\ captured[h] \in Seq(Nat)
        BY <1>t, <2>1 DEF TypeOK, DaemonSet
    <2>3. h \notin lost => captured[h] = << >>
        BY <2>1, HookFacts
    <2>4. captured'[h] = Append(captured[h], daemon[d].version)
        BY <1>1, <1>6
    <2>5. /\ captured'[h] \in Seq(Nat) /\ captured'[h] # << >>
          /\ Len(captured'[h]) = Len(captured[h]) + 1
          /\ \A i \in 1..Len(captured[h]) : captured'[h][i] = captured[h][i]
          /\ captured'[h][Len(captured[h]) + 1] = daemon[d].version
        BY <2>2, <2>4, AppendProperties
    <2>6. \A i \in DOMAIN captured'[h] :
             (i \in DOMAIN captured[h] /\ captured'[h][i] = captured[h][i])
             \/ captured'[h][i] = daemon[d].version
        <3>1. /\ DOMAIN captured'[h] = 1..Len(captured[h]) + 1
              /\ DOMAIN captured[h] = 1..Len(captured[h]) /\ Len(captured[h]) \in Nat
            BY <2>2, <2>5, LenProperties
        <3>2. \A i \in 1..Len(captured[h]) + 1 :
                 i \in 1..Len(captured[h]) \/ i = Len(captured[h]) + 1
            BY <3>1
        <3> QED BY <2>5, <3>1, <3>2, Zenon
    <2>7. h \notin lost => Len(captured[h]) = 0
        BY <2>2, <2>3, EmptySeq
    <2> QED BY <2>1, <2>5, <2>6, <2>7
<1>7. CapturedByNoOlder'
    <2> SUFFICES ASSUME NEW h \in Hooks, NEW i \in DOMAIN captured'[h]
                 PROVE  ~DaemonNeedsUpgrade(captured'[h][i], plan.version[h])
        BY DEF CapturedByNoOlder
    <2>1. CASE h \in written
        <3>1. ~DaemonNeedsUpgrade(daemon[d].version, plan.version[h])
            BY <1>6, <2>1, HookFacts
        <3> QED BY <1>6, <2>1, <3>1, Zenon DEF Inv, CapturedByNoOlder
    <2>2. CASE h \notin written
        BY <1>1, <2>2, Zenon DEF Inv, CapturedByNoOlder
    <2> QED BY <2>1, <2>2
<1>8. AnswerInv'
    <2> SUFFICES ASSUME NEW h \in Hooks
                 PROVE  /\ hook'[h].at \in {"answer", "ok"} => captured'[h] # << >>
                        /\ captured'[h] # << >> /\ h \notin lost =>
                              \/ hook'[h].at \in {"answer", "ok", "failed"}
                              \/ hook'[h].at = "capture" /\ hook'[h].to = Nobody
                        /\ h \notin lost => Len(captured'[h]) <= 1
        BY DEF AnswerInv
    <2>1. CASE h \in written
        BY <1>1, <1>6, <2>1
    <2>2. CASE h \notin written
        BY <1>t, <1>1, <2>2, Zenon DEF Inv, AnswerInv, TypeOK, HookSet
    <2> QED BY <2>1, <2>2
<1> QED BY <1>2, <1>3, <1>4, <1>5, <1>7, <1>8 DEF Inv

(* Every step keeps the invariant.                                            *)
LEMMA StepInv == Inv /\ [Next]_vars => Inv'
<1> SUFFICES ASSUME Inv, [Next]_vars PROVE Inv'
    OBVIOUS
<1>1. ASSUME NEW h \in Hooks, HookStep(h) \/ Cancel(h) PROVE Inv'
    BY <1>1, HookStepInv, EndCaptureInv, JointStepInv DEF HookStep
<1>2. ASSUME NEW d \in Daemons, Exit(d) PROVE Inv'
    BY <1>2, EndedInv DEF Exit, Inv, TypeOK
<1>3. ASSUME NEW d \in Daemons, Crash(d) PROVE Inv'
    <2>1. PICK written \in SUBSET Capturing(d) : Ended(d, written)
        BY <1>3 DEF Crash
    <2>2. plan' \in PlanSet /\ plan'.version = plan.version
        BY <1>3, Zenon DEF Crash, Inv, TypeOK, PlanSet
    <2>3. /\ lock' \in Daemons \cup {Nobody}
          /\ \A e \in Daemons : e # d /\ lock = e => lock' = e
        BY <1>3 DEF Crash, Inv, TypeOK
    <2> QED BY <1>3, <2>1, <2>2, <2>3, EndedInv DEF Crash
<1>4. ASSUME NEW d \in Daemons, DaemonStep(d) \/ StopFromOutside(d) PROVE Inv'
    BY <1>2, <1>4, DaemonStepInv, JointStepInv DEF DaemonStep
<1>5. CASE UNCHANGED vars
    BY <1>5 DEF Inv, TypeOK, EndpointInv, CaptureInv, VersionInv,
       CapturedByNoOlder, AnswerInv, vars, Listening, Alive
<1> QED BY <1>1, <1>3, <1>4, <1>5 DEF Next

(* A history begins with one daemon that owns the endpoint, or with none.     *)
LEMMA InitInv == Init => Inv
<1> SUFFICES ASSUME Init PROVE Inv
    OBVIOUS
<1> USE HandoverAssumption DEF Nobody
<1>1. plan \in PlanSet
    BY DEF Init, PlanSet
<1>2. NoProcess \in DaemonSet /\ Serving(plan.first) \in DaemonSet
    BY <1>1, Zenon DEF NoProcess, Serving, DaemonSet, PlanSet
<1>3. NewHook \in HookSet
    BY DEF NewHook, HookSet
<1>4. TypeOK
    <2>1. daemon \in [Daemons -> DaemonSet] /\ hook \in [Hooks -> HookSet]
        BY <1>2, <1>3 DEF Init
    <2>2. captured \in [Hooks -> Seq(Nat)]
        BY EmptySeq DEF Init
    <2> QED BY <1>1, <2>1, <2>2 DEF TypeOK, Init
<1>5. \A h \in Hooks : /\ hook[h].at = "start" /\ hook[h].to = Nobody
                        /\ captured[h] = << >>
    BY DEF Init, NewHook
<1>6. \A d \in Daemons :
         /\ daemon[d].at \in {"none", "serving"} /\ daemon[d].drain = "no"
         /\ daemon[d].at = "serving" => lock = d /\ path = d
    BY DEF Init, NoProcess, Serving
<1>7. EndpointInv
    BY <1>6, Zenon DEF EndpointInv, Listening
<1>8. CaptureInv /\ VersionInv /\ CapturedByNoOlder /\ AnswerInv
    BY <1>5 DEF CaptureInv, VersionInv, CapturedByNoOlder, AnswerInv
<1> QED BY <1>4, <1>7, <1>8 DEF Inv

------------------------------------------------------------------------------
(* The theorems.                                                              *)

(* Inv holds in every reachable state, for every set of hooks and versions.   *)
THEOREM Inductive == Spec => []Inv
<1> QED BY InitInv, StepInv, PTL DEF Spec

(* Two daemons never write the same journals: whoever listens, captures or    *)
(* drains holds the lock, and listens where hooks connect (transport.rs,      *)
(* server/mod.rs).                                                            *)
THEOREM EndpointHasOneOwner == Spec => []WritersOwnTheEndpoint
<1>1. Inv => WritersOwnTheEndpoint
    BY DaemonFacts DEF WritersOwnTheEndpoint, Listening
<1> QED BY <1>1, Inductive, PTL

(* Handover never gives an event to a daemon older than its hook (client.rs). *)
THEOREM NeverCapturedByAnOlder == Spec => []CapturedByNoOlder
<1>1. Inv => CapturedByNoOlder
    BY DEF Inv
<1> QED BY <1>1, Inductive, PTL

(* Success means captured, and captured twice means that an answer was lost   *)
(* (client.rs, server/ingress.rs).                                            *)
THEOREM SuccessMeansCaptured == Spec => []SuccessIsExact
<1>1. Inv => SuccessIsExact
    <2> SUFFICES ASSUME Inv, NEW h \in Hooks
                 PROVE  /\ hook[h].at = "ok" => captured[h] # << >>
                        /\ Len(captured[h]) > 1 => h \in lost
        BY DEF SuccessIsExact
    <2>1. Len(captured[h]) \in Nat
        BY LenProperties DEF Inv, TypeOK
    <2> QED BY <2>1 DEF Inv, AnswerInv
<1> QED BY <1>1, Inductive, PTL
==============================================================================
