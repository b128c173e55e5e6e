-------------------------- MODULE CorrelationProof --------------------------
(* Machine-checked proofs about Correlation.                                 *)
EXTENDS Correlation, FiniteSetTheorems, WellFoundedInduction, TLAPS

------------------------------------------------------------------------------
(* One route.                                                                 *)

(* The fields of the state of the child's session, and of what its lock's     *)
(* holder works on.                                                           *)
Shaped(s) == s \in [route : {s.route}, parent : {s.parent}, events : {s.events},
                    expired : {s.expired}, recovery : {s.recovery}]
WorkShaped(w) == w \in [by : {w.by}, saved : BOOLEAN, state : {w.state}]
Kept(x) == x # None => Shaped(x[1])
Decides(x) == x # None /\ x[1].route # None

(* What is kept, in memory and on disk, is the state of a session.            *)
ShapeInv ==
    /\ Kept(stored) /\ Kept(pending)
    /\ work # None => WorkShaped(work[1]) /\ Shaped(work[1].state)

(* A decision that is on disk is the only one: memory holds no other, nor an  *)
(* open question, and nothing is delivered that it does not name.             *)
DecisionInv ==
    Decides(stored) =>
        /\ pending # None => pending[1].route = stored[1].route
        /\ link # None => link = stored[1].route
        /\ work # None => work[1].state.route = stored[1].route
        /\ DOMAIN given \subseteq {stored[1].route}

(* Without it nothing is delivered, and no session is established.            *)
NoneInv == ~Decides(stored) => link = None /\ DOMAIN given = {}

(* What the lock's holder works on is decided, as memory says if it decided;  *)
(* what it delivers next is decided on disk.                                  *)
WorkInv ==
    work # None =>
        /\ work[1].state.route # None
        /\ Decides(pending) => pending[1].route = work[1].state.route
        /\ work[1].saved => Decides(stored)

RouteInv == ShapeInv /\ DecisionInv /\ NoneInv /\ WorkInv

(* A state that is changed in one field is the same in the others.            *)
LEMMA ShapedExcept ==
    ASSUME NEW s, Shaped(s), NEW v
    PROVE  /\ Shaped([s EXCEPT !.events = v]) /\ [s EXCEPT !.events = v].route = s.route
           /\ Shaped([s EXCEPT !.expired = v]) /\ [s EXCEPT !.expired = v].route = s.route
           /\ Shaped([s EXCEPT !.recovery = v]) /\ [s EXCEPT !.recovery = v].route = s.route
           /\ Shaped([s EXCEPT !.parent = v]) /\ [s EXCEPT !.parent = v].route = s.route
           /\ Shaped([s EXCEPT !.route = v]) /\ [s EXCEPT !.route = v].route = v
           /\ [s EXCEPT !.parent = v].parent = v
           /\ [s EXCEPT !.events = v].parent = s.parent
BY DEF Shaped

(* So is what its holder works on.                                            *)
LEMMA WorkExcept ==
    ASSUME NEW w, WorkShaped(w), NEW v
    PROVE  /\ WorkShaped([w EXCEPT !.saved = TRUE])
           /\ [w EXCEPT !.saved = TRUE].saved = TRUE
           /\ [w EXCEPT !.saved = TRUE].state = w.state
           /\ WorkShaped([w EXCEPT !.saved = FALSE, !.state.events = v])
           /\ [w EXCEPT !.saved = FALSE, !.state.events = v].saved = FALSE
           /\ [w EXCEPT !.saved = FALSE, !.state.events = v].state
                 = [w.state EXCEPT !.events = v]
BY DEF WorkShaped

(* A delivery is to its route.                                                *)
LEMMA Delivers ==
    ASSUME NEW route, NEW i, Deliver(route, i)
    PROVE  DOMAIN given' = {route} \cup DOMAIN given
BY DEF Deliver

(* Nothing is left of a session that an action leaves alone.                  *)
LEMMA ChildStays ==
    ASSUME RouteInv, UNCHANGED child
    PROVE  RouteInv'
BY DEF RouteInv, ShapeInv, DecisionInv, NoneInv, WorkInv, child, Kept, Decides

(* A state with a route, or without one, is what the worker finds first.      *)
LEMMA FirstShaped ==
    ASSUME NEW i
    PROVE  Shaped(First(i))
<1> DEFINE state == [NewPending EXCEPT !.events = <<i>>]
<1>1. Shaped(NewPending)
    BY DEF NewPending, Shaped
<1>2. \A v : Shaped([NewPending EXCEPT !.events = v])
    BY <1>1, ShapedExcept
<1>3. Shaped(state)
    BY <1>2
<1> HIDE DEF state
<1>4. /\ \A v : Shaped([state EXCEPT !.route = v])
      /\ \A v : Shaped([state EXCEPT !.parent = v])
    BY <1>3, ShapedExcept
<1> QED BY <1>3, <1>4 DEF First, state

(* The next event of a session that waits decides its route, or not.          *)
LEMMA NextShaped ==
    ASSUME NEW s, Shaped(s), NEW i
    PROVE  Shaped(Next2nd(s, i))
<1> DEFINE t == [s EXCEPT !.events = Append(@, i)]
<1>0. \A v : Shaped([s EXCEPT !.events = v])
    BY ShapedExcept
<1>1. Shaped(t)
    BY <1>0
<1> HIDE DEF t
<1>2. \A v : Shaped([t EXCEPT !.route = v])
    BY <1>1, ShapedExcept
<1> QED BY <1>1, <1>2 DEF Next2nd, t
------------------------------------------------------------------------------
(* The session is given to finish_correlation, with the route that is known.  *)
LEMMA Finishes ==
    ASSUME RouteInv, NEW by, NEW s, Shaped(s), s.route # None, Finish(by, s),
           work = None,
           Decides(pending) => pending[1].route = s.route,
           Decides(stored) => stored[1].route = s.route
    PROVE  RouteInv'
<1> DEFINE p == [s EXCEPT !.parent = None]
           t == [p EXCEPT !.recovery = FALSE]
<1>0. /\ Shaped(p) /\ p.route = s.route
      /\ \A v : Shaped([p EXCEPT !.recovery = v]) /\ [p EXCEPT !.recovery = v].route = p.route
    <2>1. Shaped(p) /\ p.route = s.route
        BY ShapedExcept
    <2> HIDE DEF p
    <2> QED BY <2>1, ShapedExcept
<1>1. Shaped(t) /\ t.route = s.route
    BY <1>0
<1>2. /\ work' # None /\ WorkShaped(work'[1])
      /\ work'[1].state = t /\ work'[1].saved = FALSE
    <2>1. work' = <<[by |-> by, saved |-> FALSE, state |-> t]>>
        BY DEF Finish
    <2> HIDE DEF t
    <2> QED BY <2>1 DEF WorkShaped, None
<1> HIDE DEF p, t
<1>3. UNCHANGED <<stored, pending, link, given>>
    BY DEF Finish
<1> QED BY <1>1, <1>2, <1>3 DEF RouteInv, ShapeInv, DecisionInv, NoneInv, WorkInv, Decides

(* A session that waits is stored, or not, and with the route that is known.  *)
LEMMA Holds ==
    ASSUME RouteInv, NEW s, Shaped(s), NEW n, Hold(s, n), work = None, work' = None,
           Decides(stored) => stored[1].route = s.route,
           s.route # None /\ link # None => link = s.route
    PROVE  RouteInv'
<1>1. pending' = <<s>> /\ stored' \in {stored, <<s>>} /\ UNCHANGED <<link, given>>
    BY DEF Hold, Write
<1>2. CASE stored' = stored
    BY <1>1, <1>2 DEF RouteInv, ShapeInv, DecisionInv, NoneInv, WorkInv, Decides, Kept
<1>3. CASE stored' = <<s>>
    <2>1. Kept(stored') /\ Kept(pending') /\ stored'[1] = s /\ stored' # None /\ pending'[1] = s
        BY <1>1, <1>3 DEF Kept, None
    <2>2. CASE Decides(stored)
        BY <1>1, <1>3, <2>1, <2>2 DEF RouteInv, ShapeInv, DecisionInv, NoneInv, WorkInv, Decides
    <2>3. CASE ~Decides(stored)
        BY <1>1, <1>3, <2>1, <2>3 DEF RouteInv, ShapeInv, DecisionInv, NoneInv, WorkInv, Decides
    <2> QED BY <2>2, <2>3
<1> QED BY <1>1, <1>2, <1>3
(* The child's event goes to the route that is decided, or helps to decide.   *)
LEMMA DispatchChildRoute ==
    ASSUME ReadFails = FALSE, RouteInv, DispatchChild
    PROVE  RouteInv'
<1> DEFINE i == Upcoming
           known == IF pending # None \/ link # None THEN {pending}
                    ELSE {stored} \cup (IF ReadFails THEN {None} ELSE {})
<1>1. work = None
    BY DEF DispatchChild
<1>2. PICK state \in known :
           \/ /\ state = None /\ link # None
              /\ \/ Deliver(link, i) /\ UNCHANGED <<stored, pending, link, work, faults>>
                 \/ /\ Hold([NewPending EXCEPT !.route = link, !.events = <<i>>,
                                               !.recovery = TRUE], 1)
                    /\ UNCHANGED work
           \/ /\ state = None /\ link = None
              /\ \/ Decided(First(i)) /\ Finish("worker", First(i))
                 \/ ~Decided(First(i)) /\ Hold(First(i), 0) /\ UNCHANGED work
           \/ /\ state # None /\ Decided(state[1])
              /\ LET t == [state[1] EXCEPT !.events = Append(@, i)]
                 IN  IF t.recovery THEN Hold(t, 0) /\ UNCHANGED work
                     ELSE Finish("worker", t)
           \/ /\ state # None /\ ~Decided(state[1])
              /\ \/ Decided(Next2nd(state[1], i)) /\ Finish("worker", Next2nd(state[1], i))
                 \/ Hold(Next2nd(state[1], i), 0) /\ UNCHANGED work
    BY Zenon DEF DispatchChild
<1>3. /\ state = stored \/ state = pending
      /\ state = None /\ link = None => ~Decides(stored) /\ pending = None
      /\ Kept(state)
      /\ state # None => Shaped(state[1])
      /\ state # None /\ Decides(stored) => stored[1].route = state[1].route
      /\ state # None /\ Decides(pending) => pending[1].route = state[1].route
      /\ state # None /\ link # None => link = state[1].route
    BY DEF RouteInv, ShapeInv, DecisionInv, NoneInv, Kept, Decides
<1> HIDE DEF i, known
<1>4. CASE state = None /\ link # None
    <2>1. Decides(stored) /\ link = stored[1].route
        BY <1>4 DEF RouteInv, DecisionInv, NoneInv
    <2>2. CASE Deliver(link, i) /\ UNCHANGED <<stored, pending, link, work, faults>>
        BY <2>1, <2>2, Delivers DEF RouteInv, ShapeInv, DecisionInv, NoneInv, WorkInv, Decides
    <2>3. CASE /\ Hold([NewPending EXCEPT !.route = link, !.events = <<i>>,
                                          !.recovery = TRUE], 1)
               /\ UNCHANGED work
        <3> DEFINE s == [NewPending EXCEPT !.route = link, !.events = <<i>>,
                                           !.recovery = TRUE]
        <3>2. Shaped(s) /\ s.route = link
            BY DEF Shaped, NewPending
        <3> HIDE DEF s
        <3>3. Hold(s, 1) /\ work' = work
            BY <2>3 DEF s
        <3> QED BY <1>1, <2>1, <3>2, <3>3, Holds
    <2> QED BY <1>2, <1>4, <2>2, <2>3
<1>5. CASE state = None /\ link = None
    <2>1. CASE Decided(First(i)) /\ Finish("worker", First(i))
        BY <1>1, <1>3, <1>5, <2>1, FirstShaped, Finishes DEF Decided, Decides
    <2>2. CASE Hold(First(i), 0) /\ UNCHANGED work
        BY <1>1, <1>3, <1>5, <2>2, FirstShaped, Holds
    <2> QED BY <1>2, <1>5, <2>1, <2>2
<1>6. CASE state # None /\ Decided(state[1])
    <2> DEFINE t == [state[1] EXCEPT !.events = Append(@, i)]
    <2>1. Shaped(t) /\ t.route = state[1].route
        BY <1>3, <1>6, ShapedExcept
    <2>2. (Hold(t, 0) /\ UNCHANGED work) \/ Finish("worker", t)
        BY <1>2, <1>6
    <2> HIDE DEF t
    <2>3. CASE Hold(t, 0) /\ UNCHANGED work
        BY <1>1, <1>3, <1>6, <2>1, <2>3, Holds
    <2>4. CASE Finish("worker", t)
        BY <1>1, <1>3, <1>6, <2>1, <2>4, Finishes DEF Decided
    <2> QED BY <2>2, <2>3, <2>4
<1>7. CASE state # None /\ ~Decided(state[1])
    <2>1. ~Decides(stored) /\ ~Decides(pending) /\ link = None
        BY <1>3, <1>7 DEF Decided, Decides, RouteInv, NoneInv
    <2>2. Shaped(Next2nd(state[1], i))
        BY <1>3, <1>7, NextShaped
    <2>3. CASE Hold(Next2nd(state[1], i), 0) /\ UNCHANGED work
        BY <1>1, <2>1, <2>2, <2>3, Holds
    <2>4. CASE Decided(Next2nd(state[1], i)) /\ Finish("worker", Next2nd(state[1], i))
        BY <1>1, <2>1, <2>2, <2>4, Finishes DEF Decided
    <2> QED BY <1>2, <1>7, <2>3, <2>4
<1> QED BY <1>2, <1>4, <1>5, <1>6, <1>7

(* The decision is saved before anything is delivered.                        *)
LEMMA SaveRoute ==
    ASSUME RouteInv, Save
    PROVE  RouteInv'
<1> DEFINE s == work[1].state
<1>1. /\ Shaped(s) /\ s.route # None
      /\ Decides(stored) => stored[1].route = s.route
      /\ ~Decides(stored) => link = None /\ DOMAIN given = {}
      /\ Decides(stored) => DOMAIN given \subseteq {s.route} /\ link \in {None, s.route}
      /\ work # None /\ WorkShaped(work[1]) /\ work[1].state = s
    BY DEF RouteInv, ShapeInv, DecisionInv, NoneInv, WorkInv, Save
<1>2. /\ stored' = <<s>> /\ given' = given
      /\ \/ pending' = None /\ link' = s.route /\ work' = None
         \/ pending' = <<s>> /\ work' = <<[work[1] EXCEPT !.saved = TRUE]>> /\ link' = link
    BY DEF Save, Current
<1> HIDE DEF s
<1>3. Kept(stored') /\ stored'[1] = s /\ Decides(stored')
    BY <1>1, <1>2 DEF Kept, Decides, None
<1>4. CASE pending' = None /\ link' = s.route /\ work' = None
    BY <1>1, <1>2, <1>3, <1>4 DEF RouteInv, ShapeInv, DecisionInv, NoneInv, WorkInv, Decides, Kept
<1>5. CASE pending' = <<s>> /\ work' = <<[work[1] EXCEPT !.saved = TRUE]>> /\ link' = link
    <2>1. /\ work' # None /\ WorkShaped(work'[1])
          /\ work'[1].state = s /\ work'[1].saved = TRUE
        BY <1>1, <1>5, WorkExcept DEF None
    <2>2. Kept(pending') /\ pending'[1] = s
        BY <1>1, <1>5 DEF Kept
    <2> QED BY <1>1, <1>2, <1>3, <1>5, <2>1, <2>2
            DEF RouteInv, ShapeInv, DecisionInv, NoneInv, WorkInv, Decides
<1> QED BY <1>2, <1>4, <1>5

(* The first event is delivered to the route that is saved.                   *)
LEMMA DeliverFirstRoute ==
    ASSUME RouteInv, DeliverFirst
    PROVE  RouteInv'
<1> DEFINE s == work[1].state
           t == [s EXCEPT !.events = Tail(@)]
<1>1. /\ Shaped(s) /\ s.route # None /\ Decides(stored)
      /\ work # None /\ WorkShaped(work[1]) /\ work[1].state = s
    BY DEF RouteInv, ShapeInv, WorkInv, DeliverFirst
<1>2. Shaped(t) /\ t.route = s.route
    BY <1>1, ShapedExcept
<1>3. /\ work' # None /\ WorkShaped(work'[1])
      /\ work'[1].state = t /\ work'[1].saved = FALSE
    <2>1. work' = <<[work[1] EXCEPT !.saved = FALSE,
                                    !.state.events = Tail(work[1].state.events)]>>
        BY DEF DeliverFirst
    <2>2. \A v : /\ WorkShaped([work[1] EXCEPT !.saved = FALSE, !.state.events = v])
                 /\ [work[1] EXCEPT !.saved = FALSE, !.state.events = v].saved = FALSE
                 /\ [work[1] EXCEPT !.saved = FALSE, !.state.events = v].state
                       = [work[1].state EXCEPT !.events = v]
        BY <1>1, WorkExcept, ZenonT(40)
    <2> QED BY <2>1, <2>2 DEF None
<1>4. Deliver(s.route, s.events[1]) /\ UNCHANGED <<stored, pending, link>>
    BY DEF DeliverFirst, Current
<1> HIDE DEF s, t
<1>5. DOMAIN given' = {s.route} \cup DOMAIN given
    BY <1>4, Delivers
<1>6. s.route = stored[1].route
    BY <1>1 DEF RouteInv, DecisionInv, DeliverFirst, s
<1> QED BY <1>1, <1>2, <1>3, <1>4, <1>5, <1>6
        DEF RouteInv, ShapeInv, DecisionInv, NoneInv, WorkInv, Decides

(* What is kept for recovery has the route that was decided.                  *)
LEMMA FinishFailsRoute ==
    ASSUME RouteInv, FinishFails
    PROVE  RouteInv'
<1> DEFINE s == work[1].state
           t == [s EXCEPT !.recovery = TRUE]
<1>1. /\ Shaped(s) /\ s.route # None
      /\ Decides(stored) => stored[1].route = s.route
      /\ ~Decides(stored) => link = None /\ DOMAIN given = {}
      /\ Decides(stored) => DOMAIN given \subseteq {s.route} /\ link \in {None, s.route}
    BY DEF RouteInv, ShapeInv, DecisionInv, NoneInv, WorkInv, FinishFails
<1>2. Shaped(t) /\ t.route = s.route
    BY <1>1, ShapedExcept
<1>3. /\ pending' = <<t>> /\ stored' \in {stored, <<t>>}
      /\ link' = (IF t.events = <<>> /\ stored' = <<t>> THEN t.route ELSE link)
      /\ work' = None /\ given' = given
    BY DEF FinishFails, Write, Current
<1> HIDE DEF s, t
<1>4. Kept(pending') /\ pending'[1] = t
    BY <1>2, <1>3 DEF Kept
<1>5. CASE stored' = <<t>>
    <2>1. Kept(stored') /\ stored'[1] = t /\ Decides(stored')
        BY <1>1, <1>2, <1>5 DEF Kept, Decides, None
    <2> QED BY <1>1, <1>2, <1>3, <1>4, <1>5, <2>1
            DEF RouteInv, ShapeInv, DecisionInv, NoneInv, WorkInv, Decides
<1>6. CASE stored' = stored /\ stored # <<t>>
    BY <1>1, <1>2, <1>3, <1>4, <1>6
       DEF RouteInv, ShapeInv, DecisionInv, NoneInv, WorkInv, Decides
<1> QED BY <1>3, <1>5, <1>6

(* A session that waited too long has no route yet.                           *)
LEMMA ExpireRoute ==
    ASSUME RouteInv, Expire
    PROVE  RouteInv'
<1> DEFINE p == [pending[1] EXCEPT !.expired = TRUE]
           s == [stored[1] EXCEPT !.expired = TRUE]
<1>1. /\ pending # None /\ pending[1].route = None /\ Shaped(pending[1])
      /\ ~Decides(stored) /\ link = None /\ DOMAIN given = {}
      /\ stored # None => Shaped(stored[1])
    BY DEF Expire, Decided, RouteInv, ShapeInv, DecisionInv, NoneInv, Kept, Decides
<1>2. Shaped(p) /\ p.route = None
    BY <1>1, ShapedExcept
<1>3. stored # None => Shaped(s) /\ s.route = stored[1].route
    BY <1>1, ShapedExcept
<1>4. /\ pending' = <<p>> /\ stored' = (IF stored = None THEN None ELSE <<s>>)
      /\ UNCHANGED <<link, work, given>>
    BY DEF Expire
<1> HIDE DEF p, s
<1>5. Kept(pending') /\ pending'[1] = p /\ Kept(stored') /\ ~Decides(stored')
    BY <1>1, <1>2, <1>3, <1>4 DEF Kept, Decides, None
<1> QED BY <1>1, <1>2, <1>4, <1>5
        DEF RouteInv, ShapeInv, DecisionInv, NoneInv, WorkInv, Decides

(* The reconciler finishes what is decided, or what need not wait longer.     *)
LEMMA ResolvePendingRoute ==
    ASSUME RouteInv, NEW forced, ResolvePending(forced)
    PROVE  RouteInv'
<1> DEFINE s == pending[1]
           t == IF ~Decided(s) /\ (s.expired \/ forced)
                THEN [s EXCEPT !.route = Alone] ELSE s
<1>1. pending # None /\ work = None /\ Decided(t) /\ Finish("reconciler", t) /\ Shaped(s)
    BY DEF ResolvePending, RouteInv, ShapeInv, Kept
<1>2. Shaped(t) /\ (Decided(s) => t = s)
    BY <1>1, ShapedExcept
<1> HIDE DEF t
<1>3. /\ Decides(pending) => pending[1].route = t.route
      /\ Decides(stored) => stored[1].route = t.route
    BY <1>1, <1>2 DEF RouteInv, DecisionInv, Decides, Decided
<1> QED BY <1>1, <1>2, <1>3, Finishes DEF Decided

(* A restart takes what waits from the disk.                                  *)
LEMMA RestartRoute ==
    ASSUME RouteInv, Restart
    PROVE  RouteInv'
<1>1. /\ pending' \in {None, stored} /\ link' = None /\ work' = None
      /\ UNCHANGED <<stored, given>>
    BY DEF Restart, RestorePendingSessions
<1> QED BY <1>1 DEF RouteInv, ShapeInv, DecisionInv, NoneInv, WorkInv, Decides, Kept

(* Every step of the daemon keeps to the decision.                            *)
LEMMA NextRoute ==
    ASSUME ReadFails = FALSE, RouteInv, [Next]_vars
    PROVE  RouteInv'
<1>1. CASE \/ \E k \in Keys, kind \in {"start", "other", "end"} : CaptureParent(k, kind, None)
           \/ \E k \in Keys, kind \in {"open", "close"}, tool \in Tools : CaptureParent(k, kind, tool)
           \/ \E kind \in {"start", "other"} : CaptureChild(kind)
           \/ DispatchParent \/ AttachParent \/ FindExited \/ PruneRetired
           \/ \E k \in Keys : Observe(k) \/ SaveSnapshot(k) \/ Retire(k) \/ Exit(k)
           \/ UNCHANGED vars
    <2>1. UNCHANGED child
        BY <1>1 DEF CaptureParent, CaptureChild, DispatchParent, AttachParent, FindExited,
           PruneRetired, Observe, SaveSnapshot, Retire, Exit, vars, child
    <2> QED BY <2>1, ChildStays
<1>2. CASE \E forced \in {FALSE, scene.forced} : ResolvePending(forced)
    BY <1>2, ResolvePendingRoute
<1> QED BY <1>1, <1>2, DispatchChildRoute, SaveRoute, DeliverFirstRoute, FinishFailsRoute,
           ExpireRoute, RestartRoute DEF Next

(* While stored decisions can be read, what is decided stays decided: memory, *)
(* disk and deliveries agree.                                                 *)
THEOREM RouteInductive ==
    ASSUME ReadFails = FALSE
    PROVE  Spec => []RouteInv
<1>1. Init => RouteInv
    BY DEF Init, RouteInv, ShapeInv, DecisionInv, NoneInv, WorkInv, Kept, Decides, None
<1> QED BY <1>1, NextRoute, PTL DEF Spec

(* All events of a session are delivered to one route, whatever crashes, is   *)
(* not written, is not delivered, or is decided late: finish_correlation      *)
(* saves its decision before it delivers, and nothing decides again.  It is   *)
(* not so if a stored decision may fail to be read (correlation_store.rs:486).*)
THEOREM DeliversOneRoute ==
    ASSUME ReadFails = FALSE
    PROVE  Spec => []OneRoute
<1>1. RouteInv => OneRoute
    <2> SUFFICES ASSUME RouteInv PROVE OneRoute
        OBVIOUS
    <2>1. DOMAIN given = {} \/ DOMAIN given = {stored[1].route}
        BY DEF RouteInv, DecisionInv, NoneInv
    <2> DEFINE routes == DOMAIN given
    <2> HIDE DEF routes
    <2>2. Cardinality({}) = 0 /\ \A r : Cardinality({r}) = 1
        BY FS_EmptySet, FS_Singleton
    <2>3. Cardinality(routes) <= 1
        <3>1. routes = {} \/ routes = {stored[1].route}
            BY <2>1 DEF routes
        <3> QED BY <2>2, <3>1
    <2> QED BY <2>3 DEF OneRoute, routes
<1> QED BY <1>1, RouteInductive, PTL

------------------------------------------------------------------------------
(* Numbers.                                                                   *)

(* A set of numbers that is not empty has a least one, which is its Min.      *)
LEMMA Least ==
    ASSUME NEW T \in SUBSET Nat, T # {}
    PROVE  Min(T) \in T /\ \A y \in T : Min(T) <= y
<1>1. IsWellFoundedOn(OpToRel(<, Nat), Nat)
    BY NatLessThanWellFounded
<1>2. PICK x \in T : \A y \in T : ~(<<y, x>> \in OpToRel(<, Nat))
    BY <1>1, WFMin
<1>3. ASSUME NEW y \in T PROVE x <= y
    <2>1. x \in Nat /\ y \in Nat /\ <<y, x>> \in Nat \X Nat
        OBVIOUS
    <2>2. ~(<<y, x>> \in OpToRel(<, Nat))
        BY <1>2
    <2>3. ~(y < x)
        BY <2>1, <2>2 DEF OpToRel
    <2> QED BY <2>1, <2>3
<1>4. \E x2 \in T : \A y \in T : x2 <= y
    BY <1>3
<1> QED BY <1>4 DEF Min

(* What holds of a number and is kept by adding one holds up to a bound.      *)
LEMMA InductionTo ==
    ASSUME NEW a \in Nat, NEW b \in Nat, NEW T, a \in T,
           \A n \in T : n \in a..b - 1 => n + 1 \in T
    PROVE  a..b \subseteq T
<1> DEFINE U == (a..b) \ T
<1>1. CASE U # {}
    <2>1. U \in SUBSET Nat
        OBVIOUS
    <2> DEFINE m == Min(U)
    <2>2. m \in U /\ \A y \in U : m <= y
        BY <1>1, <2>1, Least
    <2> HIDE DEF m
    <2>3. m - 1 \in a..b - 1 /\ m - 1 \notin U
        BY <2>2
    <2> QED BY <2>2, <2>3
<1> QED BY <1>1

(* A bounded set of numbers that is not empty has a greatest one.             *)
LEMMA Greatest ==
    ASSUME NEW b \in Nat, NEW T \in SUBSET (0..b), T # {}
    PROVE  Max(T) \in T /\ \A y \in T : Max(T) >= y
<1> DEFINE U == {b - y : y \in T}
<1>1. U \in SUBSET Nat /\ U # {}
    <2>1. \A y \in T : b - y \in Nat
        OBVIOUS
    <2>2. U \subseteq Nat
        BY <2>1
    <2> QED BY <2>2
<1>2. Min(U) \in U /\ \A y \in U : Min(U) <= y
    BY <1>1, Least
<1>3. PICK x \in T : Min(U) = b - x
    BY <1>2
<1>4. \A y \in T : x >= y
    <2> SUFFICES ASSUME NEW y \in T PROVE x >= y
        OBVIOUS
    <2>1. b - y \in U
        OBVIOUS
    <2>2. b - x <= b - y
        BY <1>2, <1>3, <2>1
    <2> QED BY <2>2
<1> QED BY <1>4 DEF Max
------------------------------------------------------------------------------
(* Types.                                                                     *)

Events ==
    [key : Keys \cup {Child}, kind : {"start", "open", "close", "other", "end"},
     tool : Tools \cup {None}, capture : Seq(Processes)]
Spans == [tools : SUBSET Tools, span : {"none", "active", "ended"}]
NoSpans == [tools |-> {}, span |-> "none"]

------------------------------------------------------------------------------
(* What the history of a session says of its spans.                           *)

SpansStep(spans, k, event) ==
    IF event.key = k THEN SpansAfter(spans, event) ELSE spans
Follows(f, first, k, history) ==
    /\ f[0] = first
    /\ \A n \in 1..Len(history) : f[n] = SpansStep(f[n - 1], k, history[n])

(* Only some events tell which call they are about.                           *)
Worded(event) == event.kind \in {"open", "close"} => event.tool \in Tools

(* A step leaves spans.                                                       *)
LEMMA SpansStepType ==
    ASSUME NEW spans \in Spans, NEW k, NEW event \in Events, Worded(event)
    PROVE  SpansStep(spans, k, event) \in Spans
BY DEF SpansStep, SpansAfter, Spans, Events, Worded

(* There is a function that follows a history.                                *)
LEMMA HistoryIsFollowed ==
    ASSUME NEW history \in Seq(Events), \A n \in 1..Len(history) : Worded(history[n]),
           NEW k, NEW first \in Spans
    PROVE  \E f \in [0..Len(history) -> Spans] : Follows(f, first, k, history)
<1> DEFINE P(m) == \E f \in [0..m -> Spans] :
                     /\ f[0] = first
                     /\ \A n \in 1..m : f[n] = SpansStep(f[n - 1], k, history[n])
           T == {m \in 0..Len(history) : P(m)}
<1>1. 0 \in T
    <2> DEFINE g == [n \in 0..0 |-> first]
    <2>1. g \in [0..0 -> Spans] /\ g[0] = first /\ 1..0 = {}
        OBVIOUS
    <2> HIDE DEF g
    <2>2. P(0)
        BY <2>1
    <2> QED BY <2>2
<1>2. \A m \in T : m \in 0..Len(history) - 1 => m + 1 \in T
    <2> HIDE DEF P
    <2> SUFFICES ASSUME NEW m \in 0..Len(history) - 1, P(m) PROVE P(m + 1)
        BY DEF T
    <2> USE DEF P
    <2>1. PICK f \in [0..m -> Spans] :
                     /\ f[0] = first
                     /\ \A n \in 1..m : f[n] = SpansStep(f[n - 1], k, history[n])
        OBVIOUS
    <2> DEFINE g == [n \in 0..m + 1 |-> IF n = m + 1 THEN SpansStep(f[m], k, history[m + 1])
                                        ELSE f[n]]
    <2>2. SpansStep(f[m], k, history[m + 1]) \in Spans
        BY SpansStepType
    <2>3. g \in [0..m + 1 -> Spans]
        BY <2>2
    <2>4. g[0] = first /\ \A n \in 1..m + 1 : g[n] = SpansStep(g[n - 1], k, history[n])
        BY <2>1
    <2> HIDE DEF g
    <2> QED BY <2>3, <2>4
<1>m. Len(history) \in Nat
    OBVIOUS
<1> HIDE DEF P, T
<1>3. 0..Len(history) \subseteq T
    BY <1>1, <1>2, <1>m, InductionTo
<1>4. P(Len(history))
    BY <1>3, <1>m DEF T
<1> QED BY <1>4 DEF P, Follows

(* It is what ObserveHistory computes.                                        *)
LEMMA HistoryObserved ==
    ASSUME NEW history \in Seq(Events), NEW k, NEW r, NEW f,
           f = [n \in 0..Len(history) |-> f[n]], Follows(f, SpansOf(r, k), k, history)
    PROVE  ObserveHistory(r, k, history) = WithSpans(r, k, f[Len(history)])
<1> DEFINE N == 0..Len(history)
           Body(g) == [n \in N |-> IF n = 0 THEN SpansOf(r, k)
                                   ELSE IF history[n].key = k
                                   THEN SpansAfter(g[n - 1], history[n]) ELSE g[n - 1]]
           h == CHOOSE g : g = Body(g)
<1>1. ObserveHistory(r, k, history) = WithSpans(r, k, h[Len(history)])
    BY Zenon DEF ObserveHistory
<1>2. f = Body(f)
    <2>1. \A n \in N : f[n] = IF n = 0 THEN SpansOf(r, k)
                              ELSE IF history[n].key = k
                              THEN SpansAfter(f[n - 1], history[n]) ELSE f[n - 1]
        <3>1. \A n \in N : n = 0 \/ n \in 1..Len(history)
            OBVIOUS
        <3> QED BY <3>1 DEF Follows, SpansStep
    <2> QED BY <2>1
<1>3. h = Body(h)
    BY <1>2
<1> HIDE DEF h
<1> DEFINE T == {n \in N : h[n] = f[n]}
<1>4. 0 \in T
    BY <1>3 DEF Follows
<1>5. \A n \in T : n \in 0..Len(history) - 1 => n + 1 \in T
    <2> SUFFICES ASSUME NEW n \in T, n \in 0..Len(history) - 1 PROVE h[n + 1] = f[n + 1]
        OBVIOUS
    <2>1. n + 1 \in N /\ n + 1 # 0 /\ (n + 1) - 1 = n /\ h[n] = f[n]
        OBVIOUS
    <2>2. /\ Body(h)[n + 1] = IF history[n + 1].key = k
                              THEN SpansAfter(h[n], history[n + 1]) ELSE h[n]
          /\ Body(f)[n + 1] = IF history[n + 1].key = k
                              THEN SpansAfter(f[n], history[n + 1]) ELSE f[n]
        BY <2>1
    <2> HIDE DEF Body
    <2> QED BY <1>2, <1>3, <2>1, <2>2
<1>m. Len(history) \in Nat
    OBVIOUS
<1>6. 0..Len(history) \subseteq T
    <2> HIDE DEF T
    <2> QED BY <1>4, <1>5, <1>m, InductionTo
<1> QED BY <1>1, <1>6, <1>m

(* The spans of a session after the first n events of the log.                *)
SpansIn(k, n) == SpansOf(OpenIn(k, n), k)

(* An empty registry is one, in which nothing is known and nothing is open.   *)
LEMMA EmptyIsRegistry ==
    /\ Empty \in Registry
    /\ \A k \in Keys : SpansOf(Empty, k) = NoSpans
BY DEF Empty, Registry, None, SpansOf, NoSpans

(* Only the spans of the session change.                                      *)
LEMMA WithSpansOnly ==
    ASSUME NEW r \in Registry, NEW k \in Keys, NEW spans \in Spans
    PROVE  LET t == WithSpans(r, k, spans)
           IN  /\ t \in Registry
               /\ t.agent = r.agent /\ t.sessions = r.sessions /\ t.unconfirmed = r.unconfirmed
               /\ t.opened = r.opened /\ t.retired = r.retired /\ t.live = r.live
               /\ SpansOf(t, k) = spans
               /\ \A j \in Keys : j # k => SpansOf(t, j) = SpansOf(r, j)
BY DEF WithSpans, Registry, Spans, SpansOf

(* The spans of a key in a registry are spans.                                *)
LEMMA SpansOfType ==
    ASSUME NEW r \in Registry, NEW k \in Keys
    PROVE  SpansOf(r, k) \in Spans
BY DEF SpansOf, Spans, Registry

(* What the log up to an event says is open in a session is what its events   *)
(* do, one after the other.                                                   *)
LEMMA SpansInFollows ==
    ASSUME log \in Seq(Events), \A i \in 1..Len(log) : Worded(log[i]), NEW k \in Keys
    PROVE  \E f \in [0..Len(log) -> Spans] :
             /\ Follows(f, NoSpans, k, log)
             /\ \A n \in 0..Len(log) : SpansIn(k, n) = f[n]
<1>1. NoSpans \in Spans
    BY DEF NoSpans, Spans
<1>2. PICK f \in [0..Len(log) -> Spans] : Follows(f, NoSpans, k, log)
    BY <1>1, HistoryIsFollowed
<1>3. ASSUME NEW n \in 0..Len(log) PROVE SpansIn(k, n) = f[n]
    <2> DEFINE h == SubSeq(log, 1, n)
               g == [i \in 0..n |-> f[i]]
    <2>1. h \in Seq(Events) /\ Len(h) = n /\ \A i \in 1..n : h[i] = log[i]
        OBVIOUS
    <2> HIDE DEF h
    <2>2. Follows(g, SpansOf(Empty, k), k, h)
        <3>1. 0 \in 0..n /\ \A i \in 1..n : i \in 0..n /\ i - 1 \in 0..n /\ i \in 1..Len(log)
            OBVIOUS
        <3>2. /\ g[0] = NoSpans
              /\ \A i \in 1..n : g[i] = SpansStep(g[i - 1], k, h[i])
            BY <1>2, <2>1, <3>1 DEF Follows
        <3> HIDE DEF g
        <3> QED BY <2>1, <3>2, EmptyIsRegistry DEF Follows
    <2>3. g = [i \in 0..Len(h) |-> g[i]] /\ g[Len(h)] = f[n]
        BY <2>1
    <2> HIDE DEF g
    <2>4. ObserveHistory(Empty, k, h) = WithSpans(Empty, k, f[n])
        BY <2>1, <2>2, <2>3, HistoryObserved
    <2> QED BY <2>4, EmptyIsRegistry, WithSpansOnly DEF SpansIn, OpenIn, h
<1> QED BY <1>2, <1>3

(* Event by event.                                                            *)
LEMMA SpansInSteps ==
    ASSUME log \in Seq(Events), \A i \in 1..Len(log) : Worded(log[i]), NEW k \in Keys
    PROVE  /\ \A n \in 0..Len(log) : SpansIn(k, n) \in Spans
           /\ SpansIn(k, 0) = NoSpans
           /\ \A n \in 1..Len(log) : SpansIn(k, n) = SpansStep(SpansIn(k, n - 1), k, log[n])
<1>1. PICK f \in [0..Len(log) -> Spans] :
             /\ Follows(f, NoSpans, k, log)
             /\ \A n \in 0..Len(log) : SpansIn(k, n) = f[n]
    BY SpansInFollows
<1>2. \A n \in 1..Len(log) : n - 1 \in 0..Len(log) /\ n \in 0..Len(log)
    OBVIOUS
<1> QED BY <1>1, <1>2 DEF Follows

(* Nothing changes without an event of the session.                           *)
LEMMA SpansInWithout ==
    ASSUME log \in Seq(Events), \A i \in 1..Len(log) : Worded(log[i]), NEW k \in Keys,
           NEW m \in 0..Len(log), NEW n \in m..Len(log),
           \A i \in m + 1..n : log[i].key # k
    PROVE  SpansIn(k, n) = SpansIn(k, m)
<1> DEFINE T == {i \in m..n : SpansIn(k, i) = SpansIn(k, m)}
<1>1. \A i \in T : i \in m..n - 1 => i + 1 \in T
    <2> SUFFICES ASSUME NEW i \in T, i \in m..n - 1 PROVE SpansIn(k, i + 1) = SpansIn(k, m)
        OBVIOUS
    <2>1. i + 1 \in 1..Len(log) /\ i + 1 \in m + 1..n /\ (i + 1) - 1 = i
        OBVIOUS
    <2>2. SpansIn(k, i + 1) = SpansStep(SpansIn(k, i), k, log[i + 1])
        BY <2>1, SpansInSteps
    <2> QED BY <2>1, <2>2 DEF SpansStep
<1>2. m \in T /\ m \in Nat /\ n \in Nat
    OBVIOUS
<1> HIDE DEF T
<1>3. m..n \subseteq T
    BY <1>1, <1>2, InductionTo
<1> QED BY <1>3 DEF T

(* ObserveHistory of the log, of a session whose spans are not known.         *)
LEMMA LogObserved ==
    ASSUME log \in Seq(Events), \A i \in 1..Len(log) : Worded(log[i]), NEW k \in Keys,
           NEW r \in Registry, NEW n \in 0..Len(log), SpansOf(r, k) = NoSpans
    PROVE  ObserveHistory(r, k, SubSeq(log, 1, n)) = WithSpans(r, k, SpansIn(k, n))
<1>1. PICK f \in [0..Len(log) -> Spans] :
             /\ Follows(f, NoSpans, k, log)
             /\ \A i \in 0..Len(log) : SpansIn(k, i) = f[i]
    BY SpansInFollows
<1> DEFINE h == SubSeq(log, 1, n)
           g == [i \in 0..n |-> f[i]]
<1>2. h \in Seq(Events) /\ Len(h) = n /\ \A i \in 1..n : h[i] = log[i]
    OBVIOUS
<1> HIDE DEF h
<1>3. Follows(g, SpansOf(r, k), k, h)
    BY <1>1, <1>2 DEF Follows
<1>4. g = [i \in 0..Len(h) |-> g[i]] /\ g[Len(h)] = f[n]
    BY <1>2
<1> HIDE DEF g
<1>5. ObserveHistory(r, k, h) = WithSpans(r, k, f[n])
    BY <1>2, <1>3, <1>4, HistoryObserved
<1> QED BY <1>1, <1>5 DEF h

(* ObserveHistory has the type, and changes nothing but spans.                *)
LEMMA ObserveHistoryOnly ==
    ASSUME NEW history \in Seq(Events), \A n \in 1..Len(history) : Worded(history[n]),
           NEW k \in Keys, NEW r \in Registry
    PROVE  \E spans \in Spans : ObserveHistory(r, k, history) = WithSpans(r, k, spans)
<1>1. SpansOf(r, k) \in Spans
    BY SpansOfType
<1>2. PICK f \in [0..Len(history) -> Spans] : Follows(f, SpansOf(r, k), k, history)
    BY <1>1, HistoryIsFollowed
<1>3. ObserveHistory(r, k, history) = WithSpans(r, k, f[Len(history)])
    BY <1>2, HistoryObserved
<1> QED BY <1>3

(* To observe one event changes nothing but the spans of its session either.  *)
LEMMA ObserveOpsOnly ==
    ASSUME NEW event \in Events, Worded(event), event.key \in Keys, NEW r \in Registry
    PROVE  \E spans \in Spans : ObserveOps(r, event.key, event) = WithSpans(r, event.key, spans)
<1>1. SpansOf(r, event.key) \in Spans
    BY SpansOfType
<1>2. SpansStep(SpansOf(r, event.key), event.key, event) \in Spans
    BY <1>1, SpansStepType
<1> QED BY <1>2 DEF ObserveOps, SpansStep
------------------------------------------------------------------------------
(* Processes.                                                                 *)

(* The agent of two hooks is above the second.                                *)
LEMMA CommandAgent ==
    ASSUME NEW previous \in Seq(Processes), NEW latest \in Seq(Processes),
           SessionAgent(TRUE, previous, latest) # None
    PROVE  \E p \in Processes : SessionAgent(TRUE, previous, latest) = <<p>>
<1> DEFINE shared == {i \in 2..Len(latest) : latest[i] \in Range(Tail(previous))}
           j == CHOOSE i \in shared : \A n \in shared : i <= n
<1>1. shared # {} /\ SessionAgent(TRUE, previous, latest) = <<latest[j]>>
    BY DEF SessionAgent
<1>2. shared \in SUBSET Nat
    OBVIOUS
<1>3. j \in shared
    BY <1>1, <1>2, Least DEF Min
<1>4. latest[j] \in Processes
    BY <1>3
<1> QED BY <1>1, <1>4

(* The agent of two hooks of one agent.                                       *)
LEMMA CommandAgentOfChain ==
    ASSUME NEW chain \in Seq(Processes), chain # <<>>, NEW a, NEW b
    PROVE  LET agent == SessionAgent(TRUE, <<a>> \o chain, <<b>> \o chain)
           IN  /\ agent \in {None, <<chain[1]>>}
               /\ a # b => agent = <<chain[1]>>
<1> DEFINE previous == <<a>> \o chain
           latest == <<b>> \o chain
           shared == {i \in 2..Len(latest) : latest[i] \in Range(Tail(previous))}
           j == CHOOSE i \in shared : \A n \in shared : i <= n
<1>1. /\ Len(latest) = 1 + Len(chain) /\ latest[2] = chain[1] /\ latest # <<>> /\ previous # <<>>
      /\ latest[1] = b /\ previous[1] = a
      /\ Tail(previous) = chain /\ Len(chain) \in Nat /\ Len(chain) # 0
    <2>1. <<a>> \in Seq({a} \cup Processes) /\ <<b>> \in Seq({b} \cup Processes)
        OBVIOUS
    <2> QED OBVIOUS
<1> HIDE DEF previous, latest
<1>2. 2 \in shared /\ \A i \in shared : 2 <= i /\ i \in Nat
    <2>1. chain[1] \in Range(chain)
        BY <1>1 DEF Range
    <2>a. Range(Tail(previous)) = Range(chain)
        BY <1>1, Zenon
    <2>b. 2 \in 2..Len(latest)
        BY <1>1
    <2>2. latest[2] \in Range(Tail(previous)) /\ 2 \in 2..Len(latest)
        BY <1>1, <2>1, <2>a, <2>b, Zenon
    <2>3. 2 \in shared
        BY <2>2
    <2> QED BY <2>3
<1> HIDE DEF shared
<1>3. j = 2
    <2>1. j \in shared /\ \A n \in shared : j <= n
        BY <1>2
    <2> QED BY <1>2, <2>1
<1>4. shared # {}
    BY <1>2
<1>5. SessionAgent(TRUE, previous, latest) \in {None, <<chain[1]>>}
    BY <1>1, <1>3 DEF SessionAgent, shared
<1>6. a # b => SessionAgent(TRUE, previous, latest) = <<chain[1]>>
    BY <1>1, <1>3, <1>4 DEF SessionAgent, shared, None
<1> QED BY <1>5, <1>6 DEF previous, latest

------------------------------------------------------------------------------
(* What the registry learns of a session from a hook of some kind.            *)

ProcessChains == Seq(Processes)

(* It is known, and a start asks for its agent anew.                          *)
KnownAs(t, r, k, kind) ==
    /\ t \in Registry
    /\ t.agent = r.agent /\ t.sessions = r.sessions /\ t.tools = r.tools /\ t.span = r.span
    /\ t.retired = r.retired \ {k}
    /\ kind = "start" => /\ t.unconfirmed = [r.unconfirmed EXCEPT ![k] = None]
                         /\ t.opened = r.opened \cup {k}
    /\ kind # "start" => t.unconfirmed = r.unconfirmed /\ t.opened = r.opened

(* Its capture has to be compared with that of the next hook.                 *)
ComparesAs(t, r, k, kind, capture) ==
    /\ t \in Registry
    /\ t.agent = r.agent /\ t.sessions = r.sessions /\ t.tools = r.tools /\ t.span = r.span
    /\ t.retired = r.retired \ {k}
    /\ t.unconfirmed = [r.unconfirmed EXCEPT ![k] = capture]
    /\ t.opened = (IF kind = "start" THEN r.opened \cup {k} ELSE r.opened)

(* Its agent is found: the session has this process, and no other.            *)
SettledAs(t, r, k, p) ==
    /\ t \in Registry
    /\ t.tools = r.tools /\ t.span = r.span
    /\ t.retired = r.retired \ {k}
    /\ t.agent = [r.agent EXCEPT ![k] = {p}]
    /\ t.unconfirmed = [r.unconfirmed EXCEPT ![k] = None]
    /\ t.opened = r.opened \ {k}
    /\ \A q \in Processes :
         /\ k \in t.sessions[q] <=> q = p \/ (k \in r.sessions[q] /\ q \notin r.agent[k])
         /\ \A j \in Keys : j # k => (j \in t.sessions[q] <=> j \in r.sessions[q])

Known(r, k, kind) ==
    LET known == [r EXCEPT !.live = @ \cup {k}, !.retired = @ \ {k}]
    IN  IF kind = "start" THEN [known EXCEPT !.unconfirmed[k] = None, !.opened = @ \cup {k}]
        ELSE known
Settle(r, k, p) ==
    AddProcessMapping(
        RemoveProcessMapping([r EXCEPT !.unconfirmed[k] = None, !.opened = @ \ {k}], k), k, p)
HookAgent(r, k, kind, capture) ==
    IF k \in Command
    THEN SessionAgent(TRUE, IF kind = "start" THEN None ELSE r.unconfirmed[k], capture)
    ELSE <<capture[1]>>
Fixed(r, k, kind) == kind # "start" /\ r.agent[k] # {} /\ k \notin r.opened

(* That nothing was captured is a chain, of no process.                       *)
LEMMA NoCapture == None \in ProcessChains
BY DEF None, ProcessChains

(* The first thing ObserveSession does: the session is live, and a start      *)
(* forgets what the last hook said.                                           *)
LEMMA KnownIs ==
    ASSUME NEW r \in Registry, NEW k \in Keys, NEW kind
    PROVE  KnownAs(Known(r, k, kind), r, k, kind)
<1> DEFINE known == [r EXCEPT !.live = @ \cup {k}, !.retired = @ \ {k}]
           begun == [known EXCEPT !.unconfirmed[k] = None, !.opened = @ \cup {k}]
<1>1. /\ known.agent = r.agent /\ known.sessions = r.sessions /\ known.tools = r.tools
      /\ known.span = r.span /\ known.unconfirmed = r.unconfirmed /\ known.opened = r.opened
      /\ known.live = r.live \cup {k} /\ known.retired = r.retired \ {k}
      /\ known \in Registry
    BY DEF Registry
<1> HIDE DEF known
<1>2. begun.agent = known.agent /\ begun.sessions = known.sessions /\ begun.tools = known.tools
      /\ begun.span = known.span /\ begun.unconfirmed = [known.unconfirmed EXCEPT ![k] = None]
      /\ begun.opened = known.opened \cup {k}
      /\ begun.live = known.live /\ begun.retired = known.retired
    BY <1>1 DEF Registry
<1>3. begun \in Registry
    <2> HIDE DEF ProcessChains
    <2> QED BY <1>1, <1>2, NoCapture DEF Registry, ProcessChains
<1> HIDE DEF begun
<1>4. Known(r, k, kind) = IF kind = "start" THEN begun ELSE known
    BY DEF Known, known, begun
<1>5. CASE kind = "start"
    <2>1. Known(r, k, kind) = begun
        BY <1>4, <1>5
    <2> QED BY <1>1, <1>2, <1>3, <1>5, <2>1 DEF KnownAs
<1>6. CASE kind # "start"
    <2>1. Known(r, k, kind) = known
        BY <1>4, <1>6
    <2> QED BY <1>1, <1>6, <2>1 DEF KnownAs
<1> QED BY <1>5, <1>6

(* The last: the hook's agent replaces the one that was known.                *)
LEMMA SettleIs ==
    ASSUME NEW b \in Registry, NEW k \in Keys, NEW p \in Processes, NEW r \in Registry, NEW kind,
           KnownAs(b, r, k, kind)
    PROVE  SettledAs(Settle(b, k, p), r, k, p)
<1> DEFINE c == [b EXCEPT !.unconfirmed[k] = None, !.opened = @ \ {k}]
           d == RemoveProcessMapping(c, k)
           t == AddProcessMapping(d, k, p)
<1>2. /\ c \in Registry
      /\ c.agent = b.agent /\ c.sessions = b.sessions /\ c.tools = b.tools /\ c.span = b.span
      /\ c.retired = b.retired
      /\ c.unconfirmed = [b.unconfirmed EXCEPT ![k] = None]
      /\ c.opened = b.opened \ {k}
    BY NoCapture DEF Registry, ProcessChains
<1>a. /\ c.unconfirmed = [r.unconfirmed EXCEPT ![k] = None] /\ c.opened = r.opened \ {k}
      /\ c.agent = r.agent /\ c.sessions = r.sessions /\ c.tools = r.tools /\ c.span = r.span
      /\ c.retired = r.retired \ {k}
    <2>1. r.unconfirmed \in [Keys -> ProcessChains] /\ b.unconfirmed \in [Keys -> ProcessChains]
        BY DEF Registry, ProcessChains
    <2> HIDE DEF c
    <2> QED BY <1>2, <2>1 DEF KnownAs
<1> HIDE DEF c
<1>3. /\ d \in Registry
      /\ d.tools = c.tools /\ d.span = c.span /\ d.retired = c.retired
      /\ d.agent = [c.agent EXCEPT ![k] = {}]
      /\ d.unconfirmed = c.unconfirmed /\ d.opened = c.opened
      /\ d.sessions = [q \in Processes |-> IF q \in c.agent[k] THEN c.sessions[q] \ {k}
                                           ELSE c.sessions[q]]
    BY <1>2 DEF Registry, RemoveProcessMapping
<1> HIDE DEF d
<1>5. /\ t \in Registry
      /\ t.tools = d.tools /\ t.span = d.span /\ t.retired = d.retired
      /\ t.unconfirmed = d.unconfirmed /\ t.opened = d.opened
      /\ t.agent = [d.agent EXCEPT ![k] = @ \cup {p}]
      /\ t.sessions = [d.sessions EXCEPT ![p] = @ \cup {k}]
    <2>1. d \in Registry
        BY <1>3
    <2>2. /\ t.tools = d.tools /\ t.span = d.span /\ t.retired = d.retired
          /\ t.unconfirmed = d.unconfirmed /\ t.opened = d.opened /\ t.live = d.live
          /\ t.agent = [d.agent EXCEPT ![k] = @ \cup {p}]
          /\ t.sessions = [d.sessions EXCEPT ![p] = @ \cup {k}]
        BY <2>1 DEF Registry, AddProcessMapping
    <2>3. /\ t.agent \in [Keys -> SUBSET Processes]
          /\ t.sessions \in [Processes -> SUBSET Keys]
        BY <2>1, <2>2 DEF Registry
    <2>4. t = [d EXCEPT !.agent = t.agent, !.sessions = t.sessions]
        BY <2>1, <2>2 DEF Registry, AddProcessMapping
    <2>5. t \in Registry
        BY <2>1, <2>3, <2>4 DEF Registry
    <2> QED BY <2>2, <2>5
<1>6. t = Settle(b, k, p)
    BY DEF Settle, c, d, t
<1> HIDE DEF t
<1>7. t.agent = [r.agent EXCEPT ![k] = {p}]
    <2>1. r.agent \in [Keys -> SUBSET Processes]
        BY DEF Registry
    <2>2. t.agent = [d.agent EXCEPT ![k] = @ \cup {p}] /\ d.agent = [r.agent EXCEPT ![k] = {}]
        BY <1>3, <1>5, <1>a
    <2> QED BY <2>1, <2>2
<1>8. \A q \in Processes :
         /\ k \in t.sessions[q] <=> q = p \/ (k \in r.sessions[q] /\ q \notin r.agent[k])
         /\ \A j \in Keys : j # k => (j \in t.sessions[q] <=> j \in r.sessions[q])
    BY <1>3, <1>5, <1>a DEF Registry
<1> QED BY <1>3, <1>5, <1>6, <1>7, <1>8, <1>a DEF SettledAs

(* The agent a hook tells is a process.                                       *)
LEMMA HookAgentType ==
    ASSUME NEW r \in Registry, NEW k \in Keys, NEW capture \in ProcessChains, NEW kind,
           capture # None, HookAgent(r, k, kind, capture) # None
    PROVE  /\ HookAgent(r, k, kind, capture)[1] \in Processes
           /\ HookAgent(r, k, kind, capture) = <<HookAgent(r, k, kind, capture)[1]>>
<1>1. CASE k \in Command
    <2> DEFINE previous == IF kind = "start" THEN None ELSE r.unconfirmed[k]
    <2>1. previous \in Seq(Processes)
        BY NoCapture DEF Registry, ProcessChains
    <2>2. HookAgent(r, k, kind, capture) = SessionAgent(TRUE, previous, capture)
        BY <1>1 DEF HookAgent
    <2> HIDE DEF previous
    <2>3. PICK p \in Processes : HookAgent(r, k, kind, capture) = <<p>>
        BY <2>1, <2>2, CommandAgent DEF ProcessChains
    <2> QED BY <2>3
<1>2. CASE k \notin Command
    <2>1. HookAgent(r, k, kind, capture) = <<capture[1]>>
        BY <1>2 DEF HookAgent
    <2>2. capture[1] \in Processes
        BY DEF None, ProcessChains
    <2> QED BY <2>1, <2>2
<1> QED BY <1>1, <1>2

(* ObserveSession does nothing, forgets, keeps the hook to compare it with    *)
(* the next, or settles the agent.                                            *)
LEMMA ObserveSessionIs ==
    ASSUME NEW r \in Registry, NEW k \in Keys, NEW capture \in ProcessChains, NEW kind
    PROVE  LET t == ObserveSession(r, k, capture, kind = "start")
               agent == HookAgent(r, k, kind, capture)
           IN  \/ /\ Fixed(r, k, kind) \/ capture = None
                  /\ KnownAs(t, r, k, kind)
               \/ /\ ~Fixed(r, k, kind) /\ capture # None /\ agent # None
                  /\ SettledAs(t, r, k, agent[1])
               \/ /\ ~Fixed(r, k, kind) /\ capture # None /\ agent = None /\ k \in Command
                  /\ ComparesAs(t, r, k, kind, capture)
<1> DEFINE b == Known(r, k, kind)
           t == ObserveSession(r, k, capture, kind = "start")
           agent == HookAgent(r, k, kind, capture)
           fixed == ~(kind = "start") /\ r.agent[k] # {} /\ k \notin r.opened
           found == IF k \in Command THEN SessionAgent(TRUE, b.unconfirmed[k], capture)
                    ELSE SessionAgent(FALSE, capture, None)
<1>1. t = IF fixed \/ capture = None THEN b
          ELSE IF found # None THEN Settle(b, k, found[1])
          ELSE IF k \in Command THEN [b EXCEPT !.unconfirmed[k] = capture]
          ELSE b
    BY Zenon DEF ObserveSession, Known, Settle
<1>2. KnownAs(b, r, k, kind)
    BY KnownIs
<1> HIDE DEF b, t
<1>3. capture # None => found = agent
    <2>1. b.unconfirmed[k] = IF kind = "start" THEN None ELSE r.unconfirmed[k]
        <3>1. r.unconfirmed \in [Keys -> ProcessChains]
            BY DEF Registry, ProcessChains
        <3> QED BY <1>2, <3>1 DEF KnownAs
    <2>2. capture # None => SessionAgent(FALSE, capture, None) = <<capture[1]>>
        BY DEF SessionAgent
    <2> QED BY <2>1, <2>2, Zenon DEF HookAgent
<1>4. fixed = Fixed(r, k, kind)
    BY DEF Fixed
<1>5. b \in Registry
    BY <1>2 DEF KnownAs
<1>6. CASE Fixed(r, k, kind) \/ capture = None
    <2>1. t = b
        BY <1>1, <1>4, <1>6
    <2> QED BY <1>2, <1>6, <2>1 DEF t
<1> HIDE DEF fixed, found, agent
<1>7. CASE ~Fixed(r, k, kind) /\ capture # None /\ agent # None
    <2>1. t = Settle(b, k, agent[1])
        BY <1>1, <1>3, <1>4, <1>7
    <2>2. agent[1] \in Processes
        BY <1>7, HookAgentType DEF agent
    <2>3. SettledAs(t, r, k, agent[1])
        BY <1>2, <1>5, <2>1, <2>2, SettleIs
    <2> QED BY <1>7, <2>3 DEF t, agent
<1>8. CASE ~Fixed(r, k, kind) /\ capture # None /\ agent = None
    <2>1. k \in Command
        BY <1>8 DEF agent, HookAgent, None
    <2>2. t = [b EXCEPT !.unconfirmed[k] = capture]
        BY <1>1, <1>3, <1>4, <1>8, <2>1
    <2>3. /\ t \in Registry
          /\ t.agent = b.agent /\ t.sessions = b.sessions /\ t.tools = b.tools /\ t.span = b.span
          /\ t.retired = b.retired /\ t.opened = b.opened
          /\ t.unconfirmed = [b.unconfirmed EXCEPT ![k] = capture]
        BY <1>5, <2>2 DEF Registry, ProcessChains
    <2>4. t.unconfirmed = [r.unconfirmed EXCEPT ![k] = capture]
        <3>1. r.unconfirmed \in [Keys -> ProcessChains]
            BY DEF Registry, ProcessChains
        <3> QED BY <1>2, <2>3, <3>1 DEF KnownAs
    <2>5. ComparesAs(t, r, k, kind, capture)
        BY <1>2, <2>3, <2>4 DEF KnownAs, ComparesAs
    <2> QED BY <1>8, <2>1, <2>5 DEF t, agent
<1>9. \/ Fixed(r, k, kind) \/ capture = None
      \/ ~Fixed(r, k, kind) /\ capture # None /\ agent # None
      \/ ~Fixed(r, k, kind) /\ capture # None /\ agent = None
    BY Zenon
<1> USE DEF t, agent
<1> QED BY <1>6, <1>7, <1>8, <1>9, Zenon

(* It leaves a registry.                                                      *)
LEMMA ObserveSessionType ==
    ASSUME NEW r \in Registry, NEW k \in Keys, NEW capture \in ProcessChains, NEW kind
    PROVE  LET t == ObserveSession(r, k, capture, kind = "start")
           IN  /\ t \in Registry /\ t.tools = r.tools /\ t.span = r.span
               /\ t.retired = r.retired \ {k}
<1> DEFINE t == ObserveSession(r, k, capture, kind = "start")
<1>1. \/ KnownAs(t, r, k, kind)
      \/ SettledAs(t, r, k, HookAgent(r, k, kind, capture)[1])
      \/ ComparesAs(t, r, k, kind, capture)
    BY ObserveSessionIs, Zenon
<1> HIDE DEF t
<1>2. /\ t \in Registry /\ t.tools = r.tools /\ t.span = r.span
      /\ t.retired = r.retired \ {k}
    BY <1>1 DEF KnownAs, SettledAs, ComparesAs
<1> QED BY <1>2, Zenon DEF t

(* What is above the agent of a chain, which has no process twice, is the     *)
(* rest of the chain.                                                         *)
LEMMA AboveAgent ==
    ASSUME NEW chain \in Seq(Processes), chain # <<>>, IsInjective(chain)
    PROVE  Above(chain, <<chain[1]>>) = Tail(chain)
<1>0. Len(chain) \in Nat \ {0} /\ DOMAIN chain = 1..Len(chain) /\ <<chain[1]>> # None
    BY DEF None
<1>1. chain[1] \in Range(chain)
    BY <1>0 DEF Range
<1> DEFINE j == CHOOSE i \in DOMAIN chain : chain[i] = chain[1]
<1>2. j = 1
    BY <1>0 DEF IsInjective
<1> HIDE DEF j
<1>3. Above(chain, <<chain[1]>>) = SubSeq(chain, 1 + j, Len(chain))
    BY <1>0, <1>1 DEF Above, j
<1> QED BY <1>0, <1>2, <1>3

(* So it is in the capture of a hook that the agent ran.                      *)
LEMMA AboveHook ==
    ASSUME NEW chain \in Seq(Processes), chain # <<>>, IsInjective(chain),
           NEW h, h \notin Range(chain)
    PROVE  Above(<<h>> \o chain, <<chain[1]>>) = Tail(chain)
<1> DEFINE c == <<h>> \o chain
<1>n. Len(chain) \in Nat \ {0} /\ DOMAIN chain = 1..Len(chain) /\ <<chain[1]>> # None
    BY DEF None
<1>0. /\ Len(c) = 1 + Len(chain) /\ c[1] = h /\ \A i \in 1..Len(chain) : c[i + 1] = chain[i]
      /\ c \in Seq({h} \cup Processes)
    BY <1>n
<1> HIDE DEF c
<1>1. chain[1] \in Range(c) /\ chain[1] # h /\ c[2] = chain[1]
    BY <1>n, <1>0 DEF Range
<1> DEFINE j == CHOOSE i \in DOMAIN c : c[i] = chain[1]
<1>a. DOMAIN c = 1..Len(c)
    BY <1>n, <1>0
<1>b. \A i \in DOMAIN c : c[i] = chain[1] => i = 2
    <2> SUFFICES ASSUME NEW i \in DOMAIN c, c[i] = chain[1] PROVE i = 2
        OBVIOUS
    <2>1. i # 1
        BY <1>n, <1>0, <1>1
    <2>2. i - 1 \in 1..Len(chain) /\ i = (i - 1) + 1
        BY <1>n, <1>0, <1>a, <2>1
    <2>3. chain[i - 1] = chain[1]
        BY <1>n, <1>0, <2>2
    <2>4. i - 1 = 1
        BY <1>n, <1>0, <2>2, <2>3 DEF IsInjective
    <2> QED BY <2>2, <2>4
<1>c. 2 \in DOMAIN c
    BY <1>n, <1>0, <1>a
<1>2. j = 2
    BY <1>1, <1>b, <1>c
<1> HIDE DEF j
<1>3. Above(c, <<chain[1]>>) = SubSeq(c, 1 + j, Len(c))
    BY <1>n, <1>0, <1>1 DEF Above, j
<1>4. SubSeq(c, 3, Len(c)) = Tail(chain)
    <2> DEFINE a == SubSeq(c, 3, Len(c))
               b == Tail(chain)
    <2>1. a \in Seq({h} \cup Processes) /\ Len(a) = Len(chain) - 1
          /\ \A i \in 1..Len(chain) - 1 : a[i] = c[i + 2]
        BY <1>n, <1>0
    <2>2. b \in Seq({h} \cup Processes) /\ Len(b) = Len(chain) - 1
          /\ \A i \in 1..Len(chain) - 1 : b[i] = chain[i + 1]
        BY <1>n
    <2>3. \A i \in 1..Len(chain) - 1 : c[i + 2] = chain[i + 1]
        <3> SUFFICES ASSUME NEW i \in 1..Len(chain) - 1 PROVE c[i + 2] = chain[i + 1]
            OBVIOUS
        <3>1. i + 1 \in 1..Len(chain) /\ (i + 1) + 1 = i + 2
            BY <1>n
        <3>2. c[(i + 1) + 1] = chain[i + 1]
            BY <1>0, <3>1
        <3> QED BY <3>1, <3>2
    <2> HIDE DEF a, b
    <2>4. /\ a = [i \in 1..Len(chain) - 1 |-> a[i]] /\ b = [i \in 1..Len(chain) - 1 |-> b[i]]
        BY <1>n, <2>1, <2>2
    <2>5. \A i \in 1..Len(chain) - 1 : a[i] = b[i]
        BY <2>1, <2>2, <2>3
    <2> QED BY <2>4, <2>5 DEF a, b
<1>e. 1 + j = 3
    BY <1>2
<1>5. Above(c, <<chain[1]>>) = Tail(chain)
    BY <1>e, <1>3, <1>4, Zenon
<1> QED BY <1>5 DEF c

(* The parent that Resolve finds: a session of the nearest agent, and one of  *)
(* its spans.                                                                 *)
Spanned == Keys \X (Tools \cup {Session})
Candidates == [kind : {"pending", "parent"}, process : Processes, span : Spanned]

(* The span of a parent is one of its own.                                    *)
LEMMA ParentSpanType ==
    ASSUME NEW r \in Registry, NEW k \in Keys
    PROVE  \A span \in ParentSpan(r, k) : span \in Spanned /\ span[1] = k
BY DEF ParentSpan, Registry, Spanned

(* What is above an agent in a chain is a chain of processes.                 *)
LEMMA AboveType ==
    ASSUME NEW capture \in Seq(Processes), NEW agent
    PROVE  Above(capture, agent) \in Seq(Processes)
<1>1. CASE agent # None /\ agent[1] \in Range(capture)
    <2> DEFINE i == CHOOSE i \in DOMAIN capture : capture[i] = agent[1]
    <2>1. i \in 1..Len(capture)
        BY <1>1 DEF Range
    <2> HIDE DEF i
    <2>2. Above(capture, agent) = SubSeq(capture, 1 + i, Len(capture))
        BY <1>1 DEF Above, i
    <2> QED BY <2>1, <2>2
<1> QED BY <1>1 DEF Above, None

(* A parent that is found is a session of a process above the child.          *)
LEMMA Resolves ==
    ASSUME NEW r \in Registry, NEW native, NEW capture \in Seq(Processes), NEW agent, NEW compatible
    PROVE  LET found == Resolve(r, native, capture, agent, compatible)
           IN  found.kind # "standalone" =>
                 /\ found \in Candidates
                 /\ found.kind = "pending" <=> agent = None
                 /\ found.process \in Range(Above(capture, agent))
                 /\ found.span[1] \in r.sessions[found.process]
<1> DEFINE chain == Above(capture, agent)
           agents == {i \in DOMAIN chain : r.sessions[chain[i]] # {}}
           process == chain[CHOOSE i \in agents : \A j \in agents : i <= j]
           open == {k \in r.sessions[process] : SessionIsOpen(r, k)}
           spans == UNION {ParentSpan(r, k) : k \in open \cap compatible}
           parent == [kind |-> IF agent = None THEN "pending" ELSE "parent",
                      process |-> process, span |-> CHOOSE span \in spans : TRUE]
           found == Resolve(r, native, capture, agent, compatible)
<1>1. SUFFICES ASSUME found.kind # "standalone"
               PROVE  /\ found \in Candidates
                      /\ found.kind = "pending" <=> agent = None
                      /\ found.process \in Range(Above(capture, agent))
                      /\ found.span[1] \in r.sessions[found.process]
    BY Zenon
<1>2. agents # {} /\ Cardinality(spans) = 1 /\ found = parent
    <2>1. [kind |-> "standalone"].kind = "standalone"
        OBVIOUS
    <2> QED BY <1>1, <2>1, Zenon DEF Resolve
<1>3. chain \in Seq(Processes)
    BY AboveType
<1> HIDE DEF chain, found
<1>4. process \in Range(chain) /\ process \in Processes
    <2> DEFINE n == CHOOSE i \in agents : \A j \in agents : i <= j
    <2>1. agents \in SUBSET Nat
        BY <1>3
    <2>2. n \in agents
        BY <1>2, <2>1, Least DEF Min
    <2> HIDE DEF n
    <2>3. chain[n] \in Range(chain) /\ chain[n] \in Processes
        BY <1>3, <2>2 DEF Range
    <2> QED BY <2>3 DEF n
<1> HIDE DEF agents
<1>c. Cardinality(spans) = 1
    BY <1>2
<1>6. \A span \in spans : span \in Spanned /\ span[1] \in r.sessions[process]
    <2> SUFFICES ASSUME NEW span \in spans PROVE span \in Spanned /\ span[1] \in r.sessions[process]
        OBVIOUS
    <2>1. PICK k \in open \cap compatible : span \in ParentSpan(r, k)
        OBVIOUS
    <2>2. k \in r.sessions[process] /\ k \in Keys
        BY <1>4 DEF Registry
    <2> QED BY <2>1, <2>2, ParentSpanType
<1> HIDE DEF process, open, spans
<1>5. spans # {}
    <2> SUFFICES ASSUME spans = {} PROVE FALSE
        OBVIOUS
    <2>1. Cardinality(spans) = 0
        BY FS_EmptySet
    <2> QED BY <1>c, <2>1
<1>7. parent \in Candidates /\ (parent.kind = "pending" <=> agent = None)
    BY <1>4, <1>5, <1>6 DEF Candidates
<1>8. parent.process = process /\ parent.span \in spans
    BY <1>5
<1>9. found = parent
    BY <1>2
<1> HIDE DEF parent
<1> QED BY <1>4, <1>6, <1>7, <1>8, <1>9 DEF chain

------------------------------------------------------------------------------
(* What is true of what was captured, and of what is known of it.             *)

(* No event of the session in a part of the log is a start.                   *)
Continues(k, from, to) == \A i \in from..to : log[i].key = k => log[i].kind # "start"

(* What the n-th event captures when its session runs in a chain.             *)
RunsCommands(key) == IF key = Child THEN scene.command ELSE key \in Command
Hook(key, n, chain) == IF RunsCommands(key) THEN <<99 + n>> \o chain ELSE chain

(* The chain in which a session runs from an event until it starts again.     *)
RunsIn(i, chain) ==
    /\ \A j \in i..Len(log) :
         log[j].key = log[i].key /\ Continues(log[i].key, i + 1, j) /\ log[j].capture # None
           => log[j].capture = Hook(log[j].key, j, chain)
    /\ Continues(log[i].key, i + 1, Len(log)) => chain = at[log[i].key]

(* Where the sessions run, and what was captured of them: the child runs in   *)
(* one chain, the others in one from a start to the next.                     *)
WorldInv ==
    /\ scene \in Scenarios
    /\ log \in Seq(Events) /\ Len(log) <= scene.events
    /\ \A i \in 1..Len(log) : Worded(log[i])
    /\ DOMAIN at = Keys \cup {Child} /\ at[Child] \in scene.agents
    /\ \A k \in Keys : at[k] \in Chains[k]
LogInv ==
    \A i \in 1..Len(log) :
      /\ log[i].key = Child /\ log[i].capture # None => log[i].capture = Hook(Child, i, at[Child])
      /\ log[i].key \in Keys => \E chain \in Chains[log[i].key] : RunsIn(i, chain)

(* What a restart dispatches again is the last event of its session.          *)
QueueInv ==
    /\ next \in 1..Len(log) + 1 /\ startup \in SUBSET (1..next - 1)
    /\ \A e \in startup : \A i \in e + 1..next - 1 : log[i].key # log[e].key

(* The registry has the agent of a chain of the session, if any; what it still*)
(* compares was captured since the session started.                           *)
AgentsOf(k) == {chain[1] : chain \in Chains[k]}
CapturedBefore(k, capture, n) ==
    \E j \in 1..n : log[j].key = k /\ log[j].capture = capture /\ Continues(k, j + 1, n)
RegistryOK(r, n) ==
    /\ r \in Registry
    /\ \A k \in Keys : r.agent[k] \subseteq AgentsOf(k)
    /\ \A p \in Processes : \A k \in r.sessions[p] : p \in AgentsOf(k)
    /\ \A k \in Keys : r.unconfirmed[k] # None =>
         k \in Command /\ CapturedBefore(k, r.unconfirmed[k], n)
Snapshots ==
    [dirty : BOOLEAN, processes : SUBSET Processes, tools : SUBSET Tools, active : BOOLEAN]
SnapshotOK(k, x) ==
    x # None => x[1] \in Snapshots /\ x[1].processes \subseteq AgentsOf(k)
RegistryInv ==
    /\ attached \in SUBSET Keys /\ waiting \in SUBSET Keys /\ seen \in [Keys -> Nat]
    /\ RegistryOK(reg, next - 1)
    /\ DOMAIN snapshots = Keys /\ \A k \in Keys : SnapshotOK(k, snapshots[k])

(* The child is linked, or may be, to a session that runs above it.           *)
RouteSet == {None, Alone} \cup Spanned
RunsAbove(k) == \E chain \in Chains[k] : chain[1] \in Range(Tail(at[Child]))
RouteOK(route) == route \in RouteSet /\ (route \in Spanned => RunsAbove(route[1]))
ParentOK(p) == p # None => p[1] \in Candidates /\ p[1].process \in AgentsOf(p[1].span[1])
EventsOK(events) ==
    events \in Seq(Nat) /\ \A n \in DOMAIN events : events[n] \in 1..Len(log) /\ log[events[n]].key = Child
StateOK(s) ==
    /\ Shaped(s) /\ RouteOK(s.route) /\ ParentOK(s.parent) /\ EventsOK(s.events)
    /\ s.route = None => s.parent # None
HeldOK(x) == x # None => x = <<x[1]>> /\ StateOK(x[1])
WorkOK(w) ==
    w # None => /\ w = <<w[1]>> /\ WorkShaped(w[1]) /\ StateOK(w[1].state)
                /\ w[1].saved => w[1].state.events # <<>>
LinksInv ==
    /\ HeldOK(stored) /\ HeldOK(pending)
    /\ WorkOK(work)
    /\ RouteOK(link) /\ \A route \in DOMAIN given : RouteOK(route)

AncestryInv == WorldInv /\ LogInv /\ QueueInv /\ RegistryInv /\ LinksInv
------------------------------------------------------------------------------
(* Chains of processes.                                                       *)

AgentChain(chain) ==
    /\ chain \in Seq(Processes) /\ chain # <<>> /\ IsInjective(chain)
    /\ \A p \in Range(chain) : p \in 0..99

(* Every session, and the child, runs in a chain of processes that begins     *)
(* with an agent and has no process twice.                                    *)
LEMMA ChainsAreChains ==
    /\ \A k \in Keys : \A chain \in Chains[k] : AgentChain(chain)
    /\ \A s \in Scenarios : \A chain \in s.agents : AgentChain(chain)
<1>1. ASSUME NEW chain \in Seq(Processes \cap 0..99) \ {<<>>}, IsInjective(chain)
      PROVE  AgentChain(chain)
    <2>1. /\ Len(chain) \in Nat /\ DOMAIN chain = 1..Len(chain) /\ chain # <<>>
          /\ \A i \in 1..Len(chain) : chain[i] \in Processes /\ chain[i] \in 0..99
        OBVIOUS
    <2>2. chain \in Seq(Processes)
        <3>1. chain = [i \in 1..Len(chain) |-> chain[i]]
            OBVIOUS
        <3>2. [i \in 1..Len(chain) |-> chain[i]] \in Seq(Processes)
            BY <2>1
        <3> QED BY <3>1, <3>2
    <2> QED BY <1>1, <2>1, <2>2 DEF AgentChain, Range
<1> QED BY <1>1, ProcessesAssumption

(* The agents of a session are processes with a number of an agent.           *)
LEMMA AgentsAreProcesses ==
    ASSUME NEW k \in Keys
    PROVE  AgentsOf(k) \subseteq Processes \cap 0..99
<1> SUFFICES ASSUME NEW chain \in Chains[k] PROVE chain[1] \in Processes \cap 0..99
    BY DEF AgentsOf
<1>1. AgentChain(chain)
    BY ChainsAreChains
<1>2. chain[1] \in Processes /\ chain[1] \in Range(chain)
    BY <1>1 DEF AgentChain, Range
<1> QED BY <1>1, <1>2 DEF AgentChain

(* What a hook captures is a chain, and a hook's own process is none of those *)
(* above it.                                                                  *)
LEMMA HookIsChain ==
    ASSUME WorldInv, NEW key, NEW n \in 1..scene.events, NEW chain, AgentChain(chain)
    PROVE  /\ Hook(key, n, chain) \in Seq(Processes) /\ Hook(key, n, chain) # None
           /\ 99 + n \in Processes /\ 99 + n \notin Range(chain)
<1>1. 99 + n \in Processes /\ n \in Nat \ {0}
    BY ProcessesAssumption, ScenariosAssumption DEF WorldInv
<1>2. 99 + n \notin Range(chain)
    <2>1. \A p \in Range(chain) : p \in 0..99
        BY DEF AgentChain
    <2>2. 99 + n \notin 0..99
        BY <1>1
    <2> QED BY <2>1, <2>2
<1>3. <<99 + n>> \o chain \in Seq(Processes) /\ <<99 + n>> \o chain # <<>>
    BY <1>1 DEF AgentChain
<1> QED BY <1>1, <1>2, <1>3 DEF Hook, None, AgentChain
------------------------------------------------------------------------------
(* Events.                                                                    *)

(* The latest event of a session is one of its events, and none is later.     *)
LEMMA LatestIs ==
    ASSUME WorldInv, NEW k
    PROVE  /\ Latest(k) \in 0..Len(log)
           /\ Latest(k) # 0 => log[Latest(k)].key = k
           /\ \A i \in Latest(k) + 1..Len(log) : log[i].key # k
<1> DEFINE T == EventsOf(k, 1, Len(log)) \cup {0}
<1>1. T \in SUBSET (0..Len(log)) /\ T # {} /\ Len(log) \in Nat
    BY DEF EventsOf, WorldInv
<1>2. Max(T) \in T /\ \A y \in T : Max(T) >= y
    <2> HIDE DEF T
    <2> QED BY <1>1, Greatest
<1>3. Latest(k) = Max(T)
    BY DEF Latest
<1>4. \A i \in 1..Len(log) : log[i].key = k => i \in T
    BY DEF EventsOf
<1>5. \A i \in T : i # 0 => log[i].key = k
    BY DEF EventsOf
<1> DEFINE m == Max(T)
<1> HIDE DEF T
<1>6. m \in 0..Len(log) /\ m \in T /\ \A y \in T : y \in Nat /\ m >= y
    <2>1. m \in T /\ \A y \in T : m >= y
        BY <1>2
    <2>2. \A y \in T : y \in 0..Len(log) /\ y \in Nat
        BY <1>1
    <2> HIDE DEF m
    <2> QED BY <2>1, <2>2
<1>7. Latest(k) = m
    BY <1>3
<1> HIDE DEF m
<1>8. ASSUME NEW i \in m + 1..Len(log), log[i].key = k PROVE FALSE
    <2>1. i \in 1..Len(log) /\ ~(m >= i)
        BY <1>1, <1>6
    <2> QED BY <1>4, <1>6, <1>8, <2>1
<1> QED BY <1>5, <1>6, <1>7, <1>8

(* What is dispatched next.                                                   *)
LEMMA UpcomingIs ==
    ASSUME QueueInv, WorldInv, WorkerIsFree
    PROVE  /\ Upcoming \in 1..Len(log)
           /\ startup # {} => /\ Upcoming \in startup /\ Upcoming <= next - 1
                              /\ \A i \in Upcoming + 1..next - 1 : log[i].key # log[Upcoming].key
           /\ startup = {} => Upcoming = next
<1>0. Len(log) \in Nat /\ next \in Nat \ {0}
    BY DEF WorldInv, QueueInv
<1>1. CASE startup = {}
    BY <1>0, <1>1 DEF Upcoming, WorkerIsFree
<1>2. CASE startup # {}
    <2>1. startup \in SUBSET Nat
        BY <1>0 DEF QueueInv
    <2>2. Upcoming \in startup
        BY <1>2, <2>1, Least DEF Upcoming
    <2> QED BY <1>0, <1>2, <2>2 DEF QueueInv
<1> QED BY <1>1, <1>2

(* What is dispatched is one of the captured events, and the queue goes on    *)
(* behind it.                                                                 *)
LEMMA DispatchedIs ==
    ASSUME QueueInv, WorldInv, WorkerIsFree, Dispatched, log' = log
    PROVE  /\ QueueInv'
           /\ \E m \in next - 1..Len(log) :
                /\ next' = m + 1 /\ Upcoming \in 1..m
                /\ \A i \in Upcoming + 1..m : log[i].key # log[Upcoming].key
                /\ \A i \in next..m : i = Upcoming
<1>0. Len(log) \in Nat /\ next \in Nat \ {0} /\ next <= Len(log) + 1
    BY DEF WorldInv, QueueInv
<1>1. CASE startup = {}
    <2>1. next' = next + 1 /\ startup' = startup /\ Upcoming = next
        BY <1>1, UpcomingIs DEF Dispatched
    <2>2. next \in next - 1..Len(log) /\ next \in 1..next
        BY <1>0, <1>1, <2>1, UpcomingIs
    <2>3. QueueInv'
        BY <1>0, <1>1, <2>1, <2>2 DEF QueueInv
    <2> QED BY <1>0, <2>1, <2>2, <2>3
<1>2. CASE startup # {}
    <2>1. next' = next /\ startup' = startup \ {Upcoming}
        BY <1>2 DEF Dispatched
    <2>2. /\ Upcoming \in startup /\ Upcoming \in 1..next - 1
          /\ \A i \in Upcoming + 1..next - 1 : log[i].key # log[Upcoming].key
        BY <1>2, UpcomingIs DEF QueueInv
    <2>3. QueueInv'
        BY <2>1 DEF QueueInv
    <2>4. /\ next - 1 \in next - 1..Len(log) /\ next = (next - 1) + 1
          /\ \A i \in next..next - 1 : i = Upcoming
        BY <1>0
    <2> QED BY <2>1, <2>2, <2>3, <2>4
<1> QED BY <1>1, <1>2

------------------------------------------------------------------------------
(* The log grows.                                                             *)

(* What was captured stays.                                                   *)
LogGrows ==
    /\ log \in Seq(Events) /\ log' \in Seq(Events) /\ Len(log) <= Len(log')
    /\ \A i \in 1..Len(log) : log'[i] = log[i]

(* No capture changes whether a run of a session went on between two events.  *)
LEMMA ContinuesStays ==
    ASSUME LogGrows, NEW k, NEW a \in Nat \ {0}, NEW b \in 0..Len(log)
    PROVE  Continues(k, a, b)' <=> Continues(k, a, b)
<1>1. \A i \in a..b : i \in 1..Len(log)
    BY DEF LogGrows
<1> QED BY <1>1 DEF LogGrows, Continues

(* What is known of the sessions stays true when more is captured.            *)
LEMMA RegistryStays ==
    ASSUME LogGrows, NEW n \in 0..Len(log), RegistryOK(reg, n), reg' = reg
    PROVE  RegistryOK(reg, n)'
<1>1. ASSUME NEW k \in Keys, CapturedBefore(k, reg.unconfirmed[k], n)
      PROVE  CapturedBefore(k, reg.unconfirmed[k], n)'
    <2>1. PICK j \in 1..n : /\ log[j].key = k /\ log[j].capture = reg.unconfirmed[k]
                            /\ Continues(k, j + 1, n)
        BY <1>1 DEF CapturedBefore
    <2>2. log'[j] = log[j] /\ Continues(k, j + 1, n)'
        <3>1. j \in 1..Len(log) /\ j + 1 \in Nat \ {0}
            BY DEF LogGrows
        <3> QED BY <2>1, <3>1, ContinuesStays DEF LogGrows
    <2> QED BY <2>1, <2>2 DEF CapturedBefore
<1> QED BY <1>1 DEF RegistryOK

(* So does what is known of the child.                                        *)
LEMMA LinksStay ==
    ASSUME LogGrows, LinksInv, UNCHANGED child, at'[Child] = at[Child]
    PROVE  LinksInv'
<1>1. ASSUME NEW events, EventsOK(events) PROVE EventsOK(events)'
    BY <1>1 DEF EventsOK, LogGrows
<1>2. ASSUME NEW route, RouteOK(route) PROVE RouteOK(route)'
    BY <1>2 DEF RouteOK, RunsAbove
<1>3. ASSUME NEW s, StateOK(s) PROVE StateOK(s)'
    BY <1>1, <1>2, <1>3 DEF StateOK
<1>4. ASSUME NEW x, HeldOK(x) PROVE HeldOK(x)'
    BY <1>3, <1>4 DEF HeldOK
<1>5. stored' = stored /\ pending' = pending /\ link' = link /\ work' = work /\ given' = given
    BY DEF child
<1>6. HeldOK(stored)' /\ HeldOK(pending)'
    BY <1>4, <1>5 DEF LinksInv
<1>7. RouteOK(link)' /\ \A route \in DOMAIN given' : RouteOK(route)'
    BY <1>2, <1>5 DEF LinksInv
<1>8. ASSUME NEW w, WorkOK(w) PROVE WorkOK(w)'
    BY <1>3, <1>8 DEF WorkOK
<1>9. WorkOK(work)'
    BY <1>5, <1>8 DEF LinksInv
<1> QED BY <1>6, <1>7, <1>9 DEF LinksInv

(* A session captures an event, which continues its run or starts another.    *)
LEMMA Appends ==
    ASSUME WorldInv, LogInv, Len(log) < scene.events, scene' = scene,
           NEW key \in Keys \cup {Child}, NEW kind \in {"start", "open", "close", "other", "end"},
           NEW tool \in Tools \cup {None}, kind \in {"open", "close"} => tool \in Tools,
           NEW chain, IF key = Child THEN chain = at[Child] /\ at' = at
                      ELSE /\ chain \in Chains[key] /\ at' = [at EXCEPT ![key] = chain]
                           /\ kind # "start" => chain = at[key],
           NEW capture \in {None, Hook(key, Len(log) + 1, chain)},
           Capture(key, kind, tool, capture)
    PROVE  WorldInv' /\ LogInv' /\ LogGrows /\ at'[Child] = at[Child] /\ Len(log') = Len(log) + 1
<1>n. PICK n \in Nat : n = Len(log) + 1
    BY DEF WorldInv
<1> DEFINE e == [key |-> key, kind |-> kind, tool |-> tool, capture |-> capture]
<1>0. Len(log) \in Nat /\ n = Len(log) + 1 /\ n \in 1..scene.events /\ scene.events \in Nat
    BY <1>n, ScenariosAssumption DEF WorldInv
<1>1. AgentChain(chain)
    BY ChainsAreChains DEF WorldInv
<1>2. e \in Events /\ Worded(e) /\ e.key = key /\ e.kind = kind /\ e.capture = capture
    <2>1. capture \in Seq(Processes)
        BY <1>0, <1>1, HookIsChain, NoCapture DEF ProcessChains
    <2> QED BY <2>1 DEF Events, Worded
<1>c. capture \in {None, Hook(key, n, chain)}
    BY <1>0
<1>3. log' = Append(log, e)
    BY DEF Capture
<1> HIDE DEF e
<1>4. /\ log' \in Seq(Events) /\ Len(log') = n
      /\ \A i \in 1..Len(log) : log'[i] = log[i]
      /\ log'[n] = e
    BY <1>0, <1>2, <1>3 DEF WorldInv
<1>5. LogGrows
    BY <1>0, <1>4 DEF LogGrows, WorldInv
<1>6. /\ DOMAIN at' = Keys \cup {Child} /\ at'[Child] = at[Child] /\ at'[key] = chain
      /\ \A k \in Keys \ {key} : at'[k] = at[k]
    BY ChildAssumption DEF WorldInv
<1>7. WorldInv'
    <2>1. \A i \in 1..n : Worded(log'[i])
        BY <1>0, <1>2, <1>4 DEF WorldInv
    <2>2. \A k \in Keys : at'[k] \in Chains[k]
        BY <1>6, ChildAssumption DEF WorldInv
    <2> QED BY <1>0, <1>4, <1>6, <2>1, <2>2 DEF WorldInv
<1>r. \A k, m, c : Hook(k, m, c)' = Hook(k, m, c)
    BY DEF Hook, RunsCommands
<1>8. ASSUME NEW i \in 1..n, log'[i].key = Child, log'[i].capture # None
      PROVE  log'[i].capture = Hook(Child, i, at[Child])
    <2>1. CASE i = n
        BY <1>2, <1>4, <1>8, <1>c, <2>1
    <2>2. CASE i # n
        <3>1. i \in 1..Len(log)
            BY <1>0, <2>2
        <3> QED BY <1>4, <1>8, <3>1 DEF LogInv
    <2> QED BY <2>1, <2>2
<1>9. ASSUME NEW i \in 1..n, log'[i].key \in Keys
      PROVE  \E c \in Chains[log'[i].key] : RunsIn(i, c)'
    <2>1. CASE i = n
        <3>1. key \in Keys /\ key # Child /\ log'[i].key = key
            BY <1>2, <1>4, <1>9, <2>1, ChildAssumption
        <3>2. \A j \in i..n : j = n
            BY <1>0, <2>1
        <3>3. RunsIn(i, chain)'
            BY <1>2, <1>4, <1>6, <1>c, <1>r, <2>1, <3>1, <3>2 DEF RunsIn
        <3> QED BY <3>1, <3>3
    <2>2. CASE i # n
        <3>1. i \in 1..Len(log) /\ log'[i] = log[i]
            BY <1>0, <1>4, <2>2
        <3>2. PICK c \in Chains[log[i].key] : RunsIn(i, c)
            BY <1>9, <3>1 DEF LogInv
        <3>k. PICK k : k = log[i].key
            OBVIOUS
        <3>3. k \in Keys /\ k # Child
            BY <1>9, <3>1, <3>k, ChildAssumption
        <3>4. Continues(k, i + 1, n)' => /\ Continues(k, i + 1, Len(log))
                                         /\ key = k => kind # "start"
            <4>1. /\ i + 1 \in Nat \ {0} /\ n - 1 = Len(log) /\ n - 1 \in 0..Len(log)
                  /\ n \in i + 1..n /\ \A j \in i + 1..n - 1 : j \in i + 1..n
                BY <1>0, <3>1
            <4>2. Continues(k, i + 1, n)' => Continues(k, i + 1, n - 1)'
                BY <4>1 DEF Continues
            <4>3. Continues(k, i + 1, n)' => (log'[n].key = k => log'[n].kind # "start")
                BY <4>1 DEF Continues
            <4>4. Continues(k, i + 1, n - 1)' <=> Continues(k, i + 1, n - 1)
                BY <1>5, <4>1, ContinuesStays
            <4> QED BY <1>2, <1>4, <4>1, <4>2, <4>3, <4>4
        <3>5. Continues(k, i + 1, n)' => c = at'[k] /\ (key = k => chain = c)
            <4>1. Continues(k, i + 1, Len(log)) => c = at[k]
                BY <3>2, <3>k DEF RunsIn
            <4> QED BY <1>6, <3>3, <3>4, <4>1
        <3>6. ASSUME NEW j \in i..n, log'[j].key = k, Continues(k, i + 1, j)', log'[j].capture # None
              PROVE  log'[j].capture = Hook(k, j, c)
            <4>1. CASE j = n
                BY <1>2, <1>4, <1>c, <3>5, <3>6, <4>1
            <4>2. CASE j # n
                <5>1. j \in i..Len(log) /\ log'[j] = log[j] /\ j \in 0..Len(log)
                    BY <1>0, <1>4, <3>1, <4>2
                <5>2. i + 1 \in Nat \ {0}
                    BY <3>1
                <5>3. Continues(k, i + 1, j)
                    BY <1>5, <3>6, <5>1, <5>2, ContinuesStays
                <5> QED BY <3>2, <3>6, <3>k, <5>1, <5>3 DEF RunsIn
            <4> QED BY <4>1, <4>2
        <3>7. RunsIn(i, c)'
            BY <1>4, <1>r, <3>1, <3>5, <3>6, <3>k DEF RunsIn
        <3> QED BY <3>1, <3>7
    <2> QED BY <2>1, <2>2
<1>10. LogInv'
    BY <1>4, <1>6, <1>8, <1>9, <1>r DEF LogInv
<1> QED BY <1>0, <1>4, <1>5, <1>6, <1>7, <1>10

(* A capture keeps the invariant.                                             *)
LEMMA CaptureAncestry ==
    ASSUME AncestryInv, NEW key \in Keys \cup {Child}, NEW kind, NEW tool,
           \/ key \in Keys /\ CaptureParent(key, kind, tool)
              /\ kind \in {"start", "open", "close", "other", "end"}
              /\ tool \in Tools \cup {None} /\ (kind \in {"open", "close"} => tool \in Tools)
           \/ key = Child /\ CaptureChild(kind) /\ kind \in {"start", "other"} /\ tool = None
    PROVE  AncestryInv' /\ LogGrows
<1>0. Len(log) \in Nat /\ 99 + (Len(log) + 1) = 100 + Len(log)
    BY DEF AncestryInv, WorldInv
<1>h. \A chain : Hook(key, Len(log) + 1, chain) = Captured(RunsCommands(key), chain)
    BY <1>0 DEF Hook, Captured
<1>1. WorldInv' /\ LogInv' /\ LogGrows /\ at'[Child] = at[Child] /\ Len(log') = Len(log) + 1
    <2>1. CASE key \in Keys /\ CaptureParent(key, kind, tool)
               /\ kind \in {"start", "open", "close", "other", "end"}
               /\ tool \in Tools \cup {None} /\ (kind \in {"open", "close"} => tool \in Tools)
        <3>1. key # Child /\ RunsCommands(key) = (key \in Command)
            BY <2>1, ChildAssumption DEF RunsCommands
        <3>2. PICK chain \in (IF (kind = "start") /\ scene.moves THEN Chains[key] ELSE {at[key]}) :
                /\ at' = [at EXCEPT ![key] = chain]
                /\ \E capture \in Captures(Native[key], kind = "start",
                                           Captured(key \in Command, chain)) :
                     Capture(key, kind, tool, capture)
            BY <2>1, Zenon DEF CaptureParent
        <3>3. PICK capture : /\ capture \in {None, Captured(key \in Command, chain)}
                             /\ Capture(key, kind, tool, capture)
            BY <3>2, Zenon DEF Captures
        <3>4. Len(log) < scene.events /\ scene' = scene
            BY <2>1 DEF CaptureParent, MoreEvents
        <3>5. chain \in Chains[key] /\ (kind # "start" => chain = at[key])
            BY <2>1, <3>2 DEF AncestryInv, WorldInv
        <3>6. capture \in {None, Hook(key, Len(log) + 1, chain)}
            BY <1>h, <3>1, <3>3
        <3>7. IF key = Child THEN chain = at[Child] /\ at' = at
              ELSE /\ chain \in Chains[key] /\ at' = [at EXCEPT ![key] = chain]
                   /\ kind # "start" => chain = at[key]
            BY <3>1, <3>2, <3>5
        <3>8. WorldInv /\ LogInv
            BY DEF AncestryInv
        <3>9. /\ kind \in {"start", "open", "close", "other", "end"}
              /\ tool \in Tools \cup {None} /\ (kind \in {"open", "close"} => tool \in Tools)
              /\ Capture(key, kind, tool, capture)
            BY <2>1, <3>3
        <3> QED BY <3>4, <3>6, <3>7, <3>8, <3>9, Appends
    <2>2. CASE key = Child /\ CaptureChild(kind) /\ kind \in {"start", "other"} /\ tool = None
        <3>1. PICK capture : /\ capture \in {None, Captured(scene.command, at[Child])}
                             /\ Capture(Child, kind, None, capture)
            BY <2>2, Zenon DEF CaptureChild
        <3>2. Len(log) < scene.events /\ scene' = scene /\ at' = at
            BY <2>2 DEF CaptureChild, MoreEvents, world
        <3>3. capture \in {None, Hook(Child, Len(log) + 1, at[Child])}
            BY <1>h, <2>2, <3>1 DEF RunsCommands
        <3> QED BY <2>2, <3>1, <3>2, <3>3, Appends DEF AncestryInv
    <2> QED BY <2>1, <2>2
<1>2. /\ UNCHANGED <<next, startup, parents, child>>
    BY DEF CaptureParent, CaptureChild
<1>3. QueueInv'
    <2>1. \A i \in 1..next - 1 : log'[i] = log[i]
        BY <1>0, <1>1 DEF LogGrows, AncestryInv, QueueInv
    <2> QED BY <1>0, <1>1, <1>2, <2>1 DEF AncestryInv, QueueInv
<1>4. RegistryInv'
    <2>1. next - 1 \in 0..Len(log) /\ next' = next /\ reg' = reg
        BY <1>0, <1>2 DEF AncestryInv, QueueInv, parents
    <2>2. RegistryOK(reg, next - 1)'
        BY <1>1, <2>1, RegistryStays DEF AncestryInv, RegistryInv
    <2> QED BY <1>2, <2>2 DEF AncestryInv, RegistryInv, parents, SnapshotOK
<1>5. LinksInv'
    BY <1>1, <1>2, LinksStay DEF AncestryInv
<1> QED BY <1>1, <1>3, <1>4, <1>5 DEF AncestryInv

------------------------------------------------------------------------------
(* Every operation of the registry leaves it with agents of the sessions.     *)

(* A registry that is right of the first n events is the right one to have    *)
(* when n + 1 is next.                                                        *)
LEMMA RegistryNext ==
    ASSUME NEW r, NEW n \in Nat, RegistryOK(r, n), log' = log, reg' = r, next' = n + 1
    PROVE  RegistryOK(reg, next - 1)'
<1>1. PICK x : x = next'
    OBVIOUS
<1>2. x - 1 = n
    BY <1>1
<1>3. next' - 1 = n
    BY <1>1, <1>2
<1> QED BY <1>3 DEF RegistryOK, CapturedBefore, Continues

(* The agent that a hook tells.                                               *)
LEMMA HookTellsAgent ==
    ASSUME WorldInv, LogInv, NEW n \in 0..Len(log), NEW m \in n..Len(log), NEW i \in 1..m,
           \A j \in i + 1..m : log[j].key # log[i].key, \A j \in n + 1..m : j = i,
           NEW r, RegistryOK(r, n), NEW k \in Keys, log[i].key = k,
           log[i].capture # None, HookAgent(r, k, log[i].kind, log[i].capture) # None
    PROVE  HookAgent(r, k, log[i].kind, log[i].capture)[1] \in AgentsOf(k)
<1>0. Len(log) \in Nat /\ k # Child
    BY ChildAssumption DEF WorldInv
<1>1. CASE k \notin Command
    <2>1. PICK chain \in Chains[k] : RunsIn(i, chain)
        BY <1>0 DEF LogInv
    <2>2. log[i].capture = chain
        <3>1. i \in i..Len(log) /\ Continues(k, i + 1, i)
            BY <1>0 DEF Continues
        <3> QED BY <1>0, <1>1, <2>1, <3>1 DEF RunsIn, Hook, RunsCommands
    <2> QED BY <1>1, <2>2 DEF HookAgent, AgentsOf
<1>2. CASE k \in Command
    <2> DEFINE previous == IF log[i].kind = "start" THEN None ELSE r.unconfirmed[k]
    <2>1. HookAgent(r, k, log[i].kind, log[i].capture) = SessionAgent(TRUE, previous, log[i].capture)
        BY <1>2 DEF HookAgent
    <2>2. log[i].kind # "start" /\ r.unconfirmed[k] # None
        BY <2>1 DEF SessionAgent
    <2>3. PICK j \in 1..n : /\ log[j].key = k /\ log[j].capture = r.unconfirmed[k]
                            /\ Continues(k, j + 1, n)
        BY <2>2 DEF RegistryOK, CapturedBefore
    <2>4. j \in 1..Len(log) /\ j <= i
        BY <1>0, <2>3
    <2>5. Continues(k, j + 1, i)
        <3>1. \A x \in j + 1..i : x \in j + 1..n \/ x = i
            BY <1>0, <2>4
        <3> QED BY <2>2, <2>3, <3>1 DEF Continues
    <2>6. PICK chain \in Chains[k] : RunsIn(j, chain)
        BY <2>3, <2>4 DEF LogInv
    <2>7. log[j].capture = <<99 + j>> \o chain /\ log[i].capture = <<99 + i>> \o chain
        <3>1. j \in j..Len(log) /\ Continues(k, j + 1, j) /\ i \in j..Len(log)
            BY <1>0, <2>4 DEF Continues
        <3> QED BY <1>0, <1>2, <2>2, <2>3, <2>5, <2>6, <3>1 DEF RunsIn, Hook, RunsCommands
    <2>8. AgentChain(chain)
        BY <2>6, ChainsAreChains
    <2>9. SessionAgent(TRUE, previous, log[i].capture) \in {None, <<chain[1]>>}
        BY <2>2, <2>3, <2>7, <2>8, CommandAgentOfChain DEF AgentChain
    <2>10. HookAgent(r, k, log[i].kind, log[i].capture) = <<chain[1]>>
        BY <2>1, <2>9
    <2> QED BY <2>6, <2>10 DEF AgentsOf
<1> QED BY <1>1, <1>2

(* A registry that observes the next event knows only agents that its session *)
(* had.                                                                       *)
LEMMA ObservedOK ==
    ASSUME WorldInv, LogInv, NEW n \in 0..Len(log), NEW m \in n..Len(log), NEW i \in 1..m,
           \A j \in i + 1..m : log[j].key # log[i].key, \A j \in n + 1..m : j = i,
           NEW r, RegistryOK(r, n), NEW k \in Keys, log[i].key = k
    PROVE  RegistryOK(ObserveSession(r, k, log[i].capture, log[i].kind = "start"), m)
<1>0. Len(log) \in Nat /\ r \in Registry /\ i \in 1..Len(log)
    BY DEF WorldInv, RegistryOK
<1>c. log[i].capture \in ProcessChains
    <2>1. log[i] \in Events
        BY <1>0 DEF WorldInv
    <2> QED BY <2>1 DEF Events, ProcessChains
<1> DEFINE t == ObserveSession(r, k, log[i].capture, log[i].kind = "start")
           agent == HookAgent(r, k, log[i].kind, log[i].capture)
<1>1. \/ KnownAs(t, r, k, log[i].kind)
      \/ log[i].capture # None /\ agent # None /\ SettledAs(t, r, k, agent[1])
      \/ /\ log[i].capture # None /\ k \in Command
         /\ ComparesAs(t, r, k, log[i].kind, log[i].capture)
    BY <1>0, <1>c, ObserveSessionIs, Zenon
<1>2. agent # None /\ log[i].capture # None => agent[1] \in AgentsOf(k)
    BY HookTellsAgent
<1> SUFFICES RegistryOK(t, m)
    OBVIOUS
<1> HIDE DEF t, agent
<1>3. ASSUME NEW j \in Keys, NEW capture, CapturedBefore(j, capture, n),
             j # k \/ log[i].kind # "start"
      PROVE  CapturedBefore(j, capture, m)
    <2>1. PICK x \in 1..n : log[x].key = j /\ log[x].capture = capture /\ Continues(j, x + 1, n)
        BY <1>3 DEF CapturedBefore
    <2>2. \A y \in x + 1..m : y \in x + 1..n \/ y = i
        BY <1>0
    <2>3. x \in 1..m
        BY <1>0
    <2>4. log[i].key = j => log[i].kind # "start"
        BY <1>3
    <2>5. Continues(j, x + 1, m)
        BY <2>1, <2>2, <2>4 DEF Continues
    <2> QED BY <2>1, <2>3, <2>5 DEF CapturedBefore
<1>4. CapturedBefore(k, log[i].capture, m)
    BY DEF CapturedBefore, Continues
<1>5. \A j \in Keys : r.unconfirmed[j] # None => j \in Command /\ CapturedBefore(j, r.unconfirmed[j], n)
    BY DEF RegistryOK
<1>r. /\ \A j \in Keys : r.agent[j] \subseteq AgentsOf(j)
      /\ \A p \in Processes : \A j \in r.sessions[p] : p \in AgentsOf(j)
    BY DEF RegistryOK
<1>6. CASE KnownAs(t, r, k, log[i].kind)
    <2>1. t \in Registry /\ t.agent = r.agent /\ t.sessions = r.sessions
        BY <1>6 DEF KnownAs
    <2>2. ASSUME NEW j \in Keys, t.unconfirmed[j] # None
          PROVE  j \in Command /\ CapturedBefore(j, t.unconfirmed[j], m)
        <3>1. t.unconfirmed[j] = r.unconfirmed[j] /\ (j # k \/ log[i].kind # "start")
            <4>1. r.unconfirmed \in [Keys -> ProcessChains]
                BY <1>0 DEF Registry, ProcessChains
            <4> QED BY <1>6, <2>2, <4>1 DEF KnownAs
        <3> QED BY <1>3, <1>5, <2>2, <3>1
    <2> QED BY <2>1, <2>2, <1>r DEF RegistryOK
<1>7. CASE log[i].capture # None /\ agent # None /\ SettledAs(t, r, k, agent[1])
    <2>0. r.unconfirmed \in [Keys -> ProcessChains] /\ r.agent \in [Keys -> SUBSET Processes]
        BY <1>0 DEF Registry, ProcessChains
    <2>1. /\ t \in Registry /\ t.agent = [r.agent EXCEPT ![k] = {agent[1]}]
          /\ t.unconfirmed = [r.unconfirmed EXCEPT ![k] = None]
          /\ \A q \in Processes :
               /\ k \in t.sessions[q] => q = agent[1] \/ k \in r.sessions[q]
               /\ \A j \in Keys : j # k => (j \in t.sessions[q] <=> j \in r.sessions[q])
        BY <1>7 DEF SettledAs
    <2>2. ASSUME NEW j \in Keys, t.unconfirmed[j] # None
          PROVE  j \in Command /\ CapturedBefore(j, t.unconfirmed[j], m)
        BY <1>3, <1>5, <2>0, <2>1, <2>2
    <2>3. \A j \in Keys : t.agent[j] \subseteq AgentsOf(j)
        BY <1>2, <1>7, <2>0, <2>1 DEF RegistryOK
    <2>4. \A p \in Processes : \A j \in t.sessions[p] : p \in AgentsOf(j)
        <3> SUFFICES ASSUME NEW p \in Processes, NEW j \in t.sessions[p] PROVE p \in AgentsOf(j)
            OBVIOUS
        <3>1. j \in Keys
            BY <2>1 DEF Registry
        <3> QED BY <1>2, <1>7, <2>1, <3>1 DEF RegistryOK
    <2> QED BY <2>1, <2>2, <2>3, <2>4 DEF RegistryOK
<1>8. CASE /\ log[i].capture # None /\ k \in Command
           /\ ComparesAs(t, r, k, log[i].kind, log[i].capture)
    <2>0. r.unconfirmed \in [Keys -> ProcessChains]
        BY <1>0 DEF Registry, ProcessChains
    <2>1. /\ t \in Registry /\ t.agent = r.agent /\ t.sessions = r.sessions
          /\ t.unconfirmed = [r.unconfirmed EXCEPT ![k] = log[i].capture]
        BY <1>8 DEF ComparesAs
    <2>2. ASSUME NEW j \in Keys, t.unconfirmed[j] # None
          PROVE  j \in Command /\ CapturedBefore(j, t.unconfirmed[j], m)
        BY <1>3, <1>4, <1>5, <1>8, <2>0, <2>1, <2>2
    <2> QED BY <2>1, <2>2, <1>r DEF RegistryOK
<1> QED BY <1>1, <1>6, <1>7, <1>8, Zenon

(* Spans say nothing of agents.                                               *)
LEMMA WithSpansOK ==
    ASSUME NEW n, NEW r, RegistryOK(r, n), NEW k \in Keys, NEW spans \in Spans
    PROVE  RegistryOK(WithSpans(r, k, spans), n)
<1> DEFINE t == WithSpans(r, k, spans)
<1>1. r \in Registry
    BY DEF RegistryOK
<1>2. /\ t \in Registry /\ t.agent = r.agent /\ t.sessions = r.sessions
      /\ t.unconfirmed = r.unconfirmed
    BY <1>1, WithSpansOnly
<1> HIDE DEF t
<1>3. RegistryOK(t, n)
    BY <1>2 DEF RegistryOK
<1> QED BY <1>3 DEF t

(* Nor does the end of a session.                                             *)
LEMMA RetiredOK ==
    ASSUME NEW n, NEW r, RegistryOK(r, n), NEW k \in Keys
    PROVE  RegistryOK(RetireSession(r, k), n)
<1> DEFINE t == RetireSession(r, k)
<1>1. r \in Registry
    BY DEF RegistryOK
<1>2. /\ t \in Registry /\ t.agent = r.agent /\ t.sessions = r.sessions
      /\ t.unconfirmed = [r.unconfirmed EXCEPT ![k] = None]
    BY <1>1, NoCapture DEF Registry, RetireSession, ProcessChains
<1>3. r.unconfirmed \in [Keys -> ProcessChains]
    BY <1>1 DEF Registry, ProcessChains
<1> HIDE DEF t
<1>4. RegistryOK(t, n)
    BY <1>2, <1>3 DEF RegistryOK
<1> QED BY <1>4 DEF t

(* A registry that forgets the agents of dead processes knows only agents     *)
(* still.                                                                     *)
LEMMA PrunedOK ==
    ASSUME NEW n, NEW r, RegistryOK(r, n), NEW gone
    PROVE  RegistryOK(Prune(r, gone), n)
<1> DEFINE t == Prune(r, gone)
<1>1. r \in Registry
    BY DEF RegistryOK
<1>2. /\ t \in Registry /\ t.unconfirmed = r.unconfirmed
      /\ \A k \in Keys : t.agent[k] \subseteq r.agent[k]
      /\ \A p \in Processes : t.sessions[p] \subseteq r.sessions[p]
    BY <1>1 DEF Registry, Prune
<1> HIDE DEF t
<1>4. RegistryOK(t, n)
    BY <1>2 DEF RegistryOK
<1> QED BY <1>4 DEF t

(* One that is restored from snapshots knows the agents they name.            *)
LEMMA RestoredOK ==
    ASSUME NEW n, NEW saved, DOMAIN saved = Keys, \A k \in Keys : SnapshotOK(k, saved[k])
    PROVE  RegistryOK(RestoreActiveParents(saved), n)
<1> DEFINE t == RestoreActiveParents(saved)
<1>1. \A k \in Keys : saved[k] # None =>
        /\ saved[k][1].processes \in SUBSET Processes /\ saved[k][1].tools \in SUBSET Tools
        /\ saved[k][1].processes \subseteq AgentsOf(k)
    BY DEF SnapshotOK, Snapshots
<1> DEFINE restored == {k \in Keys : /\ saved[k] # None /\ ~saved[k][1].dirty
                                     /\ Cardinality(saved[k][1].processes) = 1}
<1>2. /\ t.agent = [k \in Keys |-> IF k \in restored THEN saved[k][1].processes ELSE {}]
      /\ t.sessions = [p \in Processes |-> {k \in restored : p \in saved[k][1].processes}]
      /\ t.tools = [k \in Keys |-> IF k \in restored THEN saved[k][1].tools ELSE {}]
      /\ t.span = [k \in Keys |-> IF k \in restored /\ saved[k][1].active THEN "active" ELSE "none"]
      /\ t.unconfirmed = [k \in Keys |-> None] /\ t.opened = {} /\ t.retired = {} /\ t.live = {}
    BY Zenon DEF RestoreActiveParents, Empty
<1>f. t \in [agent : {t.agent}, sessions : {t.sessions}, unconfirmed : {t.unconfirmed},
             opened : {t.opened}, retired : {t.retired}, live : {t.live}, tools : {t.tools},
             span : {t.span}]
    <2> DEFINE w == [Empty EXCEPT !.agent = t.agent, !.sessions = t.sessions, !.tools = t.tools,
                                  !.span = t.span]
    <2>1. t = w
        BY <1>2 DEF RestoreActiveParents
    <2>2. w \in [agent : {w.agent}, sessions : {w.sessions}, unconfirmed : {w.unconfirmed},
             opened : {w.opened}, retired : {w.retired}, live : {w.live}, tools : {w.tools},
             span : {w.span}]
        <3> HIDE DEF t
        <3> QED BY DEF Empty
    <2> HIDE DEF t, w
    <2> QED BY <2>1, <2>2
<1>3. \A k \in restored : k \in Keys /\ saved[k] # None
    OBVIOUS
<1> HIDE DEF t, restored
<1>4. /\ t.agent \in [Keys -> SUBSET Processes] /\ t.sessions \in [Processes -> SUBSET Keys]
      /\ t.tools \in [Keys -> SUBSET Tools] /\ t.span \in [Keys -> {"none", "active", "ended"}]
    BY <1>1, <1>2, <1>3
<1>5. t.unconfirmed \in [Keys -> Seq(Processes)]
    BY <1>2, NoCapture DEF ProcessChains
<1>6. t \in Registry
    BY <1>2, <1>4, <1>5, <1>f DEF Registry
<1>7. RegistryOK(t, n)
    BY <1>1, <1>2, <1>3, <1>6 DEF RegistryOK
<1> QED BY <1>7 DEF t

(* A snapshot names agents of its session.                                    *)
LEMMA SnapshotIsOK ==
    ASSUME NEW n, NEW r, RegistryOK(r, n), NEW k \in Keys, NEW dirty \in BOOLEAN
    PROVE  SnapshotOK(k, Snapshot(r, k, dirty))
<1>1. r \in Registry
    BY DEF RegistryOK
<1>2. r.tools[k] \in SUBSET Tools /\ r.agent[k] \in SUBSET Processes
    BY <1>1 DEF Registry
<1> QED BY <1>2 DEF SnapshotOK, Snapshot, Snapshots, RegistryOK

------------------------------------------------------------------------------
(* The steps of the sessions that may be parents.                             *)

(* Where sessions run and what they captured is left alone by everything but  *)
(* a capture.                                                                 *)
LEMMA WorldStays ==
    ASSUME WorldInv, LogInv, UNCHANGED <<log, at, scene>>
    PROVE  WorldInv' /\ LogInv' /\ (LinksInv /\ UNCHANGED child => LinksInv')
<1>1. WorldInv'
    BY DEF WorldInv
<1>2. LogInv'
    <2>1. /\ \A k, a, b : Continues(k, a, b)' <=> Continues(k, a, b)
          /\ \A k, n, c : Hook(k, n, c)' = Hook(k, n, c)
        BY DEF Continues, Hook, RunsCommands
    <2>2. ASSUME NEW i, NEW c PROVE RunsIn(i, c)' <=> RunsIn(i, c)
        <3>1. log'[i] = log[i] /\ Len(log') = Len(log) /\ at' = at
            OBVIOUS
        <3>2. PICK k, l : k = log[i].key /\ l = Len(log)
            OBVIOUS
        <3>3. /\ RunsIn(i, c) <=>
                   /\ \A j \in i..l : log[j].key = k /\ Continues(k, i + 1, j) /\ log[j].capture # None
                                      => log[j].capture = Hook(log[j].key, j, c)
                   /\ Continues(k, i + 1, l) => c = at[k]
              /\ RunsIn(i, c)' <=>
                   /\ \A j \in i..l : log'[j].key = k /\ Continues(k, i + 1, j)' /\ log'[j].capture # None
                                      => log'[j].capture = Hook(log[j].key, j, c)'
                   /\ Continues(k, i + 1, l)' => c = at'[k]
            BY <3>1, <3>2, Zenon DEF RunsIn
        <3> QED BY <2>1, <3>1, <3>3
    <2> QED BY <2>1, <2>2 DEF LogInv
<1>3. LinksInv /\ UNCHANGED child => LinksInv'
    <2>1. LogGrows
        BY DEF LogGrows, WorldInv
    <2> QED BY <2>1, LinksStay
<1> QED BY <1>1, <1>2, <1>3

(* A captured event is an event.                                              *)
LEMMA EventType ==
    ASSUME WorldInv, NEW i \in 1..Len(log)
    PROVE  log[i] \in Events /\ Worded(log[i]) /\ log[i].key \in Keys \cup {Child}
<1>1. log[i] \in Events /\ Worded(log[i])
    BY DEF WorldInv
<1> QED BY <1>1 DEF Events

(* A snapshot that is written is one.                                         *)
LEMMA SnapshotsOK ==
    ASSUME RegistryInv, NEW k \in Keys, NEW x, SnapshotOK(k, x),
           snapshots' \in {snapshots, [snapshots EXCEPT ![k] = x]}
    PROVE  DOMAIN snapshots' = Keys /\ \A j \in Keys : SnapshotOK(j, snapshots'[j])
BY DEF RegistryInv

(* A session's next event is dispatched.                                      *)
LEMMA DispatchParentOK ==
    ASSUME AncestryInv, DispatchParent
    PROVE  QueueInv' /\ RegistryInv'
<1> DEFINE i == Upcoming
           k == log[i].key
<1>0. /\ WorkerIsFree /\ Dispatched /\ log' = log /\ k \in attached
      /\ UNCHANGED <<attached, seen, waiting>>
      /\ reg' = ObserveSession(reg, k, log[i].capture, log[i].kind = "start")
    BY Zenon DEF DispatchParent
<1>1. QueueInv' /\ i \in 1..Len(log)
    BY <1>0, UpcomingIs, DispatchedIs DEF AncestryInv
<1>m. PICK m \in next - 1..Len(log) :
        /\ next' = m + 1 /\ i \in 1..m
        /\ \A j \in i + 1..m : log[j].key # k
        /\ \A j \in next..m : j = i
    BY <1>0, DispatchedIs DEF AncestryInv
<1>2. k \in Keys
    BY <1>0 DEF AncestryInv, RegistryInv
<1>3. \E x : SnapshotOK(k, x) /\ snapshots' \in {snapshots, [snapshots EXCEPT ![k] = x]}
    <2>1. SnapshotOK(k, Snapshot(reg, k, TRUE))
        BY <1>2, SnapshotIsOK DEF AncestryInv, RegistryInv
    <2>2. snapshots' \in {snapshots, [snapshots EXCEPT ![k] = Snapshot(reg, k, TRUE)]}
        BY Zenon DEF DispatchParent, Persist
    <2> QED BY <2>1, <2>2
<1> HIDE DEF i
<1>4. RegistryOK(reg, next - 1)'
    <2> DEFINE n == next - 1
    <2>1. /\ n \in 0..Len(log) /\ m \in n..Len(log) /\ m \in Nat
          /\ \A j \in n + 1..m : j = i
        <3>1. next \in Nat \ {0} /\ Len(log) \in Nat /\ next <= Len(log) + 1
            BY DEF AncestryInv, QueueInv, WorldInv
        <3>2. n + 1 = next /\ n \in 0..Len(log)
            BY <3>1
        <3> QED BY <1>m, <3>1, <3>2
    <2>2. RegistryOK(reg, n)
        BY DEF AncestryInv, RegistryInv
    <2>3. i \in 1..m /\ \A j \in i + 1..m : log[j].key # log[i].key
        BY <1>m
    <2>4. WorldInv /\ LogInv /\ k = log[i].key
        BY DEF AncestryInv
    <2> HIDE DEF n, k
    <2>5. RegistryOK(ObserveSession(reg, k, log[i].capture, log[i].kind = "start"), m)
        BY <1>2, <2>1, <2>2, <2>3, <2>4, ObservedOK
    <2> QED BY <1>0, <1>m, <2>1, <2>5, RegistryNext
<1> QED BY <1>0, <1>1, <1>2, <1>3, <1>4, SnapshotsOK DEF AncestryInv, RegistryInv

(* A session gets a pipeline, which observes its history.                     *)
LEMMA AttachParentOK ==
    ASSUME AncestryInv, AttachParent
    PROVE  QueueInv' /\ RegistryInv'
<1> DEFINE i == Upcoming
           k == log[i].key
           observed == ObserveHistory(reg, k, SubSeq(log, 1, next - 1))
<1>0. /\ WorkerIsFree /\ Dispatched /\ log' = log /\ k \notin attached \cup {Child}
      /\ attached' = attached \cup {k} /\ seen' = [seen EXCEPT ![k] = next - 1]
      /\ waiting' \in {waiting, waiting \cup {k}}
      /\ reg' = ObserveSession(observed, k, log[i].capture, log[i].kind = "start")
    BY Zenon DEF AttachParent
<1>1. QueueInv' /\ i \in 1..Len(log)
    BY <1>0, UpcomingIs, DispatchedIs DEF AncestryInv
<1>m. PICK m \in next - 1..Len(log) :
        /\ next' = m + 1 /\ i \in 1..m
        /\ \A j \in i + 1..m : log[j].key # k
        /\ \A j \in next..m : j = i
    BY <1>0, DispatchedIs DEF AncestryInv
<1>2. k \in Keys
    BY <1>0, <1>1, EventType DEF AncestryInv
<1>n. next - 1 \in 0..Len(log) /\ next - 1 \in Nat /\ Len(log) \in Nat
    BY DEF AncestryInv, QueueInv, WorldInv
<1>5. RegistryOK(observed, next - 1)
    <2> DEFINE h == SubSeq(log, 1, next - 1)
    <2>1. h \in Seq(Events) /\ \A j \in 1..Len(h) : Worded(h[j])
        <3>1. log \in Seq(Events) /\ \A j \in 1..Len(log) : Worded(log[j])
            BY DEF AncestryInv, WorldInv
        <3>2. h \in Seq(Events) /\ Len(h) = next - 1 /\ \A j \in 1..next - 1 : h[j] = log[j]
            BY <1>n, <3>1
        <3> HIDE DEF h
        <3>3. \A j \in 1..next - 1 : j \in 1..Len(log)
            BY <1>n
        <3> QED BY <3>1, <3>2, <3>3
    <2>2. RegistryOK(reg, next - 1) /\ reg \in Registry
        BY DEF AncestryInv, RegistryInv, RegistryOK
    <2> HIDE DEF h, k
    <2>3. PICK spans \in Spans : ObserveHistory(reg, k, h) = WithSpans(reg, k, spans)
        BY <1>2, <2>1, <2>2, ObserveHistoryOnly
    <2>4. RegistryOK(WithSpans(reg, k, spans), next - 1)
        BY <1>2, <2>2, WithSpansOK
    <2> QED BY <2>3, <2>4 DEF h
<1>3. \E x : SnapshotOK(k, x) /\ snapshots' \in {snapshots, [snapshots EXCEPT ![k] = x]}
    <2>1. SnapshotOK(k, Snapshot(reg, k, TRUE)) /\ SnapshotOK(k, Snapshot(observed, k, FALSE))
        <3> HIDE DEF observed
        <3> QED BY <1>2, <1>5, SnapshotIsOK DEF AncestryInv, RegistryInv
    <2>2. snapshots' \in {snapshots, [snapshots EXCEPT ![k] = Snapshot(reg, k, TRUE)],
                          [snapshots EXCEPT ![k] = Snapshot(observed, k, FALSE)]}
        BY Zenon DEF AttachParent
    <2> HIDE DEF observed, k
    <2> QED BY <2>1, <2>2
<1> HIDE DEF i, observed
<1>4. RegistryOK(reg, next - 1)'
    <2> DEFINE n == next - 1
    <2>1. /\ n \in 0..Len(log) /\ m \in n..Len(log) /\ m \in Nat
          /\ \A j \in n + 1..m : j = i
        <3>1. next \in Nat \ {0} /\ Len(log) \in Nat /\ next <= Len(log) + 1
            BY DEF AncestryInv, QueueInv, WorldInv
        <3>2. n + 1 = next /\ n \in 0..Len(log)
            BY <3>1
        <3> QED BY <1>m, <3>1, <3>2
    <2>2. RegistryOK(observed, n)
        BY <1>5
    <2>3. i \in 1..m /\ \A j \in i + 1..m : log[j].key # log[i].key
        BY <1>m
    <2>4. WorldInv /\ LogInv /\ k = log[i].key
        BY DEF AncestryInv
    <2> HIDE DEF n, k
    <2>5. RegistryOK(ObserveSession(observed, k, log[i].capture, log[i].kind = "start"), m)
        BY <1>2, <2>1, <2>2, <2>3, <2>4, ObservedOK
    <2> QED BY <1>0, <1>m, <2>1, <2>5, RegistryNext
<1>6. attached' \in SUBSET Keys /\ waiting' \in SUBSET Keys /\ seen' \in [Keys -> Nat]
    <2> HIDE DEF k
    <2> QED BY <1>0, <1>2, <1>n DEF AncestryInv, RegistryInv
<1>7. DOMAIN snapshots' = Keys /\ \A j \in Keys : SnapshotOK(j, snapshots'[j])
    <2> HIDE DEF k
    <2> QED BY <1>2, <1>3, SnapshotsOK DEF AncestryInv
<1>8. \A j, x : SnapshotOK(j, x)' <=> SnapshotOK(j, x)
    BY DEF SnapshotOK
<1> QED BY <1>1, <1>4, <1>6, <1>7, <1>8 DEF RegistryInv

(* The next event that a producer translates is one of those that were        *)
(* dispatched.                                                                *)
LEMMA UnseenIs ==
    ASSUME AncestryInv, NEW k \in Keys
    PROVE  /\ Unseen(k) \in SUBSET Nat
           /\ \A i \in Unseen(k) : i \in 1..next - 1 /\ i \in 1..Len(log) /\ log[i].key = k
                                   /\ i > seen[k]
<1>1. seen[k] \in Nat /\ next - 1 \in Nat /\ next - 1 <= Len(log)
    BY DEF AncestryInv, RegistryInv, QueueInv, WorldInv
<1> QED BY <1>1 DEF Unseen, EventsOf, AncestryInv, WorldInv

(* A producer tells the registry of the next event.                           *)
LEMMA ObserveOK ==
    ASSUME AncestryInv, NEW k \in Keys, Observe(k)
    PROVE  QueueInv' /\ RegistryInv'
<1> DEFINE i == Min(Unseen(k))
           observed == ObserveOps(reg, k, log[i])
<1>0. /\ UNCHANGED <<log, next, startup, attached>> /\ reg' = observed
      /\ Unseen(k) # {} /\ seen' = [seen EXCEPT ![k] = i]
      /\ waiting' \in {waiting, waiting \cup {k}}
    BY Zenon DEF Observe
<1>1. i \in 1..Len(log) /\ log[i].key = k /\ i \in Nat
    BY <1>0, UnseenIs, Least
<1>2. log[i] \in Events /\ Worded(log[i])
    BY <1>1, EventType DEF AncestryInv
<1>3. RegistryOK(observed, next - 1)
    <2>1. RegistryOK(reg, next - 1) /\ reg \in Registry
        BY DEF AncestryInv, RegistryInv, RegistryOK
    <2> HIDE DEF i
    <2>2. PICK spans \in Spans : observed = WithSpans(reg, k, spans)
        BY <1>1, <1>2, <2>1, ObserveOpsOnly
    <2> QED BY <2>1, <2>2, WithSpansOK
<1>4. SnapshotOK(k, Snapshot(observed, k, FALSE))
    <2> HIDE DEF observed
    <2> QED BY <1>3, SnapshotIsOK
<1>5. snapshots' \in {snapshots, [snapshots EXCEPT ![k] = Snapshot(observed, k, FALSE)]}
    BY Zenon DEF Observe, Persist
<1> HIDE DEF i, observed
<1>6. DOMAIN snapshots' = Keys /\ \A j \in Keys : SnapshotOK(j, snapshots'[j])
    BY <1>4, <1>5, SnapshotsOK DEF AncestryInv
<1>7. RegistryOK(reg, next - 1)'
    <2>1. next - 1 \in Nat /\ next' = (next - 1) + 1
        BY <1>0 DEF AncestryInv, QueueInv
    <2> QED BY <1>0, <1>3, <2>1, RegistryNext
<1>8. QueueInv'
    BY <1>0 DEF AncestryInv, QueueInv
<1>9. \A j, x : SnapshotOK(j, x)' <=> SnapshotOK(j, x)
    BY DEF SnapshotOK
<1> QED BY <1>0, <1>1, <1>6, <1>7, <1>8, <1>9 DEF AncestryInv, RegistryInv

(* Those that leave the queue and the log alone.                              *)
LEMMA ParentStepOK ==
    ASSUME AncestryInv, UNCHANGED <<log, next, startup>>,
           \/ \E k \in Keys : SaveSnapshot(k) \/ Retire(k)
           \/ PruneRetired \/ UNCHANGED parents
    PROVE  QueueInv' /\ RegistryInv'
<1>0. RegistryOK(reg, next - 1)
    BY DEF AncestryInv, RegistryInv
<1>1. QueueInv'
    BY DEF AncestryInv, QueueInv
<1>2. RegistryOK(reg', next - 1)
    <2>1. CASE \E k \in Keys : Retire(k)
        BY <1>0, <2>1, RetiredOK DEF Retire
    <2>2. CASE PruneRetired
        BY <1>0, <2>2, PrunedOK DEF PruneRetired
    <2>3. CASE (\E k \in Keys : SaveSnapshot(k)) \/ UNCHANGED parents
        BY <1>0, <2>3 DEF SaveSnapshot, parents
    <2> QED BY <2>1, <2>2, <2>3
<1>3. RegistryOK(reg, next - 1)'
    <2>1. next - 1 \in Nat /\ next' = (next - 1) + 1
        BY DEF AncestryInv, QueueInv
    <2> QED BY <1>2, <2>1, RegistryNext
<1>4. DOMAIN snapshots' = Keys /\ \A j \in Keys : SnapshotOK(j, snapshots'[j])
    <2>1. ASSUME NEW k \in Keys, SaveSnapshot(k)
          PROVE  DOMAIN snapshots' = Keys /\ \A j \in Keys : SnapshotOK(j, snapshots'[j])
        <3>1. snapshots' = [snapshots EXCEPT ![k] = Snapshot(reg, k, FALSE)]
            BY <2>1 DEF SaveSnapshot, Persist
        <3> QED BY <1>0, <3>1, SnapshotIsOK, SnapshotsOK DEF AncestryInv
    <2>2. CASE snapshots' = snapshots
        BY <2>2 DEF AncestryInv, RegistryInv
    <2>3. (\E k \in Keys : Retire(k)) \/ PruneRetired \/ UNCHANGED parents => snapshots' = snapshots
        BY DEF Retire, PruneRetired, parents
    <2> QED BY <2>1, <2>2, <2>3
<1>5. attached' \in SUBSET Keys /\ waiting' \in SUBSET Keys /\ seen' = seen
    <2>1. attached \in SUBSET Keys /\ waiting \in SUBSET Keys
        BY DEF AncestryInv, RegistryInv
    <2>2. attached' \subseteq attached /\ waiting' \subseteq waiting /\ seen' = seen
        BY DEF SaveSnapshot, Retire, PruneRetired, parents
    <2> QED BY <2>1, <2>2
<1>9. \A j, x : SnapshotOK(j, x)' <=> SnapshotOK(j, x)
    BY DEF SnapshotOK
<1> QED BY <1>1, <1>3, <1>4, <1>5, <1>9 DEF AncestryInv, RegistryInv

(* A restart keeps the invariant: it restores what was snapshot, and what is  *)
(* pending.                                                                   *)
LEMMA RestartOK ==
    ASSUME AncestryInv, Restart
    PROVE  QueueInv' /\ RegistryInv' /\ LinksInv'
<1>0. /\ UNCHANGED <<log, seen, snapshots, stored, given, at, scene>>
      /\ next' = Len(log) + 1 /\ link' = None /\ work' = None
      /\ pending' \in {stored, None}
      /\ reg' = RestoreActiveParents(snapshots) /\ attached' = {} /\ waiting' = {}
    BY DEF Restart, RestorePendingSessions, world
<1>n. Len(log) \in Nat
    BY DEF AncestryInv, WorldInv
<1>1. QueueInv'
    <2>1. \A e \in startup' : e # 0 /\ \E k \in Keys \cup {Child} : e = Latest(k)
        BY DEF Restart, RestorePendingSessions
    <2>2. ASSUME NEW e \in startup'
          PROVE  e \in 1..Len(log) /\ \A i \in e + 1..Len(log) : log[i].key # log[e].key
        <3>1. PICK k \in Keys \cup {Child} : e = Latest(k)
            BY <2>1
        <3> QED BY <1>n, <2>1, <3>1, LatestIs DEF AncestryInv
    <2> QED BY <1>0, <1>n, <2>2 DEF QueueInv
<1>2. RegistryInv'
    <2>1. RegistryOK(RestoreActiveParents(snapshots), Len(log))
        BY RestoredOK DEF AncestryInv, RegistryInv
    <2>2. RegistryOK(reg, next - 1)'
        BY <1>0, <1>n, <2>1, RegistryNext
    <2> QED BY <1>0, <2>2 DEF AncestryInv, RegistryInv, SnapshotOK
<1>3. LinksInv'
    <2>1. /\ \A s : StateOK(s) => StateOK(s)'
          /\ \A r : RouteOK(r) => RouteOK(r)'
        BY <1>0 DEF StateOK, RouteOK, RunsAbove, EventsOK
    <2>2. RouteOK(None)'
        BY DEF RouteOK, RouteSet, Spanned, None
    <2> QED BY <1>0, <2>1, <2>2 DEF AncestryInv, LinksInv, HeldOK, WorkOK
<1> QED BY <1>1, <1>2, <1>3

------------------------------------------------------------------------------
(* The steps of the child.                                                    *)

(* The capture of a hook of the child shows what is above its agent.          *)
LEMMA ChildCapture ==
    ASSUME WorldInv, LogInv, NEW i \in 1..Len(log), log[i].key = Child, log[i].capture # None
    PROVE  /\ AgentChain(at[Child]) /\ log[i].capture \in Seq(Processes)
           /\ log[i].capture = (IF scene.command THEN <<99 + i>> \o at[Child] ELSE at[Child])
           /\ Above(log[i].capture, <<at[Child][1]>>) = Tail(at[Child])
           /\ ~scene.command => log[i].capture[1] = at[Child][1]
<1>1. AgentChain(at[Child])
    BY ChainsAreChains DEF WorldInv
<1>2. log[i].capture = Hook(Child, i, at[Child])
    BY DEF LogInv
<1>3. i \in 1..scene.events
    BY ScenariosAssumption DEF WorldInv
<1>4. Hook(Child, i, at[Child]) \in Seq(Processes) /\ 99 + i \notin Range(at[Child])
    BY <1>1, <1>3, HookIsChain
<1>5. Hook(Child, i, at[Child]) = (IF scene.command THEN <<99 + i>> \o at[Child] ELSE at[Child])
    BY DEF Hook, RunsCommands
<1>6. at[Child] \in Seq(Processes) /\ at[Child] # <<>> /\ IsInjective(at[Child])
    BY <1>1 DEF AgentChain
<1>7. Above(log[i].capture, <<at[Child][1]>>) = Tail(at[Child])
    <2>1. CASE scene.command
        <3>1. log[i].capture = <<99 + i>> \o at[Child]
            BY <1>2, <1>5, <2>1
        <3>2. Above(<<99 + i>> \o at[Child], <<at[Child][1]>>) = Tail(at[Child])
            BY <1>4, <1>6, AboveHook
        <3> QED BY <3>1, <3>2, Zenon
    <2>2. CASE ~scene.command
        <3>1. log[i].capture = at[Child]
            BY <1>2, <1>5, <2>2
        <3>2. Above(at[Child], <<at[Child][1]>>) = Tail(at[Child])
            BY <1>6, AboveAgent
        <3> QED BY <3>1, <3>2, Zenon
    <2> QED BY <2>1, <2>2
<1>8. ~scene.command => log[i].capture[1] = at[Child][1]
    BY <1>2, <1>5
<1> QED BY <1>1, <1>2, <1>4, <1>5, <1>7, <1>8

(* A process above the child's agent that is the agent of a session.          *)
LEMMA AboveRuns ==
    ASSUME NEW span \in Spanned, NEW process \in Range(Tail(at[Child])), process \in AgentsOf(span[1])
    PROVE  RouteOK(span)
BY DEF RouteOK, RouteSet, RunsAbove, AgentsOf

(* A span is neither the route of a session without a parent nor none.        *)
LEMMA SpansAreNoRoutes ==
    RouteOK(Alone) /\ RouteOK(None) /\ Alone # None /\ \A span \in Spanned : span # None /\ span # Alone
BY DEF RouteOK, RouteSet, Spanned, Alone, None

(* The state of the child's session stays right when a field gets a right     *)
(* value.                                                                     *)
LEMMA StateExcept ==
    ASSUME NEW s, StateOK(s)
    PROVE  /\ \A v : StateOK([s EXCEPT !.expired = v]) /\ StateOK([s EXCEPT !.recovery = v])
           /\ \A v : EventsOK(v) => StateOK([s EXCEPT !.events = v])
           /\ \A v : RouteOK(v) /\ v # None => StateOK([s EXCEPT !.route = v])
           /\ s.route # None => StateOK([s EXCEPT !.parent = None])
           /\ \A v : /\ [s EXCEPT !.expired = v].route = s.route
                     /\ [s EXCEPT !.recovery = v].route = s.route
                     /\ [s EXCEPT !.events = v].route = s.route
                     /\ [s EXCEPT !.parent = v].route = s.route
                     /\ [s EXCEPT !.route = v].route = v
                     /\ [s EXCEPT !.events = v].events = v
                     /\ [s EXCEPT !.events = v].parent = s.parent
<1>1. Shaped(s)
    BY DEF StateOK
<1>2. ASSUME NEW v
      PROVE  /\ [s EXCEPT !.expired = v] \in [route : {s.route}, parent : {s.parent},
                    events : {s.events}, expired : {v}, recovery : {s.recovery}]
             /\ [s EXCEPT !.recovery = v] \in [route : {s.route}, parent : {s.parent},
                    events : {s.events}, expired : {s.expired}, recovery : {v}]
             /\ [s EXCEPT !.events = v] \in [route : {s.route}, parent : {s.parent},
                    events : {v}, expired : {s.expired}, recovery : {s.recovery}]
             /\ [s EXCEPT !.parent = v] \in [route : {s.route}, parent : {v},
                    events : {s.events}, expired : {s.expired}, recovery : {s.recovery}]
             /\ [s EXCEPT !.route = v] \in [route : {v}, parent : {s.parent},
                    events : {s.events}, expired : {s.expired}, recovery : {s.recovery}]
    BY <1>1 DEF Shaped
<1>3. ParentOK(None)
    BY DEF ParentOK
<1> QED BY <1>2, <1>3 DEF StateOK, Shaped

(* What the first event decides, or asks.                                     *)
LEMMA FirstOK ==
    ASSUME AncestryInv, NEW i \in 1..Len(log), log[i].key = Child
    PROVE  StateOK(First(i))
<1> DEFINE agent == IF scene.command THEN None ELSE SessionAgent(FALSE, log[i].capture, None)
           found == Resolve(reg, Child, log[i].capture, agent, Compatible)
           state == [NewPending EXCEPT !.events = <<i>>]
<1>0. /\ WorldInv /\ LogInv /\ reg \in Registry /\ log[i].capture \in Seq(Processes)
      /\ \A p \in Processes : \A k \in reg.sessions[p] : p \in AgentsOf(k)
    BY EventType DEF AncestryInv, RegistryInv, RegistryOK, Events
<1>1. EventsOK(<<i>>)
    <2>1. i \in Nat /\ i \in 1..Len(log)
        BY <1>0 DEF WorldInv
    <2> QED BY <2>1 DEF EventsOK
<1>2. /\ state.route = None /\ state.parent = None /\ state.events = <<i>> /\ Shaped(state)
    BY DEF NewPending, Shaped
<1>3. found.kind # "standalone" =>
        /\ found \in Candidates
        /\ found.kind = "pending" <=> agent = None
        /\ found.process \in Range(Above(log[i].capture, agent))
        /\ found.span[1] \in reg.sessions[found.process]
    <2> DEFINE capture == log[i].capture
    <2>1. reg \in Registry /\ capture \in Seq(Processes)
        BY <1>0
    <2> HIDE DEF agent, capture
    <2>2. LET f == Resolve(reg, Child, capture, agent, Compatible)
          IN  f.kind # "standalone" =>
                /\ f \in Candidates
                /\ f.kind = "pending" <=> agent = None
                /\ f.process \in Range(Above(capture, agent))
                /\ f.span[1] \in reg.sessions[f.process]
        BY <2>1, Resolves
    <2> QED BY <2>2, Zenon DEF capture
<1>4. found.kind = "parent" => found.process \in Range(Tail(at[Child]))
    <2> SUFFICES ASSUME found.kind = "parent" PROVE found.process \in Range(Tail(at[Child]))
        OBVIOUS
    <2>1. agent # None /\ found.process \in Range(Above(log[i].capture, agent))
        <3> HIDE DEF found, agent
        <3> QED BY <1>3
    <2>2. ~scene.command /\ log[i].capture # None /\ agent = <<log[i].capture[1]>>
        BY <2>1 DEF SessionAgent
    <2>3. agent = <<at[Child][1]>> /\ Above(log[i].capture, <<at[Child][1]>>) = Tail(at[Child])
        BY <1>0, <2>2, ChildCapture
    <2> HIDE DEF agent, found
    <2> QED BY <2>1, <2>3
<1>5. First(i) = IF log[i].kind # "start" \/ found.kind = "standalone"
                 THEN [state EXCEPT !.route = Alone]
                 ELSE IF found.kind = "parent" THEN [state EXCEPT !.route = found.span]
                 ELSE [state EXCEPT !.parent = <<found>>]
    BY Zenon DEF First
<1> HIDE DEF state, found, agent
<1>6. ASSUME NEW v
      PROVE  /\ [state EXCEPT !.route = v] \in [route : {v}, parent : {None}, events : {<<i>>},
                    expired : {state.expired}, recovery : {state.recovery}]
             /\ [state EXCEPT !.parent = v] \in [route : {None}, parent : {v}, events : {<<i>>},
                    expired : {state.expired}, recovery : {state.recovery}]
    BY <1>2 DEF Shaped
<1>7. \A v : RouteOK(v) /\ v # None => StateOK([state EXCEPT !.route = v])
    BY <1>1, <1>6 DEF StateOK, Shaped, ParentOK
<1>8. \A v : ParentOK(v) /\ v # None => StateOK([state EXCEPT !.parent = v])
    BY <1>1, <1>6, SpansAreNoRoutes DEF StateOK, Shaped
<1>9. found.kind # "standalone" => found.process \in AgentsOf(found.span[1]) /\ found.span \in Spanned
    BY <1>0, <1>3 DEF Candidates
<1>10. CASE log[i].kind # "start" \/ found.kind = "standalone"
    BY <1>5, <1>7, <1>10, SpansAreNoRoutes
<1>11. CASE ~(log[i].kind # "start" \/ found.kind = "standalone") /\ found.kind = "parent"
    <2>1. RouteOK(found.span) /\ found.span # None
        BY <1>4, <1>9, <1>11, AboveRuns, SpansAreNoRoutes
    <2> QED BY <1>5, <1>7, <1>11, <2>1
<1>12. CASE ~(log[i].kind # "start" \/ found.kind = "standalone") /\ found.kind # "parent"
    <2>1. ParentOK(<<found>>) /\ <<found>> # None
        BY <1>3, <1>9, <1>12 DEF ParentOK, None
    <2> QED BY <1>5, <1>8, <1>12, <2>1
<1> QED BY <1>10, <1>11, <1>12

(* What the next one does: two hooks tell the child's agent.                  *)
LEMMA NextOK ==
    ASSUME AncestryInv, NEW i \in 1..Len(log), log[i].key = Child, NEW s, StateOK(s), s.route = None
    PROVE  StateOK(Next2nd(s, i))
<1> DEFINE events == Append(s.events, i)
           t == [s EXCEPT !.events = Append(@, i)]
           captured == {n \in DOMAIN t.events : log[t.events[n]].capture # None}
           latest == Max(captured)
           others == captured \ {latest}
           CaptureIn(n) == log[t.events[n]].capture
           agent == IF others = {} THEN None
                    ELSE SessionAgent(scene.command, CaptureIn(Max(others)), CaptureIn(latest))
           fresh == log[i].kind = "start"
           confirmed == ConfirmParent(t.parent[1], CaptureIn(latest), agent)
<1>0. WorldInv /\ LogInv
    BY DEF AncestryInv
<1>1. EventsOK(events) /\ events \in Seq(Nat)
    <2>1. s.events \in Seq(Nat) /\ i \in Nat
        BY <1>0 DEF StateOK, EventsOK, WorldInv
    <2>2. \A n \in DOMAIN events : events[n] = i \/ \E m \in DOMAIN s.events : events[n] = s.events[m]
        BY <2>1
    <2>3. \A n \in DOMAIN s.events : s.events[n] \in 1..Len(log) /\ log[s.events[n]].key = Child
        BY DEF StateOK, EventsOK
    <2>4. events \in Seq(Nat)
        BY <2>1
    <2> HIDE DEF events
    <2> QED BY <2>2, <2>3, <2>4 DEF EventsOK
<1>2. /\ t = [s EXCEPT !.events = events] /\ StateOK(t)
      /\ t.events = events /\ t.parent = s.parent /\ t.route = None
    <2> HIDE DEF events
    <2>1. /\ StateOK([s EXCEPT !.events = events])
          /\ [s EXCEPT !.events = events].events = events
          /\ [s EXCEPT !.events = events].parent = s.parent
          /\ [s EXCEPT !.events = events].route = s.route
        BY <1>1, StateExcept
    <2>2. t = [s EXCEPT !.events = events]
        BY DEF events
    <2> QED BY <2>1, <2>2
<1>3. Next2nd(s, i) = IF ~s.expired /\ ~fresh /\ agent # None
                      THEN [t EXCEPT !.route = IF confirmed THEN t.parent[1].span ELSE Alone]
                      ELSE IF fresh \/ s.expired \/ Len(t.events) >= EventLimit
                      THEN [t EXCEPT !.route = Alone]
                      ELSE t
    BY Zenon DEF Next2nd
<1>4. t.parent # None /\ t.parent[1] \in Candidates /\ t.parent[1].process \in AgentsOf(t.parent[1].span[1])
    BY <1>2 DEF StateOK, ParentOK
<1> HIDE DEF t, events
<1>5. ASSUME agent # None PROVE agent = <<at[Child][1]>> /\ Above(CaptureIn(latest), agent) = Tail(at[Child])
    <2>1. PICK b \in Nat : b = Len(events) /\ DOMAIN events = 1..b
        BY <1>1
    <2>2. captured \in SUBSET (0..b) /\ captured # {} /\ others \in SUBSET (0..b) /\ others # {}
        BY <1>2, <1>5, <2>1
    <2>3. latest \in captured /\ Max(others) \in others
        <3> HIDE DEF captured
        <3>1. latest \in captured
            BY <2>1, <2>2, Greatest
        <3> HIDE DEF others
        <3> QED BY <2>1, <2>2, <3>1, Greatest
    <2> DEFINE j == t.events[latest]
               m == t.events[Max(others)]
    <2>4. /\ j \in 1..Len(log) /\ log[j].key = Child /\ log[j].capture # None
          /\ m \in 1..Len(log) /\ log[m].key = Child /\ log[m].capture # None
        <3>1. ASSUME NEW n \in captured
              PROVE  LET e == t.events[n]
                     IN  e \in 1..Len(log) /\ log[e].key = Child /\ log[e].capture # None
            BY <1>1, <1>2 DEF EventsOK
        <3>2. latest \in captured /\ Max(others) \in captured
            BY <2>3
        <3> HIDE DEF captured, latest, others
        <3> QED BY <3>1, <3>2
    <2>5. agent = SessionAgent(scene.command, log[m].capture, log[j].capture)
        BY <1>5
    <2> HIDE DEF j, m, agent
    <2>6. agent = <<at[Child][1]>>
        <3>1. /\ log[j].capture = (IF scene.command THEN <<99 + j>> \o at[Child] ELSE at[Child])
              /\ log[m].capture = (IF scene.command THEN <<99 + m>> \o at[Child] ELSE at[Child])
              /\ at[Child] \in Seq(Processes) /\ at[Child] # <<>>
            BY <1>0, <2>4, ChildCapture DEF AgentChain
        <3>2. CASE scene.command
            <4>1. agent = SessionAgent(TRUE, <<99 + m>> \o at[Child], <<99 + j>> \o at[Child])
                BY <2>5, <3>1, <3>2
            <4>2. agent \in {None, <<at[Child][1]>>}
                BY <3>1, <4>1, CommandAgentOfChain
            <4> QED BY <1>5, <4>2 DEF agent
        <3>3. CASE ~scene.command
            <4>1. agent = <<log[m].capture[1]>>
                BY <2>4, <2>5, <3>3 DEF SessionAgent
            <4> QED BY <3>1, <3>3, <4>1
        <3> QED BY <3>2, <3>3
    <2>7. Above(log[j].capture, <<at[Child][1]>>) = Tail(at[Child])
        BY <1>0, <2>4, ChildCapture
    <2> QED BY <2>6, <2>7 DEF j
<1>6. agent # None /\ confirmed => RouteOK(t.parent[1].span) /\ t.parent[1].span # None
    <2> SUFFICES ASSUME agent # None, confirmed
                 PROVE  RouteOK(t.parent[1].span) /\ t.parent[1].span # None
        OBVIOUS
    <2>1. t.parent[1].process \in Range(Tail(at[Child]))
        <3>1. t.parent[1].process \in Range(Above(CaptureIn(latest), agent))
            BY Zenon DEF ConfirmParent
        <3> HIDE DEF agent, latest
        <3> QED BY <1>5, <3>1
    <2>2. t.parent[1].span \in Spanned
        BY <1>4 DEF Candidates
    <2> QED BY <1>4, <2>1, <2>2, AboveRuns, SpansAreNoRoutes
<1> HIDE DEF agent, confirmed, fresh
<1>7. \A v : RouteOK(v) /\ v # None => StateOK([t EXCEPT !.route = v])
    BY <1>2, StateExcept
<1> QED BY <1>2, <1>3, <1>6, <1>7, SpansAreNoRoutes

(* What the child's steps leave is right if each part is.                     *)
LEMMA LinksNext ==
    ASSUME UNCHANGED <<log, at>>, NEW st, st = stored', HeldOK(st), NEW p, p = pending', HeldOK(p),
           NEW w, w = work', WorkOK(w), NEW l, l = link', RouteOK(l),
           \A route \in DOMAIN given' : RouteOK(route)
    PROVE  LinksInv'
<1>1. \A r : RouteOK(r)' <=> RouteOK(r)
    BY DEF RouteOK, RunsAbove
<1>2. \A s : StateOK(s)' <=> StateOK(s)
    BY <1>1 DEF StateOK, EventsOK
<1> QED BY <1>1, <1>2 DEF LinksInv, HeldOK, WorkOK

(* A state that is held is kept in memory, and on disk if it can be written.  *)
LEMMA HoldOK ==
    ASSUME LinksInv, UNCHANGED <<log, at>>, NEW s, StateOK(s), NEW n, Hold(s, n), work = None, work' = work
    PROVE  LinksInv'
<1>1. pending' = <<s>> /\ stored' \in {stored, <<s>>} /\ UNCHANGED <<link, given>>
    BY DEF Hold, Write
<1>2. HeldOK(<<s>>) /\ HeldOK(stored)
    BY DEF HeldOK, LinksInv
<1>3. WorkOK(work') /\ RouteOK(link) /\ \A route \in DOMAIN given : RouteOK(route)
    BY DEF LinksInv, WorkOK
<1> QED BY <1>1, <1>2, <1>3, LinksNext

(* One that is decided is worked on.                                          *)
LEMMA FinishOK ==
    ASSUME LinksInv, UNCHANGED <<log, at>>, NEW s, StateOK(s), s.route # None, NEW by, Finish(by, s)
    PROVE  LinksInv'
<1> DEFINE p == [s EXCEPT !.parent = None]
           t == [p EXCEPT !.recovery = FALSE]
<1>1. StateOK(p)
    BY StateExcept
<1>2. StateOK(t)
    <2> HIDE DEF p
    <2> QED BY <1>1, StateExcept
<1>3. WorkOK(work')
    <2>1. work' = <<[by |-> by, saved |-> FALSE, state |-> t]>>
        BY DEF Finish
    <2> HIDE DEF t
    <2> QED BY <1>2, <2>1 DEF WorkOK, WorkShaped
<1>4. UNCHANGED <<stored, pending, link, given>>
    BY DEF Finish
<1>5. HeldOK(stored) /\ HeldOK(pending) /\ RouteOK(link) /\ \A route \in DOMAIN given : RouteOK(route)
    BY DEF LinksInv
<1> QED BY <1>3, <1>4, <1>5, LinksNext

(* Another event of the child is kept with those before.                      *)
LEMMA EventsAppend ==
    ASSUME WorldInv, NEW events, EventsOK(events), NEW i \in 1..Len(log), log[i].key = Child
    PROVE  EventsOK(Append(events, i))
<1>1. events \in Seq(Nat) /\ i \in Nat
    BY DEF EventsOK, WorldInv
<1>2. \A n \in DOMAIN Append(events, i) :
         Append(events, i)[n] = i \/ \E m \in DOMAIN events : Append(events, i)[n] = events[m]
    BY <1>1
<1>3. Append(events, i) \in Seq(Nat)
    BY <1>1
<1> QED BY <1>2, <1>3 DEF EventsOK

(* The child's next event is held, decides, or is delivered.                  *)
LEMMA DispatchChildOK ==
    ASSUME AncestryInv, DispatchChild
    PROVE  QueueInv' /\ RegistryInv' /\ LinksInv'
<1> DEFINE i == Upcoming
           known == IF pending # None \/ link # None THEN {pending}
                    ELSE {stored} \cup (IF ReadFails THEN {None} ELSE {})
<1>0. /\ WorkerIsFree /\ Dispatched /\ work = None /\ log[i].key = Child
      /\ UNCHANGED <<log, parents, at>>
    BY DEF DispatchChild, world
<1>1. QueueInv' /\ i \in 1..Len(log)
    BY <1>0, UpcomingIs, DispatchedIs DEF AncestryInv
<1>m. PICK m \in next - 1..Len(log) : next' = m + 1 /\ \A j \in next..m : j = i
    BY <1>0, DispatchedIs DEF AncestryInv
<1>r. RegistryInv'
    <2> DEFINE n == next - 1
    <2>1. /\ n \in 0..Len(log) /\ m \in n..Len(log) /\ m \in Nat
          /\ \A j \in n + 1..m : j = i
        <3>1. next \in Nat \ {0} /\ Len(log) \in Nat /\ next <= Len(log) + 1
            BY DEF AncestryInv, QueueInv, WorldInv
        <3>2. n + 1 = next /\ n \in 0..Len(log)
            BY <3>1
        <3> QED BY <1>m, <3>1, <3>2
    <2>2. RegistryOK(reg, n)
        BY DEF AncestryInv, RegistryInv
    <2> HIDE DEF n, i
    <2>3. RegistryOK(reg, m)
        <3>1. ASSUME NEW k \in Keys, NEW capture, CapturedBefore(k, capture, n)
              PROVE  CapturedBefore(k, capture, m)
            <4>1. PICK x \in 1..n : /\ log[x].key = k /\ log[x].capture = capture
                                    /\ Continues(k, x + 1, n)
                BY <3>1 DEF CapturedBefore
            <4>2. x \in 1..m /\ \A y \in x + 1..m : y \in x + 1..n \/ y = i
                BY <2>1
            <4>3. log[i].key # k
                BY <1>0, ChildAssumption
            <4>4. Continues(k, x + 1, m)
                BY <4>1, <4>2, <4>3 DEF Continues
            <4> QED BY <4>1, <4>2, <4>4 DEF CapturedBefore
        <3> QED BY <2>2, <3>1 DEF RegistryOK
    <2>4. RegistryOK(reg, next - 1)'
        BY <1>0, <1>m, <2>1, <2>3, RegistryNext DEF parents
    <2> QED BY <1>0, <2>4 DEF AncestryInv, RegistryInv, parents, SnapshotOK
<1>2. PICK state \in known :
           \/ /\ state = None /\ link # None
              /\ \/ Deliver(link, i) /\ UNCHANGED <<stored, pending, link, work, faults>>
                 \/ /\ Hold([NewPending EXCEPT !.route = link, !.events = <<i>>,
                                               !.recovery = TRUE], 1)
                    /\ UNCHANGED work
           \/ /\ state = None /\ link = None
              /\ \/ Decided(First(i)) /\ Finish("worker", First(i))
                 \/ ~Decided(First(i)) /\ Hold(First(i), 0) /\ UNCHANGED work
           \/ /\ state # None /\ Decided(state[1])
              /\ LET t == [state[1] EXCEPT !.events = Append(@, i)]
                 IN  IF t.recovery THEN Hold(t, 0) /\ UNCHANGED work
                     ELSE Finish("worker", t)
           \/ /\ state # None /\ ~Decided(state[1])
              /\ \/ Decided(Next2nd(state[1], i)) /\ Finish("worker", Next2nd(state[1], i))
                 \/ Hold(Next2nd(state[1], i), 0) /\ UNCHANGED work
    BY Zenon DEF DispatchChild
<1>3. LinksInv /\ WorldInv /\ HeldOK(state) /\ UNCHANGED <<log, at>>
    <2>1. HeldOK(None)
        BY DEF HeldOK
    <2> QED BY <1>0, <2>1 DEF AncestryInv, LinksInv
<1> HIDE DEF i, known
<1>4. CASE state = None /\ link # None
    <2>1. CASE Deliver(link, i) /\ UNCHANGED <<stored, pending, link, work, faults>>
        <3>1. \A route \in DOMAIN given' : RouteOK(route)
            BY <1>3, <2>1, Delivers DEF LinksInv
        <3>2. HeldOK(stored) /\ HeldOK(pending) /\ WorkOK(work) /\ RouteOK(link)
            BY <1>3 DEF LinksInv, WorkOK
        <3> QED BY <1>1, <1>r, <1>3, <2>1, <3>1, <3>2, LinksNext
    <2>2. CASE /\ Hold([NewPending EXCEPT !.route = link, !.events = <<i>>,
                                          !.recovery = TRUE], 1)
               /\ UNCHANGED work
        <3> DEFINE s == [NewPending EXCEPT !.route = link, !.events = <<i>>,
                                           !.recovery = TRUE]
        <3>1. Shaped(s) /\ s.route = link /\ s.parent = None /\ s.events = <<i>>
            BY DEF Shaped, NewPending
        <3>2. EventsOK(<<i>>)
            <4>1. EventsOK(<<>>)
                BY DEF EventsOK
            <4>2. Append(<<>>, i) = <<i>>
                OBVIOUS
            <4> QED BY <1>0, <1>1, <1>3, <4>1, <4>2, EventsAppend DEF i
        <3> HIDE DEF s
        <3>3. StateOK(s)
            BY <1>3, <1>4, <3>1, <3>2 DEF StateOK, LinksInv, ParentOK
        <3>4. Hold(s, 1) /\ work' = work
            BY <2>2 DEF s
        <3> QED BY <1>0, <1>1, <1>r, <1>3, <3>3, <3>4, HoldOK
    <2> QED BY <1>2, <1>4, <2>1, <2>2
<1>i. i \in 1..Len(log) /\ log[i].key = Child
    BY <1>0, <1>1 DEF i
<1>5. CASE state = None /\ link = None
    <2>0. StateOK(First(i))
        BY <1>i, FirstOK
    <2>1. CASE Decided(First(i)) /\ Finish("worker", First(i))
        BY <1>1, <1>r, <1>3, <2>0, <2>1, FinishOK DEF Decided
    <2>2. CASE Hold(First(i), 0) /\ UNCHANGED work
        BY <1>0, <1>1, <1>r, <1>3, <2>0, <2>2, HoldOK
    <2> QED BY <1>2, <1>5, <2>1, <2>2
<1>6. CASE state # None /\ Decided(state[1])
    <2> DEFINE t == [state[1] EXCEPT !.events = Append(@, i)]
    <2>0. StateOK(state[1])
        BY <1>3, <1>6 DEF HeldOK
    <2>1. StateOK(t) /\ t.route = state[1].route
        <3> DEFINE events == Append(state[1].events, i)
        <3>1. EventsOK(events)
            BY <1>i, <1>3, <2>0, EventsAppend DEF StateOK
        <3> HIDE DEF events
        <3>2. /\ StateOK([state[1] EXCEPT !.events = events])
              /\ [state[1] EXCEPT !.events = events].route = state[1].route
            BY <2>0, <3>1, StateExcept
        <3> QED BY <3>2 DEF events
    <2>2. (Hold(t, 0) /\ UNCHANGED work) \/ Finish("worker", t)
        BY <1>2, <1>6
    <2> HIDE DEF t
    <2>3. CASE Hold(t, 0) /\ UNCHANGED work
        BY <1>0, <1>1, <1>r, <1>3, <2>1, <2>3, HoldOK
    <2>4. CASE Finish("worker", t)
        BY <1>1, <1>r, <1>3, <1>6, <2>1, <2>4, FinishOK DEF Decided
    <2> QED BY <2>2, <2>3, <2>4
<1>7. CASE state # None /\ ~Decided(state[1])
    <2>0. StateOK(Next2nd(state[1], i))
        BY <1>i, <1>3, <1>7, NextOK DEF HeldOK, Decided
    <2>3. CASE Hold(Next2nd(state[1], i), 0) /\ UNCHANGED work
        BY <1>0, <1>1, <1>r, <1>3, <2>0, <2>3, HoldOK
    <2>4. CASE Decided(Next2nd(state[1], i)) /\ Finish("worker", Next2nd(state[1], i))
        BY <1>1, <1>r, <1>3, <2>0, <2>4, FinishOK DEF Decided
    <2> QED BY <1>2, <1>7, <2>3, <2>4
<1> QED BY <1>2, <1>4, <1>5, <1>6, <1>7

(* The holder of the child's lock saves, delivers or fails.                   *)
LEMMA WorkStepOK ==
    ASSUME LinksInv, UNCHANGED <<log, at>>, Save \/ DeliverFirst \/ FinishFails
    PROVE  LinksInv'
<1> DEFINE s == work[1].state
<1>0. /\ work # None /\ WorkShaped(work[1]) /\ StateOK(s) /\ (work[1].saved => s.events # <<>>)
      /\ HeldOK(stored) /\ HeldOK(pending) /\ RouteOK(link)
      /\ \A route \in DOMAIN given : RouteOK(route)
      /\ RouteOK(s.route)
    BY DEF Save, DeliverFirst, FinishFails, LinksInv, WorkOK, StateOK
<1>h. ASSUME NEW x, StateOK(x) PROVE HeldOK(<<x>>)
    BY <1>h DEF HeldOK
<1>n. HeldOK(None) /\ WorkOK(None)
    BY DEF HeldOK, WorkOK
<1>1. CASE Save
    <2>1. /\ stored' = <<s>> /\ given' = given
          /\ \/ pending' = None /\ link' = s.route /\ work' = None
             \/ /\ s.events # <<>> /\ link' = link
                /\ pending' = <<s>> /\ work' = <<[work[1] EXCEPT !.saved = TRUE]>>
        BY <1>1 DEF Save, Current
    <2> HIDE DEF s
    <2>2. s.events # <<>> => WorkOK(<<[work[1] EXCEPT !.saved = TRUE]>>)
        <3>1. /\ WorkShaped([work[1] EXCEPT !.saved = TRUE])
              /\ [work[1] EXCEPT !.saved = TRUE].state = work[1].state
            BY <1>0, WorkExcept
        <3> QED BY <1>0, <3>1 DEF WorkOK, s
    <2> QED BY <1>0, <1>h, <1>n, <2>1, <2>2, LinksNext
<1>2. CASE DeliverFirst
    <2> DEFINE t == [s EXCEPT !.events = Tail(@)]
    <2>1. /\ Deliver(s.route, s.events[1]) /\ UNCHANGED <<stored, pending, link>>
          /\ work[1].saved
          /\ work' = <<[work[1] EXCEPT !.saved = FALSE,
                                       !.state.events = Tail(work[1].state.events)]>>
        BY <1>2 DEF DeliverFirst, Current
    <2>2. EventsOK(Tail(s.events))
        <3>1. PICK e : e = s.events /\ e # <<>> /\ EventsOK(e)
            BY <1>0, <2>1 DEF StateOK
        <3>2. e \in Seq(Nat) /\ \A n \in DOMAIN e : e[n] \in 1..Len(log) /\ log[e[n]].key = Child
            BY <3>1 DEF EventsOK
        <3>3. Tail(e) \in Seq(Nat) /\ \A n \in DOMAIN Tail(e) : n + 1 \in DOMAIN e /\ Tail(e)[n] = e[n + 1]
            BY <3>1, <3>2
        <3>4. EventsOK(Tail(e))
            BY <3>2, <3>3 DEF EventsOK
        <3> QED BY <3>1, <3>4
    <2>3. StateOK(t)
        BY <1>0, <2>2, StateExcept
    <2>4. WorkOK(work')
        <3>2. \A v : /\ WorkShaped([work[1] EXCEPT !.saved = FALSE, !.state.events = v])
                     /\ [work[1] EXCEPT !.saved = FALSE, !.state.events = v].saved = FALSE
                     /\ [work[1] EXCEPT !.saved = FALSE, !.state.events = v].state
                           = [work[1].state EXCEPT !.events = v]
            BY <1>0, WorkExcept, ZenonT(40)
        <3> DEFINE w == [work[1] EXCEPT !.saved = FALSE,
                                       !.state.events = Tail(work[1].state.events)]
        <3>3. WorkShaped(w) /\ w.saved = FALSE /\ w.state = t
            BY <3>2
        <3>4. work' = <<w>>
            BY <2>1
        <3> HIDE DEF w, t
        <3> QED BY <2>3, <3>3, <3>4 DEF WorkOK
    <2>5. \A route \in DOMAIN given' : RouteOK(route)
        <3> HIDE DEF s
        <3> QED BY <1>0, <2>1, Delivers
    <2> QED BY <1>0, <2>1, <2>4, <2>5, LinksNext
<1>3. CASE FinishFails
    <2> DEFINE t == [s EXCEPT !.recovery = TRUE]
    <2>1. StateOK(t) /\ t.route = s.route
        BY <1>0, StateExcept
    <2>2. /\ pending' = <<t>> /\ stored' \in {stored, <<t>>}
          /\ link' \in {link, t.route} /\ work' = None /\ given' = given
        BY <1>3, Zenon DEF FinishFails, Write, Current
    <2> HIDE DEF t, s
    <2> QED BY <1>0, <1>h, <1>n, <2>1, <2>2, LinksNext
<1> QED BY <1>1, <1>2, <1>3

(* The child's time is up, or its wait is resolved.                           *)
LEMMA WaitStepOK ==
    ASSUME LinksInv, UNCHANGED <<log, at>>, NEW forced, Expire \/ ResolvePending(forced)
    PROVE  LinksInv'
<1>0. pending # None /\ StateOK(pending[1]) /\ (stored # None => StateOK(stored[1]))
    BY DEF Expire, ResolvePending, LinksInv, HeldOK
<1>1. CASE Expire
    <2> DEFINE p == [pending[1] EXCEPT !.expired = TRUE]
               x == [stored[1] EXCEPT !.expired = TRUE]
    <2>1. StateOK(p) /\ (stored # None => StateOK(x))
        BY <1>0, StateExcept
    <2>2. /\ pending' = <<p>> /\ stored' = (IF stored = None THEN None ELSE <<x>>)
          /\ UNCHANGED <<link, work, given>>
        BY <1>1 DEF Expire
    <2> HIDE DEF p, x
    <2>3. HeldOK(pending') /\ HeldOK(stored')
        BY <2>1, <2>2 DEF HeldOK
    <2>4. WorkOK(work) /\ RouteOK(link) /\ \A route \in DOMAIN given : RouteOK(route)
        BY DEF LinksInv, WorkOK
    <2> QED BY <2>2, <2>3, <2>4, LinksNext
<1>2. CASE ResolvePending(forced)
    <2> DEFINE s == pending[1]
               t == IF ~Decided(s) /\ (s.expired \/ forced)
                    THEN [s EXCEPT !.route = Alone] ELSE s
    <2>1. Decided(t) /\ Finish("reconciler", t)
        BY <1>2 DEF ResolvePending
    <2>2. StateOK(t)
        BY <1>0, StateExcept, SpansAreNoRoutes
    <2> HIDE DEF t
    <2> QED BY <2>1, <2>2, FinishOK DEF Decided
<1> QED BY <1>1, <1>2

(* Every step keeps the invariant.                                            *)
LEMMA NextAncestry ==
    ASSUME AncestryInv, [Next]_vars
    PROVE  AncestryInv'
<1>1. ASSUME NEW k \in Keys, NEW kind \in {"start", "other", "end"}, CaptureParent(k, kind, None)
      PROVE  AncestryInv'
    BY <1>1, CaptureAncestry
<1>2. ASSUME NEW k \in Keys, NEW kind \in {"open", "close"}, NEW tool \in Tools, CaptureParent(k, kind, tool)
      PROVE  AncestryInv'
    BY <1>2, CaptureAncestry
<1>3. ASSUME NEW kind \in {"start", "other"}, CaptureChild(kind)
      PROVE  AncestryInv'
    BY <1>3, CaptureAncestry
<1>p. CASE \/ DispatchParent \/ AttachParent \/ FindExited \/ PruneRetired
           \/ \E k \in Keys : Observe(k) \/ SaveSnapshot(k) \/ Retire(k) \/ Exit(k)
           \/ UNCHANGED vars
    <2>1. UNCHANGED <<log, at, scene, child>>
        BY <1>p DEF DispatchParent, AttachParent, FindExited, PruneRetired, Observe, SaveSnapshot,
           Retire, Exit, vars, child, world
    <2>2. WorldInv' /\ LogInv' /\ LinksInv'
        BY <2>1, WorldStays DEF AncestryInv
    <2>3. QueueInv' /\ RegistryInv'
        <3>1. CASE DispatchParent
            BY <3>1, DispatchParentOK
        <3>2. CASE AttachParent
            BY <3>2, AttachParentOK
        <3>3. CASE \E k \in Keys : Observe(k)
            BY <3>3, ObserveOK
        <3>4. CASE (\E k \in Keys : SaveSnapshot(k) \/ Retire(k)) \/ PruneRetired
            <4>1. UNCHANGED <<log, next, startup>>
                BY <3>4 DEF SaveSnapshot, Retire, PruneRetired
            <4> QED BY <3>4, <4>1, ParentStepOK
        <3>5. CASE FindExited \/ (\E k \in Keys : Exit(k)) \/ UNCHANGED vars
            <4>1. UNCHANGED <<log, next, startup>> /\ UNCHANGED parents
                BY <3>5 DEF FindExited, Exit, vars, parents
            <4> QED BY <4>1, ParentStepOK
        <3> QED BY <1>p, <3>1, <3>2, <3>3, <3>4, <3>5
    <2> QED BY <2>2, <2>3 DEF AncestryInv
<1>c. CASE DispatchChild
    <2>1. UNCHANGED <<log, at, scene>>
        BY <1>c DEF DispatchChild, world
    <2> QED BY <1>c, <2>1, WorldStays, DispatchChildOK DEF AncestryInv
<1>w. CASE \/ Save \/ DeliverFirst \/ FinishFails \/ Expire
           \/ \E forced \in {FALSE, scene.forced} : ResolvePending(forced)
    <2>1. UNCHANGED <<log, at, scene, next, startup>> /\ UNCHANGED parents
        BY <1>w DEF Save, DeliverFirst, FinishFails, Expire, ResolvePending, world
    <2>2. WorldInv' /\ LogInv' /\ LinksInv
        BY <2>1, WorldStays DEF AncestryInv
    <2>3. LinksInv'
        BY <1>w, <2>1, <2>2, WorkStepOK, WaitStepOK
    <2>4. QueueInv' /\ RegistryInv'
        BY <2>1, ParentStepOK
    <2> QED BY <2>2, <2>3, <2>4 DEF AncestryInv
<1>r. CASE Restart
    <2>1. UNCHANGED <<log, at, scene>>
        BY <1>r DEF Restart, world
    <2> QED BY <1>r, <2>1, WorldStays, RestartOK DEF AncestryInv
<1> QED BY <1>1, <1>2, <1>3, <1>p, <1>c, <1>w, <1>r DEF Next

(* It holds at the beginning.                                                 *)
LEMMA InitAncestry == Init => AncestryInv
<1> SUFFICES ASSUME Init PROVE AncestryInv
    OBVIOUS
<1>1. PICK chain \in scene.agents :
         at = [k \in Keys \cup {Child} |-> IF k = Child THEN chain ELSE CHOOSE c \in Chains[k] : TRUE]
    BY DEF Init
<1>2. /\ scene \in Scenarios /\ log = <<>> /\ next = 1 /\ startup = {} /\ reg = Empty
      /\ attached = {} /\ seen = [k \in Keys |-> 0] /\ waiting = {}
      /\ snapshots = [k \in Keys |-> None]
      /\ stored = None /\ pending = None /\ link = None /\ work = None /\ given = <<>>
    BY DEF Init
<1>3. WorldInv
    <2>1. \A k \in Keys : at[k] \in Chains[k]
        BY <1>1, ProcessesAssumption, ChildAssumption
    <2> QED BY <1>1, <1>2, <2>1, ScenariosAssumption DEF WorldInv
<1>4. LogInv /\ QueueInv
    BY <1>2 DEF LogInv, QueueInv
<1>5. RegistryInv
    <2>1. RegistryOK(Empty, 0)
        <3>1. /\ \A k \in Keys : Empty.agent[k] = {} /\ Empty.unconfirmed[k] = None
              /\ \A p \in Processes : Empty.sessions[p] = {}
            BY DEF Empty
        <3> QED BY <3>1, EmptyIsRegistry DEF RegistryOK
    <2> QED BY <1>2, <2>1 DEF RegistryInv, SnapshotOK
<1>6. LinksInv
    BY <1>2, SpansAreNoRoutes DEF LinksInv, HeldOK, WorkOK, None
<1> QED BY <1>3, <1>4, <1>5, <1>6 DEF AncestryInv

(* Registry, snapshots, what is kept of the child and what was delivered only *)
(* ever name, for each session, agents that it had, and only sessions of an   *)
(* agent above the child as its parent: whatever is dispatched late, retired, *)
(* pruned, crashes or fails to be read or written (correlation.rs:103-158 and *)
(* 344-421, correlation_store.rs:136-263).                                    *)
THEOREM AncestryInductive == Spec => []AncestryInv
BY InitAncestry, NextAncestry, PTL DEF Spec

(* A child is only ever linked, or about to be, to a session of an agent that *)
(* runs above its own: also when its own agent was not known when its parent  *)
(* was looked for, and the candidate is confirmed by a later hook             *)
(* (confirm_parent, correlation.rs:423-438).                                  *)
THEOREM LinksToAncestors == Spec => []ParentIsAncestor
<1>1. AncestryInv => ParentIsAncestor
    <2> SUFFICES ASSUME AncestryInv, NEW route \in Links
                 PROVE  \E chain \in Chains[route[1]] : chain[1] \in Range(Tail(at[Child]))
        BY DEF ParentIsAncestor
    <2>1. RouteOK(route)
        <3>1. CASE route \in DOMAIN given \/ (link # None /\ route = link)
            BY <3>1 DEF AncestryInv, LinksInv
        <3>2. CASE \E state \in Range(stored) \cup Range(pending) : route = state.route
            <4>1. PICK state \in Range(stored) \cup Range(pending) : route = state.route
                BY <3>2
            <4>2. stored \in {None, <<stored[1]>>} /\ pending \in {None, <<pending[1]>>}
                BY DEF AncestryInv, LinksInv, HeldOK
            <4> QED BY <4>1, <4>2 DEF AncestryInv, LinksInv, HeldOK, StateOK, Range, None
        <3>3. CASE \E w \in Range(work) : route = w.state.route
            BY <3>3 DEF AncestryInv, LinksInv, WorkOK, StateOK, Range, None
        <3> QED BY <3>1, <3>2, <3>3 DEF Links, Routes
    <2>2. route \in Spanned
        BY <2>1 DEF RouteOK, RouteSet, Links
    <2> QED BY <2>1, <2>2 DEF RouteOK, RunsAbove
<1> QED BY <1>1, AncestryInductive, PTL

------------------------------------------------------------------------------
(* What the captured hooks of a session say of its agent.                     *)

(* The session started with an event, and did not since.                      *)
Begins(k, s, n) == log[s].key = k /\ log[s].kind = "start" /\ Continues(k, s + 1, n)

(* What was captured of it from there on; and in which chain.                 *)
Hooks(k, s, n) == {i \in s..n : log[i].key = k /\ log[i].capture # None}
CapturedIn(k, s, n, chain) == \A i \in Hooks(k, s, n) : log[i].capture = Hook(k, i, chain)

(* The agent is settled by the first hook, or the first two of commands.      *)
Told(r, k, s, n) ==
    /\ Hooks(k, s, n) = {} => k \in r.opened /\ r.unconfirmed[k] = None
    /\ \A m \in Hooks(k, s, n) : k \in Command /\ (\A i \in Hooks(k, s, n) : i = m) =>
         k \in r.opened /\ r.unconfirmed[k] = log[m].capture
    /\ \A chain \in Chains[k] :
         /\ CapturedIn(k, s, n, chain) /\ Hooks(k, s, n) # {}
         /\ k \in Command => \E i, j \in Hooks(k, s, n) : i # j
         => k \notin r.opened /\ r.agent[k] = {chain[1]}

HasEvents(k, n) == \E i \in 1..n : log[i].key = k
ToldOK(r, n) ==
    /\ r.retired = {}
    /\ \A k \in Keys : \A s \in 1..n : Begins(k, s, n) => Told(r, k, s, n)
    /\ \A k \in Keys : ~HasEvents(k, n) => r.agent[k] = {}
    /\ \A p \in Processes : \A k \in Keys : k \in r.sessions[p] <=> p \in r.agent[k]

------------------------------------------------------------------------------
(* What an event tells of agents.                                             *)

(* A session of which an event is not changes nothing of what was told.       *)
LEMMA HooksOfOthers ==
    ASSUME NEW n \in Nat, NEW k, log[n + 1].key # k, NEW s \in 1..n
    PROVE  /\ Hooks(k, s, n + 1) = Hooks(k, s, n)
           /\ Begins(k, s, n + 1) <=> Begins(k, s, n)
           /\ \A chain : CapturedIn(k, s, n + 1, chain) <=> CapturedIn(k, s, n, chain)
<1>1. \A i \in s..n + 1 : i \in s..n \/ i = n + 1
    OBVIOUS
<1>2. \A i \in s + 1..n + 1 : i \in s + 1..n \/ i = n + 1
    OBVIOUS
<1>3. s..n \subseteq s..n + 1 /\ s + 1..n \subseteq s + 1..n + 1
    OBVIOUS
<1>4. Hooks(k, s, n + 1) = Hooks(k, s, n)
    BY <1>1, <1>3 DEF Hooks
<1>5. Continues(k, s + 1, n + 1) <=> Continues(k, s + 1, n)
    BY <1>2, <1>3 DEF Continues
<1> QED BY <1>4, <1>5 DEF Begins, CapturedIn

(* An event of the session goes on with what began, or begins.                *)
LEMMA HooksGrow ==
    ASSUME NEW n \in Nat, NEW k, log[n + 1].key = k, NEW s \in 1..n, Begins(k, s, n + 1)
    PROVE  /\ log[n + 1].kind # "start" /\ Begins(k, s, n)
           /\ Hooks(k, s, n + 1) = Hooks(k, s, n)
                                   \cup (IF log[n + 1].capture = None THEN {} ELSE {n + 1})
           /\ n + 1 \notin Hooks(k, s, n)
           /\ \A chain : CapturedIn(k, s, n + 1, chain) =>
                /\ CapturedIn(k, s, n, chain)
                /\ log[n + 1].capture # None => log[n + 1].capture = Hook(k, n + 1, chain)
<1>1. \A i \in s..n + 1 : i \in s..n \/ i = n + 1
    OBVIOUS
<1>2. n + 1 \in s + 1..n + 1 /\ n + 1 \in s..n + 1 /\ n + 1 \notin s..n
    OBVIOUS
<1>3. s..n \subseteq s..n + 1 /\ s + 1..n \subseteq s + 1..n + 1
    OBVIOUS
<1>4. Hooks(k, s, n + 1) = Hooks(k, s, n) \cup (IF log[n + 1].capture = None THEN {} ELSE {n + 1})
    BY <1>1, <1>2, <1>3 DEF Hooks
<1>5. log[n + 1].kind # "start" /\ Continues(k, s + 1, n)
    BY <1>2, <1>3 DEF Continues, Begins
<1>6. n + 1 \notin Hooks(k, s, n)
    BY <1>2 DEF Hooks
<1>7. ASSUME NEW chain, CapturedIn(k, s, n + 1, chain)
      PROVE  /\ CapturedIn(k, s, n, chain)
             /\ log[n + 1].capture # None => log[n + 1].capture = Hook(k, n + 1, chain)
    BY <1>4, <1>7 DEF CapturedIn
<1> QED BY <1>4, <1>5, <1>6, <1>7 DEF Begins

(* The next event of a session tells its agent, or that it has to be told.    *)
LEMMA Tells ==
    ASSUME WorldInv, NEW n \in Nat, n + 1 \in 1..Len(log), NEW k \in Keys, log[n + 1].key = k,
           NEW r \in Registry, \A s \in 1..n : Begins(k, s, n) => Told(r, k, s, n),
           NEW s \in 1..n + 1, Begins(k, s, n + 1)
    PROVE  Told(ObserveSession(r, k, log[n + 1].capture, log[n + 1].kind = "start"), k, s, n + 1)
<1>p. PICK i : i = n + 1
    OBVIOUS
<1> DEFINE capture == log[i].capture
           kind == log[i].kind
           t == ObserveSession(r, k, capture, kind = "start")
           agent == HookAgent(r, k, kind, capture)
<1>0. capture \in ProcessChains /\ k # Child /\ i \in 1..Len(log)
    <2>1. log[i] \in Events
        BY <1>p DEF WorldInv
    <2> QED BY <1>p, <2>1, ChildAssumption DEF Events, ProcessChains
<1>1. \/ /\ Fixed(r, k, kind) \/ capture = None
         /\ KnownAs(t, r, k, kind)
      \/ /\ ~Fixed(r, k, kind) /\ capture # None /\ agent # None
         /\ SettledAs(t, r, k, agent[1])
      \/ /\ ~Fixed(r, k, kind) /\ capture # None /\ agent = None /\ k \in Command
         /\ ComparesAs(t, r, k, kind, capture)
    BY <1>0, ObserveSessionIs, Zenon
<1>2. r.unconfirmed \in [Keys -> ProcessChains] /\ r.agent \in [Keys -> SUBSET Processes]
    BY DEF Registry, ProcessChains
<1>h. \A c : Hook(k, i, c) = IF k \in Command THEN <<99 + i>> \o c ELSE c
    BY <1>0 DEF Hook, RunsCommands
<1>a. k \notin Command => agent = <<capture[1]>> /\ agent # None
    BY DEF HookAgent, None
<1>b. k \in Command /\ kind = "start" => agent = None
    BY DEF HookAgent, SessionAgent
<1>c. k \in Command /\ r.unconfirmed[k] = None => agent = None
    BY DEF HookAgent, SessionAgent
<1> SUFFICES Told(t, k, s, i)
    BY <1>p
<1> HIDE DEF t, agent
<1>s. CASE s = i
    <2>1. Hooks(k, s, i) = IF capture = None THEN {} ELSE {i}
        <3>1. \A x \in s..i : x = i
            BY <1>0, <1>s
        <3>2. i \in s..i
            BY <1>0, <1>s
        <3> QED BY <1>p, <3>1, <3>2 DEF Hooks
    <2>2. kind = "start" /\ ~Fixed(r, k, kind)
        BY <1>s, <1>p DEF Begins, Fixed
    <2>3. CASE capture = None
        <3>1. KnownAs(t, r, k, kind)
            BY <1>1, <2>3
        <3>2. k \in t.opened /\ t.unconfirmed[k] = None
            BY <1>2, <2>2, <3>1 DEF KnownAs
        <3> QED BY <2>1, <2>3, <3>2 DEF Told
    <2>4. CASE capture # None /\ k \in Command
        <3>1. ComparesAs(t, r, k, kind, capture)
            BY <1>1, <1>b, <2>2, <2>4
        <3>2. k \in t.opened /\ t.unconfirmed[k] = capture
            BY <1>2, <2>2, <3>1 DEF ComparesAs
        <3> HIDE DEF capture
        <3>3. \A x \in Hooks(k, s, i) : x = i
            BY <2>1
        <3> QED BY <2>1, <2>4, <3>2, <3>3 DEF Told, capture
    <2>5. CASE capture # None /\ k \notin Command
        <3>1. SettledAs(t, r, k, capture[1])
            BY <1>1, <1>a, <2>2, <2>5
        <3>2. k \notin t.opened /\ t.agent[k] = {capture[1]}
            BY <1>2, <3>1 DEF SettledAs
        <3>3. \A chain : CapturedIn(k, s, i, chain) => chain = capture
            BY <1>h, <2>1, <2>5 DEF CapturedIn
        <3> QED BY <2>1, <2>5, <3>2, <3>3 DEF Told
    <2> QED BY <2>3, <2>4, <2>5
<1>o. CASE s # i
    <2>0. s \in 1..n
        BY <1>o, <1>p
    <2>1. /\ kind # "start" /\ Begins(k, s, n)
          /\ Hooks(k, s, i) = Hooks(k, s, n) \cup (IF capture = None THEN {} ELSE {i})
          /\ i \notin Hooks(k, s, n)
          /\ \A chain : CapturedIn(k, s, i, chain) =>
               CapturedIn(k, s, n, chain) /\ (capture # None => capture = Hook(k, i, chain))
        <3>1. /\ log[n + 1].kind # "start" /\ Begins(k, s, n)
              /\ Hooks(k, s, n + 1) = Hooks(k, s, n)
                                      \cup (IF log[n + 1].capture = None THEN {} ELSE {n + 1})
              /\ n + 1 \notin Hooks(k, s, n)
              /\ \A chain : CapturedIn(k, s, n + 1, chain) =>
                   /\ CapturedIn(k, s, n, chain)
                   /\ log[n + 1].capture # None => log[n + 1].capture = Hook(k, n + 1, chain)
            BY <2>0, HooksGrow
        <3> QED BY <1>p, <3>1, Zenon
    <2>2. Told(r, k, s, n)
        BY <2>0, <2>1
    <2>3. CASE capture = None
        <3>1. KnownAs(t, r, k, kind)
            BY <1>1, <2>3
        <3>2. k \in t.opened <=> k \in r.opened
            BY <2>1, <3>1 DEF KnownAs
        <3>3. t.unconfirmed[k] = r.unconfirmed[k] /\ t.agent[k] = r.agent[k]
            BY <2>1, <3>1 DEF KnownAs
        <3>4. Hooks(k, s, i) = Hooks(k, s, n)
            BY <2>1, <2>3
        <3> QED BY <2>1, <2>2, <3>2, <3>3, <3>4 DEF Told
    <2>4. CASE capture # None /\ Hooks(k, s, n) = {}
        <3>1. k \in r.opened /\ r.unconfirmed[k] = None
            BY <2>2, <2>4 DEF Told
        <3>2. ~Fixed(r, k, kind)
            BY <3>1 DEF Fixed
        <3>3. Hooks(k, s, i) = {i}
            BY <2>1, <2>4
        <3>4. CASE k \in Command
            <4>1. ComparesAs(t, r, k, kind, capture)
                BY <1>1, <1>c, <2>4, <3>1, <3>2, <3>4
            <4>2. k \in t.opened /\ t.unconfirmed[k] = capture
                BY <1>2, <2>1, <3>1, <4>1 DEF ComparesAs
            <4> HIDE DEF capture
            <4>3. \A x \in Hooks(k, s, i) : x = i
                BY <3>3
            <4> QED BY <3>4, <3>3, <4>2, <4>3 DEF Told, capture
        <3>5. CASE k \notin Command
            <4>1. SettledAs(t, r, k, capture[1])
                BY <1>1, <1>a, <2>4, <3>2, <3>5
            <4>2. k \notin t.opened /\ t.agent[k] = {capture[1]}
                BY <1>2, <4>1 DEF SettledAs
            <4>3. \A chain : CapturedIn(k, s, i, chain) => chain = capture
                BY <1>h, <2>1, <2>4, <3>5
            <4> QED BY <3>3, <3>5, <4>2, <4>3 DEF Told
        <3> QED BY <3>4, <3>5
    <2>5. CASE capture # None /\ Hooks(k, s, n) # {}
        <3>1. PICK m \in Hooks(k, s, n) : TRUE
            BY <2>5
        <3>2. m # i /\ m \in Hooks(k, s, i) /\ i \in Hooks(k, s, i)
            BY <2>1, <2>5
        <3>3. ASSUME NEW chain \in Chains[k], CapturedIn(k, s, i, chain)
              PROVE  k \notin t.opened /\ t.agent[k] = {chain[1]}
            <4>1. CapturedIn(k, s, n, chain) /\ capture = Hook(k, i, chain)
                BY <2>1, <2>5, <3>3
            <4>2. CASE k \in Command => \E x, y \in Hooks(k, s, n) : x # y
                <5>1. k \notin r.opened /\ r.agent[k] = {chain[1]}
                    BY <2>2, <2>5, <4>1, <4>2 DEF Told
                <5>2. Fixed(r, k, kind)
                    BY <2>1, <5>1 DEF Fixed
                <5>3. KnownAs(t, r, k, kind)
                    BY <1>1, <5>2
                <5> QED BY <2>1, <5>1, <5>3 DEF KnownAs
            <4>3. CASE k \in Command /\ \A x, y \in Hooks(k, s, n) : x = y
                <5>1. k \in r.opened /\ r.unconfirmed[k] = log[m].capture
                    BY <2>2, <3>1, <4>3 DEF Told
                <5>2. ~Fixed(r, k, kind)
                    BY <5>1 DEF Fixed
                <5>3. log[m].capture = <<99 + m>> \o chain /\ capture = <<99 + i>> \o chain
                    <6>1. Hook(k, m, chain) = <<99 + m>> \o chain
                        BY <1>0, <4>3 DEF Hook, RunsCommands
                    <6> QED BY <1>h, <3>1, <4>1, <4>3, <6>1 DEF CapturedIn
                <5>4. 99 + m # 99 + i
                    <6>1. m \in s..n
                        BY <3>1 DEF Hooks
                    <6> QED BY <1>p, <2>0, <6>1
                <5>5. agent = <<chain[1]>>
                    <6>1. chain \in Seq(Processes) /\ chain # <<>>
                        BY ChainsAreChains DEF AgentChain
                    <6>2. agent = SessionAgent(TRUE, r.unconfirmed[k], capture)
                        BY <2>1, <4>3 DEF agent, HookAgent
                    <6>3. SessionAgent(TRUE, <<99 + m>> \o chain, <<99 + i>> \o chain) = <<chain[1]>>
                        BY <5>4, <6>1, CommandAgentOfChain
                    <6> QED BY <5>1, <5>3, <6>2, <6>3
                <5>6. SettledAs(t, r, k, chain[1])
                    <6>1. agent # None /\ agent[1] = chain[1]
                        BY <5>5 DEF None
                    <6> QED BY <1>1, <2>5, <5>2, <6>1
                <5> QED BY <1>2, <5>6 DEF SettledAs
            <4> QED BY <4>2, <4>3
        <3> QED BY <3>2, <3>3 DEF Told
    <2> QED BY <2>3, <2>4, <2>5
<1> QED BY <1>s, <1>o

(* What is true of a registry and the log up to an event.                     *)
LEMMA TellsAll ==
    ASSUME WorldInv, NEW n \in Nat, n + 1 \in 1..Len(log), NEW k \in Keys, log[n + 1].key = k,
           NEW r \in Registry, ToldOK(r, n)
    PROVE  ToldOK(ObserveSession(r, k, log[n + 1].capture, log[n + 1].kind = "start"), n + 1)
<1> DEFINE capture == log[n + 1].capture
           kind == log[n + 1].kind
           t == ObserveSession(r, k, capture, kind = "start")
           agent == HookAgent(r, k, kind, capture)
<1>0. capture \in ProcessChains
    <2>1. log[n + 1] \in Events
        BY DEF WorldInv
    <2> QED BY <2>1 DEF Events, ProcessChains
<1>1. \/ KnownAs(t, r, k, kind)
      \/ capture # None /\ agent # None /\ SettledAs(t, r, k, agent[1])
      \/ ComparesAs(t, r, k, kind, capture)
    BY <1>0, ObserveSessionIs, Zenon
<1>2. r.unconfirmed \in [Keys -> ProcessChains] /\ r.agent \in [Keys -> SUBSET Processes]
    BY DEF Registry, ProcessChains
<1>3. \A j \in Keys \ {k} :
        /\ t.agent[j] = r.agent[j] /\ t.unconfirmed[j] = r.unconfirmed[j]
        /\ (j \in t.opened) <=> (j \in r.opened)
    <2> HIDE DEF capture, kind, t, agent
    <2> QED BY <1>1, <1>2 DEF KnownAs, SettledAs, ComparesAs
<1>4. \A s \in 1..n + 1 : Begins(k, s, n + 1) => Told(t, k, s, n + 1)
    BY Tells DEF ToldOK
<1>5. capture # None /\ agent # None => agent[1] \in Processes
    BY <1>0, HookAgentType
<1> SUFFICES ToldOK(t, n + 1)
    OBVIOUS
<1> HIDE DEF t, agent, capture, kind
<1>6. t.retired = {}
    BY <1>1 DEF KnownAs, SettledAs, ComparesAs, ToldOK
<1>7. ASSUME NEW j \in Keys, NEW s \in 1..n + 1, Begins(j, s, n + 1)
      PROVE  Told(t, j, s, n + 1)
    <2>1. CASE j = k
        BY <1>4, <1>7, <2>1
    <2>2. CASE j # k
        <3>1. s \in 1..n
            <4>1. s # n + 1
                BY <1>7, <2>2 DEF Begins
            <4> QED BY <4>1
        <3>2. /\ Hooks(j, s, n + 1) = Hooks(j, s, n) /\ Begins(j, s, n)
              /\ \A chain : CapturedIn(j, s, n + 1, chain) <=> CapturedIn(j, s, n, chain)
            BY <1>7, <2>2, <3>1, HooksOfOthers
        <3>3. Told(r, j, s, n)
            BY <3>1, <3>2 DEF ToldOK
        <3> QED BY <1>3, <2>2, <3>2, <3>3 DEF Told
    <2> QED BY <2>1, <2>2
<1>8. ASSUME NEW j \in Keys, ~HasEvents(j, n + 1) PROVE t.agent[j] = {}
    <2>1. j # k /\ ~HasEvents(j, n)
        <3>1. n + 1 \in 1..n + 1 /\ 1..n \subseteq 1..n + 1
            OBVIOUS
        <3> QED BY <1>8, <3>1 DEF HasEvents
    <2> QED BY <1>3, <2>1 DEF ToldOK
<1>9. ASSUME NEW p \in Processes, NEW j \in Keys PROVE j \in t.sessions[p] <=> p \in t.agent[j]
    <2>0. j \in r.sessions[p] <=> p \in r.agent[j]
        BY DEF ToldOK
    <2>k. k \in r.sessions[p] <=> p \in r.agent[k]
        BY DEF ToldOK
    <2>1. CASE KnownAs(t, r, k, kind) \/ ComparesAs(t, r, k, kind, capture)
        BY <2>0, <2>1 DEF KnownAs, ComparesAs
    <2>2. CASE agent[1] \in Processes /\ SettledAs(t, r, k, agent[1])
        <3>1. j # k => (j \in t.sessions[p] <=> j \in r.sessions[p]) /\ t.agent[j] = r.agent[j]
            BY <1>3, <2>2 DEF SettledAs
        <3>2. /\ t.agent[k] = {agent[1]}
              /\ k \in t.sessions[p] <=> p = agent[1] \/ (k \in r.sessions[p] /\ p \notin r.agent[k])
            BY <1>2, <2>2 DEF SettledAs
        <3> QED BY <2>0, <2>k, <3>1, <3>2
    <2> QED BY <1>1, <1>5, <2>1, <2>2
<1> QED BY <1>6, <1>7, <1>8, <1>9 DEF ToldOK

(* An event of the child tells nothing of the others.                         *)
LEMMA TellsNothing ==
    ASSUME NEW n \in Nat, log[n + 1].key = Child, NEW r, ToldOK(r, n)
    PROVE  ToldOK(r, n + 1)
<1>1. \A k \in Keys : log[n + 1].key # k
    BY ChildAssumption
<1>2. ASSUME NEW j \in Keys, NEW s \in 1..n + 1, Begins(j, s, n + 1)
      PROVE  Told(r, j, s, n + 1)
    <2>1. s \in 1..n
        <3>1. s # n + 1
            BY <1>1, <1>2 DEF Begins
        <3> QED BY <3>1
    <2>2. /\ Hooks(j, s, n + 1) = Hooks(j, s, n) /\ Begins(j, s, n)
          /\ \A chain : CapturedIn(j, s, n + 1, chain) <=> CapturedIn(j, s, n, chain)
        BY <1>1, <1>2, <2>1, HooksOfOthers
    <2>3. Told(r, j, s, n)
        BY <2>1, <2>2 DEF ToldOK
    <2> QED BY <2>2, <2>3 DEF Told
<1>3. \A k \in Keys : HasEvents(k, n) => HasEvents(k, n + 1)
    <2>1. 1..n \subseteq 1..n + 1
        OBVIOUS
    <2> QED BY <2>1 DEF HasEvents
<1> QED BY <1>2, <1>3 DEF ToldOK

(* Spans say nothing of agents, nor do agents of spans.                       *)
LEMMA ToldOfAgents ==
    ASSUME NEW r, NEW t, NEW n, ToldOK(r, n), t.agent = r.agent, t.sessions = r.sessions,
           t.unconfirmed = r.unconfirmed, t.opened = r.opened, t.retired = r.retired
    PROVE  ToldOK(t, n)
BY DEF ToldOK, Told

(* What was told stays so when more is captured.                              *)
LEMMA ToldStays ==
    ASSUME LogGrows, scene' = scene, NEW n \in 0..Len(log), next' = n + 1,
           NEW r, r = reg', ToldOK(r, n)
    PROVE  ToldOK(reg, next - 1)'
<1>1. PICK x : x = next'
    OBVIOUS
<1>2. x - 1 = n
    BY <1>1
<1>3. next' - 1 = n
    BY <1>1, <1>2
<1>4. \A i \in 1..n : log'[i] = log[i]
    BY DEF LogGrows
<1>5. ASSUME NEW k, NEW s \in 1..n
      PROVE  /\ Hooks(k, s, n)' = Hooks(k, s, n)
             /\ Begins(k, s, n)' <=> Begins(k, s, n)
             /\ \A chain : CapturedIn(k, s, n, chain)' <=> CapturedIn(k, s, n, chain)
    <2>1. s..n \subseteq 1..n /\ s + 1..n \subseteq 1..n
        OBVIOUS
    <2>2. Hooks(k, s, n)' = Hooks(k, s, n) /\ Hooks(k, s, n) \subseteq 1..n
        BY <1>4, <2>1 DEF Hooks
    <2>3. Begins(k, s, n)' <=> Begins(k, s, n)
        BY <1>4, <2>1 DEF Begins, Continues
    <2>4. \A m, c : Hook(k, m, c)' = Hook(k, m, c)
        BY DEF Hook, RunsCommands
    <2> QED BY <1>4, <2>2, <2>3, <2>4 DEF CapturedIn
<1>6. ASSUME NEW k, NEW s \in 1..n, Told(r, k, s, n) PROVE Told(reg, k, s, n)'
    <2>1. \A m \in Hooks(k, s, n) : log'[m] = log[m]
        <3>1. Hooks(k, s, n) \subseteq 1..n
            BY DEF Hooks
        <3> QED BY <1>4, <3>1
    <2> QED BY <1>5, <1>6, <2>1 DEF Told
<1>7. \A k : HasEvents(k, n)' <=> HasEvents(k, n)
    BY <1>4 DEF HasEvents
<1>8. ToldOK(reg, n)'
    BY <1>5, <1>6, <1>7 DEF ToldOK
<1> QED BY <1>3, <1>8 DEF ToldOK

FaultCounts == [crashes : Nat, failures : Nat, retires : Nat]
(* The registry has the spans of the events that were translated.             *)
SeenOK(r, n, at_) == \A k \in Keys : at_[k] \in 0..n /\ SpansOf(r, k) = SpansIn(k, at_[k])

ExactRegistry ==
    /\ startup = {} /\ waiting = {} /\ exited = {}
    /\ attached = {k \in Keys : HasEvents(k, next - 1)}
    /\ ToldOK(reg, next - 1) /\ SeenOK(reg, next - 1, seen)

(* The child's first event, and those that were dispatched.                   *)
IsFirst(f) == log[f].key = Child /\ \A i \in 1..f - 1 : log[i].key # Child
Arrived(n) == EventsOf(Child, 1, n)

(* The hook that tells its agent came too late.                               *)
TooLate(s, f, n) ==
    \/ s.expired \/ scene.forced
    \/ \E i \in Arrived(n) \ {f} : log[i].kind = "start"
    \/ /\ Cardinality(Arrived(n)) >= EventLimit
       /\ \A i \in Arrived(n) \ {f} :
            log[i].capture # None => Cardinality(EventsOf(Child, f, i)) > EventLimit

(* It waits, with all of its events, for the hook that tells its agent.       *)
Waits(s, f, n) ==
    /\ s.events \in Seq(Nat) /\ Len(s.events) = Cardinality(Arrived(n)) /\ Len(s.events) < EventLimit
    /\ s.events # <<>> /\ s.events[1] = f
    /\ \A x \in 2..Len(s.events) : s.events[x] \in Arrived(n) \ {f}
    /\ \A i \in Arrived(n) \ {f} : log[i].kind # "start" /\ log[i].capture = None
    /\ s.parent # None
    /\ Expected(f) = (IF s.parent[1].process \in Range(Tail(at[Child])) THEN s.parent[1].span ELSE Alone)

Answers(s, f, n) ==
    IF s.route = None THEN scene.command /\ Waits(s, f, n)
    ELSE s.route = Expected(f) \/ (scene.command /\ TooLate(s, f, n) /\ s.route = Alone)

(* The child has a state once an event of it was dispatched: it waits, or it  *)
(* is decided, and established or worked on.                                  *)
ChildOK(st, p, l, w, n) ==
    /\ Arrived(n) = {} => st = None /\ p = None /\ l = None /\ w = None
    /\ Arrived(n) # {} => st # None \/ w # None
    /\ w = None /\ st # None => \/ p = st /\ st[1].route = None /\ l = None
                                \/ p = None /\ st[1].route # None /\ l # None
    /\ w # None => l = None /\ w[1].state.route # None
    /\ \A f \in 1..n : IsFirst(f) /\ Evident(f) =>
         Answers(IF w # None THEN w[1].state ELSE st[1], f, n)
ExactChild == ChildOK(stored, pending, link, work, next - 1)

(* A session begins with a start.                                             *)
StartsInv ==
    \A i \in 1..Len(log) :
      log[i].key \in Keys /\ (\A j \in 1..i - 1 : log[j].key # log[i].key) => log[i].kind = "start"

Undisturbed == FaultFree /\ faults.retires = 0
ExactInv ==
    /\ faults \in FaultCounts
    /\ StartsInv
    /\ Undisturbed => ExactRegistry /\ ExactChild
------------------------------------------------------------------------------
(* The registry.                                                              *)

(* What the log up to an event says of spans stays when more is captured.     *)
LEMMA SpansStay ==
    ASSUME LogGrows, NEW n \in 0..Len(log), NEW k
    PROVE  OpenIn(k, n)' = OpenIn(k, n) /\ SpansIn(k, n)' = SpansIn(k, n)
<1>1. SubSeq(log', 1, n) = SubSeq(log, 1, n)
    <2>1. /\ SubSeq(log', 1, n) = [i \in 1..n |-> log'[i]]
          /\ SubSeq(log, 1, n) = [i \in 1..n |-> log[i]]
        BY DEF LogGrows
    <2>2. \A i \in 1..n : log'[i] = log[i]
        BY DEF LogGrows
    <2> QED BY <2>1, <2>2
<1> QED BY <1>1 DEF OpenIn, SpansIn

(* A session of the next event has events.                                    *)
LEMMA HasEventsNext ==
    ASSUME NEW n \in Nat, NEW k
    PROVE  HasEvents(k, n + 1) <=> HasEvents(k, n) \/ log[n + 1].key = k
<1>1. \A i \in 1..n + 1 : i \in 1..n \/ i = n + 1
    OBVIOUS
<1>2. n + 1 \in 1..n + 1 /\ 1..n \subseteq 1..n + 1
    OBVIOUS
<1> QED BY <1>1, <1>2 DEF HasEvents

(* Nothing fails when nothing has failed.                                     *)
LEMMA FailuresNone ==
    ASSUME faults \in FaultCounts, NEW n \in Nat, Failures(n)
    PROVE  faults' \in FaultCounts /\ (Undisturbed' => n = 0 /\ Undisturbed)
<1>1. /\ faults' = [faults EXCEPT !.failures = @ + n]
      /\ faults.failures \in Nat /\ faults.crashes \in Nat /\ faults.retires \in Nat
    BY DEF Failures, FaultCounts
<1>2. PICK f \in Nat : f = faults.failures
    BY <1>1
<1>3. /\ faults' \in FaultCounts /\ faults'.failures = f + n
      /\ faults'.crashes = faults.crashes /\ faults'.retires = faults.retires
    BY <1>1, <1>2 DEF FaultCounts
<1>4. f + n = 0 => f = 0 /\ n = 0
    OBVIOUS
<1> QED BY <1>2, <1>3, <1>4 DEF Undisturbed, FaultFree

(* What is known of the sessions stays known.                                 *)
LEMMA RegistryGoesOn ==
    ASSUME LogGrows, scene' = scene, NEW n \in 0..Len(log), next' = n + 1,
           startup' = {}, waiting' = {}, exited' = {}, attached' = {k \in Keys : HasEvents(k, n)},
           NEW r, r = reg', ToldOK(r, n), NEW s, s = seen', SeenOK(r, n, s)
    PROVE  ExactRegistry'
<1>1. PICK x : x = next'
    OBVIOUS
<1>2. x - 1 = n
    BY <1>1
<1>3. next' - 1 = n
    BY <1>1, <1>2
<1>4. ToldOK(reg, next - 1)'
    BY ToldStays
<1>5. \A k \in Keys : HasEvents(k, n)' <=> HasEvents(k, n)
    BY DEF LogGrows, HasEvents
<1>6. ASSUME NEW k \in Keys
      PROVE  s[k] \in 0..n /\ SpansOf(r, k) = SpansIn(k, s[k])'
    <2>1. s[k] \in 0..n /\ SpansOf(r, k) = SpansIn(k, s[k]) /\ s[k] \in 0..Len(log)
        <3>1. s[k] \in 0..n
            BY DEF SeenOK
        <3> QED BY <3>1 DEF SeenOK
    <2>2. PICK m \in 0..Len(log) : m = s[k]
        BY <2>1
    <2>3. SpansIn(k, m)' = SpansIn(k, m)
        BY SpansStay
    <2> QED BY <2>1, <2>2, <2>3
<1>7. SeenOK(reg, next - 1, seen)'
    BY <1>3, <1>6 DEF SeenOK
<1>8. (attached = {k \in Keys : HasEvents(k, next - 1)})'
    BY <1>3, <1>5
<1> QED BY <1>4, <1>7, <1>8 DEF ExactRegistry

(* A capture, and what the child does, say nothing of the sessions.           *)
LEMMA RegistrySame ==
    ASSUME AncestryInv, ExactRegistry, LogGrows, UNCHANGED <<next, startup, parents, exited, scene>>
    PROVE  ExactRegistry'
<1>1. PICK n : n = next - 1
    OBVIOUS
<1>2. n \in 0..Len(log) /\ next' = n + 1
    BY <1>1 DEF AncestryInv, QueueInv, WorldInv
<1>3. /\ startup' = {} /\ waiting' = {} /\ exited' = {}
      /\ attached' = {k \in Keys : HasEvents(k, n)} /\ reg' = reg /\ seen' = seen
      /\ ToldOK(reg, n) /\ SeenOK(reg, n, seen)
    BY <1>1 DEF ExactRegistry, parents
<1> QED BY <1>2, <1>3, RegistryGoesOn

(* The worker dispatches the next event.                                      *)
LEMMA NextIsDispatched ==
    ASSUME AncestryInv, ExactRegistry, WorkerIsFree, Dispatched, NEW n, n = next - 1
    PROVE  /\ Upcoming = n + 1 /\ n \in Nat /\ n + 1 \in 1..Len(log) /\ n \in 0..Len(log)
           /\ n + 1 \in 0..Len(log) /\ next' = (n + 1) + 1 /\ startup' = {}
<1>1. startup = {} /\ next \in Nat \ {0} /\ Len(log) \in Nat
    BY DEF ExactRegistry, AncestryInv, QueueInv, WorldInv
<1>2. Upcoming = next /\ next \in 1..Len(log)
    BY <1>1, UpcomingIs DEF AncestryInv
<1>3. next' = next + 1 /\ startup' = {}
    BY <1>1 DEF Dispatched
<1> QED BY <1>1, <1>2, <1>3

(* Nothing was dispatched since of the spans of others.                       *)
LEMMA SeenNext ==
    ASSUME NEW n \in Nat, NEW r, NEW t, NEW s, SeenOK(r, n, s), t.tools = r.tools, t.span = r.span
    PROVE  SeenOK(t, n + 1, s)
<1>1. \A x \in 0..n : x \in 0..n + 1
    OBVIOUS
<1> QED BY <1>1 DEF SeenOK, SpansOf

(* A hook says nothing of spans.                                              *)
LEMMA TellsNoSpans ==
    ASSUME WorldInv, NEW n \in Nat, n + 1 \in 1..Len(log), NEW k \in Keys, NEW r \in Registry
    PROVE  LET t == ObserveSession(r, k, log[n + 1].capture, log[n + 1].kind = "start")
           IN  t.tools = r.tools /\ t.span = r.span
<1> DEFINE capture == log[n + 1].capture
           kind == log[n + 1].kind
           t == ObserveSession(r, k, capture, kind = "start")
<1>0. capture \in ProcessChains
    BY EventType DEF Events, ProcessChains
<1>1. \/ KnownAs(t, r, k, kind)
      \/ SettledAs(t, r, k, HookAgent(r, k, kind, capture)[1])
      \/ ComparesAs(t, r, k, kind, capture)
    BY <1>0, ObserveSessionIs, Zenon
<1> SUFFICES t.tools = r.tools /\ t.span = r.span
    OBVIOUS
<1> HIDE DEF t
<1> QED BY <1>1 DEF KnownAs, SettledAs, ComparesAs

(* A session's next event is dispatched.                                      *)
LEMMA DispatchParentExact ==
    ASSUME AncestryInv, ExactRegistry, DispatchParent
    PROVE  ExactRegistry'
<1>n. PICK n : n = next - 1
    OBVIOUS
<1> DEFINE k == log[n + 1].key
           t == ObserveSession(reg, k, log[n + 1].capture, log[n + 1].kind = "start")
<1>0. /\ WorkerIsFree /\ Dispatched /\ k \in attached
      /\ reg' = t
      /\ UNCHANGED <<log, attached, seen, waiting, exited, scene>>
    <2>1. WorkerIsFree /\ Dispatched
        BY DEF DispatchParent
    <2>2. Upcoming = n + 1
        BY <1>n, <2>1, NextIsDispatched
    <2> QED BY <2>1, <2>2, Zenon DEF DispatchParent, world
<1>1. /\ n \in Nat /\ n + 1 \in 1..Len(log) /\ n + 1 \in 0..Len(log)
      /\ next' = (n + 1) + 1 /\ startup' = {}
    BY <1>n, <1>0, NextIsDispatched
<1>2. k \in Keys /\ reg \in Registry /\ WorldInv
    BY <1>0 DEF AncestryInv, RegistryInv, RegistryOK
<1>3. ToldOK(reg, n) /\ SeenOK(reg, n, seen) /\ attached = {j \in Keys : HasEvents(j, n)}
    BY <1>n DEF ExactRegistry
<1>4. ToldOK(t, n + 1)
    BY <1>1, <1>2, <1>3, TellsAll
<1>5. t.tools = reg.tools /\ t.span = reg.span
    BY <1>1, <1>2, TellsNoSpans
<1> HIDE DEF t
<1>6. SeenOK(t, n + 1, seen)
    BY <1>1, <1>3, <1>5, SeenNext
<1>7. attached = {j \in Keys : HasEvents(j, n + 1)}
    BY <1>0, <1>1, <1>3, HasEventsNext
<1>8. LogGrows /\ waiting' = {} /\ exited' = {}
    BY <1>0 DEF LogGrows, AncestryInv, WorldInv, ExactRegistry
<1> HIDE DEF k
<1> QED BY <1>0, <1>1, <1>4, <1>6, <1>7, <1>8, RegistryGoesOn

(* A session gets a pipeline, which observes its history: none.               *)
LEMMA AttachParentExact ==
    ASSUME AncestryInv, ExactRegistry, AttachParent, faults \in FaultCounts, Undisturbed'
    PROVE  ExactRegistry'
<1>n. PICK n : n = next - 1
    OBVIOUS
<1> DEFINE k == log[n + 1].key
           observed == ObserveHistory(reg, k, SubSeq(log, 1, n))
           t == ObserveSession(observed, k, log[n + 1].capture, log[n + 1].kind = "start")
<1>0. /\ WorkerIsFree /\ Dispatched /\ k \notin attached \cup {Child}
      /\ attached' = attached \cup {k} /\ seen' = [seen EXCEPT ![k] = n]
      /\ reg' = t
      /\ \E failed \in BOOLEAN : Failures(IF failed THEN 1 ELSE 0)
                                 /\ waiting' = IF failed THEN waiting \cup {k} ELSE waiting
      /\ UNCHANGED <<log, exited, scene>>
    <2>1. WorkerIsFree /\ Dispatched
        BY DEF AttachParent
    <2>2. Upcoming = n + 1
        BY <1>n, <2>1, NextIsDispatched
    <2> QED BY <1>n, <2>1, <2>2, Zenon DEF AttachParent, world
<1>1. /\ n \in Nat /\ n + 1 \in 1..Len(log) /\ n \in 0..Len(log) /\ n + 1 \in 0..Len(log)
      /\ next' = (n + 1) + 1 /\ startup' = {}
    BY <1>n, <1>0, NextIsDispatched
<1>2. k \in Keys /\ reg \in Registry /\ WorldInv /\ seen \in [Keys -> Nat]
    BY <1>0, <1>1, EventType DEF AncestryInv, RegistryInv, RegistryOK
<1>3. ToldOK(reg, n) /\ SeenOK(reg, n, seen) /\ attached = {j \in Keys : HasEvents(j, n)}
    BY <1>n DEF ExactRegistry
<1>4. SpansIn(k, n) = NoSpans /\ SpansOf(reg, k) = NoSpans /\ SpansIn(k, n) \in Spans
    <2>1. log \in Seq(Events) /\ \A i \in 1..Len(log) : Worded(log[i])
        BY <1>2 DEF WorldInv
    <2>2. seen[k] \in 0..n /\ SpansOf(reg, k) = SpansIn(k, seen[k])
        BY <1>2, <1>3 DEF SeenOK
    <2>3. \A i \in 1..n : log[i].key # k
        BY <1>0, <1>2, <1>3 DEF HasEvents
    <2>4. \A x \in 0..n : SpansIn(k, x) = NoSpans
        <3> SUFFICES ASSUME NEW x \in 0..n PROVE SpansIn(k, x) = NoSpans
            OBVIOUS
        <3>1. x \in 0..Len(log) /\ 0 \in 0..Len(log) /\ \A i \in 0 + 1..x : log[i].key # k
            BY <1>1, <2>3
        <3>2. SpansIn(k, x) = SpansIn(k, 0)
            BY <1>2, <2>1, <3>1, SpansInWithout
        <3> QED BY <1>2, <2>1, <3>2, SpansInSteps
    <2> QED BY <1>1, <2>2, <2>4 DEF Spans, NoSpans
<1>5. observed = WithSpans(reg, k, SpansIn(k, n))
    BY <1>1, <1>2, <1>4, LogObserved DEF WorldInv
<1>6. /\ observed \in Registry
      /\ observed.agent = reg.agent /\ observed.sessions = reg.sessions
      /\ observed.unconfirmed = reg.unconfirmed
      /\ observed.opened = reg.opened /\ observed.retired = reg.retired
      /\ SpansOf(observed, k) = SpansIn(k, n)
      /\ \A j \in Keys : j # k => SpansOf(observed, j) = SpansOf(reg, j)
    <2> DEFINE spans == SpansIn(k, n)
               o == WithSpans(reg, k, spans)
    <2>1. spans \in Spans
        BY <1>4
    <2> HIDE DEF spans, k
    <2>2. /\ o \in Registry
          /\ o.agent = reg.agent /\ o.sessions = reg.sessions /\ o.unconfirmed = reg.unconfirmed
          /\ o.opened = reg.opened /\ o.retired = reg.retired
          /\ SpansOf(o, k) = spans /\ \A j \in Keys : j # k => SpansOf(o, j) = SpansOf(reg, j)
        BY <1>2, <2>1, WithSpansOnly
    <2>3. observed = o
        BY <1>5 DEF spans
    <2> QED BY <2>2, <2>3 DEF spans
<1> HIDE DEF observed
<1>7. ToldOK(observed, n)
    BY <1>3, <1>6, ToldOfAgents
<1>8. ToldOK(t, n + 1)
    BY <1>1, <1>2, <1>6, <1>7, TellsAll
<1>9. t.tools = observed.tools /\ t.span = observed.span
    BY <1>1, <1>2, <1>6, TellsNoSpans
<1> HIDE DEF t
<1> DEFINE s == [seen EXCEPT ![k] = n]
<1>10. SeenOK(observed, n, s)
    <2> HIDE DEF k
    <2>1. s[k] = n /\ \A j \in Keys : j # k => s[j] = seen[j]
        BY <1>2
    <2> HIDE DEF s
    <2> QED BY <1>1, <1>3, <1>6, <2>1 DEF SeenOK
<1>11. seen' = s
    BY <1>0
<1> HIDE DEF s
<1>12. SeenOK(t, n + 1, s)
    BY <1>1, <1>9, <1>10, SeenNext
<1>13. attached' = {j \in Keys : HasEvents(j, n + 1)}
    BY <1>0, <1>1, <1>2, <1>3, HasEventsNext
<1>14. waiting' = {}
    <2>1. PICK failed \in BOOLEAN : Failures(IF failed THEN 1 ELSE 0)
                                    /\ waiting' = IF failed THEN waiting \cup {k} ELSE waiting
        BY <1>0
    <2>2. ~failed
        BY <2>1, FailuresNone
    <2> QED BY <2>1, <2>2 DEF ExactRegistry
<1>15. LogGrows /\ exited' = {}
    BY <1>0 DEF LogGrows, AncestryInv, WorldInv, ExactRegistry
<1> HIDE DEF k
<1> QED BY <1>0, <1>1, <1>8, <1>11, <1>12, <1>13, <1>14, <1>15, RegistryGoesOn

(* A producer tells the registry of the next event.                           *)
LEMMA ObserveExact ==
    ASSUME AncestryInv, ExactRegistry, NEW k \in Keys, Observe(k), faults \in FaultCounts, Undisturbed'
    PROVE  ExactRegistry'
<1>n. PICK n : n = next - 1
    OBVIOUS
<1>1. /\ n \in Nat /\ n \in 0..Len(log) /\ next' = n + 1 /\ startup' = {}
      /\ UNCHANGED <<log, attached, exited, scene>>
    BY <1>n DEF Observe, ExactRegistry, AncestryInv, QueueInv, WorldInv, world
<1>2. /\ WorldInv /\ reg \in Registry /\ seen \in [Keys -> Nat]
      /\ log \in Seq(Events) /\ \A j \in 1..Len(log) : Worded(log[j]) /\ Len(log) \in Nat
    BY DEF AncestryInv, WorldInv, RegistryInv, RegistryOK
<1>3. ToldOK(reg, n) /\ SeenOK(reg, n, seen) /\ attached = {j \in Keys : HasEvents(j, n)}
    BY <1>n DEF ExactRegistry
<1>i. PICK i : i = Min(Unseen(k))
    OBVIOUS
<1> DEFINE observed == ObserveOps(reg, k, log[i])
<1>0. /\ Unseen(k) # {} /\ seen' = [seen EXCEPT ![k] = i] /\ reg' = observed
      /\ \E failed \in BOOLEAN : /\ failed => Failures(1)
                                 /\ waiting' = IF failed THEN waiting \cup {k} ELSE waiting
    <2> HIDE DEF observed
    <2>1. \A failed \in {FALSE, observed # reg} :
            ((IF observed = reg THEN UNCHANGED <<snapshots, faults>>
              ELSE Persist(k, Snapshot(observed, k, FALSE), failed)) /\ failed)
            => Failures(1)
        BY DEF Persist
    <2> QED BY <1>i, <2>1, Zenon DEF Observe, observed
<1>4. /\ i \in 1..n /\ i \in 1..Len(log) /\ log[i].key = k /\ i > seen[k]
      /\ \A j \in seen[k] + 1..i - 1 : log[j].key # k
    <2>1. Unseen(k) \in SUBSET Nat /\ i \in Unseen(k) /\ \A y \in Unseen(k) : i <= y
        BY <1>0, <1>i, UnseenIs, Least
    <2>2. i \in 1..n /\ i \in 1..Len(log) /\ log[i].key = k /\ i > seen[k]
        BY <1>n, <2>1, UnseenIs
    <2>3. ASSUME NEW j \in seen[k] + 1..i - 1, log[j].key = k PROVE FALSE
        <3>1. j \in seen[k] + 1..n /\ ~(i <= j)
            BY <1>1, <1>2, <2>2
        <3>2. j \in Unseen(k)
            BY <1>n, <2>3, <3>1 DEF Unseen, EventsOf
        <3> QED BY <2>1, <3>1, <3>2
    <2> QED BY <2>2, <2>3
<1>5. /\ SpansAfter(SpansOf(reg, k), log[i]) = SpansIn(k, i)
      /\ SpansIn(k, i) \in Spans
    <2>1. SpansOf(reg, k) = SpansIn(k, seen[k]) /\ seen[k] \in 0..n
        BY <1>3 DEF SeenOK
    <2>2. seen[k] \in 0..Len(log) /\ i - 1 \in seen[k]..Len(log)
        BY <1>1, <1>2, <1>4, <2>1
    <2>3. SpansIn(k, i - 1) = SpansIn(k, seen[k])
        BY <1>2, <1>4, <2>2, SpansInWithout
    <2>4. SpansIn(k, i) = SpansStep(SpansIn(k, i - 1), k, log[i]) /\ i \in 0..Len(log)
        BY <1>2, <1>4, SpansInSteps
    <2>5. SpansIn(k, i) \in Spans
        BY <1>2, <2>4, SpansInSteps
    <2> QED BY <1>4, <2>1, <2>3, <2>4, <2>5 DEF SpansStep
<1>6. observed = WithSpans(reg, k, SpansIn(k, i))
    BY <1>5 DEF ObserveOps
<1>7. /\ observed.agent = reg.agent /\ observed.sessions = reg.sessions
      /\ observed.unconfirmed = reg.unconfirmed
      /\ observed.opened = reg.opened /\ observed.retired = reg.retired
      /\ SpansOf(observed, k) = SpansIn(k, i)
      /\ \A j \in Keys : j # k => SpansOf(observed, j) = SpansOf(reg, j)
    <2> DEFINE spans == SpansIn(k, i)
               o == WithSpans(reg, k, spans)
    <2>1. spans \in Spans
        BY <1>5
    <2> HIDE DEF spans
    <2>2. /\ o.agent = reg.agent /\ o.sessions = reg.sessions /\ o.unconfirmed = reg.unconfirmed
          /\ o.opened = reg.opened /\ o.retired = reg.retired
          /\ SpansOf(o, k) = spans /\ \A j \in Keys : j # k => SpansOf(o, j) = SpansOf(reg, j)
        BY <1>2, <2>1, WithSpansOnly
    <2>3. observed = o
        BY <1>6 DEF spans
    <2> QED BY <2>2, <2>3 DEF spans
<1> HIDE DEF observed
<1>8. ToldOK(observed, n)
    BY <1>3, <1>7, ToldOfAgents
<1> DEFINE s == [seen EXCEPT ![k] = i]
<1>9. SeenOK(observed, n, s)
    <2>1. s[k] = i /\ \A j \in Keys : j # k => s[j] = seen[j]
        BY <1>2
    <2>2. i \in 0..n
        BY <1>4
    <2> HIDE DEF s
    <2> QED BY <1>3, <1>7, <2>1, <2>2 DEF SeenOK
<1>10. seen' = s
    BY <1>0
<1> HIDE DEF s
<1>11. waiting' = {}
    <2>1. PICK failed \in BOOLEAN : /\ failed => Failures(1)
                                    /\ waiting' = IF failed THEN waiting \cup {k} ELSE waiting
        BY <1>0
    <2>2. ~failed
        BY <2>1, FailuresNone
    <2> QED BY <2>1, <2>2 DEF ExactRegistry
<1>12. LogGrows /\ exited' = {}
    BY <1>1, <1>2 DEF LogGrows, ExactRegistry
<1> QED BY <1>0, <1>1, <1>3, <1>8, <1>9, <1>10, <1>11, <1>12, RegistryGoesOn

(* So are those of the child.                                                 *)
LEMMA DispatchChildRegistry ==
    ASSUME AncestryInv, ExactRegistry, DispatchChild
    PROVE  ExactRegistry'
<1>n. PICK n : n = next - 1
    OBVIOUS
<1>0. /\ WorkerIsFree /\ Dispatched /\ log[Upcoming].key = Child
      /\ UNCHANGED parents /\ UNCHANGED <<log, exited, scene>>
    BY Zenon DEF DispatchChild, world
<1>1. /\ n \in Nat /\ n + 1 \in 1..Len(log) /\ n + 1 \in 0..Len(log) /\ Upcoming = n + 1
      /\ next' = (n + 1) + 1 /\ startup' = {}
    BY <1>n, <1>0, NextIsDispatched
<1>2. log[n + 1].key = Child
    BY <1>0, <1>1
<1>3. ToldOK(reg, n) /\ SeenOK(reg, n, seen) /\ attached = {j \in Keys : HasEvents(j, n)}
    BY <1>n DEF ExactRegistry
<1>4. ToldOK(reg, n + 1)
    BY <1>1, <1>2, <1>3, TellsNothing
<1>5. SeenOK(reg, n + 1, seen)
    BY <1>1, <1>3, SeenNext
<1>6. attached = {j \in Keys : HasEvents(j, n + 1)}
    BY <1>1, <1>2, <1>3, HasEventsNext, ChildAssumption
<1>7. /\ LogGrows /\ waiting' = {} /\ exited' = {}
      /\ reg' = reg /\ seen' = seen /\ attached' = attached /\ scene' = scene
    BY <1>0 DEF LogGrows, AncestryInv, WorldInv, ExactRegistry, parents
<1> QED BY <1>1, <1>4, <1>5, <1>6, <1>7, RegistryGoesOn

(* As long as nothing fails, crashes or retires, nothing else disturbs it.    *)
LEMMA ExactRegistryNext ==
    ASSUME AncestryInv, ExactRegistry, faults \in FaultCounts, Undisturbed', [Next]_vars
    PROVE  ExactRegistry'
<1>0. LogGrows \/ ~(UNCHANGED log)
    BY DEF LogGrows, AncestryInv, WorldInv
<1>1. ASSUME NEW k \in Keys, NEW kind \in {"start", "other", "end"}, CaptureParent(k, kind, None)
      PROVE  ExactRegistry'
    <2>1. LogGrows
        BY <1>1, CaptureAncestry
    <2> QED BY <1>1, <2>1, RegistrySame DEF CaptureParent
<1>2. ASSUME NEW k \in Keys, NEW kind \in {"open", "close"}, NEW tool \in Tools, CaptureParent(k, kind, tool)
      PROVE  ExactRegistry'
    <2>1. LogGrows
        BY <1>2, CaptureAncestry
    <2> QED BY <1>2, <2>1, RegistrySame DEF CaptureParent
<1>3. ASSUME NEW kind \in {"start", "other"}, CaptureChild(kind)
      PROVE  ExactRegistry'
    <2>1. LogGrows
        BY <1>3, CaptureAncestry
    <2> QED BY <1>3, <2>1, RegistrySame DEF CaptureChild, world
<1>4. CASE \/ Save \/ DeliverFirst \/ FinishFails \/ Expire \/ UNCHANGED vars
           \/ \E forced \in {FALSE, scene.forced} : ResolvePending(forced)
    <2>1. UNCHANGED <<log, scene, next, startup, exited>> /\ UNCHANGED parents
        BY <1>4 DEF Save, DeliverFirst, FinishFails, Expire, ResolvePending, world, vars, parents
    <2> QED BY <1>0, <2>1, RegistrySame
<1>5. CASE \E k \in Keys : SaveSnapshot(k) \/ Retire(k) \/ Exit(k)
    <2>1. PICK k \in Keys : SaveSnapshot(k) \/ Retire(k) \/ Exit(k)
        BY <1>5
    <2>2. ~SaveSnapshot(k) /\ ~Exit(k)
        BY DEF SaveSnapshot, Exit, ExactRegistry, ToldOK
    <2>3. ~Retire(k)
        <3> SUFFICES ASSUME Retire(k) PROVE FALSE
            OBVIOUS
        <3>1. faults' = [faults EXCEPT !.retires = @ + 1]
            BY DEF Retire
        <3>2. faults'.retires = faults.retires + 1 /\ faults.retires \in Nat
            BY <3>1 DEF FaultCounts
        <3>3. faults'.retires # 0
            BY <3>2
        <3> QED BY <3>3 DEF Undisturbed
    <2> QED BY <2>1, <2>2, <2>3
<1>6. CASE FindExited \/ PruneRetired
    BY <1>6 DEF FindExited, PruneRetired, Exited, ExactRegistry, ToldOK
<1>7. CASE Restart
    <2>1. faults' = [faults EXCEPT !.crashes = @ + 1]
        BY <1>7 DEF Restart
    <2>2. faults'.crashes = faults.crashes + 1 /\ faults.crashes \in Nat
        BY <2>1 DEF FaultCounts
    <2>3. faults'.crashes # 0
        BY <2>2
    <2> QED BY <2>3 DEF Undisturbed, FaultFree
<1> QED BY <1>1, <1>2, <1>3, <1>4, <1>5, <1>6, <1>7, DispatchParentExact, AttachParentExact,
       ObserveExact, DispatchChildRegistry DEF Next

------------------------------------------------------------------------------
(* Faults; how sessions begin.                                                *)

(* Faults are counted, and never forgotten.                                   *)
LEMMA FaultsNext ==
    ASSUME faults \in FaultCounts, [Next]_vars
    PROVE  faults' \in FaultCounts /\ (Undisturbed' => Undisturbed)
<1>1. CASE faults' = faults
    BY <1>1 DEF Undisturbed, FaultFree
<1>2. CASE \E n \in {0, 1, 2} : Failures(n)
    BY <1>2, FailuresNone
<1>w. ASSUME NEW s, NEW n \in {0, 1}, Write(s, n) PROVE \E m \in {0, 1, 2} : Failures(m)
    BY <1>w DEF Write
<1>p. ASSUME NEW k, NEW s, NEW failed, Persist(k, s, failed) PROVE \E m \in {0, 1, 2} : Failures(m)
    BY <1>p DEF Persist
<1>3. CASE DispatchParent \/ AttachParent
    <2>1. faults' = faults \/ \E n \in {0, 1, 2} : Failures(n)
        <3>1. CASE DispatchParent
            <4>1. \/ \E k, s, failed : Persist(k, s, failed)
                  \/ UNCHANGED <<snapshots, faults>>
                BY <3>1, Zenon DEF DispatchParent
            <4> QED BY <1>p, <4>1
        <3>2. CASE AttachParent
            <4>1. \E failed : Failures(IF failed THEN 1 ELSE 0)
                BY <3>2, Zenon DEF AttachParent
            <4> QED BY <4>1
        <3> QED BY <1>3, <3>1, <3>2
    <2> QED BY <1>1, <1>2, <2>1
<1>4. CASE \E k \in Keys : Observe(k) \/ SaveSnapshot(k)
    <2>1. faults' = faults \/ \E k, s, failed : Persist(k, s, failed)
        BY <1>4, Zenon DEF Observe, SaveSnapshot
    <2> QED BY <1>1, <1>2, <1>p, <2>1
<1>5. CASE DispatchChild
    <2>1. faults' = faults \/ (\E s : Hold(s, 0)) \/ (\E s : Hold(s, 1))
        BY <1>5, Zenon DEF DispatchChild, Finish
    <2> QED BY <1>1, <1>2, <1>w, <2>1 DEF Hold
<1>6. CASE FinishFails
    <2>1. \E s : Write(s, 1)
        BY <1>6, Zenon DEF FinishFails
    <2> QED BY <1>2, <1>w, <2>1
<1>7. CASE \E k \in Keys : Retire(k)
    <2>1. faults' = [faults EXCEPT !.retires = @ + 1]
        BY <1>7 DEF Retire
    <2>2. PICK x \in Nat : x = faults.retires
        BY DEF FaultCounts
    <2>3. faults' \in FaultCounts /\ faults'.retires = x + 1 /\ x + 1 # 0
        BY <2>1, <2>2 DEF FaultCounts
    <2> QED BY <2>3 DEF Undisturbed
<1>8. CASE Restart
    <2>1. faults' = [faults EXCEPT !.crashes = @ + 1]
        BY <1>8 DEF Restart
    <2>2. PICK x \in Nat : x = faults.crashes
        BY DEF FaultCounts
    <2>3. faults' \in FaultCounts /\ faults'.crashes = x + 1 /\ x + 1 # 0
        BY <2>1, <2>2 DEF FaultCounts
    <2> QED BY <2>3 DEF Undisturbed, FaultFree
<1>9. CASE \/ \E k \in Keys, kind \in {"start", "other", "end"} : CaptureParent(k, kind, None)
           \/ \E k \in Keys, kind \in {"open", "close"}, tool \in Tools : CaptureParent(k, kind, tool)
           \/ \E kind \in {"start", "other"} : CaptureChild(kind)
           \/ \E k \in Keys : Exit(k)
           \/ Save \/ DeliverFirst \/ Expire
           \/ \E forced \in {FALSE, scene.forced} : ResolvePending(forced)
           \/ FindExited \/ PruneRetired \/ UNCHANGED vars
    <2>1. faults' = faults
        BY <1>9 DEF CaptureParent, CaptureChild, Exit, Save, DeliverFirst, Expire, ResolvePending,
           Finish, FindExited, PruneRetired, vars
    <2> QED BY <1>1, <2>1
<1> QED BY <1>3, <1>4, <1>5, <1>6, <1>7, <1>8, <1>9 DEF Next

(* Only a start can be the first event of a session: the others are events of *)
(* what it began.                                                             *)
LEMMA StartsFirst ==
    ASSUME AncestryInv, NEW k \in Keys, NEW kind, NEW tool, CaptureParent(k, kind, tool),
           \A i \in 1..Len(log) : log[i].key # k
    PROVE  kind = "start"
<1>1. log \in Seq(Events) /\ (\A i \in 1..Len(log) : Worded(log[i])) /\ Len(log) \in Nat
    BY DEF AncestryInv, WorldInv
<1>2. SpansIn(k, Len(log)) = NoSpans
    <2>1. 0 \in 0..Len(log) /\ Len(log) \in 0..Len(log) /\ \A i \in 0 + 1..Len(log) : log[i].key # k
        BY <1>1
    <2>2. SpansIn(k, Len(log)) = SpansIn(k, 0)
        BY <1>1, <2>1, SpansInWithout
    <2> QED BY <1>1, <2>2, SpansInSteps
<1>3. OpenIn(k, Len(log)).span[k] = "none" /\ OpenIn(k, Len(log)).tools[k] = {}
    BY <1>2 DEF SpansIn, SpansOf, NoSpans
<1> QED BY <1>3, Zenon DEF CaptureParent

(* Every step keeps how sessions begin.                                       *)
LEMMA StartsNext ==
    ASSUME AncestryInv, StartsInv, [Next]_vars
    PROVE  StartsInv'
<1>l. log \in Seq(Events) /\ Len(log) \in Nat
    BY DEF AncestryInv, WorldInv
<1>1. ASSUME NEW key \in Keys \cup {Child}, NEW kind, NEW tool, NEW capture,
             Capture(key, kind, tool, capture), LogGrows,
             key \in Keys /\ (\A i \in 1..Len(log) : log[i].key # key) => kind = "start"
      PROVE  StartsInv'
    <2> DEFINE e == [key |-> key, kind |-> kind, tool |-> tool, capture |-> capture]
    <2>n. PICK n \in Nat : n = Len(log) + 1
        BY <1>l
    <2>1. log' = Append(log, e) /\ e.key = key /\ e.kind = kind
        BY <1>1 DEF Capture
    <2> HIDE DEF e
    <2>2. Len(log') = n /\ (\A i \in 1..Len(log) : log'[i] = log[i]) /\ log'[n] = e
        BY <1>l, <2>n, <2>1
    <2>3. ASSUME NEW i \in 1..n, log'[i].key \in Keys, \A j \in 1..i - 1 : log'[j].key # log'[i].key
          PROVE  log'[i].kind = "start"
        <3>1. CASE i = n
            <4>1. \A j \in 1..Len(log) : log[j].key # key
                <5>1. \A j \in 1..Len(log) : j \in 1..i - 1
                    BY <1>l, <2>n, <3>1
                <5> QED BY <2>1, <2>2, <2>3, <3>1, <5>1
            <4> QED BY <1>1, <2>1, <2>2, <2>3, <3>1, <4>1
        <3>2. CASE i # n
            <4>1. i \in 1..Len(log) /\ \A j \in 1..i - 1 : j \in 1..Len(log)
                BY <1>l, <2>n, <3>2
            <4> QED BY <2>2, <2>3, <4>1 DEF StartsInv
        <3> QED BY <3>1, <3>2
    <2> QED BY <2>2, <2>3 DEF StartsInv
<1>2. ASSUME NEW k \in Keys, NEW kind, NEW tool, CaptureParent(k, kind, tool), LogGrows
      PROVE  StartsInv'
    <2>1. \E capture : Capture(k, kind, tool, capture)
        BY <1>2, Zenon DEF CaptureParent
    <2>2. (\A i \in 1..Len(log) : log[i].key # k) => kind = "start"
        BY <1>2, StartsFirst
    <2> QED BY <1>1, <1>2, <2>1, <2>2
<1>3. ASSUME NEW k \in Keys, NEW kind \in {"start", "other", "end"}, CaptureParent(k, kind, None)
      PROVE  StartsInv'
    BY <1>2, <1>3, CaptureAncestry
<1>4. ASSUME NEW k \in Keys, NEW kind \in {"open", "close"}, NEW tool \in Tools, CaptureParent(k, kind, tool)
      PROVE  StartsInv'
    BY <1>2, <1>4, CaptureAncestry
<1>5. ASSUME NEW kind \in {"start", "other"}, CaptureChild(kind)
      PROVE  StartsInv'
    <2>1. \E capture : Capture(Child, kind, None, capture)
        BY <1>5, Zenon DEF CaptureChild
    <2>2. Child \notin Keys
        BY ChildAssumption
    <2>3. LogGrows
        BY <1>5, CaptureAncestry
    <2> QED BY <1>1, <2>1, <2>2, <2>3
<1>6. CASE UNCHANGED log
    BY <1>6 DEF StartsInv
<1>7. \/ \E k \in Keys, kind \in {"start", "other", "end"} : CaptureParent(k, kind, None)
      \/ \E k \in Keys, kind \in {"open", "close"}, tool \in Tools : CaptureParent(k, kind, tool)
      \/ \E kind \in {"start", "other"} : CaptureChild(kind)
      \/ UNCHANGED log
    <2>1. CASE \/ DispatchParent \/ AttachParent \/ FindExited \/ PruneRetired
               \/ \E k \in Keys : Observe(k) \/ SaveSnapshot(k) \/ Retire(k) \/ Exit(k)
               \/ UNCHANGED vars
        BY <2>1 DEF DispatchParent, AttachParent, FindExited, PruneRetired, Observe, SaveSnapshot,
           Retire, Exit, vars
    <2>2. CASE \/ DispatchChild \/ Save \/ DeliverFirst \/ FinishFails \/ Expire \/ Restart
               \/ \E forced \in {FALSE, scene.forced} : ResolvePending(forced)
        BY <2>2 DEF DispatchChild, Save, DeliverFirst, FinishFails, Expire, ResolvePending, Restart
    <2> QED BY <2>1, <2>2 DEF Next
<1> QED BY <1>3, <1>4, <1>5, <1>6, <1>7

------------------------------------------------------------------------------
(* What the log says of a child's parent.                                     *)

(* A session that has begun, has a last start.                                *)
LEMMA LastStart ==
    ASSUME WorldInv, StartsInv, NEW f \in 1..Len(log), NEW k \in Begun(f)
    PROVE  LET T == {i \in EventsOf(k, 1, f - 1) : log[i].kind = "start"}
           IN  /\ Max(T) \in 1..f - 1
               /\ Begins(k, Max(T), f - 1)
               /\ Generation(k, f) = Hooks(k, Max(T), f - 1)
<1> DEFINE T == {i \in EventsOf(k, 1, f - 1) : log[i].kind = "start"}
           E == EventsOf(k, 1, f - 1)
<1>0. Len(log) \in Nat /\ f \in Nat /\ f - 1 \in Nat /\ f - 1 <= Len(log)
    BY DEF WorldInv
<1>1. k \in Keys /\ E # {}
    BY DEF Begun
<1>2. E \in SUBSET Nat /\ \A i \in E : i \in 1..f - 1 /\ i \in 1..Len(log) /\ log[i].key = k
    BY <1>0 DEF EventsOf
<1>3. Min(E) \in E /\ \A y \in E : Min(E) <= y
    <2> HIDE DEF E
    <2> QED BY <1>1, <1>2, Least
<1>4. Min(E) \in T
    <2>1. PICK m : m = Min(E)
        OBVIOUS
    <2>2. m \in 1..f - 1 /\ m \in 1..Len(log) /\ log[m].key = k
        BY <1>2, <1>3, <2>1
    <2>3. ASSUME NEW j \in 1..m - 1, log[j].key = k PROVE FALSE
        <3>1. j \in E /\ ~(m <= j)
            BY <1>0, <2>2, <2>3 DEF EventsOf
        <3> QED BY <1>3, <2>1, <3>1
    <2>4. log[m].kind = "start"
        BY <1>1, <2>2, <2>3 DEF StartsInv
    <2> QED BY <1>3, <2>1, <2>4
<1>5. Max(T) \in T /\ \A y \in T : Max(T) >= y
    <2>1. T \in SUBSET (0..f - 1) /\ T # {}
        BY <1>2, <1>4
    <2> HIDE DEF T
    <2> QED BY <1>0, <2>1, Greatest
<1>6. PICK s : s = Max(T)
    OBVIOUS
<1>7. s \in 1..f - 1 /\ log[s].key = k /\ log[s].kind = "start"
    BY <1>2, <1>5, <1>6
<1>8. Continues(k, s + 1, f - 1)
    <2> SUFFICES ASSUME NEW i \in s + 1..f - 1, log[i].key = k, log[i].kind = "start" PROVE FALSE
        BY DEF Continues
    <2>1. i \in T /\ ~(s >= i)
        BY <1>0, <1>7 DEF EventsOf
    <2> QED BY <1>5, <1>6, <2>1
<1>9. Generation(k, f) = Hooks(k, s, f - 1)
    <2>1. Generation(k, f) = {i \in EventsOf(k, s, f - 1) : log[i].capture # None}
        BY <1>6 DEF Generation
    <2> QED BY <2>1 DEF EventsOf, Hooks
<1> HIDE DEF T
<1>10. Max(T) \in 1..f - 1 /\ Begins(k, Max(T), f - 1) /\ Generation(k, f) = Hooks(k, Max(T), f - 1)
    BY <1>6, <1>7, <1>8, <1>9 DEF Begins
<1> QED BY <1>10 DEF T

(* Enough evidence tells an agent of the session.                             *)
LEMMA AgentIsTold ==
    ASSUME WorldInv, LogInv, StartsInv, NEW f \in 1..Len(log), Evident(f), NEW k \in Begun(f),
           NEW r \in Registry, ToldOK(r, f - 1)
    PROVE  /\ r.agent[k] = {AgentAt(k, f)} /\ AgentAt(k, f) \in AgentsOf(k)
           /\ Min(Generation(k, f)) \in 1..f - 1
<1>0. Len(log) \in Nat /\ f \in Nat /\ f - 1 \in Nat /\ f - 1 <= Len(log) /\ k \in Keys /\ k # Child
    BY ChildAssumption DEF WorldInv, Begun
<1>1. PICK s \in 1..f - 1 : Begins(k, s, f - 1) /\ Generation(k, f) = Hooks(k, s, f - 1)
    BY LastStart
<1>2. s \in 1..Len(log) /\ log[s].key = k
    BY <1>0, <1>1 DEF Begins
<1>3. PICK chain \in Chains[k] : RunsIn(s, chain)
    BY <1>0, <1>2 DEF LogInv
<1>4. CapturedIn(k, s, f - 1, chain)
    <2> SUFFICES ASSUME NEW i \in Hooks(k, s, f - 1) PROVE log[i].capture = Hook(k, i, chain)
        BY DEF CapturedIn
    <2>1. i \in s..f - 1 /\ log[i].key = k /\ log[i].capture # None
        BY DEF Hooks
    <2>2. i \in s..Len(log)
        BY <1>0, <2>1
    <2>3. Continues(k, s + 1, i)
        <3>1. \A x \in s + 1..i : x \in s + 1..f - 1
            BY <1>0, <1>2, <2>1
        <3> QED BY <1>1, <3>1 DEF Begins, Continues
    <2> QED BY <1>2, <1>3, <2>1, <2>2, <2>3 DEF RunsIn
<1> DEFINE H == Hooks(k, s, f - 1)
<1>5. H # {} /\ (k \in Command => \E i, j \in H : i # j)
    <2>1. Cardinality(H) >= (IF k \in Command THEN 2 ELSE 1)
        BY <1>1 DEF Evident
    <2>2. IsFiniteSet(H)
        <3>1. IsFiniteSet(s..f - 1) /\ H \subseteq s..f - 1
            BY <1>0, <1>2, FS_Interval DEF Hooks
        <3> QED BY <3>1, FS_Subset
    <2> HIDE DEF H
    <2>3. H # {}
        <3> SUFFICES ASSUME H = {} PROVE FALSE
            OBVIOUS
        <3>1. Cardinality(H) = 0
            BY FS_EmptySet
        <3>2. ~(0 >= 1) /\ ~(0 >= 2)
            OBVIOUS
        <3> QED BY <2>1, <3>1, <3>2
    <2>4. ASSUME k \in Command, \A i, j \in H : i = j PROVE FALSE
        <3>1. PICK x \in H : H = {x}
            BY <2>3, <2>4
        <3>2. Cardinality(H) = 1
            BY <3>1, FS_Singleton
        <3>3. ~(1 >= 2)
            OBVIOUS
        <3> QED BY <2>1, <2>4, <3>2, <3>3
    <2> QED BY <2>3, <2>4
<1>6. k \notin r.opened /\ r.agent[k] = {chain[1]}
    <2>1. Told(r, k, s, f - 1)
        BY <1>0, <1>1 DEF ToldOK
    <2> QED BY <1>3, <1>4, <1>5, <2>1 DEF Told
<1>7. Min(H) \in H /\ Min(H) \in 1..f - 1
    <2>1. H \in SUBSET Nat /\ \A i \in H : i \in 1..f - 1
        BY <1>0, <1>1 DEF Hooks
    <2> HIDE DEF H
    <2> QED BY <1>5, <2>1, Least
<1>8. AgentAt(k, f) = chain[1]
    <2>1. PICK m : m = Min(H)
        OBVIOUS
    <2>2. log[m].capture = Hook(k, m, chain)
        BY <1>4, <1>7, <2>1 DEF CapturedIn
    <2>3. AgentAt(k, f) = IF k \in Command THEN log[m].capture[2] ELSE log[m].capture[1]
        BY <1>1, <2>1 DEF AgentAt
    <2>4. chain \in Seq(Processes) /\ chain # <<>>
        BY <1>3, <1>0, ChainsAreChains DEF AgentChain
    <2>5. (<<99 + m>> \o chain)[2] = chain[1]
        <3>1. Len(chain) \in Nat \ {0} /\ m \in Nat
            BY <1>7, <2>1, <2>4
        <3> QED BY <2>4, <3>1
    <2> QED BY <1>0, <2>2, <2>3, <2>5 DEF Hook, RunsCommands
<1> QED BY <1>1, <1>3, <1>6, <1>7, <1>8 DEF AgentsOf

(* What is known of the child's parent stays known when more is captured.     *)
LEMMA EvidenceStays ==
    ASSUME WorldInv, StartsInv, LogGrows, scene' = scene, at'[Child] = at[Child], NEW f \in 1..Len(log)
    PROVE  /\ IsFirst(f)' <=> IsFirst(f)
           /\ Evident(f)' <=> Evident(f)
           /\ Evident(f) => Expected(f)' = Expected(f)
<1>0. /\ Len(log) \in Nat /\ f \in Nat /\ f - 1 \in Nat /\ f - 1 \in 0..Len(log)
      /\ \A i \in 1..f : log'[i] = log[i] /\ i \in 1..Len(log)
    BY DEF WorldInv, LogGrows
<1>1. IsFirst(f)' <=> IsFirst(f)
    <2>1. f \in 1..f /\ \A i \in 1..f - 1 : i \in 1..f
        BY <1>0
    <2> QED BY <1>0, <2>1 DEF IsFirst
<1>2. ASSUME NEW k, NEW a \in Nat \ {0} PROVE EventsOf(k, a, f - 1)' = EventsOf(k, a, f - 1)
    <2>1. \A i \in a..f - 1 : i \in 1..f
        BY <1>0
    <2> QED BY <1>0, <2>1 DEF EventsOf
<1>3. Begun(f)' = Begun(f)
    <2>1. \A k : EventsOf(k, 1, f - 1)' = EventsOf(k, 1, f - 1)
        BY <1>2
    <2> QED BY <2>1 DEF Begun
<1>4. ASSUME NEW k \in Begun(f) PROVE Generation(k, f)' = Generation(k, f)
    <2> DEFINE T == {i \in EventsOf(k, 1, f - 1) : log[i].kind = "start"}
    <2>1. Max(T) \in 1..f - 1
        BY LastStart
    <2>2. T' = T
        <3>1. EventsOf(k, 1, f - 1)' = EventsOf(k, 1, f - 1)
            BY <1>2
        <3>2. \A i \in EventsOf(k, 1, f - 1) : log'[i] = log[i]
            BY <1>0 DEF EventsOf
        <3> QED BY <3>1, <3>2
    <2>m. PICK m : m = Max(T)
        OBVIOUS
    <2>3. /\ Generation(k, f) = {i \in m..f - 1 : log[i].key = k /\ log[i].capture # None}
          /\ Generation(k, f)' = {i \in m..f - 1 : log'[i].key = k /\ log'[i].capture # None}
        <3>1. Generation(k, f) = {i \in EventsOf(k, Max(T), f - 1) : log[i].capture # None}
            BY Zenon DEF Generation
        <3>2. (Generation(k, f) = {i \in EventsOf(k, Max(T), f - 1) : log[i].capture # None})'
            BY Zenon DEF Generation
        <3> HIDE DEF T
        <3>3. Max(T)' = m
            BY <2>2, <2>m
        <3>4. Generation(k, f)' = {i \in {i \in m..f - 1 : log'[i].key = k} : log'[i].capture # None}
            BY <3>2, <3>3 DEF EventsOf
        <3> QED BY <2>m, <3>1, <3>4 DEF EventsOf
    <2> HIDE DEF T
    <2>5. m \in Nat \ {0} /\ \A i \in m..f - 1 : i \in 1..f
        BY <1>0, <2>1, <2>m
    <2> QED BY <1>0, <2>3, <2>5
<1>5. Evident(f)' <=> Evident(f)
    <2>1. log'[f] = log[f]
        BY <1>0
    <2> QED BY <1>3, <1>4, <2>1 DEF Evident
<1>6. ASSUME Evident(f) PROVE Expected(f)' = Expected(f)
    <2>1. ASSUME NEW k \in Begun(f) PROVE AgentAt(k, f)' = AgentAt(k, f)
        <3>1. PICK G : G = Generation(k, f)
            OBVIOUS
        <3>2. G \in SUBSET Nat /\ \A i \in G : i \in 1..f
            <4>1. PICK s \in 1..f - 1 : G = Hooks(k, s, f - 1)
                BY <3>1, LastStart
            <4> QED BY <1>0, <4>1 DEF Hooks
        <3>3. G # {}
            <4>1. Cardinality(G) >= (IF k \in Command THEN 2 ELSE 1)
                BY <1>6, <3>1 DEF Evident
            <4> SUFFICES ASSUME G = {} PROVE FALSE
                OBVIOUS
            <4>2. Cardinality(G) = 0
                BY FS_EmptySet
            <4>3. ~(0 >= 1) /\ ~(0 >= 2)
                OBVIOUS
            <4> QED BY <4>1, <4>2, <4>3
        <3>4. Min(G) \in G
            BY <3>2, <3>3, Least
        <3>5. log'[Min(G)] = log[Min(G)]
            BY <1>0, <3>2, <3>4
        <3>6. Generation(k, f)' = G
            BY <1>4, <3>1
        <3> QED BY <3>1, <3>5, <3>6 DEF AgentAt
    <2>2. \A k : OpenIn(k, f - 1)' = OpenIn(k, f - 1)
        BY <1>0, SpansStay
    <2> DEFINE agents == {i \in DOMAIN at[Child] : /\ scene.command \/ i > 1
                                                   /\ \E k \in Begun(f) : AgentAt(k, f) = at[Child][i]}
               nearest == CHOOSE i \in agents : \A j \in agents : i <= j
               open == {k \in Begun(f) : AgentAt(k, f) = at[Child][nearest]
                                         /\ SessionIsOpen(OpenIn(k, f - 1), k)}
               spans == UNION {ParentSpan(OpenIn(k, f - 1), k) : k \in open \cap Compatible}
               route == IF agents = {} \/ nearest = 1 THEN Alone
                        ELSE IF Cardinality({Native[k] : k \in open}) = 1 /\ Cardinality(spans) = 1
                        THEN CHOOSE span \in spans : TRUE ELSE Alone
    <2>3. agents' = agents
        BY <1>3, <2>1
    <2>4. nearest' = nearest
        <3> HIDE DEF agents
        <3> QED BY <2>3
    <2>5. open' = open
        <3> HIDE DEF nearest
        <3> QED BY <1>3, <2>1, <2>2, <2>4
    <2>6. spans' = spans
        <3> HIDE DEF open
        <3> QED BY <2>2, <2>5
    <2>7. Expected(f) = route /\ Expected(f)' = route'
        BY Zenon DEF Expected
    <2>8. route' = route
        <3> HIDE DEF agents, nearest, open, spans
        <3> QED BY <2>3, <2>4, <2>5, <2>6
    <2> QED BY <2>7, <2>8
<1> QED BY <1>1, <1>5, <1>6

(* The parent that a registry has for a child below an agent.                 *)
ParentAt(r, p) ==
    LET open == {k \in r.sessions[p] : SessionIsOpen(r, k)}
        spans == UNION {ParentSpan(r, k) : k \in open \cap Compatible}
    IN  IF Cardinality({Native[k] : k \in open}) = 1 /\ Cardinality(spans) = 1
        THEN <<CHOOSE span \in spans : TRUE>> ELSE None
AgentsIn(r, chain) == {i \in DOMAIN chain : r.sessions[chain[i]] # {}}
AgentsAbove(r, chain) == {i \in AgentsIn(r, chain) : i > 1}

(* Resolve finds the parent at the nearest agent.                             *)
LEMMA ResolvesTo ==
    ASSUME NEW r \in Registry, NEW capture \in Seq(Processes), NEW agent,
           NEW chain, chain = Above(capture, agent), NEW p, p = chain[Min(AgentsIn(r, chain))]
    PROVE  Resolve(r, Child, capture, agent, Compatible)
             = IF AgentsIn(r, chain) = {} \/ ParentAt(r, p) = None THEN [kind |-> "standalone"]
               ELSE [kind |-> IF agent = None THEN "pending" ELSE "parent",
                     process |-> p, span |-> ParentAt(r, p)[1]]
<1> DEFINE all == Above(capture, agent)
           agents == {i \in DOMAIN all : r.sessions[all[i]] # {}}
           q == all[CHOOSE i \in agents : \A j \in agents : i <= j]
           open == {k \in r.sessions[q] : SessionIsOpen(r, k)}
           spans == UNION {ParentSpan(r, k) : k \in open \cap Compatible}
           one == Cardinality({Native[k] : k \in open}) = 1
           only == Cardinality(spans) = 1
<1>0. agents = AgentsIn(r, chain) /\ p = q
    <2>1. agents = AgentsIn(r, chain)
        BY DEF AgentsIn
    <2>2. Min(agents) = CHOOSE i \in agents : \A j \in agents : i <= j
        BY DEF Min
    <2> QED BY <2>1, <2>2
<1>1. chain \in Seq(Processes)
    BY AboveType
<1>2. agents # {} => p \in Processes
    <2>1. agents \in SUBSET Nat /\ \A i \in agents : chain[i] \in Processes
        BY <1>1
    <2>3. p = chain[Min(agents)]
        BY <1>0
    <2> HIDE DEF agents
    <2>2. agents # {} => Min(agents) \in agents
        BY <2>1, Least
    <2> QED BY <2>1, <2>2, <2>3
<1>3. agents # {} => Child \notin {Native[k] : k \in open}
    <2> HIDE DEF q, agents
    <2>1. q \in Processes => open \subseteq Keys
        BY DEF Registry
    <2> QED BY <1>0, <1>2, <2>1, ChildAssumption
<1>4. Resolve(r, Child, capture, agent, Compatible)
        = IF agents = {} THEN [kind |-> "standalone"]
          ELSE IF ~one THEN [kind |-> "standalone"]
          ELSE IF Child \in {Native[k] : k \in open} THEN [kind |-> "standalone"]
          ELSE IF ~only THEN [kind |-> "standalone"]
          ELSE [kind |-> IF agent = None THEN "pending" ELSE "parent",
                process |-> q, span |-> CHOOSE span \in spans : TRUE]
    BY Zenon DEF Resolve
<1>5. ParentAt(r, q) = IF one /\ only THEN <<CHOOSE span \in spans : TRUE>> ELSE None
    BY Zenon DEF ParentAt
<1> HIDE DEF q, agents, open, spans, one, only
<1>6. /\ <<CHOOSE span \in spans : TRUE>> # None
      /\ <<CHOOSE span \in spans : TRUE>>[1] = CHOOSE span \in spans : TRUE
    BY DEF None
<1>7. CASE one /\ only
    <2>1. ParentAt(r, p)[1] = CHOOSE span \in spans : TRUE
        BY <1>0, <1>5, <1>6, <1>7
    <2>2. ParentAt(r, p) # None
        BY <1>0, <1>5, <1>6, <1>7
    <2>3. CASE agents = {}
        BY <1>4, <2>3, <1>0
    <2>4. CASE agents # {}
        <3>1. Child \notin {Native[k] : k \in open}
            BY <1>3, <2>4
        <3>2. Resolve(r, Child, capture, agent, Compatible)
                = [kind |-> IF agent = None THEN "pending" ELSE "parent",
                   process |-> p, span |-> CHOOSE span \in spans : TRUE]
            BY <1>0, <1>4, <1>7, <2>4, <3>1
        <3> QED BY <2>1, <2>2, <2>4, <3>2, <1>0
    <2> QED BY <2>3, <2>4
<1>8. CASE ~(one /\ only)
    BY <1>0, <1>4, <1>5, <1>8
<1> QED BY <1>7, <1>8

(* The least of a set of numbers and of their successors.                     *)
LEMMA LeastShifts ==
    ASSUME NEW I \in SUBSET Nat, NEW J \in SUBSET (Nat \ {0}),
           \A i \in I : i + 1 \in J, \A j \in J : j - 1 \in I
    PROVE  /\ I = {} <=> J = {}
           /\ J # {} => Min(J) = Min(I) + 1 /\ Min(I) \in I /\ Min(J) \in J
<1>1. CASE J = {}
    BY <1>1
<1>2. CASE J # {}
    <2>1. I # {}
        BY <1>2
    <2>2. Min(I) \in I /\ \A y \in I : Min(I) <= y
        BY <2>1, Least
    <2>3. J \in SUBSET Nat
        OBVIOUS
    <2>4. Min(J) \in J /\ \A y \in J : Min(J) <= y
        BY <1>2, <2>3, Least
    <2>5. PICK a \in Nat, b \in Nat \ {0} : a = Min(I) /\ b = Min(J)
        BY <2>2, <2>4
    <2>6. b <= a + 1 /\ a <= b - 1
        BY <2>2, <2>4, <2>5
    <2>7. b = a + 1
        BY <2>6
    <2> QED BY <1>2, <2>1, <2>2, <2>4, <2>5, <2>7
<1> QED BY <1>1, <1>2

(* The nearest agent above the first process of a chain.                      *)
LEMMA NearestAbove ==
    ASSUME NEW r, NEW c \in Seq(Processes), c # <<>>
    PROVE  /\ AgentsIn(r, Tail(c)) = {} <=> AgentsAbove(r, c) = {}
           /\ AgentsAbove(r, c) # {} =>
                /\ Min(AgentsAbove(r, c)) # 1
                /\ Tail(c)[Min(AgentsIn(r, Tail(c)))] = c[Min(AgentsAbove(r, c))]
<1> DEFINE I == AgentsIn(r, Tail(c))
           J == AgentsAbove(r, c)
<1>1. /\ DOMAIN c = 1..Len(c) /\ DOMAIN Tail(c) = 1..Len(c) - 1 /\ Len(c) \in Nat \ {0}
      /\ \A i \in 1..Len(c) - 1 : Tail(c)[i] = c[i + 1]
    OBVIOUS
<1>2. I \in SUBSET Nat /\ J \in SUBSET (Nat \ {0})
    BY <1>1 DEF AgentsIn, AgentsAbove
<1>3. \A i \in I : i + 1 \in J /\ i \in 1..Len(c) - 1
    BY <1>1 DEF AgentsIn, AgentsAbove
<1>4. ASSUME NEW j \in J PROVE j - 1 \in I
    <2>1. j - 1 \in 1..Len(c) - 1 /\ (j - 1) + 1 = j
        BY <1>1 DEF AgentsIn, AgentsAbove
    <2>2. Tail(c)[j - 1] = c[j]
        BY <1>1, <2>1
    <2> QED BY <1>1, <2>1, <2>2 DEF AgentsIn, AgentsAbove
<1> HIDE DEF I, J
<1>5. (I = {} <=> J = {}) /\ (J # {} => Min(J) = Min(I) + 1 /\ Min(I) \in I /\ Min(J) \in J)
    BY <1>2, <1>3, <1>4, LeastShifts
<1>6. J # {} => Min(J) # 1 /\ Tail(c)[Min(I)] = c[Min(J)]
    BY <1>1, <1>3, <1>5
<1> QED BY <1>5, <1>6 DEF I, J

(* The nearest agent above a hook, which is none.                             *)
LEMMA NearestHook ==
    ASSUME NEW r, NEW c \in Seq(Processes), NEW h, r.sessions[h] = {},
           NEW d, d = <<h>> \o c
    PROVE  /\ AgentsIn(r, d) = {} <=> AgentsIn(r, c) = {}
           /\ AgentsIn(r, c) # {} => d[Min(AgentsIn(r, d))] = c[Min(AgentsIn(r, c))]
<1> DEFINE I == AgentsIn(r, c)
           J == AgentsIn(r, d)
<1>1. /\ DOMAIN c = 1..Len(c) /\ DOMAIN d = 1..Len(c) + 1 /\ Len(c) \in Nat
      /\ d[1] = h /\ \A i \in 1..Len(c) : d[i + 1] = c[i]
    OBVIOUS
<1>2. I \in SUBSET Nat /\ J \in SUBSET (Nat \ {0})
    BY <1>1 DEF AgentsIn
<1>3. \A i \in I : i + 1 \in J /\ i \in 1..Len(c)
    BY <1>1 DEF AgentsIn
<1>4. ASSUME NEW j \in J PROVE j - 1 \in I
    <2>1. j # 1
        BY <1>1 DEF AgentsIn
    <2>2. j - 1 \in 1..Len(c) /\ (j - 1) + 1 = j
        BY <1>1, <2>1 DEF AgentsIn
    <2>3. d[j] = c[j - 1]
        BY <1>1, <2>2
    <2> QED BY <1>1, <2>2, <2>3 DEF AgentsIn
<1> HIDE DEF I, J
<1>5. (I = {} <=> J = {}) /\ (J # {} => Min(J) = Min(I) + 1 /\ Min(I) \in I /\ Min(J) \in J)
    BY <1>2, <1>3, <1>4, LeastShifts
<1>6. J # {} => d[Min(J)] = c[Min(I)]
    BY <1>1, <1>3, <1>5
<1> QED BY <1>5, <1>6 DEF I, J

(* When the sessions' pipelines have settled, the registry has their spans.   *)
LEMMA AllSeen ==
    ASSUME AncestryInv, ExactRegistry, Settled
    PROVE  \A k \in Keys : SpansOf(reg, k) = SpansIn(k, next - 1)
<1> SUFFICES ASSUME NEW k \in Keys PROVE SpansOf(reg, k) = SpansIn(k, next - 1)
    OBVIOUS
<1>n. PICK n : n = next - 1
    OBVIOUS
<1>1. /\ log \in Seq(Events) /\ (\A i \in 1..Len(log) : Worded(log[i])) /\ Len(log) \in Nat
      /\ n \in 0..Len(log)
    BY <1>n DEF AncestryInv, WorldInv, QueueInv
<1>2. SpansOf(reg, k) = SpansIn(k, seen[k]) /\ seen[k] \in 0..n
    BY <1>n DEF ExactRegistry, SeenOK
<1>3. seen[k] \in 0..Len(log) /\ n \in seen[k]..Len(log)
    BY <1>1, <1>2
<1>4. \A i \in seen[k] + 1..n : log[i].key # k
    <2> SUFFICES ASSUME NEW i \in seen[k] + 1..n, log[i].key = k PROVE FALSE
        OBVIOUS
    <2>1. i \in 1..n
        BY <1>1, <1>2
    <2>2. k \in attached \ waiting
        BY <1>n, <2>1 DEF ExactRegistry, HasEvents
    <2>3. i \in Unseen(k)
        BY <1>n DEF Unseen, EventsOf
    <2> QED BY <2>2, <2>3 DEF Settled
<1>5. SpansIn(k, n) = SpansIn(k, seen[k])
    BY <1>1, <1>3, <1>4, SpansInWithout
<1> QED BY <1>n, <1>2, <1>5

(* It has the agents that are evident.                                        *)
LEMMA SessionsAre ==
    ASSUME AncestryInv, StartsInv, ExactRegistry, NEW f \in 1..Len(log), f = next, Evident(f),
           NEW p \in Processes
    PROVE  reg.sessions[p] = {k \in Begun(f) : AgentAt(k, f) = p}
<1>1. WorldInv /\ LogInv /\ reg \in Registry
    BY DEF AncestryInv, RegistryInv, RegistryOK
<1>2. ToldOK(reg, f - 1)
    BY DEF ExactRegistry
<1>3. reg.sessions[p] \subseteq Keys /\ Begun(f) \subseteq Keys
    BY <1>1 DEF Registry, Begun
<1>4. ASSUME NEW k \in Keys PROVE k \in reg.sessions[p] <=> k \in Begun(f) /\ AgentAt(k, f) = p
    <2>1. k \in reg.sessions[p] <=> p \in reg.agent[k]
        BY <1>2 DEF ToldOK
    <2>2. CASE k \in Begun(f)
        <3>1. reg.agent[k] = {AgentAt(k, f)}
            BY <1>1, <1>2, <2>2, AgentIsTold
        <3> QED BY <2>1, <2>2, <3>1
    <2>3. CASE k \notin Begun(f)
        <3>1. ~HasEvents(k, f - 1)
            BY <2>3 DEF Begun, HasEvents, EventsOf
        <3>2. reg.agent[k] = {}
            BY <1>2, <3>1 DEF ToldOK
        <3> QED BY <2>1, <2>3, <3>2
    <2> QED BY <2>2, <2>3
<1> QED BY <1>3, <1>4

(* The agents that may be the nearest above the child's own.                  *)
NearestAgents == IF scene.command THEN AgentsIn(reg, at[Child]) ELSE AgentsAbove(reg, at[Child])

(* What the log says of the parent is what the registry has at the nearest    *)
(* agent.                                                                     *)
LEMMA ExpectedTo ==
    ASSUME AncestryInv, StartsInv, ExactRegistry, NEW f \in 1..Len(log), f = next, Evident(f), Settled,
           NEW p, p = at[Child][Min(NearestAgents)]
    PROVE  /\ NearestAgents \in SUBSET Nat
           /\ Expected(f) = IF NearestAgents = {} \/ Min(NearestAgents) = 1 \/ ParentAt(reg, p) = None
                            THEN Alone ELSE ParentAt(reg, p)[1]
<1> DEFINE c == at[Child]
           agents == {i \in DOMAIN c : /\ scene.command \/ i > 1
                                       /\ \E k \in Begun(f) : AgentAt(k, f) = c[i]}
           nearest == CHOOSE i \in agents : \A j \in agents : i <= j
           open == {k \in Begun(f) : AgentAt(k, f) = c[nearest] /\ SessionIsOpen(OpenIn(k, f - 1), k)}
           spans == UNION {ParentSpan(OpenIn(k, f - 1), k) : k \in open \cap Compatible}
           one == Cardinality({Native[k] : k \in open}) = 1
           only == Cardinality(spans) = 1
           open2 == {k \in reg.sessions[p] : SessionIsOpen(reg, k)}
           spans2 == UNION {ParentSpan(reg, k) : k \in open2 \cap Compatible}
           one2 == Cardinality({Native[k] : k \in open2}) = 1
           only2 == Cardinality(spans2) = 1
<1>1. Expected(f) = IF agents = {} \/ nearest = 1 THEN Alone
                    ELSE IF one /\ only THEN CHOOSE span \in spans : TRUE ELSE Alone
    BY Zenon DEF Expected
<1>2. ParentAt(reg, p) = IF one2 /\ only2 THEN <<CHOOSE span \in spans2 : TRUE>> ELSE None
    BY Zenon DEF ParentAt
<1>3. \A k \in Keys : SessionIsOpen(OpenIn(k, f - 1), k) <=> SessionIsOpen(reg, k)
    BY AllSeen DEF SpansIn, SpansOf, SessionIsOpen
<1>4. \A k \in Keys : ParentSpan(OpenIn(k, f - 1), k) = ParentSpan(reg, k)
    BY AllSeen DEF SpansIn, SpansOf, ParentSpan
<1>5. c \in Seq(Processes) /\ DOMAIN c = 1..Len(c) /\ Len(c) \in Nat
    BY ChainsAreChains DEF AncestryInv, WorldInv, AgentChain
<1>6. \A q \in Processes : reg.sessions[q] = {k \in Begun(f) : AgentAt(k, f) = q}
    BY SessionsAre
<1>7. agents = NearestAgents
    <2>1. \A i \in DOMAIN c : (\E k \in Begun(f) : AgentAt(k, f) = c[i]) <=> reg.sessions[c[i]] # {}
        BY <1>5, <1>6
    <2>2. CASE scene.command
        BY <2>1, <2>2 DEF NearestAgents, AgentsIn
    <2>3. CASE ~scene.command
        BY <2>1, <2>3 DEF NearestAgents, AgentsIn, AgentsAbove
    <2> QED BY <2>2, <2>3
<1>8. nearest = Min(NearestAgents)
    <2> HIDE DEF agents
    <2> QED BY <1>7 DEF Min
<1>9. agents \in SUBSET Nat /\ (agents # {} => p \in Processes)
    <2>1. agents \in SUBSET Nat /\ \A i \in agents : c[i] \in Processes
        BY <1>5
    <2> HIDE DEF agents
    <2>2. agents # {} => Min(agents) \in agents
        BY <2>1, Least
    <2> QED BY <1>7, <2>1, <2>2
<1>10. agents # {} => open = open2
    <2> HIDE DEF agents, nearest
    <2>1. c[nearest] = p
        BY <1>8
    <2>2. agents # {} => reg.sessions[p] = {k \in Begun(f) : AgentAt(k, f) = p}
        BY <1>6, <1>9
    <2>3. Begun(f) \subseteq Keys
        BY DEF Begun
    <2> QED BY <1>3, <2>1, <2>2, <2>3
<1>11. open \subseteq Keys
    BY DEF Begun
<1>12. agents # {} => spans = spans2
    <2> HIDE DEF agents, open, open2
    <2>1. \A k \in open \cap Compatible : ParentSpan(OpenIn(k, f - 1), k) = ParentSpan(reg, k)
        BY <1>4, <1>11
    <2> QED BY <1>10, <2>1
<1> HIDE DEF agents, nearest, open, open2, spans, spans2
<1>13. agents # {} => (one <=> one2) /\ (only <=> only2)
    BY <1>10, <1>12
<1> HIDE DEF one, one2, only, only2
<1>14. /\ <<CHOOSE span \in spans2 : TRUE>> # None
       /\ <<CHOOSE span \in spans2 : TRUE>>[1] = CHOOSE span \in spans2 : TRUE
    BY DEF None
<1>15. one2 /\ only2 => ParentAt(reg, p) # None /\ ParentAt(reg, p)[1] = CHOOSE span \in spans2 : TRUE
    BY <1>2, <1>14
<1>16. ~(one2 /\ only2) => ParentAt(reg, p) = None
    BY <1>2
<1>17. CASE agents = {} \/ nearest = 1
    BY <1>1, <1>7, <1>8, <1>9, <1>17
<1>18. CASE ~(agents = {} \/ nearest = 1)
    <2>1. CASE one2 /\ only2
        BY <1>1, <1>7, <1>8, <1>9, <1>12, <1>13, <1>15, <1>18, <2>1
    <2>2. CASE ~(one2 /\ only2)
        BY <1>1, <1>7, <1>8, <1>9, <1>13, <1>16, <1>18, <2>2
    <2> QED BY <2>1, <2>2
<1> QED BY <1>17, <1>18

------------------------------------------------------------------------------
(* The child.                                                                 *)

(* Nothing of the child came before its first event.                          *)
LEMMA ArrivedFirst ==
    ASSUME NEW f \in Nat \ {0}, IsFirst(f)
    PROVE  Arrived(f) = {f} /\ Cardinality(Arrived(f)) = 1 /\ Arrived(f) \ {f} = {}
<1>1. \A i \in 1..f : i = f \/ i \in 1..f - 1
    OBVIOUS
<1>2. Arrived(f) = {f}
    BY <1>1 DEF Arrived, EventsOf, IsFirst
<1> QED BY <1>2, FS_Singleton

(* The first event decides as the log says, or its candidate waits.           *)
LEMMA FirstExact ==
    ASSUME AncestryInv, StartsInv, ExactRegistry, NEW f \in 1..Len(log), f = next, Evident(f),
           IsFirst(f), Settled
    PROVE  Answers(First(f), f, f)
<1> DEFINE c == at[Child]
           capture == log[f].capture
           agent == IF scene.command THEN None ELSE SessionAgent(FALSE, log[f].capture, None)
           found == Resolve(reg, Child, log[f].capture, agent, Compatible)
           state == [NewPending EXCEPT !.events = <<f>>]
           chain == IF scene.command THEN capture ELSE Tail(c)
           q == chain[Min(AgentsIn(reg, chain))]
           p == c[Min(NearestAgents)]
<1>0. /\ WorldInv /\ LogInv /\ reg \in Registry /\ log[f].key = Child /\ capture # None
      /\ log[f].kind = "start" /\ f \in Nat \ {0} /\ Len(log) \in Nat
    BY DEF AncestryInv, WorldInv, RegistryInv, RegistryOK, IsFirst, Evident
<1>1. /\ AgentChain(c) /\ capture \in Seq(Processes)
      /\ capture = (IF scene.command THEN <<99 + f>> \o c ELSE c)
      /\ Above(capture, <<c[1]>>) = Tail(c)
      /\ ~scene.command => capture[1] = c[1]
    BY <1>0, ChildCapture
<1>2. c \in Seq(Processes) /\ c # <<>> /\ IsInjective(c) /\ DOMAIN c = 1..Len(c) /\ Len(c) \in Nat
    BY <1>1 DEF AgentChain
<1>3. chain = Above(capture, agent) /\ (agent = None <=> scene.command)
    <2>1. CASE scene.command
        BY <2>1 DEF Above
    <2>2. CASE ~scene.command
        <3>1. agent = <<capture[1]>>
            BY <1>0, <2>2 DEF SessionAgent
        <3>2. agent = <<c[1]>>
            BY <1>1, <2>2, <3>1
        <3>3. <<c[1]>> # None
            BY DEF None
        <3>4. chain = Tail(c)
            BY <2>2
        <3>5. Above(capture, <<c[1]>>) = Tail(c)
            BY <1>1
        <3>6. Above(capture, agent) = Tail(c)
            <4> HIDE DEF agent, capture, c
            <4> QED BY <3>2, <3>5
        <3>7. agent # None
            <4> HIDE DEF agent, capture, c
            <4> QED BY <3>2, <3>3
        <3>8. chain = Above(capture, agent)
            <4> HIDE DEF agent, capture, c, chain
            <4> QED BY <3>4, <3>6
        <3> HIDE DEF agent, capture, c, chain
        <3> QED BY <2>2, <3>7, <3>8
    <2> QED BY <2>1, <2>2
<1>4. found = IF AgentsIn(reg, chain) = {} \/ ParentAt(reg, q) = None THEN [kind |-> "standalone"]
              ELSE [kind |-> IF agent = None THEN "pending" ELSE "parent",
                    process |-> q, span |-> ParentAt(reg, q)[1]]
    <2>1. PICK r : r = reg
        OBVIOUS
    <2>2. PICK a : a = agent
        OBVIOUS
    <2>3. PICK u : u = capture
        OBVIOUS
    <2>4. PICK d : d = chain
        OBVIOUS
    <2>5. PICK x : x = d[Min(AgentsIn(r, d))]
        OBVIOUS
    <2>6. r \in Registry /\ u \in Seq(Processes)
        BY <1>0, <1>1, <2>1, <2>3
    <2>7. d = Above(u, a)
        <3> HIDE DEF chain, agent, capture
        <3> QED BY <1>3, <2>2, <2>3, <2>4
    <2>8. Resolve(r, Child, u, a, Compatible)
          = IF AgentsIn(r, d) = {} \/ ParentAt(r, x) = None THEN [kind |-> "standalone"]
            ELSE [kind |-> IF a = None THEN "pending" ELSE "parent",
                  process |-> x, span |-> ParentAt(r, x)[1]]
        BY <2>5, <2>6, <2>7, ResolvesTo
    <2>9. found = Resolve(r, Child, u, a, Compatible)
        <3>1. found = Resolve(reg, Child, capture, agent, Compatible)
            BY Zenon
        <3> HIDE DEF chain, agent, capture, found
        <3> QED BY <2>1, <2>2, <2>3, <3>1
    <2>10. q = x
        <3> HIDE DEF chain
        <3> QED BY <2>1, <2>4, <2>5
    <2> HIDE DEF chain, agent, capture, found, q
    <2> QED BY <2>1, <2>2, <2>4, <2>8, <2>9, <2>10
<1>5. First(f) = IF log[f].kind # "start" \/ found.kind = "standalone"
                 THEN [state EXCEPT !.route = Alone]
                 ELSE IF found.kind = "parent" THEN [state EXCEPT !.route = found.span]
                 ELSE [state EXCEPT !.parent = <<found>>]
    BY Zenon DEF First
<1>6. /\ (AgentsIn(reg, chain) = {}) <=> (NearestAgents = {})
      /\ NearestAgents # {} => p = q /\ (~scene.command => Min(NearestAgents) # 1)
    <2>1. CASE scene.command
        <3>1. 99 + f \in Processes
            <4>1. f \in 1..scene.events
                BY <1>0, ScenariosAssumption DEF WorldInv
            <4> QED BY <1>0, <1>1, <4>1, HookIsChain
        <3>2. reg.sessions[99 + f] = {}
            <4> SUFFICES ASSUME NEW k \in reg.sessions[99 + f] PROVE FALSE
                OBVIOUS
            <4>1. k \in Keys /\ 99 + f \in AgentsOf(k)
                BY <1>0, <3>1 DEF AncestryInv, RegistryInv, RegistryOK, Registry
            <4>2. 99 + f \in 0..99
                BY <4>1, AgentsAreProcesses
            <4> QED BY <1>0, <4>2
        <3>3. chain = <<99 + f>> \o c
            BY <1>1, <2>1
        <3> HIDE DEF c, chain
        <3>h. PICK h : h = 99 + f
            OBVIOUS
        <3>i. PICK e : e = <<h>> \o c
            OBVIOUS
        <3>j. reg.sessions[h] = {} /\ chain = e
            BY <3>2, <3>3, <3>h, <3>i
        <3>k. /\ AgentsIn(reg, e) = {} <=> AgentsIn(reg, c) = {}
              /\ AgentsIn(reg, c) # {} => e[Min(AgentsIn(reg, e))] = c[Min(AgentsIn(reg, c))]
            BY <1>2, <3>i, <3>j, NearestHook
        <3>4. /\ AgentsIn(reg, chain) = {} <=> AgentsIn(reg, c) = {}
              /\ AgentsIn(reg, c) # {} => chain[Min(AgentsIn(reg, chain))] = c[Min(AgentsIn(reg, c))]
            BY <3>j, <3>k
        <3>5. NearestAgents = AgentsIn(reg, c)
            BY <2>1 DEF NearestAgents, c
        <3> QED BY <2>1, <3>4, <3>5
    <2>2. CASE ~scene.command
        <3>1. chain = Tail(c)
            BY <2>2
        <3> HIDE DEF c, chain
        <3>2. /\ AgentsIn(reg, Tail(c)) = {} <=> AgentsAbove(reg, c) = {}
              /\ AgentsAbove(reg, c) # {} =>
                   /\ Min(AgentsAbove(reg, c)) # 1
                   /\ Tail(c)[Min(AgentsIn(reg, Tail(c)))] = c[Min(AgentsAbove(reg, c))]
            BY <1>2, NearestAbove
        <3>3. NearestAgents = AgentsAbove(reg, c)
            BY <2>2 DEF NearestAgents, c
        <3> QED BY <3>1, <3>2, <3>3
    <2> QED BY <2>1, <2>2
<1>7. /\ NearestAgents \in SUBSET Nat
      /\ Expected(f) = IF NearestAgents = {} \/ Min(NearestAgents) = 1 \/ ParentAt(reg, p) = None
                       THEN Alone ELSE ParentAt(reg, p)[1]
    <2> HIDE DEF p
    <2>1. p = at[Child][Min(NearestAgents)]
        BY DEF p
    <2> QED BY <2>1, ExpectedTo
<1>8. /\ state.route = None /\ state.parent = None /\ state.events = <<f>> /\ Shaped(state)
    BY DEF NewPending, Shaped
<1>9. ASSUME NEW v
      PROVE  /\ [state EXCEPT !.route = v].route = v
             /\ [state EXCEPT !.parent = v].route = None
             /\ [state EXCEPT !.parent = v].parent = v
             /\ [state EXCEPT !.parent = v].events = <<f>>
    <2>1. state \in [route : {None}, parent : {None}, events : {<<f>>},
                     expired : {state.expired}, recovery : {state.recovery}]
        BY <1>8 DEF Shaped
    <2> HIDE DEF state
    <2> QED BY <2>1
<1>10. NearestAgents # {} => (p \in Range(Tail(c)) <=> Min(NearestAgents) # 1)
    <2> SUFFICES ASSUME NearestAgents # {} PROVE p \in Range(Tail(c)) <=> Min(NearestAgents) # 1
        OBVIOUS
    <2>1. PICK m : m = Min(NearestAgents)
        OBVIOUS
    <2>2. NearestAgents \subseteq 1..Len(c)
        BY <1>2 DEF NearestAgents, AgentsIn, AgentsAbove
    <2>3. m \in 1..Len(c)
        BY <1>7, <2>1, <2>2, Least
    <2>4. DOMAIN Tail(c) = 1..Len(c) - 1 /\ \A i \in 1..Len(c) - 1 : Tail(c)[i] = c[i + 1]
        BY <1>2
    <2>5. m # 1 => c[m] \in Range(Tail(c))
        <3> SUFFICES ASSUME m # 1 PROVE c[m] \in Range(Tail(c))
            OBVIOUS
        <3>1. m - 1 \in 1..Len(c) - 1 /\ (m - 1) + 1 = m
            BY <1>2, <2>3
        <3>2. Tail(c)[m - 1] = c[m]
            BY <2>4, <3>1
        <3> QED BY <2>4, <3>1, <3>2 DEF Range
    <2>6. m = 1 => c[m] \notin Range(Tail(c))
        <3> SUFFICES ASSUME m = 1, c[m] \in Range(Tail(c)) PROVE FALSE
            OBVIOUS
        <3>1. PICK i \in 1..Len(c) - 1 : Tail(c)[i] = c[m]
            BY <2>4 DEF Range
        <3>2. c[i + 1] = c[m] /\ i + 1 \in 1..Len(c) /\ i + 1 # m
            BY <1>2, <2>4, <3>1
        <3> QED BY <1>2, <2>3, <3>2 DEF IsInjective
    <2> QED BY <2>1, <2>5, <2>6
<1> HIDE DEF found, state, agent, chain, q, p, capture
<1>11. CASE NearestAgents = {} \/ ParentAt(reg, p) = None
    <2>1. AgentsIn(reg, chain) = {} \/ ParentAt(reg, q) = None
        BY <1>6, <1>11
    <2>2. found.kind = "standalone"
        BY <1>4, <2>1
    <2>3. First(f).route = Alone
        BY <1>5, <1>9, <2>2
    <2>4. Expected(f) = Alone
        BY <1>7, <1>11
    <2> QED BY <2>3, <2>4, SpansAreNoRoutes DEF Answers
<1>12. CASE NearestAgents # {} /\ ParentAt(reg, p) # None
    <2>1. found = [kind |-> IF agent = None THEN "pending" ELSE "parent",
                   process |-> p, span |-> ParentAt(reg, p)[1]]
        BY <1>4, <1>6, <1>12
    <2>2. found.process = p /\ found.span = ParentAt(reg, p)[1]
          /\ found.kind = (IF agent = None THEN "pending" ELSE "parent")
        BY <2>1
    <2>n. StateOK(First(f))
        BY <1>0, FirstOK
    <2>3. CASE ~scene.command
        <3>1. First(f).route = ParentAt(reg, p)[1]
            BY <1>0, <1>3, <1>5, <1>9, <2>2, <2>3
        <3>2. Expected(f) = ParentAt(reg, p)[1]
            BY <1>6, <1>7, <1>12, <2>3
        <3>3. First(f).route # None
            <4>1. found.kind = "parent"
                BY <1>3, <2>2, <2>3
            <4>2. First(f).parent = None
                <5>1. First(f) = [state EXCEPT !.route = found.span]
                    BY <1>0, <1>5, <4>1
                <5>2. [state EXCEPT !.route = found.span].parent = state.parent
                    BY <1>8 DEF Shaped
                <5> QED BY <1>8, <5>1, <5>2
            <4> QED BY <2>n, <4>2 DEF StateOK
        <3> QED BY <3>1, <3>2, <3>3 DEF Answers
    <2>4. CASE scene.command
        <3>1. First(f) = [state EXCEPT !.parent = <<found>>]
            BY <1>0, <1>3, <1>5, <2>2, <2>4
        <3>2. First(f).route = None /\ First(f).parent = <<found>> /\ First(f).events = <<f>>
            BY <1>9, <3>1
        <3>3. Expected(f) = IF p \in Range(Tail(c)) THEN ParentAt(reg, p)[1] ELSE Alone
            BY <1>7, <1>10, <1>12
        <3>4. Waits(First(f), f, f)
            <4>1. PICK s : s = First(f)
                OBVIOUS
            <4>2. s.parent[1].process = p /\ s.parent[1].span = ParentAt(reg, p)[1] /\ s.parent # None
                BY <2>2, <3>2, <4>1 DEF None
            <4>3. /\ s.events = <<f>> /\ <<f>> \in Seq(Nat) /\ Len(<<f>>) = 1 /\ <<f>> # <<>>
                  /\ <<f>>[1] = f /\ 1 < EventLimit
                BY <1>0, <3>2, <4>1, EventLimitAssumption
            <4>4. Arrived(f) \ {f} = {} /\ Cardinality(Arrived(f)) = 1
                BY <1>0, ArrivedFirst
            <4>5. \A x \in 2..1 : FALSE
                OBVIOUS
            <4>6. Waits(s, f, f)
                BY <3>3, <4>2, <4>3, <4>4, <4>5 DEF Waits, c
            <4> QED BY <4>1, <4>6
        <3> QED BY <2>4, <3>2, <3>4 DEF Answers
    <2> QED BY <2>3, <2>4
<1> QED BY <1>11, <1>12

(* What arrived of the child by the next event.                               *)
LEMMA ArrivedNext ==
    ASSUME NEW n \in Nat
    PROVE  /\ IsFiniteSet(Arrived(n)) /\ Cardinality(Arrived(n)) \in Nat /\ n + 1 \notin Arrived(n)
           /\ Arrived(n) \subseteq 1..n
           /\ log[n + 1].key # Child => Arrived(n + 1) = Arrived(n)
           /\ log[n + 1].key = Child =>
                /\ Arrived(n + 1) = Arrived(n) \cup {n + 1}
                /\ Cardinality(Arrived(n + 1)) = Cardinality(Arrived(n)) + 1
<1>1. Arrived(n) \subseteq 1..n /\ IsFiniteSet(1..n) /\ n + 1 \notin 1..n
    BY FS_Interval DEF Arrived, EventsOf
<1>2. IsFiniteSet(Arrived(n)) /\ Cardinality(Arrived(n)) \in Nat
    BY <1>1, FS_Subset, FS_CardinalityType
<1>3. \A i \in 1..n + 1 : i \in 1..n \/ i = n + 1
    OBVIOUS
<1>4. n + 1 \in 1..n + 1 /\ 1..n \subseteq 1..n + 1
    OBVIOUS
<1>5. log[n + 1].key # Child => Arrived(n + 1) = Arrived(n)
    BY <1>3, <1>4 DEF Arrived, EventsOf
<1>6. log[n + 1].key = Child => Arrived(n + 1) = Arrived(n) \cup {n + 1}
    BY <1>3, <1>4 DEF Arrived, EventsOf
<1>7. Cardinality(Arrived(n) \cup {n + 1}) = Cardinality(Arrived(n)) + 1
    BY <1>1, <1>2, FS_AddElement
<1> QED BY <1>1, <1>2, <1>5, <1>6, <1>7

(* The greatest of one number, and of two.                                    *)
LEMMA GreatestOf ==
    ASSUME NEW x \in Nat, NEW y \in Nat, x <= y
    PROVE  Max({x}) = x /\ Max({x, y}) = y
<1>1. {x} \in SUBSET (0..y) /\ {x, y} \in SUBSET (0..y)
    OBVIOUS
<1>2. Max({x}) \in {x}
    BY <1>1, Greatest
<1>3. Max({x, y}) \in {x, y} /\ \A z \in {x, y} : Max({x, y}) >= z
    BY <1>1, Greatest
<1> QED BY <1>2, <1>3

(* What the next event leaves of a state that waits: the two hooks it compares*)
(* are the first, and itself if it captured its process.                      *)
LEMMA NextOf ==
    ASSUME AncestryInv, scene.command, NEW f \in 1..Len(log), NEW i \in 1..Len(log), f # i,
           log[f].key = Child, log[f].capture # None, log[i].key = Child,
           NEW s, Shaped(s), s.route = None, s.events \in Seq(Nat), s.events # <<>>, s.events[1] = f,
           \A x \in 2..Len(s.events) : log[s.events[x]].capture = None
    PROVE  LET t == [s EXCEPT !.events = Append(@, i)]
               told == log[i].capture # None
               confirmed == s.parent[1].process \in Range(Tail(at[Child]))
           IN  Next2nd(s, i) = IF ~s.expired /\ log[i].kind # "start" /\ told
                               THEN [t EXCEPT !.route = IF confirmed THEN s.parent[1].span ELSE Alone]
                               ELSE IF log[i].kind = "start" \/ s.expired \/ Len(s.events) + 1 >= EventLimit
                               THEN [t EXCEPT !.route = Alone]
                               ELSE t
<1> DEFINE e == Append(s.events, i)
           t == [s EXCEPT !.events = Append(@, i)]
           captured == {n \in DOMAIN t.events : log[t.events[n]].capture # None}
           latest == Max(captured)
           others == captured \ {latest}
           CaptureIn(n) == log[t.events[n]].capture
           agent == IF others = {} THEN None
                    ELSE SessionAgent(scene.command, CaptureIn(Max(others)), CaptureIn(latest))
           fresh == log[i].kind = "start"
           confirmed == ConfirmParent(t.parent[1], CaptureIn(latest), agent)
<1>0. WorldInv /\ LogInv /\ i \in Nat /\ Len(log) \in Nat
    BY DEF AncestryInv, WorldInv
<1>m. PICK m \in Nat \ {0} : m = Len(s.events)
    OBVIOUS
<1>1. /\ e \in Seq(Nat) /\ DOMAIN e = 1..m + 1 /\ e[1] = f /\ e[m + 1] = i
      /\ \A x \in 2..m : log[e[x]].capture = None
      /\ Len(e) = m + 1
    BY <1>0, <1>m
<1>2. t.events = e /\ t.parent = s.parent
    BY DEF Shaped
<1>3. Next2nd(s, i) = IF ~s.expired /\ ~fresh /\ agent # None
                      THEN [t EXCEPT !.route = IF confirmed THEN t.parent[1].span ELSE Alone]
                      ELSE IF fresh \/ s.expired \/ Len(t.events) >= EventLimit
                      THEN [t EXCEPT !.route = Alone]
                      ELSE t
    BY Zenon DEF Next2nd
<1> HIDE DEF t, e
<1>4. ASSUME log[i].capture = None PROVE agent = None
    <2>1. captured = {1}
        BY <1>1, <1>2, <1>4
    <2>2. latest = 1
        <3>1. latest = Max({1})
            BY <2>1
        <3> HIDE DEF latest
        <3> QED BY <3>1, GreatestOf
    <2>3. others = {}
        BY <2>1, <2>2
    <2> QED BY <2>3
<1>5. ASSUME log[i].capture # None
      PROVE  /\ agent # None
             /\ confirmed <=> s.parent[1].process \in Range(Tail(at[Child]))
    <2>1. captured = {1, m + 1}
        BY <1>1, <1>2, <1>5
    <2>2. latest = m + 1
        <3>1. latest = Max({1, m + 1})
            BY <2>1
        <3>2. PICK b \in Nat : b = m + 1
            OBVIOUS
        <3>3. Max({1, b}) = b
            <4>1. 1 \in Nat /\ 1 <= b
                BY <3>2
            <4> QED BY <4>1, GreatestOf, Zenon
        <3> HIDE DEF latest
        <3> QED BY <3>1, <3>2, <3>3
    <2>3. others = {1}
        <3>1. others = {1, m + 1} \ {latest}
            BY <2>1
        <3> HIDE DEF others, latest
        <3> QED BY <2>2, <3>1
    <2>4. Max(others) = 1
        <3> HIDE DEF others
        <3> QED BY <2>3, GreatestOf
    <2>5. agent = SessionAgent(TRUE, log[f].capture, log[i].capture)
        <3>1. CaptureIn(1) = log[f].capture /\ CaptureIn(m + 1) = log[i].capture
            BY <1>1, <1>2
        <3>2. others # {}
            BY <2>3
        <3> HIDE DEF others, latest
        <3> QED BY <2>2, <2>4, <3>1, <3>2
    <2>6. /\ log[i].capture = <<99 + i>> \o at[Child] /\ log[f].capture = <<99 + f>> \o at[Child]
          /\ at[Child] \in Seq(Processes) /\ at[Child] # <<>>
          /\ Above(log[i].capture, <<at[Child][1]>>) = Tail(at[Child])
        BY <1>0, <1>5, ChildCapture DEF AgentChain
    <2> HIDE DEF agent
    <2>7. agent = <<at[Child][1]>>
        <3>1. 99 + f # 99 + i /\ f \in Nat
            BY <1>0
        <3>2. agent = SessionAgent(TRUE, <<99 + f>> \o at[Child], <<99 + i>> \o at[Child])
            BY <2>5, <2>6
        <3>3. PICK a : a = 99 + f
            OBVIOUS
        <3>4. PICK b : b = 99 + i
            OBVIOUS
        <3>5. PICK c : c = at[Child]
            OBVIOUS
        <3>6. SessionAgent(TRUE, <<a>> \o c, <<b>> \o c) = <<c[1]>>
            <4>1. c \in Seq(Processes) /\ c # <<>> /\ a # b
                BY <2>6, <3>1, <3>3, <3>4, <3>5
            <4> QED BY <4>1, CommandAgentOfChain, Zenon
        <3> QED BY <3>2, <3>3, <3>4, <3>5, <3>6
    <2>8. CaptureIn(latest) = log[i].capture
        <3> HIDE DEF latest
        <3> QED BY <1>1, <1>2, <2>2
    <2>9. confirmed <=> s.parent[1].process \in Range(Tail(at[Child]))
        <3> HIDE DEF latest, CaptureIn
        <3> QED BY <1>2, <2>6, <2>7, <2>8, Zenon DEF ConfirmParent
    <2> QED BY <2>7, <2>9 DEF None
<1> HIDE DEF agent, confirmed, captured, latest, others
<1>6. Len(t.events) = Len(s.events) + 1
    BY <1>1, <1>2, <1>m
<1> QED BY <1>2, <1>3, <1>4, <1>5, <1>6 DEF t

(* The fields of a state that is given another route.                         *)
LEMMA RouteExcept ==
    ASSUME NEW s, Shaped(s), NEW v
    PROVE  /\ [s EXCEPT !.route = v].route = v /\ [s EXCEPT !.route = v].expired = s.expired
           /\ [s EXCEPT !.events = v].route = s.route /\ [s EXCEPT !.events = v].expired = s.expired
           /\ [s EXCEPT !.events = v].parent = s.parent /\ [s EXCEPT !.events = v].events = v
           /\ [s EXCEPT !.parent = v].route = s.route /\ [s EXCEPT !.parent = v].expired = s.expired
           /\ [s EXCEPT !.recovery = v].route = s.route /\ [s EXCEPT !.recovery = v].expired = s.expired
           /\ [s EXCEPT !.expired = v].route = s.route /\ [s EXCEPT !.expired = v].events = s.events
           /\ [s EXCEPT !.expired = v].parent = s.parent /\ [s EXCEPT !.expired = v].expired = v
BY DEF Shaped

(* The next event decides as the log says, or too late, or the child waits.   *)
LEMMA NextExact ==
    ASSUME AncestryInv, NEW f \in 1..Len(log), NEW n \in f..Len(log), n + 1 \in 1..Len(log),
           IsFirst(f), Evident(f), log[n + 1].key = Child,
           NEW s, StateOK(s), s.route = None, Answers(s, f, n)
    PROVE  Answers(Next2nd(s, n + 1), f, n + 1)
<1>i. PICK i : i = n + 1
    OBVIOUS
<1> DEFINE t == [s EXCEPT !.events = Append(@, i)]
           e == Append(s.events, i)
           L == Len(s.events)
           told == log[i].capture # None
           fresh == log[i].kind = "start"
           confirmed == s.parent[1].process \in Range(Tail(at[Child]))
           v == IF confirmed THEN s.parent[1].span ELSE Alone
<1>0. /\ Len(log) \in Nat /\ f \in Nat \ {0} /\ n \in Nat /\ n >= f /\ i \in Nat \ {0} /\ f # i
      /\ i \in 1..Len(log) /\ EventLimit \in Nat
    BY <1>i, EventLimitAssumption DEF AncestryInv, WorldInv
<1>1. scene.command /\ Waits(s, f, n)
    BY DEF Answers
<1>2. /\ s.events \in Seq(Nat) /\ s.events # <<>> /\ s.events[1] = f /\ L = Cardinality(Arrived(n))
      /\ L \in Nat \ {0} /\ L < EventLimit
      /\ \A x \in 2..L : s.events[x] \in Arrived(n) \ {f}
      /\ \A j \in Arrived(n) \ {f} : log[j].kind # "start" /\ log[j].capture = None
      /\ s.parent # None /\ Expected(f) = v
    BY <1>1 DEF Waits
<1>3. Shaped(s) /\ s.parent[1] \in Candidates
    BY <1>2 DEF StateOK, ParentOK
<1>4. /\ t = [s EXCEPT !.events = e] /\ Shaped(t) /\ t.route = None /\ t.expired = s.expired
      /\ t.parent = s.parent /\ t.events = e
    <2>1. t = [s EXCEPT !.events = e]
        OBVIOUS
    <2> HIDE DEF e
    <2>2. /\ Shaped([s EXCEPT !.events = e]) /\ [s EXCEPT !.events = e].route = s.route
          /\ [s EXCEPT !.events = e].expired = s.expired
          /\ [s EXCEPT !.events = e].parent = s.parent /\ [s EXCEPT !.events = e].events = e
        BY <1>3 DEF Shaped
    <2> HIDE DEF t
    <2> QED BY <2>1, <2>2
<1>5. /\ e \in Seq(Nat) /\ Len(e) = L + 1 /\ e # <<>> /\ e[1] = f
      /\ \A x \in 2..L + 1 : e[x] \in (Arrived(n) \ {f}) \cup {i}
    <2>1. e \in Seq(Nat) /\ Len(e) = L + 1 /\ e[L + 1] = i /\ \A x \in 1..L : e[x] = s.events[x]
        BY <1>0, <1>2
    <2>2. \A x \in 2..L + 1 : x = L + 1 \/ x \in 2..L
        BY <1>2
    <2> HIDE DEF e
    <2>3. e[1] = f /\ e # <<>>
        BY <1>2, <2>1
    <2>4. \A x \in 2..L : x \in 1..L
        BY <1>2
    <2> QED BY <1>2, <2>1, <2>2, <2>3, <2>4
<1>6. /\ Arrived(i) = Arrived(n) \cup {i} /\ Cardinality(Arrived(i)) = L + 1
      /\ i \in Arrived(i) \ {f}
      /\ Arrived(i) \ {f} = (Arrived(n) \ {f}) \cup {i}
    BY <1>0, <1>2, <1>i, ArrivedNext
<1>7. log[f].key = Child /\ log[f].capture # None /\ log[i].key = Child
    BY <1>i DEF IsFirst, Evident
<1>8. Next2nd(s, i) = IF ~s.expired /\ ~fresh /\ told THEN [t EXCEPT !.route = v]
                      ELSE IF fresh \/ s.expired \/ L + 1 >= EventLimit
                      THEN [t EXCEPT !.route = Alone]
                      ELSE t
    <2>1. \A x \in 2..Len(s.events) : log[s.events[x]].capture = None
        BY <1>2
    <2>2. /\ f \in 1..Len(log) /\ i \in 1..Len(log) /\ f # i /\ scene.command
          /\ log[f].key = Child /\ log[f].capture # None /\ log[i].key = Child
          /\ Shaped(s) /\ s.route = None /\ s.events \in Seq(Nat) /\ s.events # <<>>
          /\ s.events[1] = f
        BY <1>0, <1>1, <1>2, <1>3, <1>7
    <2> QED BY <2>1, <2>2, NextOf, Zenon
<1>9. v # None /\ Alone # None
    <2>1. s.parent[1].span \in Spanned
        BY <1>3 DEF Candidates
    <2> QED BY <2>1, SpansAreNoRoutes
<1> HIDE DEF t, e, v, told, fresh, confirmed
<1>10. /\ [t EXCEPT !.route = v].route = v /\ [t EXCEPT !.route = Alone].route = Alone
       /\ [t EXCEPT !.route = Alone].expired = s.expired
    BY <1>4, RouteExcept
<1>11. CASE ~s.expired /\ ~fresh /\ told
    <2>1. Next2nd(s, i).route = v
        BY <1>8, <1>10, <1>11
    <2> QED BY <1>2, <1>9, <1>i, <2>1 DEF Answers
<1>12. CASE ~(~s.expired /\ ~fresh /\ told) /\ (fresh \/ s.expired \/ L + 1 >= EventLimit)
    <2>1. Next2nd(s, i).route = Alone /\ Next2nd(s, i).expired = s.expired
        BY <1>8, <1>10, <1>12
    <2>2. TooLate(Next2nd(s, i), f, i)
        <3>1. CASE s.expired
            BY <2>1, <3>1 DEF TooLate
        <3>2. CASE fresh
            BY <1>6, <3>2 DEF TooLate, fresh
        <3>3. CASE ~s.expired /\ ~fresh /\ L + 1 >= EventLimit
            <4>1. log[i].capture = None
                BY <1>12, <3>3 DEF told
            <4>2. \A j \in Arrived(i) \ {f} : log[j].capture = None
                BY <1>2, <1>6, <4>1
            <4>3. Cardinality(Arrived(i)) >= EventLimit
                BY <1>6, <3>3
            <4> QED BY <4>2, <4>3 DEF TooLate
        <3> QED BY <1>12, <3>1, <3>2, <3>3
    <2> QED BY <1>1, <1>9, <1>i, <2>1, <2>2 DEF Answers
<1>13. CASE ~(~s.expired /\ ~fresh /\ told) /\ ~(fresh \/ s.expired \/ L + 1 >= EventLimit)
    <2>1. Next2nd(s, i) = t
        BY <1>8, <1>13
    <2>2. log[i].capture = None /\ log[i].kind # "start" /\ L + 1 < EventLimit
        BY <1>0, <1>2, <1>13 DEF told, fresh
    <2>3. \A j \in Arrived(i) \ {f} : log[j].kind # "start" /\ log[j].capture = None
        BY <1>2, <1>6, <2>2
    <2>4. Waits(t, f, i)
        <3>1. Expected(f) = (IF t.parent[1].process \in Range(Tail(at[Child]))
                             THEN t.parent[1].span ELSE Alone)
            BY <1>2, <1>4 DEF v, confirmed
        <3>2. \A x \in 2..L + 1 : e[x] \in Arrived(i) \ {f}
            BY <1>5, <1>6
        <3> QED BY <1>2, <1>4, <1>5, <1>6, <2>2, <2>3, <3>1, <3>2 DEF Waits
    <2> QED BY <1>1, <1>4, <1>i, <2>1, <2>4 DEF Answers
<1> QED BY <1>11, <1>12, <1>13

(* An answer depends on what arrived, not on when.                            *)
LEMMA AnswersOfArrived ==
    ASSUME NEW s, NEW f, NEW m, NEW n, Arrived(m) = Arrived(n)
    PROVE  Answers(s, f, m) <=> Answers(s, f, n)
BY DEF Answers, Waits, TooLate

(* What came too late stays so when more arrives.                             *)
LEMMA TooLateStays ==
    ASSUME NEW n \in Nat, NEW f \in 1..n, IsFirst(f), log[n + 1].key = Child,
           NEW s, TooLate(s, f, n), NEW t, s.expired => t.expired
    PROVE  TooLate(t, f, n + 1)
<1>i. PICK i \in Nat : i = n + 1
    OBVIOUS
<1>1. /\ Arrived(i) = Arrived(n) \cup {i} /\ Cardinality(Arrived(i)) = Cardinality(Arrived(n)) + 1
      /\ Cardinality(Arrived(n)) \in Nat
    BY <1>i, ArrivedNext
<1>2. EventsOf(Child, f, i) = Arrived(i)
    <2>1. \A j \in 1..i : j \in 1..f - 1 \/ j \in f..i
        OBVIOUS
    <2>2. \A j \in f..i : j \in 1..i
        OBVIOUS
    <2> QED BY <2>1, <2>2 DEF IsFirst, Arrived, EventsOf
<1>3. TooLate(t, f, i)
    <2>1. CASE Cardinality(Arrived(n)) >= EventLimit
        <3>1. Cardinality(Arrived(i)) >= EventLimit /\ Cardinality(EventsOf(Child, f, i)) > EventLimit
            BY <1>1, <1>2, <2>1, EventLimitAssumption
        <3> QED BY <1>1, <3>1 DEF TooLate
    <2>2. CASE ~(Cardinality(Arrived(n)) >= EventLimit)
        BY <1>1, <2>2 DEF TooLate
    <2> QED BY <2>1, <2>2
<1> QED BY <1>i, <1>3

(* A decision answers for the events that come after it.                      *)
LEMMA DecisionAnswers ==
    ASSUME NEW n \in Nat, NEW f \in 1..n, IsFirst(f),
           NEW s, s.route # None, Answers(s, f, n), NEW t, t.route = s.route, s.expired => t.expired
    PROVE  Answers(t, f, n) /\ Answers(t, f, n + 1)
<1>1. Answers(t, f, n)
    BY DEF Answers, TooLate
<1>2. CASE log[n + 1].key = Child
    <2>1. TooLate(s, f, n) => TooLate(t, f, n + 1)
        BY <1>2, TooLateStays
    <2> QED BY <1>1, <2>1 DEF Answers
<1>3. CASE log[n + 1].key # Child
    <2>1. Arrived(n + 1) = Arrived(n)
        BY <1>3, ArrivedNext
    <2> QED BY <1>1, <2>1, AnswersOfArrived
<1> QED BY <1>1, <1>2, <1>3

(* An answer stays one when more is captured.                                 *)
LEMMA AnswersStay ==
    ASSUME WorldInv, StartsInv, LogGrows, scene' = scene, at'[Child] = at[Child],
           NEW n \in 0..Len(log), NEW f \in 1..n, Evident(f), NEW s
    PROVE  Answers(s, f, n)' <=> Answers(s, f, n)
<1>0. /\ Len(log) \in Nat /\ n \in Nat /\ f \in 1..Len(log)
      /\ \A i \in 1..n : log'[i] = log[i]
    BY DEF WorldInv, LogGrows
<1>1. Expected(f)' = Expected(f)
    BY <1>0, EvidenceStays
<1>2. Arrived(n)' = Arrived(n) /\ Arrived(n) \subseteq 1..n
    BY <1>0 DEF Arrived, EventsOf
<1>3. \A i \in Arrived(n) : log'[i] = log[i] /\ EventsOf(Child, f, i)' = EventsOf(Child, f, i)
    <2> SUFFICES ASSUME NEW i \in Arrived(n)
                 PROVE  log'[i] = log[i] /\ EventsOf(Child, f, i)' = EventsOf(Child, f, i)
        OBVIOUS
    <2>1. i \in 1..n
        BY <1>2
    <2>2. \A j \in f..i : j \in 1..n
        BY <1>0, <2>1
    <2> QED BY <1>0, <2>1, <2>2 DEF EventsOf
<1>4. TooLate(s, f, n)' <=> TooLate(s, f, n)
    BY <1>2, <1>3 DEF TooLate
<1>5. Waits(s, f, n)' <=> Waits(s, f, n)
    BY <1>1, <1>2, <1>3 DEF Waits
<1> QED BY <1>1, <1>4, <1>5 DEF Answers

(* What is right of the child stays so when more is captured.                 *)
LEMMA ChildGoesOn ==
    ASSUME WorldInv, StartsInv, LogGrows, scene' = scene, at'[Child] = at[Child],
           NEW n \in 0..Len(log), next' = n + 1,
           NEW st, st = stored', NEW p, p = pending', NEW l, l = link', NEW w, w = work',
           ChildOK(st, p, l, w, n)
    PROVE  ExactChild'
<1>0. Len(log) \in Nat /\ n \in Nat /\ \A i \in 1..n : log'[i] = log[i]
    BY DEF WorldInv, LogGrows
<1>1. Arrived(n)' = Arrived(n)
    BY <1>0 DEF Arrived, EventsOf
<1>2. ASSUME NEW f \in 1..n, IsFirst(f)', Evident(f)', NEW s, IsFirst(f) /\ Evident(f) => Answers(s, f, n)
      PROVE  Answers(s, f, n)'
    <2>0. f \in 1..Len(log)
        BY <1>0
    <2>1. IsFirst(f) /\ Evident(f)
        BY <1>2, <2>0, EvidenceStays
    <2> QED BY <1>2, <2>1, AnswersStay
<1>3. ChildOK(st, p, l, w, n)'
    <2>1. \A f \in 1..n : IsFirst(f)' /\ Evident(f)' => Answers(IF w # None THEN w[1].state ELSE st[1], f, n)'
        <3> SUFFICES ASSUME NEW f \in 1..n, IsFirst(f)', Evident(f)'
                     PROVE  Answers(IF w # None THEN w[1].state ELSE st[1], f, n)'
            OBVIOUS
        <3>1. PICK s : s = IF w # None THEN w[1].state ELSE st[1]
            OBVIOUS
        <3>2. IsFirst(f) /\ Evident(f) => Answers(s, f, n)
            BY <3>1 DEF ChildOK
        <3>3. Answers(s, f, n)'
            BY <1>2, <3>2
        <3> QED BY <3>1, <3>3
    <2> QED BY <1>1, <2>1 DEF ChildOK
<1>4. PICK x : x = next'
    OBVIOUS
<1>5. x - 1 = n
    BY <1>0, <1>4
<1>6. next' - 1 = n
    BY <1>4, <1>5
<1> QED BY <1>3, <1>6 DEF ExactChild

(* A step that leaves the child alone, while others are captured.             *)
LEMMA CaptureExact ==
    ASSUME AncestryInv, StartsInv, ExactChild, LogGrows, scene' = scene, at'[Child] = at[Child],
           UNCHANGED <<next, child>>
    PROVE  ExactChild'
<1>1. PICK n : n = next - 1
    OBVIOUS
<1>2. n \in 0..Len(log) /\ next' = n + 1 /\ WorldInv
    BY <1>1 DEF AncestryInv, QueueInv, WorldInv
<1>3. ChildOK(stored, pending, link, work, n)
    BY <1>1 DEF ExactChild
<1>4. stored = stored' /\ pending = pending' /\ link = link' /\ work = work'
    BY DEF child
<1> QED BY <1>2, <1>3, <1>4, ChildGoesOn

(* The event of another session is dispatched.                                *)
LEMMA OtherExact ==
    ASSUME AncestryInv, StartsInv, ExactChild, UNCHANGED <<log, scene, at, child>>,
           next' = next + 1, next <= Len(log), log[next].key # Child
    PROVE  ExactChild'
<1>1. PICK n : n = next - 1
    OBVIOUS
<1>2. /\ WorldInv /\ Len(log) \in Nat /\ n \in Nat /\ next = n + 1
      /\ next \in 0..Len(log)
    BY <1>1 DEF AncestryInv, QueueInv, WorldInv
<1>3. ChildOK(stored, pending, link, work, n)
    BY <1>1 DEF ExactChild
<1>4. Arrived(next) = Arrived(n)
    <2>1. Arrived(n + 1) = Arrived(n)
        BY <1>2, ArrivedNext
    <2> QED BY <1>2, <2>1
<1>5. ChildOK(stored, pending, link, work, next)
    <2>1. ASSUME NEW f \in 1..next, IsFirst(f), NEW s, Answers(s, f, n)
          PROVE  f \in 1..n /\ Answers(s, f, next)
        <3>1. f # next
            BY <2>1 DEF IsFirst
        <3>2. f \in 1..n
            BY <1>2, <3>1
        <3> QED BY <1>4, <2>1, <3>2, AnswersOfArrived
    <2>2. \A f \in 1..next : IsFirst(f) => f \in 1..n
        BY <1>2 DEF IsFirst
    <2>3. \A f \in 1..next : IsFirst(f) /\ Evident(f) =>
             Answers(IF work # None THEN work[1].state ELSE stored[1], f, next)
        BY <1>3, <1>4, <2>2, AnswersOfArrived DEF ChildOK
    <2> QED BY <1>3, <1>4, <2>3 DEF ChildOK
<1>6. LogGrows /\ at'[Child] = at[Child]
    BY <1>2 DEF LogGrows, WorldInv
<1>7. stored = stored' /\ pending = pending' /\ link = link' /\ work = work'
    BY DEF child
<1> QED BY <1>2, <1>5, <1>6, <1>7, ChildGoesOn

(* The answers for the events that were dispatched, with one state.           *)
Right(s, m) == \A f \in 1..m : IsFirst(f) /\ Evident(f) => Answers(s, f, m)

(* A decision that is worked on.                                              *)
LEMMA FinishExact ==
    ASSUME NEW m \in Nat, Arrived(m) # {}, link = None, NEW s, Shaped(s), s.route # None, Right(s, m),
           NEW by, Finish(by, s), NEW w, w = work'
    PROVE  UNCHANGED <<stored, pending, link>> /\ ChildOK(stored, pending, link, w, m)
<1> DEFINE p == [s EXCEPT !.parent = None]
           t == [p EXCEPT !.recovery = FALSE]
<1>1. Shaped(p) /\ p.route = s.route /\ p.expired = s.expired
    BY DEF Shaped
<1>2. t.route = s.route /\ t.expired = s.expired
    <2> HIDE DEF p
    <2> QED BY <1>1, RouteExcept
<1>3. w = <<[by |-> by, saved |-> FALSE, state |-> t]>> /\ UNCHANGED <<stored, pending, link>>
    BY DEF Finish
<1> HIDE DEF t
<1>4. w # None /\ w[1].state = t
    BY <1>3 DEF None
<1>5. \A f \in 1..m : IsFirst(f) /\ Evident(f) => Answers(t, f, m)
    BY <1>2, DecisionAnswers DEF Right
<1> QED BY <1>2, <1>3, <1>4, <1>5 DEF ChildOK

(* A state that waits is kept in memory and on disk.                          *)
LEMMA HoldExact ==
    ASSUME faults \in FaultCounts, Undisturbed', NEW m \in Nat, Arrived(m) # {}, link = None, work = None,
           NEW s, s.route = None, Right(s, m), NEW n \in Nat, Hold(s, n)
    PROVE  /\ n = 0 /\ pending' = <<s>> /\ stored' = <<s>> /\ link' = None
           /\ ChildOK(<<s>>, <<s>>, None, None, m)
<1>1. pending' = <<s>> /\ Write(s, n) /\ link' = None
    BY DEF Hold
<1>2. ~Failures(n + 1)
    <2>1. PICK x \in Nat : x = n + 1 /\ x # 0
        OBVIOUS
    <2>2. ~Failures(x)
        BY <2>1, FailuresNone
    <2> QED BY <2>1, <2>2
<1>3. stored' = <<s>> /\ Failures(n)
    BY <1>1, <1>2 DEF Write
<1>4. n = 0
    BY <1>3, FailuresNone
<1>5. <<s>> # None
    BY DEF None
<1> QED BY <1>1, <1>3, <1>4, <1>5 DEF ChildOK, Right

(* The child's event is dispatched: it decides, helps to decide, or follows.  *)
LEMMA DispatchChildExact ==
    ASSUME AncestryInv, StartsInv, ExactRegistry, ExactChild, faults \in FaultCounts, Undisturbed',
           DispatchChild
    PROVE  ExactChild'
<1>n. PICK n : n = next - 1
    OBVIOUS
<1>i. PICK i : i = next
    OBVIOUS
<1> DEFINE known == IF pending # None \/ link # None THEN {pending}
                    ELSE {stored} \cup (IF ReadFails THEN {None} ELSE {})
<1>0. /\ WorldInv /\ LinksInv /\ Len(log) \in Nat /\ n \in Nat /\ i = n + 1 /\ n = i - 1
      /\ ChildOK(stored, pending, link, work, n)
    BY <1>i, <1>n DEF AncestryInv, QueueInv, WorldInv, ExactChild
<1>1. /\ i = Upcoming /\ next' = i + 1 /\ i \in 1..Len(log) /\ log[i].key = Child
      /\ work = None /\ UNCHANGED <<log, scene, at>>
      /\ (log[i].kind = "start" /\ link = None => Settled)
    <2>1. Upcoming = next /\ Dispatched /\ Upcoming <= Len(log) /\ log[Upcoming].key = Child /\ work = None
          /\ UNCHANGED <<log, scene, at>>
          /\ (log[Upcoming].kind = "start" /\ link = None => Settled)
        BY DEF ExactRegistry, DispatchChild, WorkerIsFree, Upcoming, world
    <2>2. next' = next + 1 /\ next \in 1..Len(log)
        BY <2>1, <1>0, <1>i DEF ExactRegistry, Dispatched
    <2> QED BY <1>i, <2>1, <2>2
<1>2. PICK state \in known :
           \/ /\ state = None /\ link # None
              /\ \/ Deliver(link, i) /\ UNCHANGED <<stored, pending, link, work, faults>>
                 \/ /\ Hold([NewPending EXCEPT !.route = link, !.events = <<i>>,
                                               !.recovery = TRUE], 1)
                    /\ UNCHANGED work
           \/ /\ state = None /\ link = None
              /\ \/ Decided(First(i)) /\ Finish("worker", First(i))
                 \/ ~Decided(First(i)) /\ Hold(First(i), 0) /\ UNCHANGED work
           \/ /\ state # None /\ Decided(state[1])
              /\ LET t == [state[1] EXCEPT !.events = Append(@, i)]
                 IN  IF t.recovery THEN Hold(t, 0) /\ UNCHANGED work
                     ELSE Finish("worker", t)
           \/ /\ state # None /\ ~Decided(state[1])
              /\ \/ Decided(Next2nd(state[1], i)) /\ Finish("worker", Next2nd(state[1], i))
                 \/ ~Decided(Next2nd(state[1], i)) /\ Hold(Next2nd(state[1], i), 0) /\ UNCHANGED work
    <2>1. \E state \in (IF pending # None \/ link # None THEN {pending}
                        ELSE {stored} \cup (IF ReadFails THEN {None} ELSE {})) :
           \/ /\ state = None /\ link # None
              /\ \/ Deliver(link, Upcoming) /\ UNCHANGED <<stored, pending, link, work, faults>>
                 \/ /\ Hold([NewPending EXCEPT !.route = link, !.events = <<Upcoming>>,
                                               !.recovery = TRUE], 1)
                    /\ UNCHANGED work
           \/ /\ state = None /\ link = None
              /\ \/ Decided(First(Upcoming)) /\ Finish("worker", First(Upcoming))
                 \/ ~Decided(First(Upcoming)) /\ Hold(First(Upcoming), 0) /\ UNCHANGED work
           \/ /\ state # None /\ Decided(state[1])
              /\ LET t == [state[1] EXCEPT !.events = Append(@, Upcoming)]
                 IN  IF t.recovery THEN Hold(t, 0) /\ UNCHANGED work
                     ELSE Finish("worker", t)
           \/ /\ state # None /\ ~Decided(state[1])
              /\ \/ Decided(Next2nd(state[1], Upcoming)) /\ Finish("worker", Next2nd(state[1], Upcoming))
                 \/ ~Decided(Next2nd(state[1], Upcoming)) /\ Hold(Next2nd(state[1], Upcoming), 0)
                    /\ UNCHANGED work
        BY Zenon DEF DispatchChild
    <2> QED BY <1>1, <2>1, Zenon
<1> HIDE DEF known
<1>3. Arrived(i) # {} /\ Arrived(i) = Arrived(n) \cup {i}
    BY <1>0, <1>1, ArrivedNext
<1>4. LogGrows /\ scene' = scene /\ at'[Child] = at[Child] /\ i \in 0..Len(log)
    BY <1>0, <1>1 DEF LogGrows, WorldInv
<1>g. ASSUME NEW st, st = stored', NEW p, p = pending', NEW l, l = link', NEW w, w = work',
             ChildOK(st, p, l, w, i)
      PROVE  ExactChild'
    BY <1>0, <1>1, <1>4, <1>g, ChildGoesOn
<1>d. ASSUME NEW s, StateOK(s), link = None, Right(s, i), Decided(s), Finish("worker", s)
      PROVE  ExactChild'
    <2>1. Shaped(s) /\ s.route # None /\ i \in Nat
        BY <1>0, <1>d DEF Decided, StateOK
    <2>2. PICK w : w = work'
        OBVIOUS
    <2>3. UNCHANGED <<stored, pending, link>> /\ ChildOK(stored, pending, link, w, i)
        BY <1>3, <1>d, <2>1, <2>2, FinishExact
    <2> QED BY <1>g, <2>2, <2>3
<1>h. ASSUME NEW s, link = None, Right(s, i), ~Decided(s), Hold(s, 0), UNCHANGED work
      PROVE  ExactChild'
    <2>1. s.route = None /\ i \in Nat
        BY <1>0, <1>h DEF Decided
    <2>2. /\ pending' = <<s>> /\ stored' = <<s>> /\ link' = None
          /\ ChildOK(<<s>>, <<s>>, None, None, i)
        BY <1>1, <1>3, <1>h, <2>1, HoldExact
    <2>3. work' = None
        BY <1>1, <1>h
    <2> QED BY <1>g, <2>2, <2>3
<1>5. CASE Arrived(n) = {}
    <2>1. stored = None /\ pending = None /\ link = None
        BY <1>0, <1>5 DEF ChildOK
    <2>2. state = None
        BY <2>1 DEF known
    <2>3. IsFirst(i)
        BY <1>0, <1>1, <1>5 DEF IsFirst, Arrived, EventsOf
    <2>4. \A f \in 1..i : IsFirst(f) => f = i
        <3>1. \A f \in 1..i : f = i \/ f \in 1..n
            BY <1>0
        <3> QED BY <1>5, <3>1 DEF IsFirst, Arrived, EventsOf
    <2>5. Evident(i) => Answers(First(i), i, i)
        <3> SUFFICES ASSUME Evident(i) PROVE Answers(First(i), i, i)
            OBVIOUS
        <3>1. Settled
            BY <1>1, <2>1 DEF Evident
        <3> QED BY <1>1, <1>i, <2>3, <3>1, FirstExact
    <2>6. Right(First(i), i)
        BY <2>4, <2>5 DEF Right
    <2>7. StateOK(First(i))
        BY <1>1, FirstOK
    <2> QED BY <1>2, <1>d, <1>h, <2>1, <2>2, <2>6, <2>7
<1>6. CASE Arrived(n) # {}
    <2>1. stored # None
        BY <1>0, <1>1, <1>6 DEF ChildOK
    <2>2. \A f \in 1..i : IsFirst(f) => f \in 1..n
        <3>1. PICK x \in 1..n : log[x].key = Child
            BY <1>6 DEF Arrived, EventsOf
        <3>2. ~IsFirst(i)
            BY <1>0, <3>1 DEF IsFirst
        <3>3. \A f \in 1..i : f = i \/ f \in 1..n
            BY <1>0
        <3> QED BY <3>2, <3>3
    <2>3. \A f \in 1..n : IsFirst(f) /\ Evident(f) => Answers(stored[1], f, n)
        BY <1>0, <1>1 DEF ChildOK
    <2>4. CASE pending = stored /\ stored[1].route = None /\ link = None
        <3>1. state = stored
            BY <2>1, <2>4 DEF known
        <3>2. StateOK(stored[1])
            BY <1>0, <2>1 DEF LinksInv, HeldOK
        <3>3. StateOK(Next2nd(stored[1], i))
            BY <1>1, <2>4, <3>2, NextOK
        <3>4. Right(Next2nd(stored[1], i), i)
            <4> SUFFICES ASSUME NEW f \in 1..i, IsFirst(f), Evident(f)
                         PROVE  Answers(Next2nd(stored[1], i), f, i)
                BY DEF Right
            <4>1. f \in 1..n /\ f \in 1..Len(log) /\ n \in f..Len(log) /\ n + 1 \in 1..Len(log)
                BY <1>0, <1>1, <2>2
            <4>2. Answers(stored[1], f, n) /\ log[n + 1].key = Child
                BY <1>0, <1>1, <2>3, <4>1
            <4>3. Answers(Next2nd(stored[1], n + 1), f, n + 1)
                BY <2>4, <3>2, <4>1, <4>2, NextExact
            <4> QED BY <1>0, <4>3
        <3>5. \/ Decided(Next2nd(stored[1], i)) /\ Finish("worker", Next2nd(stored[1], i))
              \/ ~Decided(Next2nd(stored[1], i)) /\ Hold(Next2nd(stored[1], i), 0) /\ UNCHANGED work
            BY <1>2, <2>1, <2>4, <3>1 DEF Decided
        <3> QED BY <1>d, <1>h, <2>4, <3>3, <3>4, <3>5
    <2>5. CASE pending = None /\ stored[1].route # None /\ link # None
        <3>1. state = None
            BY <2>5 DEF known
        <3>2. ~Hold([NewPending EXCEPT !.route = link, !.events = <<i>>, !.recovery = TRUE], 1)
            <4>1. \A x \in {1, 2} : ~Failures(x)
                BY FailuresNone
            <4> QED BY <4>1 DEF Hold, Write
        <3>3. UNCHANGED <<stored, pending, link, work>>
            BY <1>2, <2>5, <3>1, <3>2
        <3>4. \A f \in 1..i : IsFirst(f) /\ Evident(f) => Answers(stored[1], f, i)
            <4> SUFFICES ASSUME NEW f \in 1..i, IsFirst(f), Evident(f) PROVE Answers(stored[1], f, i)
                OBVIOUS
            <4>1. f \in 1..n /\ Answers(stored[1], f, n)
                BY <2>2, <2>3
            <4>2. Answers(stored[1], f, n + 1)
                BY <1>0, <2>5, <4>1, DecisionAnswers
            <4> QED BY <1>0, <4>2
        <3>5. ChildOK(stored, pending, link, work, i)
            BY <1>1, <1>3, <2>1, <2>5, <3>4 DEF ChildOK
        <3> QED BY <1>g, <3>3, <3>5
    <2> QED BY <1>0, <1>1, <2>1, <2>4, <2>5 DEF ChildOK
<1> QED BY <1>5, <1>6

(* The holder of the lock saves and delivers what was decided.                *)
LEMMA WorkExact ==
    ASSUME AncestryInv, StartsInv, ExactChild, faults \in FaultCounts, Undisturbed',
           Save \/ DeliverFirst \/ FinishFails
    PROVE  ExactChild'
<1>n. PICK n : n = next - 1
    OBVIOUS
<1> DEFINE s == work[1].state
<1>0. /\ WorldInv /\ n \in Nat /\ n \in 0..Len(log) /\ next' = n + 1 /\ work # None
      /\ LogGrows /\ scene' = scene /\ at'[Child] = at[Child]
      /\ ChildOK(stored, pending, link, work, n)
      /\ WorkShaped(work[1]) /\ StateOK(s) /\ Shaped(s)
    <2>1. UNCHANGED <<log, next, scene, at>> /\ work # None
        BY DEF Save, DeliverFirst, FinishFails, world
    <2>2. WorkShaped(work[1]) /\ StateOK(s) /\ Shaped(s)
        BY <2>1 DEF AncestryInv, LinksInv, WorkOK, StateOK
    <2> HIDE DEF s
    <2> QED BY <1>n, <2>1, <2>2 DEF AncestryInv, QueueInv, WorldInv, ExactChild, LogGrows
<1>g. ASSUME NEW st, st = stored', NEW p, p = pending', NEW l, l = link', NEW w, w = work',
             ChildOK(st, p, l, w, n)
      PROVE  ExactChild'
    BY <1>0, <1>g, ChildGoesOn
<1>1. /\ Arrived(n) # {} /\ link = None /\ s.route # None
      /\ \A f \in 1..n : IsFirst(f) /\ Evident(f) => Answers(s, f, n)
    BY <1>0 DEF ChildOK
<1>2. ~Write([Current EXCEPT !.recovery = TRUE], 1)
    <2>1. \A x \in {1, 2} : ~Failures(x)
        BY FailuresNone
    <2> QED BY <2>1 DEF Write
<1>3. ASSUME NEW w, w # None, w[1].state.route = s.route, w[1].state.expired = s.expired, NEW st, NEW p
      PROVE  ChildOK(st, p, None, w, n)
    <2>1. \A f \in 1..n : IsFirst(f) /\ Evident(f) => Answers(w[1].state, f, n)
        BY <1>0, <1>1, <1>3, DecisionAnswers
    <2> QED BY <1>1, <1>3, <2>1 DEF ChildOK
<1>4. CASE Save
    <2>1. /\ stored' = <<s>> /\ given' = given
          /\ \/ pending' = None /\ link' = s.route /\ work' = None
             \/ /\ s.events # <<>> /\ link' = link
                /\ pending' = <<s>> /\ work' = <<[work[1] EXCEPT !.saved = TRUE]>>
        BY <1>4 DEF Save, Current
    <2>2. CASE pending' = None /\ link' = s.route /\ work' = None
        <3>1. ChildOK(<<s>>, None, s.route, None, n)
            <4>1. <<s>> # None
                BY DEF None
            <4> HIDE DEF s
            <4> QED BY <1>1, <4>1 DEF ChildOK
        <3> QED BY <1>g, <2>1, <2>2, <3>1
    <2>3. CASE link' = link /\ pending' = <<s>> /\ work' = <<[work[1] EXCEPT !.saved = TRUE]>>
        <3> DEFINE w == <<[work[1] EXCEPT !.saved = TRUE]>>
        <3>1. w # None /\ w[1].state = s
            BY <1>0, WorkExcept DEF None
        <3>2. work' = w
            BY <2>3
        <3> HIDE DEF w, s
        <3>3. ChildOK(<<s>>, <<s>>, None, w, n)
            BY <1>3, <3>1
        <3>4. PICK x : x = w
            OBVIOUS
        <3> QED BY <1>1, <1>g, <2>1, <2>3, <3>2, <3>3
    <2> QED BY <2>1, <2>2, <2>3
<1>5. CASE DeliverFirst
    <2>1. /\ UNCHANGED <<stored, pending, link>>
          /\ work' = <<[work[1] EXCEPT !.saved = FALSE,
                                       !.state.events = Tail(work[1].state.events)]>>
        BY <1>5 DEF DeliverFirst, Current
    <2>2. PICK v : v = Tail(work[1].state.events)
        OBVIOUS
    <2> DEFINE w == <<[work[1] EXCEPT !.saved = FALSE, !.state.events = v]>>
    <2>3. w # None /\ w[1].state = [s EXCEPT !.events = v]
        <3>1. \A y : [work[1] EXCEPT !.saved = FALSE, !.state.events = y].state
                       = [work[1].state EXCEPT !.events = y]
            BY <1>0, WorkExcept, ZenonT(40)
        <3> QED BY <3>1 DEF None
    <2>4. [s EXCEPT !.events = v].route = s.route /\ [s EXCEPT !.events = v].expired = s.expired
        BY <1>0, RouteExcept
    <2>5. work' = w
        BY <2>1, <2>2
    <2> HIDE DEF w, s
    <2>6. ChildOK(stored, pending, None, w, n)
        BY <1>3, <2>3, <2>4
    <2> QED BY <1>1, <1>g, <2>1, <2>5, <2>6
<1>6. CASE FinishFails
    BY <1>2, <1>6, Zenon DEF FinishFails
<1> QED BY <1>4, <1>5, <1>6

(* A child that waits too long, or is asked to decide, decides without.       *)
LEMMA WaitExact ==
    ASSUME AncestryInv, StartsInv, ExactChild,
           Expire \/ \E forced \in {FALSE, scene.forced} : ResolvePending(forced)
    PROVE  ExactChild'
<1>n. PICK n : n = next - 1
    OBVIOUS
<1>0. /\ WorldInv /\ n \in Nat /\ n \in 0..Len(log) /\ next' = n + 1 /\ pending # None
      /\ LogGrows /\ scene' = scene /\ at'[Child] = at[Child]
      /\ ChildOK(stored, pending, link, work, n)
      /\ (stored # None => Shaped(stored[1])) /\ Shaped(pending[1])
      /\ StateOK(pending[1])
    <2>1. UNCHANGED <<log, next, scene, at>> /\ pending # None
        BY DEF Expire, ResolvePending, world
    <2> QED BY <1>n, <2>1 DEF AncestryInv, QueueInv, WorldInv, ExactChild, LogGrows,
              LinksInv, HeldOK, StateOK
<1>g. ASSUME NEW st, st = stored', NEW p, p = pending', NEW l, l = link', NEW w, w = work',
             ChildOK(st, p, l, w, n)
      PROVE  ExactChild'
    BY <1>0, <1>g, ChildGoesOn
<1>1. /\ Arrived(n) # {}
      /\ work = None => /\ stored # None /\ pending = stored /\ stored[1].route = None /\ link = None
                        /\ \A f \in 1..n : IsFirst(f) /\ Evident(f) => Answers(stored[1], f, n)
    BY <1>0 DEF ChildOK
<1>2. CASE Expire
    <2> DEFINE p == <<[pending[1] EXCEPT !.expired = TRUE]>>
               x == [stored[1] EXCEPT !.expired = TRUE]
               st == IF stored = None THEN None ELSE <<x>>
    <2>1. /\ pending' = p /\ stored' = st /\ UNCHANGED <<link, work>>
        BY <1>2 DEF Expire
    <2>2. CASE work # None
        <3>1. stored = None <=> st = None
            BY DEF None
        <3> HIDE DEF p, st
        <3>2. ChildOK(st, p, link, work, n)
            BY <1>0, <1>1, <2>2 DEF ChildOK
        <3> QED BY <1>g, <2>1, <3>2
    <2>3. CASE work = None
        <3>1. st = <<x>> /\ p = <<x>>
            BY <1>1, <2>3
        <3>2. x.route = None /\ x.events = stored[1].events /\ x.parent = stored[1].parent
            BY <1>0, <1>1, <2>3, RouteExcept
        <3> HIDE DEF p, st, x
        <3>3. \A f \in 1..n : IsFirst(f) /\ Evident(f) => Answers(x, f, n)
            BY <1>1, <2>3, <3>2 DEF Answers, Waits
        <3>4. <<x>> # None
            BY DEF None
        <3>5. ChildOK(<<x>>, <<x>>, link, work, n)
            BY <1>1, <2>3, <3>2, <3>3, <3>4 DEF ChildOK
        <3> QED BY <1>g, <2>1, <3>1, <3>5
    <2> QED BY <2>2, <2>3
<1>3. ASSUME NEW forced \in {FALSE, scene.forced}, ResolvePending(forced)
      PROVE  ExactChild'
    <2> DEFINE s == pending[1]
               t == [s EXCEPT !.route = Alone]
    <2>1. /\ work = None /\ s.route = None /\ s = stored[1] /\ link = None
        BY <1>1, <1>3 DEF ResolvePending
    <2>2. (s.expired \/ forced) /\ Finish("reconciler", t)
        BY <1>3, <2>1 DEF ResolvePending, Decided
    <2>3. Shaped(t) /\ t.route = Alone /\ t.expired = s.expired
        <3>1. Shaped(s)
            BY <1>0
        <3> HIDE DEF s
        <3> QED BY <3>1 DEF Shaped
    <2>4. Alone # None
        BY SpansAreNoRoutes
    <2> HIDE DEF t, s
    <2>5. Right(t, n)
        <3> SUFFICES ASSUME NEW f \in 1..n, IsFirst(f), Evident(f) PROVE Answers(t, f, n)
            BY DEF Right
        <3>1. Answers(s, f, n)
            BY <1>1, <2>1
        <3>2. scene.command
            BY <2>1, <3>1 DEF Answers
        <3>3. TooLate(t, f, n)
            BY <2>2, <2>3 DEF TooLate
        <3> QED BY <2>3, <2>4, <3>2, <3>3 DEF Answers
    <2>6. PICK w : w = work'
        OBVIOUS
    <2>7. UNCHANGED <<stored, pending, link>> /\ ChildOK(stored, pending, link, w, n)
        BY <1>0, <1>1, <2>1, <2>2, <2>3, <2>4, <2>5, <2>6, FinishExact
    <2> QED BY <1>g, <2>6, <2>7
<1> QED BY <1>2, <1>3

(* Every step, unless something fails, keeps the child as the log says.       *)
LEMMA ExactChildNext ==
    ASSUME AncestryInv, StartsInv, ExactRegistry, ExactChild, faults \in FaultCounts, Undisturbed',
           [Next]_vars
    PROVE  ExactChild'
<1>0. log \in Seq(Events) /\ Len(log) \in Nat /\ DOMAIN at = Keys \cup {Child} /\ startup = {}
    BY DEF AncestryInv, WorldInv, ExactRegistry
<1>c. ASSUME NEW k \in Keys, NEW kind, NEW tool, CaptureParent(k, kind, tool), LogGrows
      PROVE  ExactChild'
    <2>1. UNCHANGED <<next, child, scene>> /\ \E chain : at' = [at EXCEPT ![k] = chain]
        BY <1>c DEF CaptureParent
    <2>2. at'[Child] = at[Child]
        BY <2>1, <1>0, ChildAssumption
    <2> QED BY <1>c, <2>1, <2>2, CaptureExact
<1>1. ASSUME NEW k \in Keys, NEW kind \in {"start", "other", "end"}, CaptureParent(k, kind, None)
      PROVE  ExactChild'
    <2>1. LogGrows
        BY <1>1, CaptureAncestry
    <2> QED BY <1>1, <1>c, <2>1
<1>2. ASSUME NEW k \in Keys, NEW kind \in {"open", "close"}, NEW tool \in Tools, CaptureParent(k, kind, tool)
      PROVE  ExactChild'
    <2>1. LogGrows
        BY <1>2, CaptureAncestry
    <2> QED BY <1>2, <1>c, <2>1
<1>3. ASSUME NEW kind \in {"start", "other"}, CaptureChild(kind)
      PROVE  ExactChild'
    <2>1. LogGrows
        BY <1>3, CaptureAncestry
    <2>2. UNCHANGED <<next, child, scene, at>>
        BY <1>3 DEF CaptureChild, world
    <2> QED BY <2>1, <2>2, CaptureExact
<1>4. CASE DispatchParent \/ AttachParent
    <2>1. /\ UNCHANGED <<log, scene, at, child>> /\ Dispatched /\ WorkerIsFree
          /\ log[Upcoming].key # Child
        BY <1>4, ChildAssumption, Zenon DEF DispatchParent, AttachParent, world, ExactRegistry
    <2>2. next' = next + 1 /\ next <= Len(log) /\ log[next].key # Child
        BY <1>0, <2>1 DEF Dispatched, WorkerIsFree, Upcoming
    <2> QED BY <2>1, <2>2, OtherExact
<1>5. CASE \/ FindExited \/ PruneRetired \/ UNCHANGED vars
           \/ \E k \in Keys : Observe(k) \/ SaveSnapshot(k) \/ Retire(k) \/ Exit(k)
    <2>1. UNCHANGED <<log, next, scene, at>> /\ UNCHANGED child
        BY <1>5 DEF FindExited, PruneRetired, Observe, SaveSnapshot, Retire, Exit, vars, child, world
    <2>2. LogGrows
        BY <1>0, <2>1 DEF LogGrows
    <2> QED BY <2>1, <2>2, CaptureExact
<1>6. CASE Save \/ DeliverFirst \/ FinishFails
    BY <1>6, WorkExact
<1>7. CASE Expire \/ \E forced \in {FALSE, scene.forced} : ResolvePending(forced)
    BY <1>7, WaitExact
<1>8. CASE Restart
    <2>1. faults' = [faults EXCEPT !.crashes = @ + 1]
        BY <1>8 DEF Restart
    <2>2. faults'.crashes = faults.crashes + 1 /\ faults.crashes \in Nat
        BY <2>1 DEF FaultCounts
    <2>3. faults'.crashes # 0
        BY <2>2
    <2> QED BY <2>3 DEF Undisturbed, FaultFree
<1> QED BY <1>1, <1>2, <1>3, <1>4, <1>5, <1>6, <1>7, <1>8, DispatchChildExact DEF Next

(* Every step keeps the invariant.                                            *)
LEMMA NextExactInv ==
    ASSUME AncestryInv, ExactInv, [Next]_vars
    PROVE  ExactInv'
<1>1. faults \in FaultCounts /\ StartsInv /\ (Undisturbed => ExactRegistry /\ ExactChild)
    BY DEF ExactInv
<1>2. faults' \in FaultCounts /\ (Undisturbed' => Undisturbed) /\ StartsInv'
    BY <1>1, FaultsNext, StartsNext
<1>3. ASSUME Undisturbed' PROVE ExactRegistry' /\ ExactChild'
    BY <1>1, <1>2, <1>3, ExactRegistryNext, ExactChildNext
<1> QED BY <1>2, <1>3 DEF ExactInv

(* It holds at the beginning.                                                 *)
LEMMA InitExact == Init => ExactInv
<1> SUFFICES ASSUME Init PROVE ExactInv
    OBVIOUS
<1>1. /\ log = <<>> /\ next = 1 /\ startup = {} /\ reg = Empty /\ attached = {}
      /\ seen = [k \in Keys |-> 0] /\ waiting = {} /\ exited = {}
      /\ stored = None /\ pending = None /\ link = None /\ work = None
      /\ faults = [crashes |-> 0, failures |-> 0, retires |-> 0]
    BY DEF Init
<1>2. faults \in FaultCounts /\ StartsInv /\ next - 1 = 0
    BY <1>1 DEF FaultCounts, StartsInv
<1>3. Arrived(0) = {} /\ \A k : ~HasEvents(k, 0)
    BY DEF Arrived, EventsOf, HasEvents
<1>4. ExactChild
    BY <1>1, <1>2, <1>3 DEF ExactChild, ChildOK
<1>5. ToldOK(reg, 0)
    BY <1>1 DEF ToldOK, Empty
<1>6. SeenOK(reg, 0, seen)
    <2>1. WorldInv /\ log \in Seq(Events) /\ \A i \in 1..Len(log) : Worded(log[i])
        BY InitAncestry DEF AncestryInv, WorldInv
    <2>2. \A k \in Keys : SpansIn(k, 0) = NoSpans
        BY <2>1, SpansInSteps
    <2> QED BY <1>1, <2>2, EmptyIsRegistry DEF SeenOK
<1>7. ExactRegistry
    BY <1>1, <1>2, <1>3, <1>5, <1>6 DEF ExactRegistry
<1> QED BY <1>2, <1>4, <1>7 DEF ExactInv

(* Unless something fails, the daemon knows of every session what the log up  *)
(* to the event it dispatches next says of its agent, and up to the one it    *)
(* observed last of its spans; and of the child whether it waits, for which   *)
(* parent, and what it decided.                                               *)
THEOREM ExactInductive == Spec => []ExactInv
BY InitExact, NextExactInv, AncestryInductive, PTL DEF Spec

(* Unless something fails, the child is linked exactly as the log says at its *)
(* first event: to the one open session of the nearest agent above its own,   *)
(* at its one open call or else the span of the session itself, or to none    *)
(* (resolve, correlation.rs:344-420).  That holds however far behind the      *)
(* other sessions are translated when the child starts, since their producers *)
(* settle first (ingress.rs:198-207), and when its own agent is told by a     *)
(* later hook (correlation_store.rs:185-215), unless that hook comes after    *)
(* the wait, the limit of events, another start or a flush.                   *)
THEOREM LinksAreExact == Spec => []LinkIsExact
<1>1. ASSUME AncestryInv, ExactInv PROVE LinkIsExact
    <2> DEFINE f == Min(EventsOf(Child, 1, Len(log)))
               m == next - 1
               s == IF work # None THEN Current ELSE stored[1]
               known == EventsOf(Child, f, m)
               told == {i \in known : /\ log[i].capture # None
                                      /\ Cardinality(EventsOf(Child, f, i)) <= EventLimit}
               late == \/ s.expired \/ scene.forced
                       \/ \E i \in known \ {f} : log[i].kind = "start"
                       \/ Cardinality(told) < 2
    <2>1. SUFFICES ASSUME Undisturbed, work # None \/ stored # None, Evident(f)
                   PROVE  IF ~Decided(s) THEN scene.command
                          ELSE s.route = Expected(f) \/ (scene.command /\ late /\ s.route = Alone)
        BY Zenon DEF LinkIsExact, Undisturbed
    <2>2. /\ ChildOK(stored, pending, link, work, m) /\ m \in Nat /\ m <= Len(log) /\ Len(log) \in Nat
        BY <1>1, <2>1 DEF ExactInv, ExactChild, AncestryInv, QueueInv, WorldInv
    <2>3. PICK x \in 1..m : log[x].key = Child
        BY <2>1, <2>2 DEF ChildOK, Arrived, EventsOf
    <2>4. /\ f \in EventsOf(Child, 1, Len(log)) /\ \A y \in EventsOf(Child, 1, Len(log)) : f <= y
        <3>1. EventsOf(Child, 1, Len(log)) \in SUBSET Nat /\ x \in EventsOf(Child, 1, Len(log))
            BY <2>2, <2>3 DEF EventsOf
        <3> QED BY <3>1, Least
    <2>5. /\ f \in 1..m /\ log[f].key = Child
          /\ \A i \in 1..f - 1 : log[i].key # Child
        <3>1. PICK g : g = f
            OBVIOUS
        <3> HIDE DEF f
        <3>2. g \in 1..Len(log) /\ log[g].key = Child /\ g <= x
            BY <2>2, <2>3, <2>4, <3>1 DEF EventsOf
        <3>3. \A i \in 1..g - 1 : log[i].key # Child
            <4> SUFFICES ASSUME NEW i \in 1..g - 1, log[i].key = Child PROVE FALSE
                OBVIOUS
            <4>1. i \in EventsOf(Child, 1, Len(log))
                BY <2>2, <3>2 DEF EventsOf
            <4> QED BY <2>4, <3>1, <3>2, <4>1
        <3> QED BY <2>2, <2>3, <3>1, <3>2, <3>3
    <2> HIDE DEF f, m
    <2>6. IsFirst(f) /\ known = Arrived(m)
        <3>1. IsFirst(f)
            BY <2>5 DEF IsFirst
        <3>2. \A i \in 1..m : i \in 1..f - 1 \/ i \in f..m
            BY <2>2, <2>5
        <3>3. f..m \subseteq 1..m
            BY <2>5
        <3> QED BY <2>5, <3>1, <3>2, <3>3 DEF Arrived, EventsOf
    <2>7. Answers(s, f, m)
        BY <2>1, <2>2, <2>5, <2>6 DEF ChildOK, Current
    <2>8. TooLate(s, f, m) => late
        <3> SUFFICES ASSUME TooLate(s, f, m),
                            \A i \in Arrived(m) \ {f} : log[i].capture # None
                               => Cardinality(EventsOf(Child, f, i)) > EventLimit
                     PROVE  Cardinality(told) < 2
            BY <2>6 DEF TooLate
        <3>1. \A i : IsFiniteSet(EventsOf(Child, f, i)) => Cardinality(EventsOf(Child, f, i)) \in Nat
            BY FS_CardinalityType
        <3>2. \A i \in Arrived(m) : IsFiniteSet(EventsOf(Child, f, i))
            <4> SUFFICES ASSUME NEW i \in Arrived(m) PROVE IsFiniteSet(EventsOf(Child, f, i))
                OBVIOUS
            <4>1. EventsOf(Child, f, i) \subseteq f..i /\ f \in Int /\ i \in Int
                BY <2>5 DEF EventsOf, Arrived
            <4> QED BY <4>1, FS_Interval, FS_Subset
        <3>3. told \subseteq {f}
            BY <2>6, <3>1, <3>2, EventLimitAssumption
        <3> HIDE DEF told
        <3>4. told = {} \/ told = {f}
            BY <3>3
        <3>5. Cardinality({f}) = 1 /\ Cardinality({}) = 0
            BY FS_EmptySet, FS_Singleton
        <3>6. Cardinality(told) = 0 \/ Cardinality(told) = 1
            BY <3>4, <3>5
        <3> QED BY <3>6
    <2> HIDE DEF late, s
    <2> QED BY <2>7, <2>8 DEF Answers, Decided
<1> QED BY <1>1, AncestryInductive, ExactInductive, PTL
==============================================================================
