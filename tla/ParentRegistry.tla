--------------------------- MODULE ParentRegistry ---------------------------
(* The registry of coding-agent sessions, their processes and their open      *)
(* spans (correlation.rs), as operations on one record.  Every method of      *)
(* CorrelationRegistry but prune_retired holds its lock from beginning to end.*)
EXTENDS Naturals, Sequences, FiniteSets, SequencesExt

CONSTANTS Keys,      \* delivery keys of the sessions that may be parents
          Native,    \* the native session of a key: a session may have a key
                     \* for each of its routes
          Processes, \* valid process identities (a pid and its start time)
          Tools,     \* tool calls of a session
          Command    \* keys of agents whose hooks are one-shot commands, of
                     \* which only the ancestors can be the agent

None == <<>>
Session == "session"    \* the span of a session, as a parent

\* State.  `tools` are the spans of the calls that are open.
Registry ==
  [agent       : [Keys -> SUBSET Processes],
   sessions    : [Processes -> SUBSET Keys],
   unconfirmed : [Keys -> Seq(Processes)],
   opened      : SUBSET Keys,
   retired     : SUBSET Keys,
   live        : SUBSET Keys,
   tools       : [Keys -> SUBSET Tools],
   span        : [Keys -> {"none", "active", "ended"}]]

Empty ==
  [agent |-> [k \in Keys |-> {}], sessions |-> [p \in Processes |-> {}],
   unconfirmed |-> [k \in Keys |-> None], opened |-> {}, retired |-> {}, live |-> {},
   tools |-> [k \in Keys |-> {}], span |-> [k \in Keys |-> "none"]]
-----------------------------------------------------------------------------
(* Processes.  A capture is the chain of processes from the one that connects *)
(* to the daemon up to the first; None when nothing could be captured.        *)

\* The agent of a session: the process that connects, unless it is a command
\* of the agent.  Then it is the nearest process above two of them.
SessionAgent(command, previous, latest) ==
  LET shared == {i \in 2..Len(latest) : latest[i] \in Range(Tail(previous))}
      \* Identities are reused: two hooks that look alike are two only if the
      \* parent of neither is above the other.
      distinct == \/ previous[1] # latest[1]
                  \/ /\ Len(previous) > 1 /\ Len(latest) > 1
                     /\ latest[2] \notin Range(previous)
                     /\ previous[2] \notin Range(latest)
  IN  IF ~command THEN IF previous = None THEN None ELSE <<previous[1]>>
      ELSE IF previous = None \/ latest = None THEN None
      ELSE IF ~distinct \/ shared = {} THEN None
      ELSE <<latest[CHOOSE i \in shared : \A j \in shared : i <= j]>>

\* The processes above the child's agent, or all of them while it is unknown.
Above(chain, agent) ==
  IF agent = None THEN chain
  ELSE IF agent[1] \notin Range(chain) THEN None
  ELSE SubSeq(chain, 1 + CHOOSE i \in DOMAIN chain : chain[i] = agent[1], Len(chain))

NeedsProcessCapture(reg, native) ==
  LET keys == {k \in Keys : Native[k] = native}
  IN  \/ \E k \in keys : k \in reg.opened \/ reg.unconfirmed[k] # None
      \/ \A k \in keys : reg.agent[k] = {}

RemoveProcessMapping(reg, k) ==
  [reg EXCEPT !.agent[k] = {},
              !.sessions = [p \in Processes |-> IF p \in reg.agent[k] THEN @[p] \ {k} ELSE @[p]]]

AddProcessMapping(reg, k, p) ==
  [reg EXCEPT !.agent[k] = @ \cup {p}, !.sessions[p] = @ \cup {k}]

\* A native start keeps the known agent until its replacement is confirmed;
\* afterwards only another start may replace it.
ObserveSession(reg, k, capture, start) ==
  LET known == [reg EXCEPT !.live = @ \cup {k}, !.retired = @ \ {k}]
      begun == IF start THEN [known EXCEPT !.unconfirmed[k] = None, !.opened = @ \cup {k}]
               ELSE known
      fixed == ~start /\ reg.agent[k] # {} /\ k \notin reg.opened
      agent == IF k \in Command THEN SessionAgent(TRUE, begun.unconfirmed[k], capture)
               ELSE SessionAgent(FALSE, capture, None)
      settled == RemoveProcessMapping(
                   [begun EXCEPT !.unconfirmed[k] = None, !.opened = @ \ {k}], k)
  IN  IF fixed \/ capture = None THEN begun
      ELSE IF agent # None THEN AddProcessMapping(settled, k, agent[1])
      ELSE IF k \in Command THEN [begun EXCEPT !.unconfirmed[k] = capture]
      ELSE begun
-----------------------------------------------------------------------------
(* Open spans.                                                                *)

\* What an event of a session does to its spans that may be parents.  The end
\* of a session ends the calls that are open (finalize).
SpansAfter(spans, event) ==
  CASE event.kind = "start" -> [spans EXCEPT !.span = "active"]
    [] event.kind = "open" -> [spans EXCEPT !.tools = @ \cup {event.tool}]
    [] event.kind = "close" -> [spans EXCEPT !.tools = @ \ {event.tool}]
    [] event.kind = "end" ->
         [tools |-> {}, span |-> IF spans.span = "none" THEN "none" ELSE "ended"]
    [] OTHER -> spans

SpansOf(reg, k) == [tools |-> reg.tools[k], span |-> reg.span[k]]
WithSpans(reg, k, spans) == [reg EXCEPT !.tools[k] = spans.tools, !.span[k] = spans.span]
ObserveOps(reg, k, event) == WithSpans(reg, k, SpansAfter(SpansOf(reg, k), event))

\* The same for its events in a history, under one lock.
ObserveHistory(reg, k, history) ==
  LET after[n \in 0..Len(history)] ==
        IF n = 0 THEN SpansOf(reg, k)
        ELSE IF history[n].key = k THEN SpansAfter(after[n - 1], history[n])
        ELSE after[n - 1]
  IN  WithSpans(reg, k, after[Len(history)])

SessionIsOpen(reg, k) == reg.tools[k] # {} \/ reg.span[k] = "active"

\* The span of a session that a child would hang under: its only open call,
\* else the session's.
ParentSpan(reg, k) ==
  IF Cardinality(reg.tools[k]) = 1 THEN {<<k, t>> : t \in reg.tools[k]}
  ELSE IF reg.span[k] = "active" THEN {<<k, Session>>} ELSE {}

\* The parent of a child whose start was captured.  The nearest process that is
\* an agent decides: one native session must be open there, not the child's
\* own, and of its keys one with a route that the child may follow.
Resolve(reg, child, capture, agent, compatible) ==
  LET chain == Above(capture, agent)
      agents == {i \in DOMAIN chain : reg.sessions[chain[i]] # {}}
      process == chain[CHOOSE i \in agents : \A j \in agents : i <= j]
      open == {k \in reg.sessions[process] : SessionIsOpen(reg, k)}
      spans == UNION {ParentSpan(reg, k) : k \in open \cap compatible}
      standalone == [kind |-> "standalone"]
  IN  IF agents = {} THEN standalone
      ELSE IF Cardinality({Native[k] : k \in open}) # 1 THEN standalone
      ELSE IF child \in {Native[k] : k \in open} THEN standalone
      ELSE IF Cardinality(spans) # 1 THEN standalone
      ELSE [kind |-> IF agent = None THEN "pending" ELSE "parent",
            process |-> process, span |-> CHOOSE span \in spans : TRUE]

\* Mutant: a process is above itself.
ConfirmParentSelf(candidate, capture, agent) ==
  agent # None /\ candidate.process \in Range(capture)

\* A candidate is the parent if its process is above the child's agent.
ConfirmParent(candidate, capture, agent) ==
  candidate.process \in Range(Above(capture, agent))
-----------------------------------------------------------------------------
(* Retirement.                                                                *)

HasActiveTools(reg, k) == reg.tools[k] # {}

RetireSession(reg, k) ==
  [reg EXCEPT !.live = @ \ {k}, !.unconfirmed[k] = None, !.opened = @ \ {k},
              !.tools[k] = {}, !.span[k] = "none",
              !.retired = IF reg.agent[k] # {} THEN @ \cup {k} ELSE @]

\* prune_retired looks at the processes outside the lock.
Exited(reg, alive) == {k \in reg.retired : reg.agent[k] \cap alive = {}}
Prune(reg, exited) ==
  LET gone == exited \cap reg.retired
  IN  [reg EXCEPT !.retired = @ \ gone,
                  !.agent = [k \in Keys |-> IF k \in gone THEN {} ELSE @[k]],
                  !.sessions = [p \in Processes |->
                                  @[p] \ {k \in gone : p \in reg.agent[k]}]]
-----------------------------------------------------------------------------
(* Snapshots of the open spans, which a restart restores.                     *)

Snapshot(reg, k, dirty) ==
  IF reg.tools[k] = {} /\ reg.span[k] # "active" THEN None
  ELSE <<[dirty |-> dirty, processes |-> reg.agent[k], tools |-> reg.tools[k],
          active |-> reg.span[k] = "active"]>>

\* restore_active_parent, for every snapshot of a session with one process.
RestoreActiveParents(snapshots) ==
  LET restored == {k \in Keys : /\ snapshots[k] # None /\ ~snapshots[k][1].dirty
                                /\ Cardinality(snapshots[k][1].processes) = 1}
  IN  [Empty EXCEPT
         !.agent = [k \in Keys |-> IF k \in restored THEN snapshots[k][1].processes ELSE {}],
         !.sessions = [p \in Processes |-> {k \in restored : p \in snapshots[k][1].processes}],
         !.tools = [k \in Keys |-> IF k \in restored THEN snapshots[k][1].tools ELSE {}],
         !.span = [k \in Keys |-> IF k \in restored /\ snapshots[k][1].active
                                  THEN "active" ELSE "none"]]
=============================================================================
