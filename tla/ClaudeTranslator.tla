-------------------------- MODULE ClaudeTranslator --------------------------
(* The translator of Claude Code (translate/claude.rs).  It joins two sources *)
(* of one session: hooks, which say when prompts, tool calls and subagents    *)
(* begin and end, and the transcript, in which responses and results appear   *)
(* later.  Every hook reads the transcript as far as it has been written;     *)
(* what it read is translated when a turn ends, or with the next prompt.      *)
EXTENDS SpanTree, Sequences, SequencesExt

CONSTANTS Scopes, \* bounds of a behaviour: prompts, responses (replies), the
                  \* tool calls (calls) and subagents (agents) it may have,
                  \* compactions; the prompts whose hook carries an id (ids),
                  \* and whether prompts are worded alike (same)
          Again,  \* whether prompts are delivered again
          Resumed, \* whether a session that ended is resumed
          Midway  \* whether a session is retired while the agent works

VARIABLE st

Main == "main"
Session(s) == <<"session", s.ends>>
Prompt(p) == <<"prompt", p>>
Reply(r) == <<"reply", r>>
Call(c) == <<"call", c>>
Agent(a) == <<"agent", a>>
TurnSpan(n) == <<"turn", n>>
ContinuationSpan(n) == <<"continuation", n>>
SubagentSpan(a) == <<"subagent", a>>
LlmSpan(scope, r) == <<scope, "llm", r>>
ToolSpan(c) == <<"tool", c>>
RootSpan(s) == IF s.generation = 0 THEN Root ELSE <<"root", s.generation>>

Get(f, k) == IF k \in DOMAIN f THEN f[k] ELSE None
Or(x, y) == IF x # None THEN x ELSE y

NoTurn == [id |-> None, owner |-> None]
NoRest == [records |-> <<>>, parent |-> None, scope |-> Main, clear |-> FALSE]

\* What release_terminal_state forgets: what it knew of subagents and calls,
\* which turn a prompt, a response or a call belongs to (turnOf, of record_
\* and prompt_turns, requestTurn, toolTurn), prompts without a record
\* (waiting), and how far the transcript has been read and translated.
Cleared ==
  [subagents |-> Nothing, origins |-> Nothing, lastOwner |-> None,
   pending |-> Nothing, requests |-> {}, tools |-> {},
   turnOf |-> Nothing, requestTurn |-> Nothing, toolTurn |-> Nothing,
   current |-> None, waiting |-> <<>>, read |-> 0, translated |-> 0]

\* ClaudeTranslator.  History: the session's transcript (log) and those of
\* its subagents, each in the order in which things happen; prompts, responses
\* and compactions so far; the prompt the agent works on, and whether it does;
\* subagents that run or stopped; the call begun by a response, and the prompt
\* that caused each operation (home).
Init ==
  \E max \in Scopes :
    st = [max |-> max, opened |-> FALSE, ended |-> FALSE, generation |-> 0,
          turn |-> NoTurn, last |-> None, turns |-> 0, continuations |-> 0,
          owners |-> Nothing, output |-> FALSE, rest |-> NoRest]
         @@ Cleared @@
         [log |-> <<>>, agentLog |-> [a \in max.agents |-> <<>>],
          prompts |-> 0, replies |-> 0, compactions |-> 0, ends |-> 0,
          now |-> 0, busy |-> FALSE, running |-> {}, stopped |-> {},
          begun |-> {}, home |-> Nothing,
          rows |-> NoRows, done |-> {}, left |-> {}, retired |-> FALSE]

Release(s) ==
  [f \in DOMAIN s |-> IF f \in DOMAIN Cleared THEN Cleared[f] ELSE s[f]]
-----------------------------------------------------------------------------
(* The transcript.                                                            *)

UserRecord(p) == [kind |-> "user", of |-> p, prompt |-> p, calls |-> {}]
ReplyRecord(r, p, calls) ==
  [kind |-> "reply", of |-> r, prompt |-> p, calls |-> calls]
ResultRecord(c, p, outcome) ==
  [kind |-> outcome, of |-> c, prompt |-> p, calls |-> {}]

Buffered(s) == SubSeq(s.log, s.translated + 1, s.read)

\* user_record_turn: by an id that is known, or else the first prompt without
\* a record that is worded like it.
UserRecordTurn(s, p) ==
  LET known == Get(s.turnOf, p)
      matches == {i \in DOMAIN s.waiting :
                    IF known # None THEN s.waiting[i].turn = known
                    ELSE s.max.same \/ s.waiting[i].prompt = p}
      first == CHOOSE i \in matches : \A j \in matches : i <= j
      owner == IF matches = {} THEN known ELSE s.waiting[first].turn
      t == [s EXCEPT !.current = owner,
                     !.waiting = IF matches = {} THEN @ ELSE RemoveAt(@, first)]
  IN  IF owner = None THEN t ELSE [t EXCEPT !.turnOf = Put(@, p, owner)]

\* observe_record_turns: other records belong where their ancestors do.
ObserveRecord(s, record) ==
  LET owner == Or(Get(s.turnOf, record.prompt), s.current)
      t == [s EXCEPT !.turnOf = Put(@, record.prompt, owner)]
  IN  IF record.kind = "user" THEN UserRecordTurn(s, record.prompt)
      ELSE IF owner = None THEN s
      ELSE IF record.kind = "reply"
      THEN [t EXCEPT !.requestTurn = Put(@, record.of, owner),
                     !.toolTurn = [c \in DOMAIN @ \cup record.calls |->
                                     IF c \in record.calls THEN owner ELSE @[c]]]
      ELSE t

Owner(s, parent) == Get(s.owners, parent)

EmitReply(s, r, scope, parent) ==
  LET above == IF scope = Main THEN Or(Get(s.requestTurn, r), parent) ELSE parent
  IN  IF r \in s.requests THEN s
      ELSE Record([s EXCEPT !.requests = @ \cup {r}],
                  LlmSpan(scope, r), above, Owner(s, above), Reply(r), {"output"})

\* A result may be missing (""), and then a call that a hook announced waits.
Outcomes == {"ok", "failed", "denied", "cancelled"}
OutcomeMarks(outcome) ==
  CASE outcome = "ok" -> {"output"}
    [] outcome = "failed" -> {"output", "error"}
    [] outcome = "denied" -> {"output"}
    [] OTHER -> {"cancelled"} \cup Output(outcome = "cancelled")
\* Mutant: a call is of the turn in which its record is translated.
EmitCallNow(s, c, outcome, scope, parent) ==
  LET t == [s EXCEPT !.tools = @ \cup {c}, !.pending = Drop(@, c)]
  IN  IF c \in s.tools \/ (outcome = "" /\ c \in DOMAIN s.pending) THEN s
      ELSE IF c \in DOMAIN s.pending
      THEN Finish(t, ToolSpan(c), OutcomeMarks(outcome))
      ELSE Record(t, ToolSpan(c), parent, Owner(s, parent), Call(c),
                  OutcomeMarks(outcome))

\* Mutant: a call that a hook ended is written again.
EmitCallAgain(s, c, outcome, scope, parent) ==
  LET above == IF scope = Main THEN Or(Get(s.toolTurn, c), parent) ELSE parent
      t == [s EXCEPT !.tools = @ \cup {c}, !.pending = Drop(@, c)]
  IN  IF outcome = "" /\ c \in DOMAIN s.pending THEN s
      ELSE Record(t, ToolSpan(c), above, Owner(s, above), Call(c),
                  OutcomeMarks(outcome))

EmitCall(s, c, outcome, scope, parent) ==
  LET above == IF scope = Main THEN Or(Get(s.toolTurn, c), parent) ELSE parent
      t == [s EXCEPT !.tools = @ \cup {c}, !.pending = Drop(@, c)]
  IN  IF c \in s.tools \/ (outcome = "" /\ c \in DOMAIN s.pending) THEN s
      ELSE IF c \in DOMAIN s.pending
      THEN Finish(t, ToolSpan(c), OutcomeMarks(outcome))
      ELSE Record(t, ToolSpan(c), above, Owner(s, above), Call(c),
                  OutcomeMarks(outcome))

\* emit_parsed, over what parse_transcript finds: the responses, then the
\* calls with their results.
EmitRecords(s, records, scope, parent) ==
  LET of(kind) == SelectSeq(records, LAMBDA x : x.kind = kind)
      Outcome(c) == LET ends == {i \in DOMAIN records :
                                   records[i].kind \in Outcomes /\ records[i].of = c}
                    IN  IF ends = {} THEN "" ELSE records[CHOOSE i \in ends : TRUE].kind
      observed == IF scope = Main THEN FoldLeft(ObserveRecord, s, records) ELSE s
      replied == FoldLeft(LAMBDA t, x : EmitReply(t, x.of, scope, parent),
                          observed, of("reply"))
  IN  FoldLeft(LAMBDA t, x :
                 FoldSet(LAMBDA c, u : EmitCall(u, c, Outcome(c), scope, parent),
                         t, x.calls),
               replied, of("reply"))

\* queue_transcript, transcript_segments: what belongs to the first response is
\* translated now, the rest when the event has been handled.
Queue(s, records, scope, parent) ==
  LET replies == {i \in DOMAIN records : records[i].kind = "reply"}
      later == {i \in replies : \E j \in replies : j < i}
      cut == IF later = {} THEN Len(records)
             ELSE (CHOOSE i \in later : \A j \in later : i <= j) - 1
  IN  [EmitRecords(s, SubSeq(records, 1, cut), scope, parent) EXCEPT
         !.rest = [records |-> SubSeq(records, cut + 1, Len(records)),
                   parent |-> parent, scope |-> scope, clear |-> FALSE]]

\* drain_pending, as often as there is something left.
Drain(s) ==
  LET t == [EmitRecords(s, s.rest.records, s.rest.scope, s.rest.parent) EXCEPT
              !.rest = NoRest]
  IN  IF s.rest.clear THEN Release(t) ELSE t

EmitMain(s, parent) ==
  Queue([s EXCEPT !.translated = s.read], Buffered(s), Main, parent)

\* Records from the last prompt on wait for its turn to end.
FlushPreviousTurnRows(s) ==
  LET records == Buffered(s)
      users == {i \in DOMAIN records : records[i].kind = "user"}
      split == IF users = {} THEN Len(records)
               ELSE (CHOOSE i \in users : \A j \in users : j <= i) - 1
  IN  IF s.last = None THEN s
      ELSE Queue([s EXCEPT !.translated = @ + split],
                 SubSeq(records, 1, split), Main, s.last)
-----------------------------------------------------------------------------
(* Hooks.                                                                     *)

\* After the session ended, the next activity starts a new root.
EnsureRoot(s) ==
  LET t == [s EXCEPT !.opened = TRUE, !.ended = FALSE,
                     !.generation = IF s.ended THEN @ + 1 ELSE @]
  IN  IF s.opened THEN s ELSE Open(t, RootSpan(t), None, None, Session(t))

\* extend_user_turn: a turn that ended is given the time its work went on.
ExtendUserTurn(s, owner) ==
  IF owner = None \/ owner = s.turn.id THEN s ELSE Finish(s, owner, {})

ClosePendingTools(s, parent) ==
  LET mine == {c \in DOMAIN s.pending : s.pending[c] = parent}
  IN  FinishAll([s EXCEPT !.pending = DropAll(@, mine), !.tools = @ \cup mine],
                {ToolSpan(c) : c \in mine}, {"cancelled"})

\* execution_end and the merge that follows it.
EndTurn(s, marks) ==
  IF s.turn.id = None THEN s
  ELSE [Finish(ExtendUserTurn(s, s.turn.owner), s.turn.id, marks) EXCEPT
          !.turn = NoTurn]

\* Mutant: a continuation hangs under the session, its owner stays.
OpenTurnAtRoot(s, p, agent) ==
  LET closed == EndTurn(IF s.turn.id = None THEN s ELSE ClosePendingTools(s, s.turn.id), {})
      id == TurnSpan(s.turns + 1)
      owner == IF agent # Main /\ agent \in DOMAIN s.origins
               THEN Or(s.origins[agent].owner, id) ELSE id
      t == [closed EXCEPT !.turn = [id |-> id, owner |-> owner], !.turns = @ + 1,
                          !.owners = Put(@, id, owner),
                          !.turnOf = IF p \in s.max.ids THEN Put(@, p, id) ELSE @,
                          !.waiting = Append(@, [turn |-> id, prompt |-> p])]
  IN  Open(t, id, RootSpan(s), owner, Prompt(p))

OpenTurn(s, p, agent) ==
  LET cancelled == IF s.turn.id = None THEN s ELSE ClosePendingTools(s, s.turn.id)
      closed == EndTurn(cancelled, {})
      continues == agent # Main
      origin == IF continues THEN Get(s.origins, agent) ELSE None
      user == IF origin = None THEN None ELSE origin.owner
      id == IF continues THEN ContinuationSpan(s.continuations + 1)
            ELSE TurnSpan(s.turns + 1)
      owner == IF continues THEN user ELSE id
      t == [closed EXCEPT
              !.turn = [id |-> id, owner |-> owner],
              !.turns = IF continues THEN @ ELSE @ + 1,
              !.continuations = IF continues THEN @ + 1 ELSE @,
              !.owners = Put(@, id, Or(owner, id)),
              !.turnOf = IF p \in s.max.ids THEN Put(@, p, id) ELSE @,
              !.waiting = Append(@, [turn |-> id, prompt |-> p])]
  IN  Open(t, id, IF continues THEN Or(user, RootSpan(s)) ELSE RootSpan(s),
           Or(owner, id), Prompt(p))

\* A subagent that starts again keeps the place it had.
EnsureSubagent(s, a) ==
  LET origin == IF a \in DOMAIN s.origins THEN s.origins[a]
                ELSE [parent |-> Or(Or(s.turn.id, s.last), RootSpan(s)),
                      owner |-> IF s.turn.id # None THEN s.turn.owner
                                ELSE s.lastOwner]
      owner == Or(origin.owner, Owner(s, origin.parent))
      id == SubagentSpan(a)
      t == [s EXCEPT !.origins = Put(@, a, origin),
                     !.owners = IF owner = None THEN @ ELSE Put(@, id, owner),
                     !.subagents = Put(@, a, origin.parent)]
  IN  IF a \in DOMAIN s.subagents THEN s
      ELSE Open(t, id, origin.parent, owner, Agent(a))

\* parent_for: hooks of a subagent name it.
WithParent(s, agent) == IF agent = Main THEN s ELSE EnsureSubagent(s, agent)
ParentFor(s, agent) == IF agent = Main THEN s.turn.id ELSE SubagentSpan(agent)

PreTool(s, c, agent) ==
  LET t == WithParent(s, agent)
      parent == ParentFor(t, agent)
  IN  IF parent = None \/ c \in DOMAIN s.pending \/ c \in s.tools THEN t
      ELSE Open([t EXCEPT !.pending = Put(@, c, parent)],
                ToolSpan(c), parent, Owner(t, parent), Call(c))

FinishTool(s, c, agent, marks) ==
  LET t == WithParent(s, agent)
      parent == ParentFor(t, agent)
      Emitted(u) == [u EXCEPT !.tools = @ \cup {c}, !.pending = Drop(@, c)]
  IN  IF c \in DOMAIN s.pending THEN Finish(Emitted(s), ToolSpan(c), marks)
      ELSE IF c \in s.tools THEN s
      ELSE IF parent = None THEN t
      ELSE Record(Emitted(t), ToolSpan(c), parent, Owner(t, parent), Call(c), marks)

StopSubagent(s, a) ==
  LET started == EnsureSubagent(s, a)
      parent == SubagentSpan(a)
      emitted == Queue(started, s.agentLog[a], a, parent)
      closed == ClosePendingTools(emitted, parent)
      ended == Finish(closed, parent, Output(Agent(a) \in s.done))
  IN  ExtendUserTurn([ended EXCEPT !.subagents = Drop(@, a)],
                     started.origins[a].owner)

StopTurn(s, error) ==
  LET id == s.turn.id
      output == Prompt(s.now) \in s.done
      t == [ClosePendingTools(EmitMain(s, id), id) EXCEPT
              !.last = id, !.lastOwner = s.turn.owner, !.output = @ \/ output]
  IN  IF id = None THEN s ELSE EndTurn(t, Output(output) \cup error)

EndRoot(s) ==
  IF s.opened
  THEN Finish([s EXCEPT !.opened = FALSE, !.ended = TRUE], RootSpan(s),
              Output(s.output))
  ELSE s

Terminate(s) ==
  IF s.rest.records # <<>> THEN [s EXCEPT !.rest.clear = TRUE] ELSE Release(s)

EndSession(s) ==
  LET parent == Or(s.turn.id, s.last)
      emitted == IF parent = None THEN s ELSE EmitMain(s, parent)
      t == [ClosePendingTools(emitted, s.turn.id) EXCEPT
              !.last = s.turn.id, !.lastOwner = s.turn.owner]
      turn == IF s.turn.id = None THEN emitted ELSE EndTurn(t, {})
  IN  Terminate(EndRoot(turn))

\* PostCompact.
Compact(s, n) ==
  LET turn == Or(s.turn.id, s.last)
      emitted == IF turn = None THEN s ELSE EmitMain(s, turn)
  IN  Record(emitted, <<"compaction", n>>, Or(turn, RootSpan(s)), turn,
             <<"compaction", n>>, {})

TranscriptUpdated(s) ==
  IF s.turn.id # None \/ s.last = None THEN s ELSE EmitMain(s, s.last)

Finalize(s) ==
  LET parent == Or(s.turn.id, s.last)
      emitted == IF parent = None THEN s ELSE EmitMain(s, parent)
      tools == {ToolSpan(c) : c \in DOMAIN emitted.pending}
      turn == EndTurn([FinishAll(emitted, tools, {}) EXCEPT !.pending = Nothing], {})
      agents == {SubagentSpan(a) : a \in DOMAIN s.subagents}
      owners == {s.origins[a].owner : a \in DOMAIN s.subagents} \ {None, turn.turn.id}
  IN  Terminate(EndRoot(FinishAll(turn, agents \cup owners, {})))
-----------------------------------------------------------------------------
(* Events.                                                                    *)

\* handle, then drain_pending: a hook finds the transcript as far as it has
\* been written.
Handle(Handler(_), again) ==
  \E read \in st.read..Len(st.log) :
    st' = Delivered(LAMBDA s : Drain(Handler([s EXCEPT !.read = read])), st, again)
Active(Handler(_), again) == Handle(LAMBDA s : Handler(EnsureRoot(s)), again)
Repeated(Handler(_)) == \E again \in BOOLEAN : Handle(Handler, again)
RepeatedActive(Handler(_)) == \E again \in BOOLEAN : Active(Handler, again)

\* A prompt of the user, or one that brings the result of a subagent, which is
\* accounted to the prompt that started it.
UserPromptSubmit(agent) ==
  LET p == st.prompts + 1
      home == IF agent = Main THEN Prompt(p) ELSE st.home[Agent(agent)]
      t == [st EXCEPT !.prompts = p, !.now = p, !.busy = TRUE,
                      !.log = Append(@, UserRecord(p)),
                      !.home = Put(@, Prompt(p), home)]
  IN  /\ st.prompts < st.max.prompts
      /\ agent # Main => agent \in st.stopped
      /\ \E again \in Again, read \in st.read..Len(t.log) :
           st' = Delivered(LAMBDA s : Drain(OpenTurn(FlushPreviousTurnRows(
                             EnsureRoot([s EXCEPT !.read = read])), p, agent)),
                           t, again)

UserPromptExpansion ==
  Repeated(LAMBDA s : IF s.turn.id = None THEN s ELSE Update(s, s.turn.id))

\* The agent, or a subagent, responds, perhaps with a call.
Respond(agent, calls) ==
  LET r == st.replies + 1
      home == IF agent = Main THEN st.home[Prompt(st.now)]
                              ELSE st.home[Agent(agent)]
      record == ReplyRecord(r, st.now, calls)
      operations == {Reply(r)} \cup {Call(c) : c \in calls}
      t == [st EXCEPT
              !.replies = r, !.begun = @ \cup {[call |-> c, agent |-> agent,
                                                prompt |-> st.now] : c \in calls},
              !.done = @ \cup {Reply(r), Session(st),
                               IF agent = Main THEN Prompt(st.now) ELSE Agent(agent)},
              !.home = [o \in DOMAIN @ \cup operations |->
                          IF o \in operations THEN home ELSE @[o]],
              !.retired = FALSE]
  IN  /\ st.replies < st.max.replies
      /\ IF agent = Main THEN st.busy ELSE agent \in st.running
      /\ calls \subseteq st.max.calls \ {b.call : b \in st.begun}
      /\ st' = IF agent = Main THEN [t EXCEPT !.log = Append(@, record)]
               ELSE [t EXCEPT !.agentLog[agent] = Append(@, record)]

\* A call is under way until it has a result, or its turn or its subagent is
\* over.
Underway(b) ==
  /\ Call(b.call) \notin st.done
  /\ IF b.agent = Main THEN st.busy /\ b.prompt = st.now ELSE b.agent \in st.running
Resulted(s, b, outcome) ==
  LET record == ResultRecord(b.call, b.prompt, outcome)
      t == [s EXCEPT !.done = @ \cup {Call(b.call)}, !.retired = FALSE]
  IN  IF b.agent = Main THEN [t EXCEPT !.log = Append(@, record)]
      ELSE [t EXCEPT !.agentLog[b.agent] = Append(@, record)]

PreToolUse(b) ==
  Underway(b) /\ RepeatedActive(LAMBDA s : PreTool(s, b.call, b.agent))

\* PostToolUse, PostToolUseFailure and PermissionDenied.  The result of a call
\* that is interrupted is in the transcript only.
PostToolUse(b, outcome) ==
  LET t == Resulted(st, b, outcome)
      marks == OutcomeMarks(outcome)
  IN  /\ Underway(b)
      /\ \E again \in BOOLEAN, read \in st.read..Len(t.log) :
           st' = Delivered(LAMBDA s :
                   Drain(FinishTool(EnsureRoot([s EXCEPT !.read = read]), b.call,
                                    b.agent, marks)),
                   t, again)
ResultWithoutHook(b, outcome) ==
  Underway(b) /\ st' = Resulted(st, b, outcome)

\* A subagent starts once.
SubagentStart(a) ==
  /\ a \in st.max.agents \ (st.running \cup st.stopped) /\ st.busy
  /\ \E again \in BOOLEAN, read \in st.read..Len(st.log) :
       st' = Delivered(LAMBDA s :
               Drain(EnsureSubagent(EnsureRoot([s EXCEPT !.read = read]), a)),
               [st EXCEPT !.running = @ \cup {a},
                          !.home = IF Agent(a) \in DOMAIN @ THEN @
                                   ELSE Put(@, Agent(a), st.home[Prompt(st.now)])],
               again)
SubagentStop(a) ==
  /\ a \in st.running
  /\ RepeatedActive(LAMBDA s : StopSubagent([s EXCEPT !.running = @ \ {a},
                                                      !.stopped = @ \cup {a}], a))

\* Claude's own agents, which no hook started and which have no type, stop, too.
InternalStop == Repeated(LAMBDA s : s)

\* Stop and StopFailure.
Stop(error) ==
  st.busy /\ Repeated(LAMBDA s : StopTurn([s EXCEPT !.busy = FALSE], error))
PostCompact ==
  /\ st.compactions < st.max.compactions
  /\ RepeatedActive(LAMBDA s : Compact([s EXCEPT !.compactions = st.compactions + 1],
                                       st.compactions + 1))
TranscriptUpdate == Repeated(TranscriptUpdated)

\* A session that ends is resumed, if at all, with its transcript.
SessionEnd ==
  /\ st.ends = 0
  /\ \E again \in {FALSE, Resumed} :
       Handle(LAMBDA s :
                EndSession([s EXCEPT
                  !.busy = FALSE, !.running = {}, !.stopped = {}, !.ends = 1,
                  !.left = {Agent(a) : a \in st.running}
                           \cup {Call(b.call) : b \in {b \in st.begun : b.agent # Main}}]),
              again)

Retire ==
  /\ st.rows # NoRows
  /\ Midway \/ (~st.busy /\ st.running = {})
  /\ st' = Retired(st, Drain(Finalize(st)))

Goes ==
  \/ UserPromptExpansion \/ PostCompact \/ TranscriptUpdate \/ InternalStop
  \/ SessionEnd
  \/ \E b \in st.begun :
       \/ PreToolUse(b)
       \/ \E outcome \in Outcomes \ {"cancelled"} : PostToolUse(b, outcome)
       \/ \E outcome \in Outcomes : ResultWithoutHook(b, outcome)
  \/ \E a \in st.max.agents : SubagentStart(a) \/ SubagentStop(a)
  \/ \E agent \in st.max.agents \cup {Main} :
       \/ UserPromptSubmit(agent)
       \/ \E calls \in {{}} \cup {{c} : c \in st.max.calls} : Respond(agent, calls)
  \/ \E error \in {{}, {"error"}} : Stop(error)
Next == ((Resumed \/ st.ends = 0) /\ Goes) \/ Retire
=============================================================================
