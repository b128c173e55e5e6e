-------------------------- MODULE CodexTranslator --------------------------
(* The translator of Codex (translate/codex.rs).  Everything it writes comes  *)
(* from rollouts, the append-only transcripts of the session and of each      *)
(* subagent; a hook says that a rollout has grown, and some of them end what  *)
(* the rollout leaves open.  A rollout is written behind the agent's back, so *)
(* that a hook may find less of it than has happened.                         *)
EXTENDS SpanTree, Sequences, SequencesExt, TLC

CONSTANTS Scopes,  \* bounds of a behaviour: turns, responses (replies), tool
                   \* calls (calls), subagents (agents), compactions of the
                   \* history, and as many turns only for them (compactions),
                   \* and records of a rollout that its hook may not find yet
                   \* (lag)
          Again,   \* whether a hook may be delivered again
          Named,   \* whether the Stop hook names its turn
          Resumed, \* whether a session goes on after it was killed, or a
                   \* subagent after it stopped
          Midway,  \* whether a session may be retired when it is idle in the
                   \* midst of operations that no hook has shown yet
          Cutting, \* whether a compaction may come before a response is counted
          Repeated \* whether a turn may be compacted again

VARIABLE st

Main == "main"
Session == <<"session">>
Prompt(t) == <<"prompt", t>>
Response(r) == <<"response", r>>
Call(c) == <<"call", c>>
Agent(a) == <<"agent", a>>
Compaction(n) == <<"compaction", n>>
TurnSpan(t) == <<"turn", t>>
ToolSpan(c) == <<"tool", c>>
SubagentSpan(a) == <<"subagent", a>>
CompactionLlm(t) == <<"llm", t>>
TurnParent(path) == IF path = Main THEN Root ELSE SubagentSpan(path)

\* A call that starts a subagent, when it succeeds, is named after it.
Spawns(s, c) == c \in s.max.agents
Paths(s) == {Main} \cup s.max.agents

\* Scope: what has been read of a rollout, its open turns, the response under
\* way ([span, turn], or None), open calls, by their turns, and whether a turn
\* has ended (last_turn_end_ms).  `parent` and `owner` are the turn that started
\* a subagent and the user turn it works for.
NewScope(parent, owner) ==
  [offset |-> 0, created |-> FALSE, turns |-> <<>>, seq |-> Nothing,
   llm |-> None, tools |-> Nothing, output |-> FALSE, ended |-> FALSE,
   parent |-> parent, owner |-> owner]

\* CodexTranslator.  History: rollouts; turns and responses so far; for each
\* rollout the turn the agent works on, or 0, and the response that is not
\* counted yet, or 0; calls under way, by rollout; whether a hook has found the
\* beginning of the session's rollout; calls whose hook was delivered (told);
\* subagents that run, that stopped, and that started before the hook of the
\* call that started them (early); how much of each rollout a retirement has
\* read.
Init ==
  \E max \in Scopes :
    st = [max |-> max, opened |-> FALSE, scopes |-> Nothing,
          spawnByCall |-> Nothing, spawnByAgent |-> Nothing, owners |-> Nothing,
          triggers |-> {}, compacted |-> {},
          log |-> [p \in {Main} \cup max.agents |-> <<>>],
          turns |-> 0, replies |-> 0,
          now |-> [p \in {Main} \cup max.agents |-> 0],
          counting |-> [p \in {Main} \cup max.agents |-> 0],
          calls |-> [p \in {Main} \cup max.agents |-> {}], called |-> {},
          shown |-> [p \in {Main} \cup max.agents |-> 0],
          compacting |-> {}, begun |-> FALSE, told |-> {}, running |-> {},
          stopped |-> {}, early |-> {}, home |-> Nothing,
          rows |-> NoRows, done |-> {},
          left |-> {Session} \cup {Agent(a) : a \in max.agents}, retired |-> FALSE]

SetScope(s, path, scope) == [s EXCEPT !.scopes = Put(@, path, scope)]
EnsureMainScope(s) ==
  IF Main \in DOMAIN s.scopes THEN s ELSE SetScope(s, Main, NewScope(None, None))
-----------------------------------------------------------------------------
(* Records of a rollout.                                                      *)

\* What it says, the turn, and the response or call (or no call, "").
RecordOf(kind, turn, response, call) ==
  [kind |-> kind, turn |-> turn, response |-> response, call |-> call]

OpenRoot(s, path) ==
  LET scope == s.scopes[path]
      t == [s EXCEPT !.scopes[path].created = TRUE]
  IN  IF path = Main
      THEN IF s.opened THEN s
           ELSE Open([t EXCEPT !.opened = TRUE], Root, None, None, Session)
      ELSE IF scope.created THEN s
      ELSE Open(t, SubagentSpan(path), scope.parent, scope.owner, Agent(path))

\* A turn that only compacts the history, which hooks told before, is nobody's.
OpenTurn(s, path, turn) ==
  LET scope == s.scopes[path]
      user == turn \notin s.triggers \cup s.compacted
      owner == IF user /\ scope.owner = None THEN TurnSpan(turn) ELSE scope.owner
      t == [s EXCEPT !.scopes[path].turns = Append(@, turn),
                     !.scopes[path].seq = Put(@, turn, 0),
                     !.owners = IF owner = None THEN @
                                ELSE Put(@, TurnSpan(turn), owner)]
  IN  IF Contains(scope.turns, turn) THEN s
      ELSE Open(t, TurnSpan(turn), TurnParent(path), owner, Prompt(turn))

SetTurnInput(s, path) ==
  LET turns == s.scopes[path].turns
  IN  IF turns = <<>> THEN s ELSE Update(s, TurnSpan(Last(turns)))

TurnOwner(s, turn) ==
  IF TurnSpan(turn) \in DOMAIN s.owners THEN s.owners[TurnSpan(turn)] ELSE None

\* Mutant: responses of a turn are not numbered.
EnsureLlmUnnumbered(s, path, turn, r) ==
  LET id == <<"llm", turn, s.scopes[path].seq[turn]>>
      t == [s EXCEPT !.scopes[path].llm = [span |-> id, turn |-> turn]]
  IN  IF s.scopes[path].llm # None THEN s
      ELSE Open(t, id, TurnSpan(turn), TurnOwner(s, turn), Response(r))

\* The first item of a response opens its span.
EnsureLlm(s, path, turn, r) ==
  LET scope == s.scopes[path]
      id == <<"llm", turn, scope.seq[turn]>>
      t == [s EXCEPT !.scopes[path].seq[turn] = @ + 1,
                     !.scopes[path].llm = [span |-> id, turn |-> turn]]
  IN  IF scope.llm # None THEN s
      ELSE Open(t, id, TurnSpan(turn), TurnOwner(s, turn), Response(r))

\* on_message and on_reasoning, which belong to the last open turn.
OnMessage(s, path, r) ==
  LET turns == s.scopes[path].turns
  IN  IF turns = <<>> THEN s ELSE EnsureLlm(s, path, Last(turns), r)

\* A call names its turn.
OnToolCall(s, path, turn, r, c) ==
  LET scope == s.scopes[path]
      t == [EnsureLlm(s, path, turn, r) EXCEPT
              !.scopes[path].tools = Put(@, c, turn),
              !.spawnByCall = IF Spawns(s, c) THEN Put(@, c, TurnSpan(turn)) ELSE @]
  IN  IF ~Contains(scope.turns, turn) \/ c \in DOMAIN scope.tools THEN s
      ELSE Open(t, ToolSpan(c), TurnSpan(turn), TurnOwner(s, turn), Call(c))

OnToolOutput(s, path, c) ==
  IF c \notin DOMAIN s.scopes[path].tools THEN s
  ELSE Finish([s EXCEPT !.scopes[path].tools = Drop(@, c)], ToolSpan(c), {"output"})

\* close_llm_with_tokens, and what ends a response whose tokens are not
\* counted.
CloseLlm(s, path) ==
  IF s.scopes[path].llm = None THEN s
  ELSE Finish([s EXCEPT !.scopes[path].llm = None], s.scopes[path].llm.span,
              {"output"})

CloseTools(s, path, turns, marks) ==
  LET mine == {c \in DOMAIN s.scopes[path].tools : s.scopes[path].tools[c] \in turns}
  IN  FinishAll([s EXCEPT !.scopes[path].tools = DropAll(@, mine)],
                {ToolSpan(c) : c \in mine}, marks)

\* close_turn and abort_turn.  Without a turn of its own (0) this ends the
\* last one.
FinishTurn(s, path, named, aborted, output) ==
  LET turns == s.scopes[path].turns
      turn == IF named = 0 /\ turns # <<>> THEN Last(turns) ELSE named
      llm == s.scopes[path].llm
      closed == IF llm # None /\ llm.turn = turn THEN CloseLlm(s, path) ELSE s
      tools == CloseTools(closed, path, {turn}, Error(~aborted))
      t == [tools EXCEPT !.scopes[path].turns = SelectSeq(@, LAMBDA x : x # turn),
                         !.scopes[path].output = @ \/ output,
                         !.scopes[path].ended = TRUE]
  IN  IF ~Contains(turns, turn) THEN s
      ELSE Finish(t, TurnSpan(turn), Output(output))

\* The turn becomes a compaction, with a response of its own, which takes the
\* place of one that is under way.
OnCompacted(s, path, n) ==
  LET turn == Last(s.scopes[path].turns)
      id == CompactionLlm(turn)
      t == [Update(s, TurnSpan(turn)) EXCEPT
              !.triggers = @ \ {turn},
              !.compacted = IF turn \in s.triggers THEN @ ELSE @ \cup {turn},
              !.scopes[path].llm = [span |-> id, turn |-> turn]]
  IN  IF s.scopes[path].turns = <<>> THEN s
      ELSE Insert(t, id, TurnSpan(turn), TurnOwner(s, turn), Compaction(n),
                  FALSE, {"output"})

ProcessRecord(s, path, record) ==
  CASE record.kind = "session_meta" -> OpenRoot(s, path)
    [] record.kind = "task_started" -> OpenTurn(s, path, record.turn)
    [] record.kind = "user_message" -> SetTurnInput(s, path)
    [] record.kind = "message" -> OnMessage(s, path, record.response)
    [] record.kind = "function_call" ->
         OnToolCall(s, path, record.turn, record.response, record.call)
    [] record.kind = "token_count" -> CloseLlm(s, path)
    [] record.kind = "function_call_output" -> OnToolOutput(s, path, record.call)
    [] record.kind = "task_complete" ->
         FinishTurn(s, path, record.turn, FALSE, Prompt(record.turn) \in s.done)
    [] record.kind = "turn_aborted" -> FinishTurn(s, path, record.turn, TRUE, FALSE)
    [] record.kind = "compacted" -> OnCompacted(s, path, record.response)

\* catch_up_chunk, until nothing is left: what a hook asks for comes after all
\* its chunks, and before the next hook (drain_pending).
CatchUp(s, path, through) ==
  LET unread == SubSeq(s.log[path], s.scopes[path].offset + 1, through)
      read == FoldLeft(LAMBDA t, record : ProcessRecord(t, path, record), s, unread)
  IN  IF path \in DOMAIN s.scopes /\ s.scopes[path].offset < through
      THEN [read EXCEPT !.scopes[path].offset = through] ELSE s
-----------------------------------------------------------------------------
(* What hooks do besides.                                                     *)

UpdateOpenMainRootSource(s) == IF s.opened THEN Update(s, Root) ELSE s

RecordCompactionTrigger(s, turn) ==
  IF turn \in s.compacted
  THEN Update([s EXCEPT !.compacted = @ \ {turn}], TurnSpan(turn))
  ELSE [s EXCEPT !.triggers = @ \cup {turn}]

RecordSpawnedAgent(s, c) ==
  IF c \in DOMAIN s.spawnByCall
  THEN [s EXCEPT !.spawnByCall = Drop(@, c),
                 !.spawnByAgent = Put(@, c, s.spawnByCall[c])]
  ELSE s

\* A subagent that starts before the hook of the call is the session's, and its
\* turns are nobody else's.
HandleSubagentStart(s, a) ==
  LET parent == IF a \in DOMAIN s.spawnByAgent THEN s.spawnByAgent[a] ELSE Root
      owner == IF parent = Root THEN None
               ELSE IF parent \in DOMAIN s.owners THEN s.owners[parent] ELSE parent
  IN  IF a \in DOMAIN s.scopes THEN s
      ELSE SetScope([s EXCEPT !.spawnByAgent = Drop(@, a)], a,
                    NewScope(parent, owner))

EndMainRoot(s) ==
  IF s.opened THEN Finish(s, Root, Output(s.scopes[Main].output)) ELSE s

\* Turns are closed when it is known when; otherwise they are only let go.
CloseDanglingTurns(s, path, known) ==
  LET turns == s.scopes[path].turns
  IN  FoldSet(LAMBDA turn, t : Merge(t, TurnSpan(turn), known, {}),
              [s EXCEPT !.scopes[path].turns = <<>>], Range(turns))

\* Mutant: calls without a result stay open.
CloseDanglingNoTools(s, path, known) ==
  CloseDanglingTurns(CloseLlm(s, path), path, known)

CloseDangling(s, path, known) ==
  LET tools == CloseTools(CloseLlm(s, path), path, Range(s.scopes[path].turns),
                          {"error"})
  IN  CloseDanglingTurns(tools, path, known)

\* Mutant: also a subagent whose rollout never appeared is ended.
CloseSubagentUnseen(s, a) ==
  IF a \in DOMAIN s.scopes
  THEN [Finish(CloseDangling(s, a, TRUE), SubagentSpan(a), {}) EXCEPT !.scopes = Drop(@, a)]
  ELSE s

\* A subagent that stopped is forgotten.
CloseSubagent(s, a) ==
  LET ended == Finish(CloseDangling(s, a, TRUE), SubagentSpan(a), {})
      t == IF s.scopes[a].created THEN ended ELSE s
  IN  IF a \in DOMAIN s.scopes THEN [t EXCEPT !.scopes = Drop(@, a)] ELSE s

\* start_catch_up, to the end of the rollouts: `checkpoint` reads what is
\* late, `finalize` also closes what stays open, except for the root, subagents,
\* and, when no turn of the rollout has ended, its turns.
Checkpoint(s, through) ==
  FoldSet(LAMBDA p, t : CatchUp(t, p, through[p]), s, DOMAIN s.scopes)
Finalize(s, through) ==
  FoldSet(LAMBDA p, t : LET read == CatchUp(t, p, through[p])
                        IN  CloseDangling(read, p, read.scopes[p].ended),
          s, DOMAIN s.scopes)
-----------------------------------------------------------------------------
(* What the agent does.                                                       *)

Writes(s, path, records) ==
  [s EXCEPT !.log[path] = @ \o records, !.retired = FALSE]
HomeOf(s, path) ==
  IF path = Main THEN s.home[Prompt(s.now[Main])] ELSE s.home[Agent(path)]

\* Turns follow each other, unless the agent is killed and resumed.
StartTurn(path, compacts) ==
  LET t == st.turns + 1
      first == IF st.log[path] = <<>> THEN <<RecordOf("session_meta", 0, 0, "")>>
               ELSE <<>>
      prompt == IF compacts THEN <<>> ELSE <<RecordOf("user_message", t, 0, "")>>
      home == IF path = Main THEN Prompt(t) ELSE st.home[Agent(path)]
      s == [st EXCEPT !.turns = t, !.now[path] = t, !.counting[path] = 0,
                      !.calls[path] = {},
                      !.home = Put(@, Prompt(t), home),
                      !.compacting = IF compacts THEN @ \cup {t} ELSE @]
  IN  /\ t <= st.max.turns
      /\ compacts => Cardinality(st.compacting) < st.max.compactions
      /\ path # Main => path \in st.running
      /\ st.now[path] = 0 \/ (Resumed /\ path = Main)
      /\ st' = Writes(s, path, first \o <<RecordOf("task_started", t, 0, "")>> \o prompt)

Working(path) == st.now[path] \notin {0} \cup st.compacting

\* An item of a response: a message (""), or a call.
Respond(path, c) ==
  LET r == IF st.counting[path] = 0 THEN st.replies + 1 ELSE st.counting[path]
      kind == IF c = "" THEN "message" ELSE "function_call"
      operations == {Response(r)} \cup (IF c = "" THEN {} ELSE {Call(c)})
                      \cup (IF Spawns(st, c) THEN {Agent(c)} ELSE {})
      s == [st EXCEPT
              !.replies = IF r > @ THEN r ELSE @, !.counting[path] = r,
              !.called = IF c = "" THEN @ ELSE @ \cup {c},
              !.calls[path] = IF c = "" THEN @ ELSE @ \cup {c},
              !.done = @ \cup {Response(r), Prompt(st.now[path])}
                         \cup IF path = Main THEN {Session} ELSE {},
              !.home = [o \in DOMAIN @ \cup operations |->
                          IF o \in operations THEN HomeOf(st, path) ELSE @[o]]]
  IN  /\ Working(path) /\ r <= st.max.replies
      /\ IF c = "" THEN st.counting[path] = 0 ELSE c \in st.max.calls \ st.called
      /\ st' = Writes(s, path, <<RecordOf(kind, st.now[path], r, c)>>)

\* A response is counted once, and a compaction at once or not at all.
CountTokens(path) ==
  /\ \/ st.counting[path] # 0
     \/ st.log[path] # <<>> /\ Last(st.log[path]).kind = "compacted"
  /\ st' = Writes([st EXCEPT !.counting[path] = 0], path,
                  <<RecordOf("token_count", 0, 0, "")>>)

EndCall(path, c) ==
  /\ c \in st.calls[path]
  /\ st' = Writes([st EXCEPT !.calls[path] = @ \ {c}, !.done = @ \cup {Call(c)}],
                  path, <<RecordOf("function_call_output", 0, 0, c)>>)

Compactions == {i \in DOMAIN st.log[Main] : st.log[Main][i].kind = "compacted"}
Compacted(t) == \E i \in Compactions : st.log[Main][i].turn = t

\* The session's history is compacted, in a turn that does nothing else or
\* between two responses of a turn of the user.
Compact(t) ==
  LET n == Cardinality(Compactions) + 1
  IN  /\ st.now[Main] = t /\ n <= st.max.compactions
      /\ Repeated \/ ~Compacted(t)
      /\ Cutting \/ st.counting[Main] = 0
      /\ st' = Writes([st EXCEPT !.done = @ \cup {Compaction(n)},
                                 !.home = Put(@, Compaction(n), HomeOf(st, Main))],
                      Main, <<RecordOf("compacted", t, n, "")>>)

EndTurn(path, kind) ==
  /\ st.now[path] # 0
  /\ kind = "task_complete" => st.counting[path] = 0
  /\ st' = Writes([st EXCEPT !.now[path] = 0, !.counting[path] = 0, !.calls[path] = {}],
                  path, <<RecordOf(kind, st.now[path], 0, "")>>)
-----------------------------------------------------------------------------
(* Hooks.                                                                     *)

\* handle: what the hook says, the rollout, and what is put off until then.
Hook(path, from, Before(_), After(_)) ==
  \E through \in from..Len(st.log[path]), again \in Again :
    /\ through >= st.shown[path] /\ through >= Len(st.log[path]) - st.max.lag
    /\ st' = Delivered(LAMBDA s :
            After(CatchUp(Before(IF path = Main THEN EnsureMainScope(s) ELSE s),
                          path, through)),
            [st EXCEPT !.begun = @ \/ (path = Main /\ through > 0)], again)
Same(s) == s

SessionStart == Hook(Main, 0, UpdateOpenMainRootSource, Same)

\* Any other hook, from the session or from a subagent.
Observed(path) == st.log[path] # <<>> /\ Hook(path, 0, Same, Same)

\* The call is in the rollout before the hook that follows it.
PostToolUse(path, c) ==
  LET calls == {i \in DOMAIN st.log[path] : st.log[path][i].kind = "function_call"
                                            /\ st.log[path][i].call = c}
      Tell(s) == IF path = Main \/ path \in s.running
                 THEN [s EXCEPT !.told = @ \cup {c}] ELSE s
  IN  /\ Call(c) \in st.done /\ Spawns(st, c)
      /\ \E i \in calls : Hook(path, i, Tell, LAMBDA s : RecordSpawnedAgent(s, c))

\* A subagent begins after the session's first hooks (PreToolUse is one) and
\* the call that starts it, and before or after that call's PostToolUse.
SubagentStart(a) ==
  LET Start(s) == [s EXCEPT !.running = @ \cup {a},
                            !.early = IF a \in s.told THEN @ ELSE @ \cup {a}]
  IN  /\ st.begun
      /\ Call(a) \in st.done \/ \E path \in Paths(st) : a \in st.calls[path]
      /\ a \notin st.running \cup st.stopped \/ (Resumed /\ a \in st.stopped)
      /\ Hook(a, 0, LAMBDA s : HandleSubagentStart(Start(s), a), Same)
SubagentStop(a) ==
  /\ a \in st.running /\ st.now[a] = 0
  /\ Hook(a, 0, Same, LAMBDA s : CloseSubagent([s EXCEPT !.running = @ \ {a},
                                                        !.stopped = @ \cup {a}], a))

\* Stop comes with the end of a turn, which the rollout may show later.
Stop(named) ==
  LET t == CHOOSE t \in {0} \cup {st.log[Main][i].turn : i \in DOMAIN st.log[Main]} :
             \A i \in DOMAIN st.log[Main] : st.log[Main][i].turn <= t
      output == Prompt(t) \in st.done
      After(s) == EndMainRoot(FinishTurn(s, Main, IF named THEN t ELSE 0, FALSE, output))
  IN  /\ st.now[Main] = 0 /\ t # 0 /\ t \notin st.compacting
      /\ Hook(Main, 0, Same, After)

\* The hooks of a compaction name its turn, which ends with the second even
\* when it is a turn of the user that goes on.
PreCompact(t) ==
  /\ st.now[Main] = t /\ Cardinality(Compactions) < st.max.compactions
  /\ Repeated \/ ~Compacted(t)
  /\ Hook(Main, 0, LAMBDA s : RecordCompactionTrigger(s, t), Same)
PostCompact(t) ==
  /\ Compacted(t)
  /\ Hook(Main, 0, LAMBDA s : RecordCompactionTrigger(s, t),
          LAMBDA s : FinishTurn(s, Main, t, FALSE, FALSE))

Through(s) ==
  {through \in [DOMAIN s.scopes -> 0..Max({Len(s.log[p]) : p \in Paths(s)})] :
     \A p \in DOMAIN s.scopes :
       /\ through[p] >= s.shown[p] /\ through[p] >= s.scopes[p].offset
       /\ through[p] \in Len(s.log[p]) - s.max.lag..Len(s.log[p])}
CheckpointAt ==
  \E through \in Through(st) : st' = [Checkpoint(st, through) EXCEPT !.retired = FALSE]
Retire ==
  /\ st.rows # NoRows
  /\ \E through \in Through(st) :
       /\ Midway \/ \A p \in DOMAIN through :
                      \/ through[p] = st.scopes[p].offset
                      \/ st.now[p] = 0 /\ through[p] = Len(st.log[p])
       /\ st' = Retired([st EXCEPT !.shown = through @@ @], Finalize(st, through))

Next ==
  \/ SessionStart \/ CheckpointAt \/ Retire
  \/ \E path \in Paths(st) :
       \/ Observed(path) \/ CountTokens(path)
       \/ \E compacts \in BOOLEAN : StartTurn(path, compacts)
       \/ \E c \in st.max.calls :
            Respond(path, c) \/ EndCall(path, c) \/ PostToolUse(path, c)
       \/ Respond(path, "")
       \/ \E kind \in {"task_complete", "turn_aborted"} : EndTurn(path, kind)
  \/ \E named \in Named : Stop(named)
  \/ \E a \in st.max.agents : SubagentStart(a) \/ SubagentStop(a)
  \/ \E t \in 1..st.turns : Compact(t) \/ PreCompact(t) \/ PostCompact(t)
-----------------------------------------------------------------------------
\* Turns of rollouts of which no turn has ended.
TurnsUnended(s) ==
  LET turns == {id \in DOMAIN s.rows : s.rows[id].of \subseteq {Prompt(t) : t \in 1..s.turns}}
  IN  {id \in turns : \A other \in turns :
                        s.rows[other].parent = s.rows[id].parent => ~s.rows[other].ended}

\* Spans of subagents that started before the hook of the call that starts
\* them, and of all they did.
SpansOfEarly(s) ==
  IF s.early = {} THEN {}
  ELSE {id \in DOMAIN s.rows :
          Ancestors(s, id) \cap {SubagentSpan(a) : a \in s.early} # {}}
=============================================================================
