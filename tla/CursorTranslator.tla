-------------------------- MODULE CursorTranslator --------------------------
(* The translator of Cursor (translate/cursor).  Hooks tell of prompts, tool  *)
(* calls and answers; every hook also carries how far the daemon's mirror of  *)
(* the transcript goes, which is read first.  The transcript may show a       *)
(* message earlier or later than the hook about it does.                      *)
EXTENDS SpanTree, Sequences, SequencesExt, TLC

CONSTANTS Scopes,     \* bounds of a behaviour: prompts, answers, tool calls
                      \* (calls), subagents (agents), compactions, rewrites of
                      \* the transcript, records a hook may not find yet (lag),
                      \* whether all prompts have the same text (same), and how
                      \* many calls and subagents may be open (open, the code's
                      \* MAX_OPEN_TOOLS)
          Again,      \* whether a hook may be delivered again
          Lost,       \* whether the hook of a prompt may be lost
          Strays,     \* whether calls that no hook told of when they began, or
                      \* subagents that stop unnamed or that may be more than
                      \* the limit, outlive their prompt
          Alike       \* whether a prompt may interrupt one of the same text

VARIABLE st

Session == <<"session">>
Prompt(t) == <<"prompt", t>>
Answer(r) == <<"answer", r>>
Call(c) == <<"call", c>>
Agent(a) == <<"agent", a>>
PromptTurn(t) == <<"turn", "prompt", t>>
ObservedTurn(n) == <<"turn", "observed", n>>
ToolSpan(c) == <<"tool", c>>
SubagentSpan(a) == <<"subagent", a>>

\* TranscriptCursor, and what transcript_batch forgets with it.
Unread(path) ==
  [path |-> path, offset |-> 0, users |-> 0, answers |-> 0, owners |-> Nothing,
   owner |-> None, unattributed |-> FALSE]

\* CursorTranslator: the turn, whether it is `over`, the text of its prompt, its
\* output (None when unknown) and what was written of its answers; the model
\* step, with its turn and content; calls, open and completed, with their turns,
\* whether they were seen only when they ended (bare), and whether they were
\* given up (incomplete); the order in which open calls began.  History: the transcript and its rewrites; the prompt
\* at work, or 0; prompts and answers so far; calls and subagents that were
\* started and those that run; hooks that are not delivered yet.
Init ==
  \E max \in Scopes :
    st = [max |-> max, opened |-> FALSE, turnSeq |-> 0, turn |-> None,
          step |-> None, tools |-> Nothing, order |-> <<>>, completed |-> Nothing,
          seen |-> {},
          generations |-> Nothing, transcript |-> Unread(0),
          subagents |-> {}, compacts |-> 0,
          log |-> <<>>, rewrites |-> 0, now |-> 0, prompts |-> 0, answers |-> 0,
          started |-> {}, running |-> {}, late |-> {}, home |-> Nothing,
          rows |-> NoRows, done |-> {}, left |-> {}, retired |-> FALSE]

Text(s, t) == IF s.max.same THEN Prompt(0) ELSE Prompt(t)
-----------------------------------------------------------------------------
(* What every hook does.                                                      *)

EnsureRoot(s) ==
  IF s.opened THEN s
  ELSE Open([s EXCEPT !.opened = TRUE], Root, None, None, Session)

\* `generation` is the prompt whose hook opens the turn, or 0, and `of` the
\* prompt that the turn is really about.
EnsureTurn(s, generation, text, of) ==
  LET n == s.turnSeq + 1
      id == IF generation = 0 THEN ObservedTurn(n) ELSE PromptTurn(generation)
      turn == [id |-> id, over |-> FALSE, text |-> text, output |-> None, seq |-> 0,
               emitted |-> {}]
      t == [s EXCEPT !.turnSeq = n, !.turn = turn,
                     !.generations = IF generation = 0 THEN @
                                     ELSE Put(@, generation, [id |-> id, text |-> text])]
  IN  IF s.turn # None /\ ~s.turn.over THEN s
      ELSE Open(t, id, Root, id, Prompt(of))

EnsureModel(s) ==
  LET t == IF s.turn = None THEN EnsureTurn(s, 0, None, s.prompts) ELSE s
      n == t.turn.seq + 1
      step == [span |-> <<"llm", t.turn.id, n>>, turn |-> t.turn.id, content |-> {}]
  IN  IF s.step # None THEN s ELSE [t EXCEPT !.turn.seq = n, !.step = step]

\* Content of a response: the text or the thinking of an answer, or a call.
\* Late output makes no response of its own.
ModelContent(s, kind, of) ==
  LET t == EnsureModel(s)
  IN  IF s.turn = None \/ ~s.turn.over
      THEN [t EXCEPT !.step.content = @ \cup {[kind |-> kind, of |-> of]}]
      ELSE IF kind # "text" THEN s
      ELSE [s EXCEPT !.seen = @ \cup {<<"output", s.turn.id, of>>},
                     !.turn.emitted = @ \cup {of}]

\* The response is written when it ends.  It was caused by the prompt that
\* caused its content.
CloseModel(s) ==
  LET texts == {c.of : c \in {c \in s.step.content : c.kind = "text"}}
      step == <<"step", s.step.span>>
      cause == s.home[(CHOOSE c \in s.step.content : TRUE).of]
      t == [s EXCEPT !.step = None, !.done = @ \cup {step}, !.home = Put(@, step, cause),
                     !.turn.emitted = IF s.turn.id = s.step.turn THEN @ \cup texts ELSE @,
                     !.seen = @ \cup {<<"output", s.step.turn, text>> : text \in texts}]
  IN  IF s.step = None THEN s
      ELSE Record(t, s.step.span, s.step.turn, s.step.turn, step, {"output"})

RemoveOpenTools(s, calls) ==
  [s EXCEPT !.tools = DropAll(@, calls),
            !.order = SelectSeq(@, LAMBDA c : c \notin calls)]

IncompleteTools(s, calls) ==
  LET given == [c \in calls |-> [s.tools[c] EXCEPT !.incomplete = TRUE]]
  IN  FinishAll([RemoveOpenTools(s, calls) EXCEPT !.completed = given @@ @],
                {ToolSpan(c) : c \in calls}, {})

\* At the limit, the calls that began first are given up.
InsertOpenTool(s, c, tool) ==
  LET over == Len(s.order) + 1 - s.max.open
      oldest == Range(SubSeq(s.order, 1, over))
  IN  [IncompleteTools(s, oldest) EXCEPT !.tools = Put(@, c, tool),
                                         !.order = Append(@, c)]

CloseTurn(s, failed) ==
  LET t == CloseModel(s)
      calls == {c \in DOMAIN s.tools : s.tools[c].turn = s.turn.id}
  IN  IF s.turn = None \/ s.turn.over THEN t
      ELSE Finish(IncompleteTools([t EXCEPT !.turn.over = TRUE], calls), s.turn.id,
                  Output(s.turn.output # None) \cup Error(failed))
-----------------------------------------------------------------------------
(* The transcript.                                                            *)

MergeLateAnswer(s) ==
  IF s.turn # None /\ s.turn.over
  THEN Merge(s, s.turn.id, FALSE, Output(s.turn.output # None)) ELSE s

\* Which turn the records that follow belong to: the one prompt that the hooks
\* told and no earlier record claims, else the turn under way, else a new one.
UserRecord(s, p) ==
  LET n == s.transcript.users + 1
      text == Text(s, p)
      t == [s EXCEPT !.transcript.users = n, !.transcript.unattributed = FALSE]
      owners == s.transcript.owners
      known == n \in DOMAIN owners /\ owners[n].text = text
      native == {s.generations[g].id : g \in {g \in DOMAIN s.generations :
                   /\ s.generations[g].text = text
                   /\ \A m \in DOMAIN owners : owners[m].id # s.generations[g].id}}
      matching == s.turn # None /\ ~s.turn.over /\ s.turn.text \in {None, text}
      Owned(x, id) ==
        [x EXCEPT !.transcript.owners = Put(@, n, [text |-> text, id |-> id]),
                  !.transcript.owner = id]
      opened == EnsureTurn(CloseTurn(t, FALSE), 0, text, p)
  IN  CASE known -> [t EXCEPT !.transcript.owner = owners[n].id]
        [] ~known /\ Cardinality(native) = 1 -> Owned(t, CHOOSE id \in native : TRUE)
        [] ~known /\ Cardinality(native) > 1 ->
             [t EXCEPT !.transcript.owner = None, !.transcript.unattributed = TRUE]
        [] ~known /\ native = {} /\ matching ->
             Owned(Update([t EXCEPT !.turn.text = text], t.turn.id), t.turn.id)
        [] OTHER -> Owned(opened, opened.turn.id)

AssistantRecord(s, r) ==
  LET owner == IF s.transcript.owner # None \/ s.turn = None
               THEN s.transcript.owner ELSE s.turn.id
      t == ModelContent(s, "text", r)
  IN  IF s.transcript.unattributed \/ <<"output", owner, r>> \in s.seen THEN s
      ELSE IF s.transcript.owner # None
              /\ (s.turn = None \/ s.turn.id # s.transcript.owner)
      THEN Merge(s, s.transcript.owner, FALSE, {"output"})
      ELSE IF s.turn # None /\ s.turn.output = r THEN s
      ELSE MergeLateAnswer([t EXCEPT !.turn.output = r])

\* A record of an assistant is read once, also after a rewrite.
TranscriptRecord(s, record) ==
  LET n == s.transcript.answers + 1
      key == <<"transcript", s.transcript.owner, n, record.of>>
      t == [s EXCEPT !.transcript.answers = n, !.seen = @ \cup {key}]
  IN  IF record.role = "user"
      THEN UserRecord([s EXCEPT !.transcript.answers = 0], record.of)
      ELSE IF key \in s.seen THEN [s EXCEPT !.transcript.answers = n]
      ELSE AssistantRecord(t, record.of)

\* transcript_batch and drain_pending, to the end of what the hook found.
TranscriptBatch(s, through) ==
  LET t == IF s.transcript.path = s.rewrites THEN s
           ELSE [s EXCEPT !.transcript = Unread(s.rewrites)]
  IN  IF t.transcript.offset >= through THEN t
      ELSE [FoldLeft(TranscriptRecord, t,
                     SubSeq(t.log, t.transcript.offset + 1, through))
            EXCEPT !.transcript.offset = through]
-----------------------------------------------------------------------------
(* Hooks.                                                                     *)

\* Mutant: the hook of a prompt that the transcript showed before opens a turn.
SubmitPromptAnew(s, p) ==
  IF p \in DOMAIN s.generations THEN s
  ELSE EnsureTurn(CloseTurn(s, FALSE), p, Text(s, p), p)

SubmitPrompt(s, p) ==
  LET text == Text(s, p)
      native == s.turn # None
                /\ \E g \in DOMAIN s.generations : s.generations[g].id = s.turn.id
      told == [s EXCEPT !.turn.text = text,
                        !.generations = Put(@, p, [id |-> s.turn.id, text |-> text])]
  IN  IF p \in DOMAIN s.generations THEN s
      ELSE IF s.turn # None /\ ~s.turn.over /\ ~native /\ s.turn.text \in {None, text}
      THEN Update(told, s.turn.id)
      ELSE EnsureTurn(CloseTurn(s, FALSE), p, text, p)

\* The first hook of a call opens its span.  Hooks of calls may name a
\* generation that is no prompt (0).
OpenTool(s, c, generation, bare) ==
  LET told == generation \in DOMAIN s.generations
      t == IF told THEN s ELSE EnsureTurn(s, 0, None, s.prompts)
      turn == IF told THEN s.generations[generation].id ELSE t.turn.id
      tool == [turn |-> turn, bare |-> bare, incomplete |-> FALSE]
  IN  IF c \in DOMAIN s.tools THEN s
      ELSE InsertOpenTool(Open(t, ToolSpan(c), turn, turn, Call(c)), c, tool)

\* A call of the turn under way ends the response that made it.
RequestsTool(s, c) ==
  IF s.turn # None /\ ~s.turn.over /\ s.turn.id = s.tools[c].turn
  THEN CloseModel(ModelContent(s, "call", Call(c))) ELSE s

PreTool(s, c, generation) ==
  IF c \in DOMAIN s.completed THEN s
  ELSE RequestsTool(OpenTool(s, c, generation, FALSE), c)

\* A call that was given up may still end.
EndTool(s, c, generation, failed) ==
  LET again == c \in DOMAIN s.completed
      resumed == IF again
                 THEN InsertOpenTool([s EXCEPT !.completed = Drop(@, c)], c,
                                     s.completed[c])
                 ELSE OpenTool(s, c, generation, TRUE)
      t == IF resumed.tools[c].bare THEN RequestsTool(resumed, c) ELSE resumed
      ended == [RemoveOpenTools(t, {c}) EXCEPT
                  !.completed = Put(@, c, [t.tools[c] EXCEPT !.incomplete = FALSE])]
  IN  IF again /\ ~s.completed[c].incomplete THEN s
      ELSE Finish(ended, ToolSpan(c), Output(~failed) \cup Error(failed))

\* A richer result names no call: it is of the one call of the turn that had
\* this input.
Specialized(s, c) ==
  LET known == s.completed @@ s.tools
      candidates == {d \in DOMAIN known :
                       /\ d = c \/ s.max.same
                       /\ s.turn # None /\ known[d].turn = s.turn.id}
  IN  IF Cardinality(candidates) # 1 THEN s
      ELSE Merge(s, ToolSpan(CHOOSE d \in candidates : TRUE), FALSE, {"output"})

StartSubagent(s, a, c) ==
  LET t == EnsureTurn(s, 0, None, s.prompts)
      known == s.completed @@ s.tools
      turn == IF c \in DOMAIN known THEN known[c].turn ELSE t.turn.id
  IN  IF a \in s.subagents THEN s
      ELSE IF Cardinality(s.subagents) >= s.max.open THEN t
      ELSE Open([t EXCEPT !.subagents = @ \cup {a}], SubagentSpan(a), turn, turn, Agent(a))

\* A stop that names no subagent is of the one that runs with this task; if
\* there are several, it is recorded on its own.
StopSubagent(s, a, named) ==
  LET like == IF named THEN s.subagents \cap {a}
              ELSE IF s.max.same THEN s.subagents ELSE s.subagents \cap {a}
      b == CHOOSE b \in like : TRUE
      t == EnsureTurn(s, 0, None, s.prompts)
      stop == <<"stop", a>>
      span == IF named THEN SubagentSpan(a) ELSE <<"observation", a>>
      of == IF named THEN Agent(a) ELSE stop
  IN  IF Cardinality(like) = 1
      THEN Finish([s EXCEPT !.subagents = @ \ {b}], SubagentSpan(b), {"output"})
      ELSE Record(t, span, t.turn.id, t.turn.id, of, {"output"})

\* The answer to a prompt, of which text may have been in the transcript.
Response(s, p, r) ==
  LET t == IF s.turn # None /\ s.turn.output = r THEN s
           ELSE IF s.turn # None /\ s.turn.emitted = {r} THEN [s EXCEPT !.turn.output = r]
           ELSE [ModelContent(s, "text", r) EXCEPT !.turn.output = r]
  IN  IF p \in DOMAIN s.generations
         /\ (s.turn = None \/ s.turn.id # s.generations[p].id)
      THEN Merge(s, s.generations[p].id, FALSE, {"output"})
      ELSE MergeLateAnswer(CloseModel(t))

StopTurn(s, p, failed) ==
  IF p \in DOMAIN s.generations /\ (s.turn = None \/ s.turn.id # s.generations[p].id)
  THEN Finish(s, s.generations[p].id, Error(failed))
  ELSE CloseTurn(s, failed)

EndSession(s) ==
  LET t == CloseTurn(s, FALSE)
  IN  Finish(t, Root, Output(t.turn # None /\ t.turn.output # None))

Compaction(s) ==
  LET n == s.compacts + 1
  IN  Record([CloseModel(s) EXCEPT !.compacts = n], <<"compaction", n>>, Root, None,
             <<"compaction", n>>, {})

Finalize(s) ==
  LET t == CloseTurn(s, FALSE)
      agents == {SubagentSpan(a) : a \in t.subagents}
  IN  FinishAll(IncompleteTools(t, DOMAIN t.tools), agents \cup {Root}, {})
-----------------------------------------------------------------------------
(* What the agent does, and the hooks that it calls.                          *)

\* handle: reads the transcript (once, also when the hook is delivered again:
\* there is nothing more to read), then reduces the hook unless it was seen.
\* A hook of a subagent or a compaction is told from others by the turn.
HookKey(t, key) ==
  IF key[1] \in {"subagent", "thought"}
  THEN Append(key, IF t.turn = None THEN None ELSE t.turn.id) ELSE key

Hook(s, key, Reduce(_)) ==
  \E through \in 0..Len(s.log), again \in Again :
    /\ through >= Len(s.log) - s.max.lag
    /\ \E read \in {TranscriptBatch(EnsureRoot(s), through)} :
         st' = Delivered(LAMBDA t : IF HookKey(t, key) \in t.seen THEN t
                                    ELSE Reduce([t EXCEPT !.seen = @ \cup {HookKey(t, key)}]),
                         read, again)

Cause(s, op) == [s EXCEPT !.home = Put(@, op, Prompt(s.now))]

BeforeSubmitPrompt(lost) ==
  LET p == st.prompts + 1
      s == Cause([st EXCEPT !.prompts = p, !.now = p, !.retired = FALSE,
                            !.late = @ \cup (IF st.now = 0 THEN {} ELSE {<<"stop", st.now>>}),
                            !.log = Append(@, [role |-> "user", of |-> p])], Prompt(p))
      idle == st.now = 0 /\ \A hook \in st.late : hook[1] # "stop"
  IN  /\ p <= st.max.prompts
      /\ Alike \/ ~st.max.same \/ idle
      /\ IF lost THEN st' = s
         ELSE Hook(s, <<"prompt", p>>, LAMBDA t : SubmitPrompt(t, p))

AfterAgentThought ==
  LET r == Answer(st.answers + 1)
  IN  /\ st.now # 0 /\ st.answers < st.max.answers /\ r \notin DOMAIN st.home
      /\ Hook(Cause(st, r), <<"thought", r>>, LAMBDA t : ModelContent(t, "thinking", r))

AnswerPrompt ==
  LET r == Answer(st.answers + 1)
      s == [st EXCEPT !.answers = @ + 1, !.done = @ \cup {Session, Prompt(st.now)},
                      !.late = @ \cup {<<"answer", st.now, r>>}, !.retired = FALSE,
                      !.log = Append(@, [role |-> "assistant", of |-> r])]
  IN  /\ st.now # 0 /\ st.answers < st.max.answers
      /\ st' = Cause(s, r)

Abort ==
  /\ st.now # 0
  /\ st' = [st EXCEPT !.now = 0, !.late = @ \cup {<<"stop", st.now>>}, !.retired = FALSE]

AfterAgentResponse(hook) ==
  /\ hook[1] = "answer"
  /\ Hook([st EXCEPT !.late = @ \ {hook}], hook,
          LAMBDA t : Response(t, hook[2], hook[3]))

StopHook(hook, failed) ==
  /\ hook[1] = "stop"
  /\ Hook([st EXCEPT !.late = @ \ {hook}], hook,
          LAMBDA t : StopTurn(t, hook[2], failed))

\* Not all versions tell when a call begins, nor of what prompt it is.
Generations(c) == {0, st.home[Call(c)][2]}
PreToolUse(c, told) ==
  LET s == Cause([st EXCEPT !.started = @ \cup {c}, !.running = @ \cup {c}], Call(c))
  IN  /\ st.now # 0 /\ c \notin st.started
      /\ IF told THEN \E g \in {0, st.now} :
                        Hook(s, <<"preToolUse", c>>, LAMBDA t : PreTool(t, c, g))
         ELSE st' = [s EXCEPT !.retired = FALSE]

Current(op) == Strays \/ st.home[op] = Prompt(st.now)

PostToolUse(c, failed) ==
  /\ c \in st.running
  /\ Current(Call(c)) \/ c \in DOMAIN st.tools \cup DOMAIN st.completed
  /\ \E g \in Generations(c) :
       Hook([st EXCEPT !.running = @ \ {c}, !.done = @ \cup {Call(c)}],
            <<"postToolUse", c>>, LAMBDA t : EndTool(t, c, g, failed))

SpecializedHook(c) ==
  /\ c \in st.started \ st.running
  /\ Hook(st, <<"specialized", c>>, LAMBDA t : Specialized(t, c))

SubagentStart(a, c) ==
  /\ st.now # 0 /\ a \notin st.started /\ c \in st.running
  /\ Hook([Cause(st, Agent(a)) EXCEPT !.started = @ \cup {a}, !.running = @ \cup {a}],
          <<"subagent", "start", a>>, LAMBDA t : StartSubagent(t, a, c))

SubagentStop(a, named) ==
  /\ a \in st.running
  /\ \/ Current(Agent(a))
     \/ named /\ Cardinality(st.max.agents) <= st.max.open
  /\ Hook([st EXCEPT !.running = @ \ {a}, !.done = @ \cup {Agent(a), <<"stop", a>>}],
          <<"subagent", "stop", a>>, LAMBDA t : StopSubagent(t, a, named))

PreCompact ==
  /\ st.now # 0 /\ st.compacts < st.max.compactions
  /\ Hook(st, <<"compact", st.compacts>>, Compaction)

SessionEnd == st.now = 0 /\ st.prompts # 0 /\ Hook(st, <<"end", st.prompts>>, EndSession)

\* The agent rewrites the transcript from its last prompt on.
Rewrite ==
  LET last == CHOOSE i \in DOMAIN st.log :
                st.log[i].role = "user"
                /\ \A j \in i + 1..Len(st.log) : st.log[j].role # "user"
  IN  /\ st.log # <<>> /\ st.rewrites < st.max.rewrites
      /\ st' = [st EXCEPT !.log = SubSeq(@, last, Len(@)), !.rewrites = @ + 1,
                          !.retired = FALSE]

Retire ==
  LET t == Finalize(st)
  IN  /\ st.opened
      /\ st' = Retired([st EXCEPT !.done = t.done, !.home = t.home], t)

Next ==
  \/ AfterAgentThought \/ AnswerPrompt \/ Abort \/ PreCompact \/ SessionEnd
  \/ Rewrite \/ Retire
  \/ \E lost \in Lost : BeforeSubmitPrompt(lost)
  \/ \E hook \in st.late :
       AfterAgentResponse(hook) \/ \E failed \in BOOLEAN : StopHook(hook, failed)
  \/ \E c \in st.max.calls :
       \/ SpecializedHook(c)
       \/ \E b \in BOOLEAN : PreToolUse(c, b) \/ PostToolUse(c, b)
       \/ \E a \in st.max.agents : SubagentStart(a, c)
  \/ \E a \in st.max.agents, named \in BOOLEAN : SubagentStop(a, named)
=============================================================================
