--------------------------- MODULE GrokTranslator ---------------------------
(* The translator of Grok (translate/grok.rs).  Two transcripts of the        *)
(* session are mirrored and read up to the point where they stood at a hook:  *)
(* `updates`, from which all spans are made, and `events`, which only tells   *)
(* more about tool calls.  Hooks wake the reader, and some end a turn that    *)
(* the transcript does not end.                                               *)
EXTENDS SpanTree, Sequences, SequencesExt, TLC

CONSTANTS Scopes,        \* bounds of a behaviour: turns, responses (replies),
                         \* tool calls (calls), those that `events` tells of
                         \* (events), records of either transcript that a hook
                         \* may not find yet (lag), and whether prompts come in
                         \* chunks, with a system prompt (more)
          MaxOpenTools,  \* MAX_OPEN_TOOLS
          Again,         \* whether a hook may be delivered again
          Unfinished,    \* whether a hook that ends a turn may come before the
                         \* transcript has been written up to there
          Rewound        \* whether the user may go back to an earlier turn

VARIABLE st

Session == <<"session">>
Prompt(t) == <<"prompt", t>>
Response(r) == <<"response", r>>
Call(c) == <<"call", c>>
TurnSpan(t) == <<"turn", t>>
ToolSpan(c) == <<"tool", c>>

\* What reset_transcript_state forgets: the turns read, the turn under way
\* ([turn, llms, output, dirty], or None), the response under way ([span, turn,
\* stream], or None), the calls, open and completed, with the turns they belong
\* to, events about calls that are not complete, and the first response of all.
Forgotten ==
  [turns |-> {}, turnSeq |-> 0, turn |-> None, llm |-> None, tools |-> Nothing,
   completed |-> Nothing, pendingEvents |-> Nothing, firstLlm |-> None]

\* GrokTranslator, and the cursors of both transcripts, which notice when what
\* they read was changed (edition).  History: the transcripts; prompts and
\* responses so far; the prompt at work, or 0; calls under way.
Init ==
  \E max \in Scopes :
    st = Forgotten @@
         [max |-> max, open |-> FALSE, closed |-> FALSE, system |-> FALSE,
          updates |-> [offset |-> 0, edition |-> 0], events |-> 0,
          log |-> <<>>, eventLog |-> <<>>, edition |-> 0, prompts |-> 0,
          replies |-> 0, now |-> 0, called |-> {}, running |-> {}, ending |-> "",
          home |-> Nothing,
          rows |-> NoRows, done |-> {}, left |-> {}, retired |-> FALSE]
-----------------------------------------------------------------------------
(* Records of `updates`.                                                      *)

EnsureRoot(s) ==
  LET t == [s EXCEPT !.open = TRUE, !.closed = FALSE]
  IN  IF s.open THEN s
      ELSE IF s.closed THEN Finish(t, Root, {})
      ELSE Open(t, Root, None, None, Session)

\* The input of a turn, which is that of the first response, too.
SyncUserInput(s) ==
  LET t == Update([s EXCEPT !.turn.dirty = FALSE], TurnSpan(s.turn.turn))
  IN  IF s.turn = None \/ ~s.turn.dirty THEN s
      ELSE IF s.turnSeq = 1 /\ s.firstLlm # None THEN Update(t, s.firstLlm) ELSE t

CloseLlm(s) ==
  IF s.llm = None THEN s
  ELSE Finish([s EXCEPT !.llm = None], s.llm.span, {"output"})

\* process_event: more about a completed call; a failure is only news when the
\* call itself did not report one.
ProcessEvent(s, c, failed) ==
  IF c \notin DOMAIN s.completed
  THEN [s EXCEPT !.pendingEvents = Put(@, c, failed)]
  ELSE Finish(s, ToolSpan(c), Error(failed /\ ~s.completed[c].failed))

CompleteTool(s, c, turn, told, failed) ==
  [s EXCEPT !.tools = IF c \in DOMAIN @ THEN Drop(@, c) ELSE @,
            !.completed = Put(@, c, [turn |-> turn, told |-> told, failed |-> failed])]
ApplyPendingToolEvent(s, c) ==
  IF c \in DOMAIN s.pendingEvents
  THEN ProcessEvent([s EXCEPT !.pendingEvents = Drop(@, c)], c, s.pendingEvents[c])
  ELSE s

\* A call that is given up, at the limit or with its turn, may complete yet.
GiveUp(s, c) ==
  ApplyPendingToolEvent(
    Finish(CompleteTool(s, c, s.tools[c], FALSE, FALSE), ToolSpan(c), {}), c)
EvictOpenToolIfNeeded(s) ==
  IF Cardinality(DOMAIN s.tools) < MaxOpenTools THEN s
  ELSE GiveUp(s, CHOOSE c \in DOMAIN s.tools : TRUE)

CloseTurn(s, marks) ==
  LET closed == CloseLlm(SyncUserInput(s))
      t == FoldSet(LAMBDA c, x : GiveUp(x, c), closed, DOMAIN closed.tools)
  IN  IF s.turn = None THEN t
      ELSE Finish([t EXCEPT !.turn = None], TurnSpan(s.turn.turn),
                  Output(s.turn.output) \cup marks)
CloseIncompleteTurn(s, marks) == IF s.turn = None THEN s ELSE CloseTurn(s, marks)

UserMessage(s, t) ==
  LET opened == EnsureRoot(CloseIncompleteTurn(s, {}))
      turn == [turn |-> t, llms |-> <<>>, output |-> FALSE, dirty |-> FALSE]
  IN  IF s.turn # None /\ s.turn.turn = t THEN [s EXCEPT !.turn.dirty = TRUE]
      ELSE IF t \in s.turns THEN s
      ELSE Open([opened EXCEPT !.turns = @ \cup {t}, !.turn = turn, !.turnSeq = @ + 1],
                TurnSpan(t), Root, TurnSpan(t), Prompt(t))

\* A chunk of another stream than the one under way begins a response.
AgentChunk(s, r) ==
  LET closed == CloseLlm(s)
      n == Len(closed.turn.llms) + 1
      span == <<"llm", s.turn.turn, r, n>>
      t == [closed EXCEPT !.turn.llms = Append(@, span), !.turn.output = TRUE,
                          !.llm = [span |-> span, stream |-> r],
                          !.firstLlm = IF @ = None THEN span ELSE @]
  IN  IF s.turn = None THEN s
      ELSE IF s.llm # None /\ s.llm.stream = r THEN [s EXCEPT !.turn.output = TRUE]
      ELSE Open(t, span, TurnSpan(s.turn.turn), TurnSpan(s.turn.turn), Response(r))

ToolCall(s, c) ==
  LET t == EvictOpenToolIfNeeded(CloseLlm(s))
      turn == TurnSpan(s.turn.turn)
  IN  IF s.turn = None \/ c \in DOMAIN s.tools \cup DOMAIN s.completed
      THEN CloseLlm(s)
      ELSE Open([t EXCEPT !.tools = Put(@, c, turn)], ToolSpan(c), turn, turn, Call(c))

ToolCallUpdate(s, c, status) ==
  LET t == CloseLlm(s)
      opened == Open(t, ToolSpan(c), TurnSpan(t.turn.turn), TurnSpan(t.turn.turn), Call(c))
      failed == status = "failed"
      End(x, turn) ==
        ApplyPendingToolEvent(
          Finish(CompleteTool(x, c, turn, TRUE, failed), ToolSpan(c),
                 Output(status = "completed") \cup Error(failed)), c)
  IN  CASE c \in DOMAIN t.tools -> End(t, t.tools[c])
        [] c \in DOMAIN t.completed ->
             IF t.completed[c].told THEN t ELSE End(t, t.completed[c].turn)
        [] OTHER -> IF t.turn = None THEN t ELSE End(opened, TurnSpan(t.turn.turn))

\* The usage of the turn is that of its last response, open or closed.
TurnCompleted(s) ==
  IF s.turn = None THEN s
  ELSE CloseTurn(IF s.turn.llms = <<>> THEN s ELSE Update(s, Last(s.turn.llms)), {})

ProcessUpdate(s, record) ==
  LET t == IF record.kind = "user_message_chunk" THEN s ELSE SyncUserInput(s)
  IN  CASE record.kind = "user_message_chunk" -> UserMessage(t, record.turn)
        [] record.kind = "agent_message_chunk" ->
             IF s.turn = None THEN s ELSE AgentChunk(t, record.response)
        [] record.kind = "tool_call" -> ToolCall(t, record.call)
        [] record.kind = "tool_call_update" ->
             ToolCallUpdate(t, record.call, record.status)
        [] record.kind = "turn_completed" -> TurnCompleted(t)
-----------------------------------------------------------------------------
(* Hooks.                                                                     *)

\* The system prompt is part of the input of the first response.
ProcessSystemPrompt(s, found) ==
  LET t == [s EXCEPT !.system = TRUE]
  IN  IF s.system \/ ~found THEN s
      ELSE IF s.firstLlm = None THEN t ELSE Update(t, s.firstLlm)

\* process_transcripts, to the end of what was captured (drain_pending).  Of a
\* transcript that was changed, nothing has been read.
ProcessTranscripts(s, system, through, events) ==
  LET changed == s.updates.edition # s.edition
      start == IF changed THEN Forgotten @@ s ELSE s
      from == IF changed THEN 0 ELSE s.updates.offset
      updated == FoldLeft(ProcessUpdate, ProcessSystemPrompt(start, system),
                          SubSeq(s.log, from + 1, through))
      t == FoldLeft(LAMBDA x, event : ProcessEvent(x, event.call, event.failed),
                    updated, SubSeq(s.eventLog, s.events + 1, events))
  IN  [t EXCEPT !.updates = [offset |-> through, edition |-> s.edition],
                !.events = events]

FinishHook(s, event) ==
  LET t == CloseIncompleteTurn(s, Error(event = "StopFailure"))
  IN  CASE event \in {"StopFailure", "StopCancelled"} -> t
        [] event = "SessionEnd" ->
             IF t.open THEN Finish([t EXCEPT !.open = FALSE, !.closed = TRUE], Root, {})
             ELSE t
        [] OTHER -> s

Finalize(s) ==
  LET t == CloseIncompleteTurn(s, {})
  IN  IF s.open THEN Finish(t, Root, {}) ELSE t
-----------------------------------------------------------------------------
(* What the agent does.                                                       *)

RecordOf(kind, turn, response, call, status) ==
  [kind |-> kind, turn |-> turn, response |-> response, call |-> call, status |-> status]
Writes(s, record) == st' = [s EXCEPT !.log = Append(@, record), !.retired = FALSE]
Cause(s, op) == [s EXCEPT !.home = Put(@, op, Prompt(s.now))]

\* A prompt, in one chunk or several.
Submit ==
  LET t == st.prompts + 1
  IN  /\ st.now = 0 /\ st.ending = "" /\ t <= st.max.turns
      /\ Writes(Cause([st EXCEPT !.prompts = t, !.now = t], Prompt(t)),
                RecordOf("user_message_chunk", t, 0, "", ""))
SubmitMore ==
  /\ st.max.more /\ st.now # 0 /\ Last(st.log).kind = "user_message_chunk"
  /\ Cardinality({i \in DOMAIN st.log : st.log[i].turn = st.now}) = 1
  /\ Writes(st, RecordOf("user_message_chunk", st.now, 0, "", ""))

Respond ==
  LET r == st.replies + 1
  IN  /\ st.now # 0 /\ r <= st.max.replies
      /\ Writes(Cause([st EXCEPT !.replies = r,
                                 !.done = @ \cup {Response(r), Prompt(st.now)}], Response(r)),
                RecordOf("agent_message_chunk", st.now, r, "", ""))

StartCall(c) ==
  /\ st.now # 0 /\ c \notin st.called
  /\ Writes(Cause([st EXCEPT !.called = @ \cup {c}, !.running = @ \cup {c}], Call(c)),
            RecordOf("tool_call", st.now, 0, c, ""))

\* A call ends in both transcripts, in this order or the other.
EndCall(c, status) ==
  /\ c \in st.running
  /\ Writes([st EXCEPT !.running = @ \ {c}, !.done = @ \cup {Call(c)}],
            RecordOf("tool_call_update", st.now, 0, c, status))
EndCallEvent(c) ==
  /\ c \in st.called \cap st.max.events /\ \A i \in DOMAIN st.eventLog : st.eventLog[i].call # c
  /\ \E failed \in BOOLEAN :
       /\ \A i \in DOMAIN st.log :
            st.log[i].call = c /\ st.log[i].kind = "tool_call_update"
              => failed = (st.log[i].status = "failed")
       /\ st' = [st EXCEPT !.eventLog = Append(@, [call |-> c, failed |-> failed]),
                           !.retired = FALSE]

\* A turn completes, or is ended, of which only a hook tells.
CompleteTurn ==
  /\ st.now # 0
  /\ Writes([st EXCEPT !.now = 0], RecordOf("turn_completed", st.now, 0, "", ""))
EndTurn ==
  /\ st.now # 0
  /\ \E ending \in {"StopFailure", "StopCancelled"} :
       st' = [st EXCEPT !.now = 0, !.ending = ending, !.retired = FALSE]

\* Back to before the last prompt: the transcript is cut there.
Rewind ==
  LET starts == {i \in DOMAIN st.log : st.log[i].kind = "user_message_chunk"}
  IN  /\ Rewound /\ st.now = 0 /\ st.edition = 0 /\ starts # {}
      /\ st' = [st EXCEPT !.log = SubSeq(@, 1, (CHOOSE i \in starts : \A j \in starts : j <= i) - 1),
                          !.edition = 1, !.retired = FALSE]

\* A hook finds no less of a transcript than the one before it.
Hook(s, event) ==
  \E through \in 0..Len(s.log), events \in 0..Len(s.eventLog), system \in {FALSE, s.max.more},
     again \in Again :
    /\ through >= Len(s.log) - s.max.lag /\ events >= Len(s.eventLog) - s.max.lag
    /\ s.updates.edition = s.edition => through >= s.updates.offset
    /\ events >= s.events
    /\ Unfinished \/ event = "Stop" \/ through = Len(s.log)
    /\ st' = Delivered(LAMBDA x :
                FinishHook(ProcessTranscripts(x, system, through, events), event),
              s, again)

Stop == Hook(st, "Stop")
StopIncomplete == st.ending # "" /\ Hook([st EXCEPT !.ending = ""], st.ending)
SessionEnd == st.now = 0 /\ st.ending = "" /\ Hook(st, "SessionEnd")
Retire == st.rows # NoRows /\ st' = Retired(st, Finalize(st))

Next ==
  \/ Submit \/ SubmitMore \/ Respond \/ CompleteTurn \/ EndTurn \/ Rewind
  \/ Stop \/ StopIncomplete \/ SessionEnd \/ Retire
  \/ \E c \in st.max.calls :
       \/ StartCall(c) \/ EndCallEvent(c)
       \/ \E status \in {"completed", "failed", "cancelled"} : EndCall(c, status)
=============================================================================
