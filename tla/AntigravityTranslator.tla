----------------------- MODULE AntigravityTranslator ------------------------
(* The translator of Google Antigravity (translate/antigravity.rs).  Hooks    *)
(* tell when model invocations and tool steps begin and end; what was said is *)
(* in the transcript, which every hook reads up to the point where it stood   *)
(* when the hook ran.                                                         *)
EXTENDS SpanTree, Sequences, SequencesExt, TLC

CONSTANTS Scopes,  \* bounds of a behaviour: turns, invocations (replies), tool
                   \* calls (calls), compactions, records that a hook may not
                   \* find yet (lag)
          Again,   \* whether a hook may be delivered again
          CutOff,  \* whether a turn may be ended, or the session retired, in
                   \* the middle of an invocation that is not its turn's first
          Background, \* whether calls may outlive a turn that leaves the
                   \* conversation not fully idle
          Late,    \* whether a hook may run before the prompt it is about is
                   \* in the transcript
          Paths,   \* transcripts a hook may observe: "compact", "full"
          Killed   \* whether the process may end without a Stop hook

VARIABLE st

Session == <<"session">>
Prompt(t) == <<"prompt", t>>
Response(r) == <<"response", r>>
Call(c) == <<"call", c>>
TurnSpan(n) == <<"turn", n>>
InvocationSpan(n, num) == <<"turn", n, "invocation", num>>
ToolSpan(c) == <<"tool", c>>

\* AntigravityTranslator: the turn under way ([number, output], or None), how
\* far each transcript was read, how many answers the history holds, and how
\* each tool step read ended; the invocations and calls that have not ended.
\* History: the transcript; prompts and invocations so far; the prompt at work,
\* or 0; the next number of this process; the stage of an invocation; calls.
Init ==
  \E max \in Scopes :
    st = [max |-> max, open |-> FALSE, ended |-> FALSE, turn |-> None,
          turnCount |-> 0, offsets |-> [path \in Paths |-> 0], answers |-> 0,
          steps |-> Nothing, invocations |-> Nothing, tools |-> Nothing,
          log |-> <<>>, prompts |-> 0, replies |-> 0, now |-> 0, num |-> 0,
          stage |-> "idle", called |-> {}, running |-> {}, compactions |-> 0,
          home |-> Nothing, rows |-> NoRows, done |-> {}, left |-> {},
          retired |-> FALSE]
-----------------------------------------------------------------------------
(* Turns and the root.                                                        *)

EnsureRoot(s) ==
  IF s.open THEN s ELSE Open([s EXCEPT !.open = TRUE], Root, None, None, Session)

CloseTurn(s, marks) ==
  IF s.turn = None THEN s
  ELSE Finish([s EXCEPT !.turn = None], TurnSpan(s.turn.number),
              Output(s.turn.output) \cup marks)

StartTurn(s, of) ==
  LET t == CloseTurn(s, {})
      n == t.turnCount + 1
  IN  Open([t EXCEPT !.turnCount = n, !.turn = [number |-> n, output |-> FALSE]],
           TurnSpan(n), Root, TurnSpan(n), of)
EnsureTurn(s) == IF s.turn = None THEN StartTurn(s, None) ELSE s

\* What is pending ends with the turn; an invocation, with the turn's output.
ClosePending(s, marks) ==
  LET output == Output(s.turn # None /\ s.turn.output)
      invocations == {s.invocations[i].span : i \in DOMAIN s.invocations}
      tools == {ToolSpan(c) : c \in DOMAIN s.tools}
      t == [s EXCEPT !.invocations = Nothing, !.tools = Nothing]
  IN  FinishAll(FinishAll(t, invocations, output \cup marks), tools, marks)

CloseRoot(s, marks) == IF s.ended THEN s ELSE Finish([s EXCEPT !.ended = TRUE], Root, marks)

\* observe_record.  A checkpoint replaces the history.
ObserveRecord(s, record) ==
  CASE record.kind = "USER_INPUT" -> StartTurn(s, Prompt(record.turn))
    [] record.kind = "PLANNER_RESPONSE" ->
         [s EXCEPT !.answers = @ + 1, !.turn = IF @ = None THEN @ ELSE [@ EXCEPT !.output = TRUE]]
    [] record.kind = "CHECKPOINT" ->
         [s EXCEPT !.answers = 0,
                   !.invocations = [i \in DOMAIN @ |-> [@[i] EXCEPT !.start = 0]]]
    [] record.kind = "TOOL" -> [s EXCEPT !.steps = Put(@, record.call, record.failed)]

TailTranscript(s, path, through) ==
  FoldLeft(ObserveRecord, [s EXCEPT !.offsets[path] = through],
           SubSeq(s.log, s.offsets[path] + 1, through))
-----------------------------------------------------------------------------
(* The hooks' own handlers.                                                   *)

PreInvocation(s, num, r) ==
  LET t == EnsureTurn(s)
      span == InvocationSpan(t.turn.number, num)
      pending == [span |-> span, start |-> t.answers]
  IN  IF num \in DOMAIN s.invocations THEN s
      ELSE Open([t EXCEPT !.invocations = Put(@, num, pending)], span,
                TurnSpan(t.turn.number), TurnSpan(t.turn.number), Response(r))

PostInvocation(s, num) ==
  IF num \notin DOMAIN s.invocations THEN s
  ELSE Finish([s EXCEPT !.invocations = Drop(@, num)], s.invocations[num].span,
              Output(s.answers > s.invocations[num].start))

PreTool(s, c) ==
  LET t == EnsureTurn(s)
      turn == TurnSpan(t.turn.number)
  IN  IF c \in DOMAIN s.tools THEN s
      ELSE Open([t EXCEPT !.tools = Put(@, c, turn)], ToolSpan(c), turn, turn, Call(c))

\* The result is what the transcript tells of the step; a call that was not
\* announced is inserted now.
PostTool(s, c) ==
  LET read == c \in DOMAIN s.steps
      t == EnsureTurn(s)
      turn == TurnSpan(t.turn.number)
      opened == IF c \in DOMAIN s.tools THEN [s EXCEPT !.tools = Drop(@, c)]
                ELSE Open(t, ToolSpan(c), turn, turn, Call(c))
  IN  Finish(opened, ToolSpan(c), Output(read) \cup Error(read /\ s.steps[c]))

StopTurn(s, error, idle) ==
  LET t == CloseTurn(ClosePending(s, Error(error)), Error(error))
  IN  IF idle THEN CloseRoot(t, Error(error)) ELSE t

\* A conversation may be resumed: its root is to end again.
Handle(s, event, path, through) ==
  LET reopened == [s EXCEPT !.ended = @ /\ event.name = "Stop"]
      t == TailTranscript(EnsureRoot(reopened), path, through)
  IN  CASE event.name = "PreInvocation" -> PreInvocation(t, event.num, event.response)
        [] event.name = "PostInvocation" -> PostInvocation(t, event.num)
        [] event.name = "PreToolUse" -> PreTool(t, event.call)
        [] event.name = "PostToolUse" -> PostTool(t, event.call)
        [] event.name = "Stop" -> StopTurn(t, event.error, event.idle)

Finalize(s) == CloseRoot(CloseTurn(ClosePending(s, {}), {}), {})
-----------------------------------------------------------------------------
(* What the agent does.                                                       *)

Cause(s, op) == [s EXCEPT !.home = Put(@, op, Prompt(s.now))]
RecordOf(kind, turn, call, failed) ==
  [kind |-> kind, turn |-> turn, call |-> call, failed |-> failed]
Writes(s, record) == st' = [s EXCEPT !.log = Append(@, record), !.retired = FALSE]

\* A hook observes what was written, save perhaps the last few records.
Hook(s, event) ==
  \E path \in Paths, again \in Again, through \in 0..Len(s.log) :
    /\ through >= Len(s.log) - s.max.lag /\ through >= s.offsets[path]
    /\ Late \/ \A i \in DOMAIN s.log : s.log[i].kind = "USER_INPUT" => i <= through
    /\ st' = Delivered(LAMBDA x : Handle(x, event, path, through), s, again)

Submit ==
  LET t == st.prompts + 1
  IN  /\ st.now = 0 /\ t <= st.max.turns
      /\ Writes(Cause([st EXCEPT !.prompts = t, !.now = t], Prompt(t)),
                RecordOf("USER_INPUT", t, "", FALSE))

StartInvocation ==
  LET r == st.replies + 1
  IN  /\ st.now # 0 /\ st.stage = "idle" /\ r <= st.max.replies
      /\ Hook(Cause([st EXCEPT !.replies = r, !.stage = "started"], Response(r)),
              [name |-> "PreInvocation", num |-> st.num, response |-> r])
Answer ==
  /\ st.stage = "started"
  /\ Writes([st EXCEPT !.stage = "answered",
                       !.done = @ \cup {Response(st.replies), Prompt(st.now)}],
            RecordOf("PLANNER_RESPONSE", st.now, "", FALSE))
EndInvocation ==
  /\ st.stage = "answered"
  /\ Hook([st EXCEPT !.stage = "idle", !.num = @ + 1],
          [name |-> "PostInvocation", num |-> st.num])

\* Not every step is announced; every one is told of when it ended.
StartCall(c) ==
  /\ st.now # 0 /\ st.stage = "idle" /\ c \notin st.called
  /\ LET s == Cause([st EXCEPT !.called = @ \cup {c}, !.running = @ \cup {c}], Call(c))
     IN  \/ Hook(s, [name |-> "PreToolUse", call |-> c])
         \/ st' = [s EXCEPT !.retired = FALSE]
EndStep(c, failed) ==
  /\ c \in st.running /\ Call(c) \notin st.done
  /\ Writes([st EXCEPT !.done = @ \cup {Call(c)}], RecordOf("TOOL", st.now, c, failed))
EndCall(c) ==
  /\ c \in st.running /\ Call(c) \in st.done
  /\ Hook([st EXCEPT !.running = @ \ {c}], [name |-> "PostToolUse", call |-> c])

Compact ==
  /\ st.now # 0 /\ st.compactions < st.max.compactions
  /\ Writes([st EXCEPT !.compactions = @ + 1], RecordOf("CHECKPOINT", st.now, "", FALSE))

\* An invocation is at work whose turn has had an answer already.
Continued == st.stage = "started" /\ Prompt(st.now) \in st.done

Stop ==
  /\ st.now # 0 /\ (CutOff \/ ~Continued)
  /\ \E error, idle \in BOOLEAN :
       /\ (st.stage # "idle" \/ st.running # {}) => error
       /\ Hook([st EXCEPT !.now = 0, !.stage = "idle",
                          !.running = IF Background /\ ~idle THEN @ ELSE {}],
               [name |-> "Stop", error |-> error, idle |-> idle])
Kill ==
  /\ Killed /\ st.num + st.now > 0
  /\ st' = [st EXCEPT !.now = 0, !.num = 0, !.stage = "idle", !.running = {},
                      !.retired = FALSE]

\* The next process numbers its invocations from zero again.
Resume ==
  /\ st.now = 0 /\ st.num > 0
  /\ st' = [st EXCEPT !.num = 0, !.retired = FALSE]

Retire == st.rows # NoRows /\ (CutOff \/ ~Continued) /\ st' = Retired(st, Finalize(st))

Next ==
  \/ Submit \/ StartInvocation \/ Answer \/ EndInvocation
  \/ Compact \/ Stop \/ Kill \/ Resume \/ Retire
  \/ \E c \in st.max.calls :
       StartCall(c) \/ EndCall(c) \/ \E failed \in BOOLEAN : EndStep(c, failed)
=============================================================================
