---------------------------- MODULE PiTranslator ----------------------------
(* The translator of Pi sessions (translate/pi.rs).  An extension in the      *)
(* agent forwards its events in order: prompts, one after the other, with     *)
(* model responses and tool calls that may be nested.  The agent may be       *)
(* killed at any point and its session resumed.                               *)
EXTENDS SpanTree, Sequences

CONSTANTS Scopes,  \* bounds of a behaviour: prompts (turns), model requests
                   \* and responses (replies), compactions and branch
                   \* summaries (specials) and tool calls (calls)
          Inside,  \* the call that each call runs in, or NoCall
          Again    \* whether prompts and responses are delivered again

VARIABLE st

NoCall == "none"
Kinds == {"compaction", "summary"}
Session == <<"session">>
Prompt(n) == <<"prompt", n>>
Call(c) == <<"call", c>>
Turn(s) == <<"turn", s.turns>>
LlmSpan(s) == <<"llm", s.turns, s.llms>>
ToolSpan(s, c) == <<"tool", s.turns, c>>
ToolParent(s, p) == IF p = NoCall THEN Turn(s) ELSE ToolSpan(s, p)

\* PiTranslator.  `turn` is the prompt whose turn is open, or 0; `pending`
\* holds the requests that wait for a response, `tools` the open calls with
\* the call each runs in, `special` the compaction and the branch summary
\* under way, by the number of their start.
\* History: prompts, requests and responses so far, the prompt in which a call
\* began, special spans.
New(max, legacy) ==
  [max |-> max, opened |-> FALSE, adopted |-> FALSE, legacy |-> legacy,
   turn |-> 0, output |-> FALSE, last |-> FALSE, turns |-> 0, llms |-> 0, pending |-> <<>>,
   tools |-> Nothing, special |-> [k \in Kinds |-> 0],
   prompts |-> 0, requests |-> 0, replies |-> 0,
   began |-> [c \in max.calls |-> 0], specials |-> 0,
   rows |-> NoRows, done |-> {}, left |-> {},
   home |-> Nothing, retired |-> FALSE]

\* A release before the daemon may have left the root of a session that is
\* resumed (legacy_continuation).
Init ==
  \E max \in Scopes :
    \/ st = New(max, FALSE)
    \/ st = Record(New(max, TRUE), Root, None, None, Session, {})

EnsureRoot(s) ==
  IF s.opened THEN s
  ELSE IF s.adopted THEN [s EXCEPT !.opened = TRUE]
  ELSE IF s.legacy THEN [s EXCEPT !.opened = TRUE, !.adopted = TRUE, !.turns = 1]
  ELSE Open([s EXCEPT !.opened = TRUE], Root, None, None, Session)

\* Every payload says where the agent runs.
RootContextUpdate(s) ==
  IF s.opened /\ ~s.adopted THEN Update(s, Root) ELSE s

CloseTurn(s, error) ==
  LET t == [s EXCEPT !.turn = 0, !.pending = <<>>, !.tools = Nothing]
  IN  IF s.turn = 0 THEN t
      ELSE Finish([t EXCEPT !.output = FALSE, !.last = @ \/ s.output],
                  Turn(s), error \cup Output(s.output))

CloseRoot(s) ==
  Finish([s EXCEPT !.opened = FALSE, !.last = FALSE,
                   !.special = [k \in Kinds |-> 0]],
         Root, Output(s.last))

StartTurn(s, prompt) ==
  LET t == [CloseTurn(s, {}) EXCEPT !.turns = @ + 1, !.llms = 0,
                                    !.turn = prompt, !.prompts = prompt]
  IN  Open(t, Turn(t), Root, Turn(t), Prompt(prompt))

\* Mutant: a response that failed leaves the output of the turn.
MessageEndKept(s, reply, failed) ==
  LET lone == s.pending = <<>>
      request == IF lone THEN <<"reply", reply>> ELSE Head(s.pending)
      t == [s EXCEPT
              !.llms = @ + 1, !.output = @ \/ ~failed, !.replies = reply,
              !.pending = IF lone THEN @ ELSE Tail(@),
              !.done = (@ \ {Prompt(s.turn)}) \cup {request} \cup
                       IF failed THEN {} ELSE {Prompt(s.turn), Session}]
  IN  IF s.turn = 0 THEN s
      ELSE Record(t, LlmSpan(t), Turn(s), Turn(s), request,
                  {"output"} \cup Error(failed))

\* A response without a request is recorded too; one that failed leaves the
\* turn without an outcome, whatever came before it.
MessageEnd(s, reply, failed) ==
  LET lone == s.pending = <<>>
      request == IF lone THEN <<"reply", reply>> ELSE Head(s.pending)
      t == [s EXCEPT
              !.llms = @ + 1, !.output = ~failed, !.replies = reply,
              !.pending = IF lone THEN @ ELSE Tail(@),
              !.done = (@ \ {Prompt(s.turn)}) \cup {request} \cup
                       IF failed THEN {} ELSE {Prompt(s.turn), Session}]
  IN  IF s.turn = 0 THEN s
      ELSE Record(t, LlmSpan(t), Turn(s), Turn(s), request,
                  {"output"} \cup Error(failed))

ToolStart(s, c, p) ==
  IF s.turn = 0 \/ c \in DOMAIN s.tools THEN s
  ELSE Open([s EXCEPT !.began[c] = s.turn,
                      !.home = Put(@, Call(c), Prompt(s.prompts)),
                      !.tools = Put(@, c, p)],
            ToolSpan(s, c), ToolParent(s, p), Turn(s), Call(c))

ToolEnd(s, c, p, failed) ==
  LET marks == {"output"} \cup Error(failed)
      t == [s EXCEPT !.began[c] = s.turn, !.done = @ \cup {Call(c)},
                     !.home = Put(@, Call(c), Prompt(s.prompts)),
                     !.tools = Drop(@, c)]
  IN  IF s.turn = 0 THEN s
      ELSE IF c \in DOMAIN s.tools THEN Finish(t, ToolSpan(s, c), marks)
      ELSE Record(t, ToolSpan(s, c), ToolParent(s, p), Turn(s), Call(c),
                  marks)

\* Without a start, the end of a compaction or of a branch summary is a span
\* of its own.
FinishSpecial(s, kind, n) ==
  LET id == <<kind, IF s.special[kind] = 0 THEN n ELSE s.special[kind]>>
  IN  Record([s EXCEPT !.special[kind] = 0, !.specials = n,
                       !.done = @ \cup {id}],
             id, Root, None, id, {"output"})

\* close_dangling: a request without response and an open call end with an
\* error.
FailRequest(s) ==
  LET t == [s EXCEPT !.llms = @ + 1, !.pending = Tail(@)]
  IN  Record(t, LlmSpan(t), Turn(t), Turn(t), Head(s.pending), {"error"})
FailCall(s, c) ==
  Record([s EXCEPT !.tools = Drop(@, c)],
         ToolSpan(s, c), ToolParent(s, s.tools[c]), Turn(s), Call(c),
         {"error"})
CloseDangling(s) ==
  LET requests[n \in 0..Len(s.pending)] ==
        IF n = 0 THEN s ELSE FailRequest(requests[n - 1])
      calls[open \in SUBSET DOMAIN s.tools] ==
        IF open = {} THEN requests[Len(s.pending)]
        ELSE LET c == CHOOSE c \in open : TRUE
             IN  FailCall(calls[open \ {c}], c)
  IN  IF s.turn = 0 THEN s ELSE calls[DOMAIN s.tools]

Finalize(s) ==
  LET t == CloseTurn(CloseDangling(s), {"error"})
  IN  IF t.opened THEN CloseRoot(t) ELSE t
-----------------------------------------------------------------------------
(* Events.                                                                    *)

\* handle: every event may open the root, and updates it afterwards.
Handle(Handler(_), again) ==
  st' = Delivered(LAMBDA s : RootContextUpdate(Handler(EnsureRoot(s))), st, again)
Once(Handler(_)) == Handle(Handler, FALSE)
Repeated(Handler(_)) == \E again \in BOOLEAN : Handle(Handler, again)

\* Calls that run when the agent is done with a prompt.
Leaving(s) ==
  [s EXCEPT !.left = @ \cup ({Call(c) : c \in {c \in s.max.calls : s.began[c] # 0}}
                             \ s.done)]

BeforeAgentStart ==
  /\ st.prompts < st.max.turns
  /\ \E again \in Again :
       Handle(LAMBDA s : StartTurn(Leaving(s), st.prompts + 1), again)

\* capture_context.
Context ==
  /\ st.requests < st.max.replies
  /\ \E again \in Again :
       Handle(LAMBDA s :
                [s EXCEPT !.requests = st.requests + 1,
                          !.pending = Append(@, <<"request", st.requests + 1>>),
                          !.home = Put(@, <<"request", st.requests + 1>>,
                                       Prompt(st.prompts))],
              again)

Message(failed) ==
  /\ st.replies < st.max.replies
  /\ \E again \in Again :
       Handle(LAMBDA s : MessageEnd(s, st.replies + 1, failed), again)

\* A call runs in the turn of its first event, inside a call that started in
\* the turn, and ends once.
Runs(c) ==
  /\ Call(c) \notin st.done
  /\ st.turn # 0 => /\ st.began[c] \in {0, st.turn}
                    /\ Inside[c] # NoCall => st.began[Inside[c]] = st.turn

ToolExecutionStart(c) ==
  Runs(c) /\ Repeated(LAMBDA s : ToolStart(s, c, Inside[c]))
ToolExecutionEnd(c, failed) ==
  Runs(c) /\ Repeated(LAMBDA s : ToolEnd(s, c, Inside[c], failed))

\* An agent that retries a failed turn by itself does not end it.
AgentEnd(retry) ==
  Repeated(LAMBDA s : IF retry THEN s ELSE CloseTurn(Leaving(s), {}))

SessionBeforeCompact ==
  /\ st.specials < st.max.specials
  /\ Once(LAMBDA s : [s EXCEPT !.specials = st.specials + 1,
                               !.special["compaction"] = st.specials + 1])
\* A branch that the user leaves is summarised only when wanted.
SessionBeforeTree(wanted) ==
  /\ st.specials < st.max.specials
  /\ Once(LAMBDA s : IF wanted
                     THEN [s EXCEPT !.specials = st.specials + 1,
                                    !.special["summary"] = st.specials + 1]
                     ELSE s)
SessionCompact ==
  /\ st.specials < st.max.specials
  /\ Once(LAMBDA s : FinishSpecial(s, "compaction", st.specials + 1))
SessionTree(summary) ==
  /\ st.specials < st.max.specials
  /\ Once(LAMBDA s : IF summary \/ s.special["summary"] # 0
                     THEN FinishSpecial(s, "summary", st.specials + 1) ELSE s)

SessionShutdown == Once(LAMBDA s : CloseRoot(CloseTurn(Leaving(s), {})))

Retire == st.rows # NoRows /\ st' = Retired(st, Finalize(st))

Next ==
  \/ BeforeAgentStart \/ Context \/ SessionShutdown \/ Retire
  \/ SessionBeforeCompact \/ SessionCompact
  \/ \E b \in BOOLEAN : Message(b) \/ AgentEnd(b)
                         \/ SessionBeforeTree(b) \/ SessionTree(b)
  \/ \E c \in st.max.calls :
       \/ ToolExecutionStart(c)
       \/ \E b \in BOOLEAN : ToolExecutionEnd(c, b)
=============================================================================
