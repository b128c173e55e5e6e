------------------------- MODULE OpenCodeTranslator -------------------------
(* The translator of OpenCode (translate/opencode.rs).  One daemon session    *)
(* holds the native session and the child sessions of its subagents; a plugin *)
(* forwards hooks and bus events in order.                                    *)
EXTENDS SpanTree

CONSTANTS Scopes,   \* bounds of a behaviour: native sessions, by the number of
                    \* their prompts (prompts) and of their model responses
                    \* (replies), and tool calls (calls)
          ParentID, \* the native session that started each, or NoSession
          CallOf,   \* the native session of each call
          Again,    \* whether prompts are delivered again
          Resumed   \* whether a native session is prompted again after an
                    \* error, or a subagent's after it was idle

VARIABLE st

NoSession == "none"
SessionSpan(sid) == <<"session", sid>>
TurnSpan(sid, n) == <<"turn", sid, n>>
ToolSpan(c) == <<"tool", CallOf[c], c>>
LlmSpan(sid, m) == <<"llm", sid, m>>
Prompt(sid, n) == <<"prompt", sid, n>>
Native == DOMAIN st.max.prompts

\* NativeSession: parents of its root span, the user turn it works for, the
\* open turn, started calls with their parent spans, and calls that were
\* denied, closed, and responses that completed in the turn.
NewSession(parent, above, owner) ==
  [parent |-> parent, above |-> above, owner |-> owner, idle |-> FALSE,
   turn |-> None, turns |-> 0, output |-> FALSE,
   starts |-> Nothing, denied |-> {}, closed |-> {},
   completed |-> {}]

\* OpenCodeTranslator.  History: prompts and responses of a native session,
\* whether it runs, and whether it was prompted for the last time; the prompt
\* in which a call began; the prompt of the user that a native session was
\* created for.
Init ==
  \E max \in Scopes :
    st = [max |-> max, sessions |-> Nothing,
          requests |-> {},
          prompts |-> [i \in DOMAIN max.prompts |-> 0],
          replies |-> [i \in DOMAIN max.prompts |-> 0],
          busy |-> {}, over |-> {}, began |-> [c \in max.calls |-> 0],
          rows |-> NoRows, done |-> {}, left |-> {},
          cause |-> [i \in DOMAIN max.prompts |-> None], home |-> Nothing,
          retired |-> FALSE]

Known(s, sid) == sid \in DOMAIN s.sessions
TurnOf(s, sid) == IF Known(s, sid) THEN s.sessions[sid].turn ELSE None
TurnOwner(n) == IF n.owner # None THEN n.owner ELSE n.turn
SetSession(s, sid, n) ==
  [s EXCEPT !.sessions = Put(@, sid, n)]

\* A child session hangs below the turn that its parent is in.
OpenSession(s, sid, parent) ==
  LET known == parent # NoSession /\ Known(s, parent)
      above == IF known THEN s.sessions[parent].turn ELSE None
      owner == IF known THEN TurnOwner(s.sessions[parent]) ELSE None
  IN  IF Known(s, sid) THEN s
      ELSE Open(SetSession(s, sid, NewSession(parent, above, owner)),
                SessionSpan(sid), above, owner, SessionSpan(sid))

ChatMessage(s, sid, prompt) ==
  LET opened == OpenSession(s, sid, NoSession)
      n == opened.sessions[sid]
      woken == IF n.idle THEN Update(opened, SessionSpan(sid)) ELSE opened
      closed == IF n.turn = None THEN woken
                ELSE Finish(woken, n.turn, Output(n.output))
      id == TurnSpan(sid, n.turns + 1)
      next == [n EXCEPT !.idle = FALSE, !.turn = id, !.turns = @ + 1,
                        !.output = @ /\ n.turn = None, !.completed = {}]
  IN  Open(SetSession(closed, sid, next), id, SessionSpan(sid),
           IF n.owner # None THEN n.owner ELSE id, Prompt(sid, prompt))

\* part_updated: a text that ended is the turn's output so far.
TextUpdated(s, sid) ==
  IF Known(s, sid) THEN [s EXCEPT !.sessions[sid].output = TRUE] ELSE s

\* part_updated: attachments that follow the result of a call.
ToolUpdated(s, c) ==
  IF Known(s, CallOf[c]) /\ c \in s.sessions[CallOf[c]].closed
  THEN Merge(s, ToolSpan(c), FALSE, {"output"}) ELSE s

\* message_updated, of an assistant message that completed.
MessageUpdated(s, sid, m, failed) ==
  LET n == s.sessions[sid]
      t == [s EXCEPT !.sessions[sid].completed = @ \cup {m}]
  IN  IF ~Known(s, sid) \/ m \in s.sessions[sid].completed THEN s
      ELSE IF n.turn = None THEN t
      ELSE Record(t, LlmSpan(sid, m), n.turn, TurnOwner(n), LlmSpan(sid, m),
                  {"output"} \cup Error(failed))

ToolBefore(s, c) ==
  LET sid == CallOf[c]
      n == s.sessions[sid]
      t == [s EXCEPT !.sessions[sid].starts =
Put(@, c, n.turn)]
  IN  IF TurnOf(s, sid) = None \/ c \in DOMAIN n.starts THEN s
      ELSE Open(t, ToolSpan(c), n.turn, TurnOwner(n), ToolSpan(c))

Unstarted(n, c) == [n EXCEPT !.starts = Drop(@, c)]

ToolAfter(s, c, failed) ==
  LET sid == CallOf[c]
      n == s.sessions[sid]
      marks == {"output"} \cup Error(failed)
      t == SetSession(s, sid, Unstarted(n, c))
  IN  IF ~Known(s, sid) THEN s
      ELSE IF c \in n.denied
           THEN [t EXCEPT !.sessions[sid].denied = @ \ {c}]
      ELSE IF n.turn = None THEN s
      ELSE IF c \in DOMAIN n.starts
           THEN Finish([t EXCEPT !.sessions[sid].closed = @ \cup {c}],
                       ToolSpan(c), marks)
      ELSE Record(s, ToolSpan(c), n.turn, TurnOwner(n), ToolSpan(c), marks)

\* A denied call is recorded without output, and what follows is ignored.
PermissionReplied(s, c, deny) ==
  LET sid == CallOf[c]
      n == s.sessions[sid]
      t == [s EXCEPT !.requests = @ \ {c}]
      denied == [t EXCEPT !.sessions[sid].denied = @ \cup {c}]
  IN  IF ~deny \/ c \notin s.requests \/ TurnOf(s, sid) = None THEN t
      ELSE IF c \in DOMAIN n.starts THEN Finish(denied, ToolSpan(c), {})
      ELSE Record(denied, ToolSpan(c), n.turn, TurnOwner(n), ToolSpan(c), {})

\* close: open calls that were not denied end with an error, then the turn.
\* An idle session may be resumed; a child session, or one that failed or was
\* deleted, is forgotten.
Close(s, sid, closeRoot, error) ==
  LET n == s.sessions[sid]
      calls[open \in SUBSET DOMAIN n.starts] ==
        IF open = {} THEN s
        ELSE LET c == CHOOSE c \in open : TRUE
             IN  IF c \in n.denied THEN calls[open \ {c}]
                 ELSE Finish(calls[open \ {c}], ToolSpan(c), {"error"})
      tools == calls[DOMAIN n.starts]
      turn == IF n.turn = None THEN tools
              ELSE Finish(tools, n.turn, error \cup Output(n.output))
      gone == closeRoot \/ n.parent # NoSession
      idle == [n EXCEPT !.idle = TRUE, !.turn = None, !.output = @ /\ n.turn = None,
                        !.starts = Nothing,
                        !.denied = @ \ DOMAIN n.starts]
      rest == IF gone THEN [turn EXCEPT !.sessions = Drop(@, sid)]
              ELSE SetSession(turn, sid, idle)
  IN  IF Known(s, sid)
      THEN Finish(rest, SessionSpan(sid), IF gone THEN error ELSE {})
      ELSE s

Finalize(s) ==
  LET close[sids \in SUBSET DOMAIN s.sessions] ==
        IF sids = {} THEN s
        ELSE LET sid == CHOOSE sid \in sids : TRUE
             IN  Close(close[sids \ {sid}], sid, TRUE, {})
  IN  close[DOMAIN s.sessions]
-----------------------------------------------------------------------------
(* Events (handle).  What a native session emits belongs to its last prompt.  *)

Handle(Handler(_), again) == st' = Delivered(Handler, st, again)
Once(Handler(_)) == Handle(Handler, FALSE)
Repeated(Handler(_)) == \E again \in BOOLEAN : Handle(Handler, again)

Live(sid) ==
  /\ sid \notin st.over
  /\ ParentID[sid] # NoSession => ParentID[sid] \in st.busy
HomeOf(s, sid) == s.home[Prompt(sid, s.prompts[sid])]
Produced(s, thing) == [s EXCEPT !.done = @ \cup {thing}]

SessionCreated(sid) ==
  /\ Live(sid) /\ st.prompts[sid] = 0
  /\ LET parent == ParentID[sid]
         cause == IF parent = NoSession THEN None ELSE HomeOf(st, parent)
     IN  Repeated(LAMBDA s : OpenSession([s EXCEPT !.cause[sid] = cause], sid, parent))

ChatMessageEvent(sid) ==
  /\ Live(sid) /\ st.prompts[sid] < st.max.prompts[sid]
  /\ LET n == st.prompts[sid] + 1
         home == IF st.cause[sid] # None THEN st.cause[sid] ELSE Prompt(sid, n)
         Handler(s) == ChatMessage([s EXCEPT !.prompts[sid] = n, !.busy = @ \cup {sid},
                                             !.home = Put(@, Prompt(sid, n), home)],
                                   sid, n)
     IN  \E again \in Again : Handle(Handler, again)

TextEnds(sid) ==
  /\ sid \in st.busy
  /\ Repeated(LAMBDA s : TextUpdated(Produced(s, Prompt(sid, st.prompts[sid])), sid))

MessageCompletes(sid, failed) ==
  /\ sid \in st.busy /\ st.replies[sid] < st.max.replies[sid]
  /\ LET m == st.replies[sid] + 1
     IN  Repeated(LAMBDA s :
           MessageUpdated([Produced(s, LlmSpan(sid, m)) EXCEPT
                             !.replies[sid] = m,
                             !.home = Put(@, LlmSpan(sid, m), HomeOf(st, sid))],
                          sid, m, failed))

\* A call runs in one turn.  It may outlive the end of its turn, not the next
\* prompt.
Now(c) == st.prompts[CallOf[c]]
Began(s, c) ==
  [s EXCEPT !.began[c] = st.prompts[CallOf[c]],
            !.home = Put(@, ToolSpan(c), HomeOf(st, CallOf[c]))]

ToolExecuteBefore(c) ==
  /\ CallOf[c] \in st.busy /\ st.began[c] = 0
  /\ Repeated(LAMBDA s : ToolBefore(Began(s, c), c))

ToolExecuteAfter(c, failed) ==
  /\ ToolSpan(c) \notin st.done
  /\ IF CallOf[c] \in st.busy THEN st.began[c] \in {0, Now(c)}
                              ELSE st.began[c] # 0 /\ st.began[c] = Now(c)
  /\ Repeated(LAMBDA s : ToolAfter(Produced(Began(s, c), ToolSpan(c)), c, failed))

AttachmentsFollow(c) ==
  ToolSpan(c) \in st.done /\ Repeated(LAMBDA s : ToolUpdated(s, c))

PermissionAsked(c) ==
  /\ CallOf[c] \in st.busy /\ st.began[c] \in {0, Now(c)}
  /\ ToolSpan(c) \notin st.done
  /\ Repeated(LAMBDA s : [Began(s, c) EXCEPT !.requests = @ \cup {c}])
PermissionAnswered(c, deny) ==
  /\ c \in st.requests /\ CallOf[c] \in st.busy /\ st.began[c] = Now(c)
  /\ ToolSpan(c) \notin st.done
  /\ Repeated(LAMBDA s : PermissionReplied(s, c, deny))

Over(s, sid, over) ==
  [s EXCEPT !.busy = @ \ {sid}, !.over = IF over THEN @ \cup {sid} ELSE @]

SessionIdle(sid) ==
  /\ sid \in st.busy
  /\ Repeated(LAMBDA s :
       Over(Close(s, sid, FALSE, {}), sid, ParentID[sid] # NoSession /\ ~Resumed))
SessionFails(sid) ==
  /\ sid \in st.busy
  /\ Repeated(LAMBDA s : Over(Close(s, sid, TRUE, {"error"}), sid, ~Resumed))
SessionDeleted(sid) ==
  /\ sid \notin st.over /\ st.prompts[sid] > 0
  /\ Repeated(LAMBDA s : Over(Close(s, sid, TRUE, {}), sid, TRUE))

Retire == st.rows # NoRows /\ st' = Retired(st, Finalize(st))

Next ==
  \/ Retire
  \/ \E sid \in Native :
       \/ SessionCreated(sid) \/ ChatMessageEvent(sid) \/ TextEnds(sid)
       \/ SessionIdle(sid) \/ SessionFails(sid) \/ SessionDeleted(sid)
       \/ \E failed \in BOOLEAN : MessageCompletes(sid, failed)
  \/ \E c \in st.max.calls :
       \/ ToolExecuteBefore(c) \/ AttachmentsFollow(c) \/ PermissionAsked(c)
       \/ \E b \in BOOLEAN : ToolExecuteAfter(c, b) \/ PermissionAnswered(c, b)
=============================================================================
