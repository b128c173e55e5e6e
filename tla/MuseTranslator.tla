--------------------------- MODULE MuseTranslator ---------------------------
(* The translator of Muse (translate/muse.rs, muse_events.rs, muse_usage.rs). *)
(* Hooks tell of everything; they name their turn, request, call or child     *)
(* session, and what they do not name cannot be paired.                       *)
EXTENDS SpanTree, SequencesExt

CONSTANTS Scopes,  \* bounds of a behaviour: turns, requests (replies), tool
                   \* calls (calls), child sessions (agents), compactions, hooks
                   \* that are only observed (notes), and whether hooks name
                   \* what they are about, a set of BOOLEANs (named)
          Again    \* whether a hook may be delivered again

VARIABLE st

Session == <<"session">>
Prompt(t) == <<"prompt", t>>
Response(r) == <<"response", r>>
Call(c) == <<"call", c>>
Child(a) == <<"child", a>>
Observed(event, ts) == <<"observed", event, ts>>
TurnSpan(t) == <<"turn", t>>
LlmSpan(r) == <<"llm", r>>
ToolKey(c) == <<"tool", c>>
ChildKey(a) == <<"subagent", a>>
CompactKey(t, ts) == <<"compact", t, ts>>

\* MuseTranslator: turns and requests, open and closed (which RecentSet forgets
\* only after 1024), the keys of other operations, open and closed, and the
\* UsageTracker.  History: the time, by hooks that nothing else tells apart;
\* prompts and requests so far; the prompt at work, or 0, and the request under
\* way, or 0; what each turn used; calls, their ends and child sessions; the
\* requests whose usage arrived.
Init ==
  \E max \in Scopes :
    st = [max |-> max, opened |-> FALSE, created |-> FALSE, turns |-> {},
          closedTurns |-> {}, llms |-> {}, closedLlms |-> {}, events |-> {},
          closed |-> {}, turnUsage |-> Nothing, counted |-> {}, totals |-> 0,
          ts |-> 0, prompts |-> 0, replies |-> 0, now |-> 0, request |-> 0,
          used |-> Nothing, called |-> {}, running |-> {}, children |-> {},
          compacting |-> FALSE, compactions |-> 0, reported |-> {},
          home |-> Nothing, rows |-> NoRows, done |-> {}, left |-> {},
          retired |-> FALSE]
-----------------------------------------------------------------------------
EnsureRoot(s) ==
  LET t == [s EXCEPT !.opened = TRUE, !.created = TRUE]
  IN  IF s.opened \/ s.created THEN t ELSE Open(t, Root, None, None, Session)

\* Mutant: the turn that a hook names is taken to be open.
ParentNamed(s, t) == TurnSpan(t)

\* parent, event_row: what happens in no open turn is in none.
Parent(s, t) == IF t \in s.turns THEN TurnSpan(t) ELSE Root

Owner(s, t) == IF t \in s.turns THEN TurnSpan(t) ELSE None

Unpaired(s, event) ==
  Record(s, Observed(event, s.ts), Root, None, Observed(event, s.ts), {"error"})

OpenEvent(s, key, t, of) ==
  IF key \in s.closed \cup s.events THEN s
  ELSE Open([s EXCEPT !.events = @ \cup {key}], key, Parent(s, t), Owner(s, t), of)
FinishEvent(s, key, marks) ==
  IF key \notin s.events THEN s
  ELSE Finish([s EXCEPT !.events = @ \ {key}, !.closed = @ \cup {key}], key, marks)

\* close_all: with an error, what is open is said to have been interrupted.
CloseAll(s) ==
  LET open == s.events \cup {LlmSpan(r) : r \in s.llms}
                \cup {TurnSpan(t) : t \in s.turns}
  IN  FinishAll([s EXCEPT !.events = {}, !.closed = @ \cup s.events,
                          !.llms = {}, !.closedLlms = @ \cup s.llms,
                          !.turns = {}, !.closedTurns = @ \cup s.turns],
                open, {"error"})

\* Mutant: what the turn has used so far is added for every request.
RecordUsageSummed(s, t, r, usage) ==
  IF r \notin s.llms THEN s
  ELSE [s EXCEPT !.turnUsage = Put(@, t, usage), !.counted = @ \cup {r},
                 !.totals = IF r \in s.counted THEN @ ELSE @ + usage]

\* UsageTracker::record: `usage` is what the turn has used so far, of which
\* the request's own part was not counted yet.
RecordUsage(s, t, r, usage) ==
  LET before == IF t \in DOMAIN s.turnUsage THEN s.turnUsage[t] ELSE 0
      own == IF usage >= before THEN usage - before ELSE usage
  IN  IF r \notin s.llms THEN s
      ELSE [s EXCEPT !.turnUsage = Put(@, t, usage),
                     !.counted = @ \cup {r},
                     !.totals = IF r \in s.counted THEN @ ELSE @ + own]
-----------------------------------------------------------------------------
(* Handlers.                                                                  *)

UserPromptSubmit(s, t, named) ==
  LET opened == EnsureRoot(s)
  IN  IF ~named THEN Unpaired(opened, "UserPromptSubmit")
      ELSE IF t \in s.closedTurns THEN s
      ELSE IF t \in s.turns THEN opened
      ELSE Open([opened EXCEPT !.turns = @ \cup {t}], TurnSpan(t), Root, TurnSpan(t), Prompt(t))

PreLLMCall(s, t, r, named) ==
  LET opened == EnsureRoot(s)
  IN  IF ~named THEN Unpaired(opened, "PreLLMCall")
      ELSE IF r \in s.closedLlms THEN s
      ELSE IF r \in s.llms THEN opened
      ELSE Open([opened EXCEPT !.llms = @ \cup {r}], LlmSpan(r),
                Parent(s, t), Owner(s, t), Response(r))

PostLLMCall(s, t, r, named, usage, failed) ==
  LET u == RecordUsage(s, t, r, usage)
  IN  IF ~named THEN IF s.opened THEN Unpaired(s, "PostLLMCall") ELSE s
      ELSE IF r \notin s.llms THEN u
      ELSE Finish([u EXCEPT !.llms = @ \ {r}, !.closedLlms = @ \cup {r}], LlmSpan(r),
                  Output(~failed) \cup Error(failed))

PreToolUse(s, t, c, named) ==
  IF named THEN OpenEvent(EnsureRoot(s), ToolKey(c), t, Call(c))
  ELSE Unpaired(EnsureRoot(s), "PreToolUse")

\* finish_tool: a call that was not announced is inserted now.
FinishTool(s, t, c, marks) ==
  IF ToolKey(c) \in s.closed THEN s
  ELSE FinishEvent(OpenEvent(s, ToolKey(c), t, Call(c)), ToolKey(c), marks)
PostToolUse(s, t, c, named, failed) ==
  IF named THEN FinishTool(EnsureRoot(s), t, c, Output(~failed) \cup Error(failed))
  ELSE Unpaired(EnsureRoot(s), "PostToolUse")
PostToolBatch(s, t, calls) ==
  FoldSet(LAMBDA c, x : FinishTool(x, t, c, {"output"}), EnsureRoot(s), calls)

\* PermissionRequest, and Notification, which opens no trace.
Observe(s, t, event) ==
  LET key == Observed(event, s.ts)
      opened == IF event = "Notification" THEN s ELSE EnsureRoot(s)
  IN  IF ~opened.opened \/ key \in s.closed THEN opened
      ELSE Record([opened EXCEPT !.closed = @ \cup {key}], key,
                  Parent(s, t), Owner(s, t), key, {})

SubagentStart(s, t, a) == OpenEvent(EnsureRoot(s), ChildKey(a), t, Child(a))
SubagentStop(s, a, failed) ==
  IF s.opened THEN FinishEvent(s, ChildKey(a), Output(~failed) \cup Error(failed)) ELSE s

PreCompact(s, t) ==
  OpenEvent(EnsureRoot(s), CompactKey(t, s.ts), t, CompactKey(t, s.ts))

\* Only a compaction that is alone in its turn can be told from others.
PostCompact(s, t) ==
  LET matches == {key \in s.events : key[1] = "compact" /\ key[2] = t}
  IN  IF s.opened /\ Cardinality(matches) = 1
      THEN FinishEvent(s, CHOOSE key \in matches : TRUE, {}) ELSE s

FinishTurn(s, t, named, answered, failed) ==
  LET marks == Output(answered) \cup Error(failed)
      closed == [s EXCEPT !.turns = @ \ {t}, !.closedTurns = @ \cup {t}]
  IN  IF ~named THEN IF s.opened THEN Unpaired(s, "Stop") ELSE s
      ELSE IF t \notin s.turns THEN s
      ELSE Merge(Finish(closed, TurnSpan(t), marks), Root, FALSE, marks)

SessionEnd(s) ==
  LET t == CloseAll(s)
  IN  IF s.opened THEN Finish([t EXCEPT !.opened = FALSE], Root, {}) ELSE t
Finalize(s) ==
  LET t == CloseAll(s)
  IN  IF s.opened THEN Finish([t EXCEPT !.opened = FALSE], Root, {"error"}) ELSE t
-----------------------------------------------------------------------------
(* What the agent does.                                                       *)

Hook(Handler(_), s) == \E again \in Again : st' = Delivered(Handler, s, again)
Cause(s, op) ==
  [s EXCEPT !.home = IF st.now = 0 THEN @ ELSE Put(@, op, Prompt(st.now))]
Quietly(s) == st' = [s EXCEPT !.retired = FALSE]
Tick(s) == [s EXCEPT !.ts = @ + 1]

Submit ==
  LET t == st.prompts + 1
      s == [st EXCEPT !.prompts = t, !.now = t, !.home = Put(@, Prompt(t), Prompt(t))]
  IN  /\ st.now = 0 /\ t <= st.max.turns
      /\ \E named \in st.max.named : Hook(LAMBDA x : UserPromptSubmit(x, t, named), Tick(s))

Request ==
  LET r == st.replies + 1
      s == [st EXCEPT !.replies = r, !.request = r]
  IN  /\ st.now # 0 /\ st.request = 0 /\ r <= st.max.replies
      /\ \E named \in st.max.named :
           Hook(LAMBDA x : PreLLMCall(x, st.now, r, named), Tick(Cause(s, Response(r))))

\* The hook of an answer tells what its turn has used so far.
Answer(failed) ==
  LET r == st.request
      usage == (IF st.now \in DOMAIN st.used THEN st.used[st.now] ELSE 0) + r
      s == [st EXCEPT !.request = 0, !.used = Put(@, st.now, usage),
                      !.reported = @ \cup {r},
                      !.done = IF failed THEN @
                               ELSE @ \cup {Response(r), Prompt(st.now), Session}]
  IN  /\ r # 0
      /\ \E named \in st.max.named :
           Hook(LAMBDA x : PostLLMCall(x, st.now, r, named, usage, failed), Tick(s))

\* A call begins, or ends, and its hook tells, or only that of its batch.
StartCall(c) ==
  LET s == [st EXCEPT !.called = @ \cup {c}, !.running = @ \cup {c}]
  IN  /\ st.now # 0 /\ c \notin st.called
      /\ \/ \E named \in st.max.named :
              Hook(LAMBDA x : PreToolUse(x, st.now, c, named), Tick(Cause(s, Call(c))))
         \/ Quietly(Cause(s, Call(c)))
EndCall(c, failed) ==
  LET s == [st EXCEPT !.running = @ \ {c}, !.done = @ \cup (IF failed THEN {} ELSE {Call(c)})]
  IN  /\ c \in st.running
      /\ \/ \E named \in st.max.named :
              Hook(LAMBDA x : PostToolUse(x, st.now, c, named, failed), Tick(s))
         \/ ~failed /\ Quietly(s)
EndBatch ==
  LET calls == {c \in st.called : Call(c) \in st.done /\ st.home[Call(c)] = Prompt(st.now)}
  IN  /\ st.now # 0 /\ calls # {}
      /\ Hook(LAMBDA x : PostToolBatch(x, st.now, calls), st)

Note(event) ==
  /\ st.now # 0 /\ st.ts < st.max.notes
  /\ Hook(LAMBDA x : Observe(x, st.now, event), Tick(st))

StartChild(a) ==
  /\ st.now # 0 /\ Child(a) \notin DOMAIN st.home
  /\ Hook(LAMBDA x : SubagentStart(x, st.now, a),
          Cause([st EXCEPT !.children = @ \cup {a}], Child(a)))
EndChild(a, failed) ==
  LET s == [st EXCEPT !.children = @ \ {a}, !.done = @ \cup {Child(a)}]
  IN  a \in st.children /\ Hook(LAMBDA x : SubagentStop(x, a, failed), s)

\* A history is compacted within a turn, or for the user between two.
StartCompaction ==
  /\ ~st.compacting /\ st.compactions < st.max.compactions
  /\ Hook(LAMBDA x : PreCompact(x, st.now),
          Tick([st EXCEPT !.compacting = TRUE, !.compactions = @ + 1]))
EndCompaction ==
  /\ st.compacting
  /\ Hook(LAMBDA x : PostCompact(x, st.now), [st EXCEPT !.compacting = FALSE])

\* A turn stops, with its last answer, or fails; its child sessions may go on.
Stop(failed) ==
  LET answered == Prompt(st.now) \in st.done
  IN  /\ st.now # 0 /\ st.request = 0 /\ st.running = {} /\ ~st.compacting
      /\ \E named \in st.max.named :
           Hook(LAMBDA x : FinishTurn(x, st.now, named, answered, failed),
                Tick([st EXCEPT !.now = 0]))

\* The session ends, also in the middle of a turn; it may be resumed.
End ==
  /\ st.rows # NoRows
  /\ Hook(SessionEnd, [st EXCEPT !.now = 0, !.request = 0, !.running = {},
                                 !.children = {}, !.compacting = FALSE])

Retire == st.rows # NoRows /\ st' = Retired(st, Finalize(st))

Next ==
  \/ Submit \/ Request \/ EndBatch \/ StartCompaction \/ EndCompaction
  \/ End \/ Retire
  \/ \E event \in {"PermissionRequest", "Notification"} : Note(event)
  \/ \E failed \in BOOLEAN : Answer(failed) \/ Stop(failed)
  \/ \E c \in st.max.calls : StartCall(c) \/ \E failed \in BOOLEAN : EndCall(c, failed)
  \/ \E a \in st.max.agents :
       StartChild(a) \/ \E failed \in BOOLEAN : EndChild(a, failed)
-----------------------------------------------------------------------------
\* What the root says was used is what the requests used that were reported:
\* request r uses r tokens, and hooks, if they name their request, report the
\* sum over their turn.
UsageCountedOnce(s) ==
  s.max.named = {TRUE} => s.totals = FoldSet(LAMBDA r, n : n + r, 0, s.reported)
=============================================================================
