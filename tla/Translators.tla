---------------------------- MODULE Translators ----------------------------
(* The contract of the tracing plug-ins (SpanTree) for the translator of     *)
(* every agent (translate::Registry::default_agents).  A behaviour is one     *)
(* session of one agent; the modules of the agents say what it does.          *)
EXTENDS Naturals

CONSTANTS Agents, \* agents whose sessions are considered
          Bounds, \* for each agent, a set of bounds of a behaviour (its Scopes)
          Again,  \* for each agent, whether what clients send arrives again
          Beyond  \* what may happen besides the ordinary, and is outside of what
                  \* a translator copes with: a set of the names below

ASSUME BoundsAssumption == \A agent \in Agents : Bounds[agent] # {}
ASSUME AgainAssumption == \A agent \in Agents : Again[agent] \subseteq BOOLEAN

VARIABLES agent, st
vars == <<agent, st>>

Pi == INSTANCE PiTranslator
        WITH Scopes <- Bounds["pi"], Again <- Again["pi"],
             Inside <- [call \in {"a", "b"} |-> IF call = "b" THEN "a" ELSE "none"]
OpenCode == INSTANCE OpenCodeTranslator
              WITH Scopes <- Bounds["opencode"], Again <- Again["opencode"],
                   ParentID <- [id \in {"m", "k"} |-> IF id = "k" THEN "m" ELSE "none"],
                   CallOf <- [call \in {"a", "b"} |-> IF call = "b" THEN "k" ELSE "m"],
                   Resumed <- "opencode: prompted again" \in Beyond
Antigravity == INSTANCE AntigravityTranslator
                 WITH Scopes <- Bounds["antigravity"], Again <- Again["antigravity"],
                      CutOff <- "antigravity: cut off" \in Beyond,
                      Background <- "antigravity: background" \in Beyond,
                      Late <- "antigravity: late transcript" \in Beyond,
                      Killed <- "antigravity: killed" \in Beyond,
                      Paths <- IF "antigravity: two transcripts" \in Beyond
                               THEN {"compact", "full"} ELSE {"full"}
Cursor == INSTANCE CursorTranslator
            WITH Scopes <- Bounds["cursor"], Again <- Again["cursor"],
                 Lost <- {FALSE, "cursor: lost prompt" \in Beyond},
                 Strays <- "cursor: strays" \in Beyond,
                 Alike <- "cursor: alike" \in Beyond
Grok == INSTANCE GrokTranslator
          WITH Scopes <- Bounds["grok"], Again <- Again["grok"], MaxOpenTools <- 1,
               Unfinished <- "grok: unfinished transcript" \in Beyond,
               Rewound <- "grok: rewound" \in Beyond
Claude == INSTANCE ClaudeTranslator
            WITH Scopes <- Bounds["claude-code"], Again <- Again["claude-code"],
                 Resumed <- "claude-code: resumed" \in Beyond,
                 Midway <- "claude-code: retired midway" \in Beyond
Codex == INSTANCE CodexTranslator
           WITH Scopes <- Bounds["codex"], Again <- Again["codex"], Named <- {TRUE},
                Resumed <- "codex: resumed" \in Beyond,
                Midway <- "codex: retired midway" \in Beyond,
                Cutting <- "codex: compacted in a response" \in Beyond,
                Repeated <- "codex: compacted twice" \in Beyond
Muse == INSTANCE MuseTranslator WITH Scopes <- Bounds["muse"], Again <- Again["muse"]

Init ==
  /\ agent \in Agents
  /\ CASE agent = "pi" -> Pi!Init
       [] agent = "opencode" -> OpenCode!Init
       [] agent = "antigravity" -> Antigravity!Init
       [] agent = "cursor" -> Cursor!Init
       [] agent = "grok" -> Grok!Init
       [] agent = "claude-code" -> Claude!Init
       [] agent = "codex" -> Codex!Init
       [] agent = "muse" -> Muse!Init

Next ==
  /\ agent' = agent
  /\ \/ agent = "pi" /\ Pi!Next
     \/ agent = "opencode" /\ OpenCode!Next
     \/ agent = "antigravity" /\ Antigravity!Next
     \/ agent = "cursor" /\ Cursor!Next
     \/ agent = "grok" /\ Grok!Next
     \/ agent = "claude-code" /\ Claude!Next
     \/ agent = "codex" /\ Codex!Next
     \/ agent = "muse" /\ Muse!Next

Spec == Init /\ [][Next]_vars
-----------------------------------------------------------------------------
Tree == INSTANCE SpanTree

\* For every agent: spans and operations correspond one to one, although hooks
\* and transcripts both tell of an operation and may be delivered twice; a
\* span is written after its parent, and completion data reaches a span that
\* exists.
SpansAreOperations == Tree!SpansAreOperations(st) /\ Tree!SpansAreWhole(st)

\* For every agent: what finalize leaves open went on when its owner ended, or
\* is a turn of a Codex rollout of which no turn has ended.
ClosedWhenRetired ==
  Tree!ClosedWhenRetired(st, IF agent = "codex" THEN Codex!TurnsUnended(st) ELSE {})

\* For every agent: a span is accounted to a turn that is above it, that of the
\* prompt that caused it, unless it is of a subagent of Codex that started before
\* the hook of its call; and a model call that Muse reports in parts is counted
\* once.
UsageIsExact ==
  /\ Tree!OwnerIsAncestor(st)
  /\ Tree!AccountedToItsPrompt(st, IF agent = "codex" THEN Codex!SpansOfEarly(st) ELSE {})
  /\ agent = "muse" => Muse!UsageCountedOnce(st)

\* For every agent: output that is written was produced by the operation, and a
\* closed span stays closed, where it is, with its output.
HistoryIsReal == [][Tree!OutputIsReal(st, st') /\ Tree!KeepsHistory(st, st')]_vars
=============================================================================
