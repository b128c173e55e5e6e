--------------------------- MODULE MCTranslators ---------------------------
(* Small sessions of every agent, for TLC. *)
EXTENDS Translators

PiSession(turns, replies, calls, specials) ==
  [turns |-> turns, replies |-> replies, calls |-> calls, specials |-> specials]
OpenCodeSession(prompts, replies, calls) ==
  [prompts |-> prompts, replies |-> replies, calls |-> calls]
AntigravitySession(turns, replies, calls, compactions) ==
  [turns |-> turns, replies |-> replies, calls |-> calls,
   compactions |-> compactions, lag |-> 1]
CursorSession(prompts, answers, calls, agents, rest) ==
  [prompts |-> prompts, answers |-> answers, calls |-> calls, agents |-> agents,
   compactions |-> rest.compactions, rewrites |-> rest.rewrites,
   lag |-> rest.lag, same |-> rest.same, open |-> rest.open]
GrokSession(turns, replies, calls, events, lag, more) ==
  [turns |-> turns, replies |-> replies, calls |-> calls, events |-> events,
   lag |-> lag, more |-> more]
ClaudeSession(prompts, replies, calls, agents, rest) ==
  [prompts |-> prompts, replies |-> replies, calls |-> calls, agents |-> agents,
   compactions |-> rest.compactions, ids |-> rest.ids, same |-> rest.same]
CodexSession(turns, replies, calls, agents, compactions, lag) ==
  [turns |-> turns, replies |-> replies, calls |-> calls, agents |-> agents,
   compactions |-> compactions, lag |-> lag]
MuseSession(turns, replies, calls, agents, compactions, notes, named) ==
  [turns |-> turns, replies |-> replies, calls |-> calls, agents |-> agents,
   compactions |-> compactions, notes |-> notes, named |-> named]
Rest(compactions, rewrites, lag, same, open) ==
  [compactions |-> compactions, rewrites |-> rewrites, lag |-> lag, same |-> same,
   open |-> open]
Words(compactions, ids, same) == [compactions |-> compactions, ids |-> ids, same |-> same]

Sessions ==
  [a \in {"pi", "opencode", "antigravity", "cursor", "grok", "claude-code", "codex", "muse"} |->
     CASE a = "pi" ->
            {PiSession(2, 1, {"a"}, 0), PiSession(1, 1, {"a", "b"}, 0), PiSession(1, 2, {}, 1)}
       [] a = "opencode" ->
            {OpenCodeSession([m |-> 1, k |-> 1], [m |-> 0, k |-> 1], {"b"}),
             OpenCodeSession([m |-> 2], [m |-> 1], {"a"})}
       [] a = "antigravity" ->
            {AntigravitySession(2, 2, {}, 1), AntigravitySession(2, 1, {"c"}, 0)}
       [] a = "cursor" ->
            {CursorSession(2, 1, {}, {}, Rest(0, 1, 0, FALSE, 1)),
             CursorSession(2, 0, {"c"}, {}, Rest(0, 0, 1, FALSE, 1)),
             CursorSession(1, 0, {"c"}, {"a", "b"}, Rest(1, 0, 0, TRUE, 2)),
             CursorSession(1, 0, {"c", "d"}, {}, Rest(0, 0, 0, FALSE, 1)),
             CursorSession(1, 0, {"c"}, {"a", "b"}, Rest(0, 0, 0, FALSE, 1)),
             CursorSession(2, 2, {}, {}, Rest(0, 0, 0, TRUE, 1)),
             CursorSession(1, 1, {"c"}, {}, Rest(0, 0, 1, TRUE, 1))}
       [] a = "grok" ->
            {GrokSession(2, 2, {}, {}, 1, TRUE), GrokSession(2, 0, {"c"}, {"c"}, 1, FALSE),
             GrokSession(1, 1, {"c"}, {"c"}, 1, FALSE),
             GrokSession(1, 0, {"c", "d"}, {"c"}, 0, FALSE)}
       [] a = "claude-code" ->
            {ClaudeSession(1, 2, {"c"}, {}, Words(0, {}, TRUE)),
             ClaudeSession(2, 1, {"c"}, {}, Words(0, {}, TRUE)),
             ClaudeSession(2, 2, {}, {}, Words(1, {2}, FALSE)),
             ClaudeSession(1, 1, {"c"}, {"a"}, Words(0, {}, TRUE)),
             ClaudeSession(2, 0, {"c"}, {"a"}, Words(0, {}, TRUE))}
       [] a = "codex" ->
            {CodexSession(2, 1, {"a"}, {"a"}, 0, 0), CodexSession(2, 2, {}, {}, 0, 2),
             CodexSession(1, 2, {"c"}, {}, 0, 2), CodexSession(1, 2, {}, {}, 1, 1),
             CodexSession(2, 0, {}, {}, 1, 0)}
       [] a = "muse" ->
            {MuseSession(2, 2, {}, {}, 0, 0, {TRUE}), MuseSession(2, 0, {"c"}, {"a"}, 0, 2, {TRUE}),
             MuseSession(2, 1, {}, {}, 1, 0, {TRUE}),
             MuseSession(1, 1, {"c"}, {}, 0, 0, {TRUE, FALSE})}]

\* The hooks of Cursor, Grok and Muse may be delivered twice.
Repeats ==
  [a \in DOMAIN Sessions |->
     IF a \in {"cursor", "grok", "muse"} THEN {TRUE} ELSE {FALSE}]
=============================================================================
