------------------------- MODULE MCTranscriptMirror -------------------------
(* Small instances of TranscriptMirror for TLC. *)
EXTENDS TranscriptMirror

Session(agent, bytes, hooks, more, faults, weeks) ==
  [agent |-> agent, bytes |-> bytes, hooks |-> hooks, ends |-> more.ends,
   rewrites |-> more.rewrites, removals |-> more.removals, passes |-> more.passes,
   polls |-> more.polls, faults |-> faults, weeks |-> weeks]
More(ends, rewrites, removals, passes, polls) ==
  [ends |-> ends, rewrites |-> rewrites, removals |-> removals, passes |-> passes,
   polls |-> polls]

\* Files that only grow and one that is rewritten, with failed copies, crashes,
\* a removal, weeks without a write, an end of the session or a repeated poll.
Kept ==
  {Session("codex", 3, 2, More(FALSE, 0, 1, 0, 0), 1, 0),
   Session("codex", 2, 2, More(FALSE, 0, 0, 0, 0), 0, 2),
   Session("grok", 3, 2, More(TRUE, 0, 0, 1, 0), 1, 0),
   Session("claude", 2, 2, More(TRUE, 0, 1, 0, 0), 0, 1),
   Session("claude", 2, 1, More(FALSE, 0, 0, 0, 1), 1, 1),
   Session("cursor", 2, 2, More(FALSE, 1, 0, 0, 0), 1, 0),
   Session("cursor", 2, 2, More(FALSE, 1, 0, 0, 0), 0, 2)}

\* A file with a single mirror is rewritten.
Rewritten == {Session("claude", 2, 2, More(FALSE, 1, 0, 0, 0), 0, 0)}

\* A hook resumes a session that was quiet for a week.
Resumed == {Session("claude", 2, 2, More(FALSE, 0, 0, 0, 0), 0, 1)}
=============================================================================
