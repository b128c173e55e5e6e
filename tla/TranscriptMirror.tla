-------------------------- MODULE TranscriptMirror --------------------------
(***************************************************************************)
(* The daemon's copies of an agent's transcript (transcript_mirror.rs),    *)
(* the references to them that captured events carry (dispatch.rs,         *)
(* server/claude_transcripts.rs), their reading by the translators, and    *)
(* the age-based deletion of copies (server/maintenance.rs).               *)
(*                                                                         *)
(* One session with one transcript.  The agent writes its file while hooks *)
(* are captured; a capture copies what is new and its event is journaled   *)
(* with a reference: which copy, and through which byte.  Contents are     *)
(* sequences of bytes, and a record is RecordSize of them, so a capture    *)
(* may end within a record.  Cursor keeps one copy for every generation of *)
(* a file it rewrites, the other agents a single one.                      *)
(***************************************************************************)
EXTENDS Integers, FiniteSets, SequencesExt

CONSTANTS
  Bytes,       \* what the agent writes
  Plans,       \* the agent and bounds: length of its file, hooks, whether one
               \* of them ends the session, rewrites and removals of the file,
               \* repeated captures, repeated polls, faults and weeks
  Overlapping  \* whether retention may run while captures do

ASSUME MirrorAssumption ==
  /\ Overlapping \in BOOLEAN
  /\ Plans \subseteq [agent : {"claude", "codex", "grok", "cursor"},
                      bytes : Nat, hooks : Nat, ends : BOOLEAN,
                      rewrites : Nat, removals : Nat, passes : Nat,
                      polls : Nat, faults : Nat, weeks : Nat]

None == -1
Base == 0         \* mirror_path; later generations are numbered
RecordSize == 2

VARIABLES
  \* the agent
  text,        \* its transcript
  exists,
  sent,        \* hooks on their way: the length they found, and if they end
  \* durable state of the daemon
  mirrors,     \* mirror files by generation
  current,     \* the pointer file of Cursor, None when missing or empty
  journal,     \* captured events
  done,        \* events translated and delivered
  reader,      \* the translator's TranscriptCursor, part of its checkpoint
  records,     \* records it has read with that cursor
  young,       \* files written within RETENTION
  \* the running daemon
  cap,         \* the capture under way, under the lock of its session
  dispatched,  \* events the ingress worker has dispatched
  observer,    \* the ClaudeTranscriptObservation
  resident,    \* the session is in memory
  watched,     \* history: observed since its last event, and not retired
  gc,          \* the retention pass
  plan         \* one of Plans, counted down

agents  == <<text, exists, sent>>
files   == <<mirrors, current>>
reading == <<done, reader, records>>
session == <<dispatched, observer, resident, watched>>
vars == <<agents, files, journal, reading, young, cap, session, gc, plan>>

Smaller(a, b) == IF a < b THEN a ELSE b
Length(g) == IF g \in DOMAIN mirrors THEN Len(mirrors[g]) ELSE 0
Put(g, s) == [h \in DOMAIN mirrors \cup {g} |-> IF h = g THEN s ELSE mirrors[h]]
WholeRecords(s) ==
  [i \in 1..(Len(s) \div RecordSize) |->
    SubSeq(s, (i - 1) * RecordSize + 1, i * RecordSize)]

Young(g) == [young EXCEPT !.mirrors = @ \cup {g}]
Unobserved == [on |-> FALSE, through |-> None]
NoReader == [file |-> None, offset |-> 0]
NoPass == [at |-> "idle", protected |-> {}]

\* `saw` is the length the hook found.  A pass copies `handle`, the file it
\* opened, which follows the agent's writes while it is the agent's file
\* (`live`).  `file` to `text` are the result of the last pass that had one:
\* the reference, the boundary it had to reach and what it stands for.
Idle ==
  [at |-> "idle", poll |-> FALSE, ends |-> FALSE, saw |-> None, passes |-> 0,
   mirrored |-> 0, target |-> Base, restart |-> FALSE, from |-> 0, limit |-> None,
   copied |-> 0, handle |-> <<>>, live |-> FALSE, least |-> 0,
   file |-> None, through |-> None, due |-> 0, text |-> <<>>]

Init ==
  /\ text = <<>>
  /\ exists = TRUE
  /\ sent = <<>>
  /\ mirrors = <<>>
  /\ current = None
  /\ journal = <<>>
  /\ done = 0
  /\ reader = NoReader
  /\ records = <<>>
  /\ young = [mirrors |-> {}, pointer |-> FALSE, journal |-> FALSE]
  /\ cap = Idle
  /\ dispatched = 0
  /\ observer = Unobserved
  /\ resident = FALSE
  /\ watched = FALSE
  /\ gc = NoPass
  /\ plan \in Plans
-----------------------------------------------------------------------------
(* The agent *)

Write(b) ==
  /\ exists
  /\ Len(text) < plan.bytes
  /\ text' = Append(text, b)
  /\ cap' = IF cap.live THEN [cap EXCEPT !.handle = text'] ELSE cap
  /\ UNCHANGED <<exists, sent, files, journal, reading, young, session, gc, plan>>

\* Another file takes the path; an open handle keeps the old one.
Rewrite(t) ==
  /\ exists
  /\ plan.rewrites > 0
  /\ t # text
  /\ text' = t
  /\ cap' = [cap EXCEPT !.live = FALSE]
  /\ plan' = [plan EXCEPT !.rewrites = @ - 1]
  /\ UNCHANGED <<exists, sent, files, journal, reading, young, session, gc>>

Unlink ==
  /\ exists
  /\ plan.removals > 0
  /\ exists' = FALSE
  /\ cap' = [cap EXCEPT !.live = FALSE]
  /\ plan' = [plan EXCEPT !.removals = @ - 1]
  /\ UNCHANGED <<text, sent, files, journal, reading, young, session, gc>>

\* add_transcript_observation: the length is what Cursor's event is bounded by.
SendHook(ends) ==
  /\ plan.hooks > 0
  /\ ends => plan.ends
  /\ sent' = Append(sent,
       [saw |-> IF plan.agent = "cursor" /\ exists THEN Len(text) ELSE None, ends |-> ends])
  /\ plan' = [plan EXCEPT !.hooks = @ - 1, !.ends = @ /\ ~ends]
  /\ UNCHANGED <<text, exists, files, journal, reading, young, cap, session, gc>>
-----------------------------------------------------------------------------
(* Capture *)

MayStart == cap.at = "idle" /\ (Overlapping \/ gc.at = "idle")

\* capture_event has the session lock.  The last event of Grok is captured
\* several times, until its files are quiet.
TakeHook(i) ==
  /\ MayStart
  /\ cap' = [Idle EXCEPT !.at = "locked", !.saw = sent[i].saw, !.ends = sent[i].ends,
       !.passes = IF plan.agent = "grok" /\ sent[i].ends THEN plan.passes ELSE 0]
  /\ sent' = RemoveAt(sent, i)
  /\ UNCHANGED <<text, exists, files, journal, reading, young, session, gc, plan>>

\* observe_claude_transcripts finds other bytes than it remembers.  A poll
\* that repeats one in the queue counts against plan.polls.
Repeats == journal # <<>> /\ Last(journal).through = Len(text)
Poll ==
  /\ MayStart
  /\ plan.agent = "claude"
  /\ observer.on
  /\ exists
  /\ Len(text) # observer.through
  /\ Repeats => plan.polls > 0
  /\ cap' = [Idle EXCEPT !.at = "locked", !.poll = TRUE]
  /\ plan' = [plan EXCEPT !.polls = @ - (IF Repeats THEN 1 ELSE 0)]
  /\ UNCHANGED <<agents, files, journal, reading, young, session, gc>>

\* A pass ends with its result, or fails and leaves that of the pass before.
Failed ==
  [Idle EXCEPT !.at = "captured", !.poll = cap.poll, !.ends = cap.ends, !.saw = cap.saw,
     !.passes = cap.passes, !.file = cap.file, !.through = cap.through, !.due = cap.due,
     !.text = cap.text]
Captured(pass, file, through) ==
  [Failed EXCEPT !.file = file, !.through = through, !.due = pass.least,
     !.text = SubSeq(pass.handle, 1, Smaller(through, Len(pass.handle)))]

\* capture: the length of the mirror, then the source and its length.
Measure ==
  /\ cap.at = "locked"
  /\ plan.agent # "cursor"
  /\ cap' = [cap EXCEPT !.at = "measured", !.mirrored = Length(Base)]
  /\ UNCHANGED <<agents, files, journal, reading, young, session, gc, plan>>

Open ==
  /\ cap.at = "measured"
  /\ exists
  /\ LET restart == Len(text) < cap.mirrored
         from == IF restart THEN 0 ELSE cap.mirrored
         opened == [cap EXCEPT !.handle = text, !.live = TRUE, !.least = Len(text)]
     IN cap' = IF from >= Len(text) THEN Captured(opened, Base, cap.mirrored)
               ELSE [opened EXCEPT !.at = "opened", !.restart = restart, !.from = from]
  /\ UNCHANGED <<agents, files, journal, reading, young, session, gc, plan>>

\* capture_generation: the prefix of the current generation is compared with
\* the source, and a difference begins another generation.
NextGeneration ==
  LET named == DOMAIN mirrors \cup {current} \cup {journal[i].file : i \in 1..Len(journal)} \cup {reader.file}
  IN CHOOSE g \in 1..(Cardinality(named) + 1) : g \notin named
ChangedLength(path, through) == Len(text) < Length(path)   \* mutant
Changed(path, through) ==
  \/ Len(text) < Length(path)
  \/ LET same == Smaller(Length(path), through)
     IN SubSeq(text, 1, same) # SubSeq(mirrors[path], 1, same)
OpenGeneration ==
  /\ cap.at = "locked"
  /\ plan.agent = "cursor"
  /\ exists
  /\ LET path == IF current = None THEN Base ELSE current
         through == IF cap.saw = None THEN Len(text) ELSE Smaller(cap.saw, Len(text))
         changed == Length(path) > 0 /\ Changed(path, through)
     IN cap' = [cap EXCEPT !.at = "opened", !.handle = text, !.live = TRUE,
          !.least = through, !.limit = through,
          !.target = IF changed THEN NextGeneration ELSE path,
          !.from = IF changed THEN 0 ELSE Smaller(Length(path), through)]
  /\ UNCHANGED <<agents, files, journal, reading, young, session, gc, plan>>

\* The source cannot be opened: the event goes without a reference.
OpenFails ==
  /\ cap.at = "measured" \/ (cap.at = "locked" /\ plan.agent = "cursor")
  /\ ~exists
  /\ cap' = Failed
  /\ UNCHANGED <<agents, files, journal, reading, young, session, gc, plan>>

OpenMirror ==
  /\ cap.at = "opened"
  /\ LET new == cap.restart \/ cap.target \notin DOMAIN mirrors
     IN /\ mirrors' = IF new THEN Put(cap.target, <<>>) ELSE mirrors
        /\ young' = IF new THEN Young(cap.target) ELSE young
  /\ cap' = [cap EXCEPT !.at = "copying"]
  /\ UNCHANGED <<agents, current, journal, reading, session, gc, plan>>

Position == cap.from + cap.copied
EndOfFile == Len(cap.handle)   \* mutant
End == IF cap.limit = None THEN Len(cap.handle) ELSE cap.limit

\* A file that retention removed meanwhile still takes the bytes.
Copy(n) ==
  /\ cap.at = "copying"
  /\ Position + n <= End
  /\ LET bytes == SubSeq(cap.handle, Position + 1, Position + n)
     IN IF cap.target \in DOMAIN mirrors
        THEN /\ mirrors' = Put(cap.target, mirrors[cap.target] \o bytes)
             /\ young' = Young(cap.target)
        ELSE UNCHANGED <<mirrors, young>>
  /\ cap' = [cap EXCEPT !.copied = @ + n]
  /\ UNCHANGED <<agents, current, journal, reading, session, gc, plan>>

CopyFails ==
  /\ cap.at = "copying"
  /\ plan.faults > 0
  /\ cap' = Failed
  /\ plan' = [plan EXCEPT !.faults = @ - 1]
  /\ UNCHANGED <<agents, files, journal, reading, young, session, gc>>

EndCopy ==
  /\ cap.at = "copying"
  /\ Position >= End
  /\ cap' = IF plan.agent = "cursor" THEN [cap EXCEPT !.at = "copied"]
            ELSE Captured(cap, cap.target, Position)
  /\ UNCHANGED <<agents, files, journal, reading, young, session, gc, plan>>

\* The pointer is written in place: emptied, then filled.
EmptyPointer ==
  /\ cap.at = "copied"
  /\ current' = None
  /\ young' = [young EXCEPT !.pointer = TRUE]
  /\ cap' = [cap EXCEPT !.at = "pointing"]
  /\ UNCHANGED <<agents, mirrors, journal, reading, session, gc, plan>>

SetPointer ==
  /\ cap.at = "pointing"
  /\ current' = cap.target
  /\ cap' = Captured(cap, cap.target, Position)
  /\ UNCHANGED <<agents, mirrors, journal, reading, young, session, gc, plan>>

\* GROK_TERMINAL_SNAPSHOT_ATTEMPTS
Repeat ==
  /\ cap.at = "captured"
  /\ cap.passes > 0
  /\ cap' = [cap EXCEPT !.at = "locked", !.passes = @ - 1]
  /\ UNCHANGED <<agents, files, journal, reading, young, session, gc, plan>>

\* journal_and_enqueue; a poll that found nothing new is not journaled.
Journal ==
  /\ cap.at = "captured"
  /\ cap.passes = 0
  /\ IF cap.poll /\ cap.through \in {None, observer.through}
     THEN UNCHANGED <<journal, young, resident>>
     ELSE /\ journal' = Append(journal,
               [file |-> cap.file, through |-> cap.through, ends |-> cap.ends, due |-> cap.due,
                text |-> cap.text])
          /\ young' = [young EXCEPT !.journal = TRUE]
          /\ resident' = TRUE
  /\ cap' = Idle
  /\ UNCHANGED <<agents, files, reading, dispatched, observer, watched, gc, plan>>
-----------------------------------------------------------------------------
(* The ingress worker and the translator *)

\* remember_claude_transcripts
Remembered(o, e) ==
  IF e.ends THEN Unobserved
  ELSE [on |-> TRUE, through |-> IF e.file = None THEN o.through ELSE e.through]

Dispatch ==
  /\ dispatched < Len(journal)
  /\ dispatched' = dispatched + 1
  /\ observer' = IF plan.agent = "claude" THEN Remembered(observer, journal[dispatched + 1])
                 ELSE observer
  /\ watched' = observer'.on
  /\ UNCHANGED <<agents, files, journal, reading, young, resident, cap, gc, plan>>

\* Whether the agent's translator goes on where it was when it reads the copy
\* an event refers to, or begins that copy again: the cursors of Cursor and
\* Grok name their file, and Grok's keeps what it read last to compare.
WithinFile(e) == reader.offset <= Length(e.file)
SameGeneration(e) == reader.file = e.file
SameTail(e) ==
  /\ reader.file = e.file
  /\ reader.offset <= e.through
  /\ WholeRecords(SubSeq(mirrors[e.file], 1, reader.offset)) = records
Resumes(e) ==
  CASE plan.agent = "cursor" -> SameGeneration(e)
    [] plan.agent = "grok" -> SameTail(e)
    [] OTHER -> WithinFile(e)
From(e) == IF Resumes(e) THEN reader.offset ELSE 0

\* Records that end between the two offsets; the first may have begun before.
RecordsIn(g, from, to) ==
  SubSeq(WholeRecords(SubSeq(mirrors[g], 1, to)), from \div RecordSize + 1, to \div RecordSize)

\* Every byte of the copy before `through`, none of those behind it.  Grok's
\* translator fails, again and again, on a copy shorter than its reference.
Read(e) ==
  LET through == Smaller(e.through, Length(e.file))
      from == From(e)
      to == IF from < through THEN through ELSE from
  IN /\ plan.agent = "grok" => e.through <= Length(e.file)
     /\ reader' = [file |-> e.file, offset |-> to]
     /\ records' = (IF Resumes(e) THEN records ELSE <<>>)
                     \o (IF from < to THEN RecordsIn(e.file, from, to) ELSE <<>>)

Translate ==
  /\ done < dispatched
  /\ done' = done + 1
  /\ LET e == journal[done + 1]
     IN IF e.file \in DOMAIN mirrors THEN Read(e)
        ELSE /\ plan.agent = "grok" => e.file = None \/ e.through = 0
             /\ UNCHANGED <<reader, records>>
  /\ UNCHANGED <<agents, files, journal, young, session, cap, gc, plan>>

\* retire_session, once the session is idle.  It polls first, and what is
\* written after that is nobody's until the next hook.
Retire ==
  /\ resident
  /\ cap.at = "idle"
  /\ done = Len(journal)
  /\ resident' = FALSE
  /\ observer' = Unobserved
  /\ watched' = FALSE
  /\ UNCHANGED <<agents, files, journal, reading, young, cap, dispatched, gc, plan>>

DiscoveredPending ==   \* mutant
  IF plan.agent = "claude" /\ done < Len(journal)
  THEN FoldLeft(Remembered, Unobserved, journal) ELSE Unobserved

\* Discovery remembers the transcript of every retained event.  It forgets
\* that of a session with nothing to recover, unless the file has other bytes.
Discovered ==
  LET o == FoldLeft(Remembered, Unobserved, journal)
      changed == exists /\ Len(text) # o.through
  IN IF plan.agent = "claude" /\ (done < Len(journal) \/ changed) THEN o ELSE Unobserved

\* Whole records of the agent's file that were not read.
Untranslated == exists /\ WholeRecords(text) # records

\* The daemon dies and is started again; a hook that was being captured asks
\* the next daemon.  The translator resumes from its checkpoint.
Restart ==
  /\ plan.faults > 0
  /\ plan' = [plan EXCEPT !.faults = @ - 1]
  /\ cap' = Idle
  /\ sent' = IF cap.at = "idle" \/ cap.poll THEN sent
             ELSE Append(sent, [saw |-> cap.saw, ends |-> cap.ends])
  /\ dispatched' = done
  /\ observer' = Discovered
  /\ resident' = (done < Len(journal))
  /\ watched' = (watched /\ Untranslated)
  /\ gc' = NoPass
  /\ UNCHANGED <<text, exists, files, journal, reading, young>>
-----------------------------------------------------------------------------
(* Retention *)

\* Longer than RETENTION nothing is written.
Week ==
  /\ plan.weeks > 0
  /\ cap.at = "idle" /\ gc.at = "idle"
  /\ young' = [mirrors |-> {}, pointer |-> FALSE, journal |-> FALSE]
  /\ plan' = [plan EXCEPT !.weeks = @ - 1]
  /\ UNCHANGED <<agents, files, journal, reading, cap, session, gc>>

\* What a pass that knows these references removes from the directory; the
\* pointer is never protected.
References == {journal[i].file : i \in 1..Len(journal)}
Removable(protected) == DOMAIN mirrors \ (young.mirrors \cup protected)
OldPointer == current # None /\ ~young.pointer

\* collect_partitions: journal and storage of a session that is complete, old
\* and not in memory, under its capture lock.  A pass with nothing to remove
\* is left out.
Collectible == journal # <<>> /\ ~young.journal /\ ~resident /\ done = Len(journal)
CollectPartition ==
  /\ gc.at = "idle"
  /\ Collectible \/ Removable(References) # {} \/ OldPointer
  /\ cap.at = "idle" \/ (Overlapping /\ ~Collectible)
  /\ gc' = [gc EXCEPT !.at = "collected"]
  /\ IF Collectible
     THEN /\ journal' = <<>>
          /\ done' = 0
          /\ dispatched' = 0
          /\ reader' = NoReader
          /\ records' = <<>>
     ELSE UNCHANGED <<journal, reading, dispatched>>
  /\ UNCHANGED <<agents, files, young, cap, observer, resident, watched, plan>>

\* retained_references
Protect ==
  /\ gc.at = "collected"
  /\ gc' = [at |-> "sweeping", protected |-> References]
  /\ UNCHANGED <<agents, files, journal, reading, young, cap, session, plan>>

\* gc_old_mirrors
RemoveMirror(g) ==
  /\ gc.at = "sweeping"
  /\ g \in Removable(gc.protected)
  /\ mirrors' = [h \in DOMAIN mirrors \ {g} |-> mirrors[h]]
  /\ UNCHANGED <<agents, current, journal, reading, young, cap, session, gc, plan>>

RemovePointer ==
  /\ gc.at = "sweeping"
  /\ OldPointer
  /\ current' = None
  /\ UNCHANGED <<agents, mirrors, journal, reading, young, cap, session, gc, plan>>

EndPass ==
  /\ gc.at = "sweeping"
  /\ Removable(gc.protected) = {} /\ ~OldPointer
  /\ gc' = NoPass
  /\ UNCHANGED <<agents, files, journal, reading, young, cap, session, plan>>
-----------------------------------------------------------------------------
Sweep ==
  \/ Protect
  \/ \E g \in DOMAIN mirrors : RemoveMirror(g)
  \/ RemovePointer \/ EndPass
Pass ==
  \/ Measure \/ Open \/ OpenGeneration \/ OpenFails \/ OpenMirror
  \/ \E n \in 1..(End - Position) : Copy(n)
  \/ EndCopy \/ EmptyPointer \/ SetPointer \/ Repeat \/ Journal
Next ==
  \/ \E b \in Bytes : Write(b)
  \/ \E t \in SeqOf(Bytes, plan.bytes) : Rewrite(t)
  \/ Unlink
  \/ \E ends \in BOOLEAN : SendHook(ends)
  \/ \E i \in 1..Len(sent) : TakeHook(i)
  \/ Poll \/ Pass \/ CopyFails
  \/ Dispatch \/ Translate \/ Retire \/ Restart
  \/ Week \/ CollectPartition \/ Sweep

Spec == Init /\ [][Next]_vars

\* The tasks of the daemon run: the timer of the poll, a capture under way,
\* the worker, the translator and the retention pass.
FairSpec ==
  /\ Spec
  /\ WF_vars(Poll) /\ WF_vars(Pass) /\ WF_vars(Dispatch) /\ WF_vars(Translate)
  /\ WF_vars(Sweep)
-----------------------------------------------------------------------------
\* The view of an event has the boundary it is captured for: all that was in
\* the file when the capture opened it and, for Cursor, nothing that was written
\* after its hook looked.
Reaches(e) == IF plan.agent = "cursor" THEN e.through = e.due ELSE e.through >= e.due

\* A journaled event stays replayable: as long as the journal has it, its
\* copy exists and begins with what the agent's file held when the event was
\* captured, to that boundary, whatever the agent did to the file, another
\* capture that was cut or overtook this one to the copy, or retention to the
\* directory.
ReplayReadsWhatWasSeen ==
  \A i \in 1..Len(journal) :
    LET e == journal[i]
    IN e.file # None =>
         /\ Reaches(e)
         /\ e.through <= Length(e.file)
         /\ e.through > 0 => SubSeq(mirrors[e.file], 1, e.through) = e.text

\* The translator has read the records of the copy it is in, each once and in
\* order, at least those of its last event, with captures that end within a
\* record, other generations, restarts and expired journals in between.
RecordsReadOnce ==
  /\ reader.file # None =>
       \E i \in 1..done : journal[i].file = reader.file /\ records = WholeRecords(journal[i].text)
  /\ \A i \in 1..done :
       (journal[i].file # None /\ \A k \in (i + 1)..done : journal[k].file = None) =>
         IsPrefix(WholeRecords(journal[i].text), records)

\* "records written after the session's last hook are still translated", until
\* the session ends or is retired, and those that were there when the daemon
\* was killed by the next daemon.
TailIsTranslated == (watched /\ Untranslated) ~> ~(watched /\ Untranslated)
=============================================================================
