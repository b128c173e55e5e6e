--------------------------- MODULE SourceJournal ---------------------------
(***************************************************************************)
(* The append-only file of one source session (journal.rs) below the       *)
(* record level of Ingress: a record is one line, written by several       *)
(* writes, and a reader decodes the file line by line from its start.      *)
(*                                                                         *)
(* A crash or a failed write may leave part of a line behind.  The file is *)
(* a sequence of parts; part Parts of a record is its newline.             *)
(***************************************************************************)
EXTENDS Integers, Sequences

CONSTANTS
  MaxRecords,  \* bound: records written, complete or not
  Parts,       \* writes that make up one line, at least 1
  MaxFaults    \* bound: crashes and failed writes

VARIABLES
  file,      \* parts on disk
  writer,    \* a JournalWriter is open
  position,  \* JournalWriter.position
  record,    \* the record being written, or the last one
  written,   \* parts of it written so far, 0 between two appends
  acked,     \* records whose append returned Ok: <<record, through>>
  faults

vars == <<file, writer, position, record, written, acked, faults>>

Part(r, k) == [record |-> r, part |-> k]
Line(r) == [k \in 1..Parts |-> Part(r, k)]
Fault == faults < MaxFaults /\ faults' = faults + 1

Init ==
  /\ file = <<>>
  /\ writer = FALSE
  /\ position = 0
  /\ record = 0
  /\ written = 0
  /\ acked = {}
  /\ faults = 0

\* open_path: the position is the length of the file as it is found.
OpenPath ==
  /\ ~writer
  /\ writer' = TRUE
  /\ position' = Len(file)
  /\ UNCHANGED <<file, record, written, acked, faults>>

Begin ==
  /\ writer
  /\ written = 0
  /\ record < MaxRecords
  /\ record' = record + 1
  /\ written' = 1
  /\ file' = Append(file, Part(record + 1, 1))
  /\ UNCHANGED <<writer, position, acked, faults>>

Write ==
  /\ written \in 1..(Parts - 1)
  /\ written' = written + 1
  /\ file' = Append(file, Part(record, written + 1))
  /\ UNCHANGED <<writer, position, record, acked, faults>>

\* sync_data returned: the append is confirmed.
Confirm ==
  /\ written = Parts
  /\ position' = position + Parts
  /\ acked' = acked \cup {[record |-> record, through |-> position + Parts]}
  /\ written' = 0
  /\ UNCHANGED <<file, writer, record, faults>>

\* A write fails (the disk is full): the append returns its error.
WriteFails ==
  /\ Fault
  /\ written > 0
  /\ written' = 0
  /\ UNCHANGED <<file, writer, position, record, acked>>

Crash ==
  /\ Fault
  /\ writer
  /\ writer' = FALSE
  /\ position' = 0
  /\ written' = 0
  /\ UNCHANGED <<file, record, acked>>

Next == OpenPath \/ Begin \/ Write \/ Confirm \/ WriteFails \/ Crash

Spec == Init /\ [][Next]_vars
-----------------------------------------------------------------------------
\* Line ends at or before `through`, with the start of the file.
Ends(through) ==
  {0} \cup {n \in 1..Len(file) : n <= through /\ file[n].part = Parts}

\* decode_record accepts a line that holds one whole record.
Decodes(from, to) ==
  to - from = Parts /\ SubSeq(file, from + 1, to) = Line(file[to].record)

\* A reader bounded by `through` reaches that boundary: every line before it
\* decodes, and the bound is the end of a line.
Reads(through) ==
  /\ through \in Ends(through)
  /\ \A to \in Ends(through) \ {0} : \E from \in Ends(through) :
       /\ from < to
       /\ \A n \in Ends(through) : n <= from \/ n >= to
       /\ Decodes(from, to)

\* "Append one redacted event and confirm its durable write before capture
\* acknowledges it": a reader gets every acknowledged record.
AcknowledgedIsReadable ==
  \A a \in acked :
    Reads(a.through) /\ a.through > 0 /\ file[a.through].record = a.record
=============================================================================
