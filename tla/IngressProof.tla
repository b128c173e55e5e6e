---------------------------- MODULE IngressProof ----------------------------
(***************************************************************************)
(* Machine-checked proofs about Ingress: in every instance, with any number *)
(* of captures, sources, crashes and shutdowns, events are dispatched in    *)
(* the order of their journals, recovery covers exactly the history, and    *)
(* flushes and shutdowns leave nothing acknowledged behind.                 *)
(***************************************************************************)
EXTENDS Ingress, SequenceTheorems, TLAPS

-----------------------------------------------------------------------------
(* The inductive invariant.                                                 *)

EntrySet == [source : Sources, position : Nat]
RangeSet == [from : Nat, through : Nat]
Messages == {"wake", "flush", "settle", "stop"}
Tasks == {"recovery", "recv", "drain", "replay", "stopped"}
CapSet == {Idle}
          \cup [at : {"entered", "locked", "marked"}, source : Sources]
          \cup [at : {"appended", "pushed"}, source : Sources, position : Nat]
Drains == {"none", "quiesced", "closed", "settling", "settled", "resettling",
           "resettled", "retired", "stopping", "drained"}

TypeOK ==
  /\ journal \in [Sources -> Seq({"event", "control"})]
  /\ committed \in [Sources -> Nat]
  /\ alive \in BOOLEAN
  /\ quiescing \in BOOLEAN
  /\ gate \in {"open", "waiting", "held"}
  /\ cap \in [Captures -> CapSet]
  /\ buffer \in Seq(EntrySet)
  /\ evicted \in [Sources -> RangeSet]
  /\ mailbox \in Seq(Messages)
  /\ task \in Tasks
  /\ msg \in Messages \cup {"startup"}
  /\ readers \in [Sources -> RangeSet]
  /\ cutoffs \in [Sources -> Nat \cup {Unset}]
  /\ snapshot \in [Sources -> Nat \cup {Unset}]
  /\ bound \in [Sources -> Nat]
  /\ todo \in SUBSET Sources
  /\ finding \in BOOLEAN
  /\ advanced \in [Sources -> Nat]
  /\ drain \in Drains
  /\ flush \in {"idle", "waiting", "done", "aborted"}
  /\ base \in [Sources -> Nat]
  /\ order \in [Sources -> Seq(Nat)]
  /\ acked \in SUBSET EntrySet
  /\ asked \in SUBSET acked

\* A daemon that is not running has no memory.
Fresh ==
  /\ quiescing = FALSE
  /\ gate = "open"
  /\ cap = [c \in Captures |-> Idle]
  /\ buffer = <<>>
  /\ evicted = Nothing
  /\ mailbox = <<>>
  /\ task = "recovery"
  /\ msg = "startup"
  /\ readers = Nothing
  /\ cutoffs = [s \in Sources |-> Unset]
  /\ snapshot = [s \in Sources |-> Unset]
  /\ bound = [s \in Sources |-> 0]
  /\ todo = Sources
  /\ finding = TRUE
  /\ advanced = [s \in Sources |-> 0]
  /\ drain = "none"
  /\ flush = "idle"
  /\ asked = {}
  /\ order = [s \in Sources |-> <<>>]
DownInv == ~alive => Fresh

\* The capture lock of a source has one holder.
LockInv ==
  \A s \in Sources : \A c, d \in Captures : Holds(c, s) /\ Holds(d, s) => c = d

\* The places where the events of a source are, in the order in which they
\* are dispatched: what was dispatched, the range being replayed, the evicted
\* range, the buffer, and the event that is written but not buffered yet.
Span(range) == (range.from + 1)..range.through
Positions(b, s) == {p \in Nat : \E i \in 1..Len(b) : b[i] = Entry(s, p)}
Written(s) == {p \in Nat : \E c \in Captures :
                 /\ cap[c].at = "appended"
                 /\ cap[c].source = s /\ cap[c].position = p}
Before(X, Y) == \A x \in X, y \in Y : x < y
InLine(A, B, C, D, E) ==
  /\ Before(A, B) /\ Before(A, C) /\ Before(A, D) /\ Before(A, E)
  /\ Before(B, C) /\ Before(B, D) /\ Before(B, E)
  /\ Before(C, D) /\ Before(C, E)
  /\ Before(D, E)
New(s) == {p \in Events(s) : base[s] < p}

Line(s) ==
  /\ InLine(Dispatched(s), Span(readers[s]), Span(evicted[s]),
            Positions(buffer, s), Written(s))
  /\ Dispatched(s) \subseteq New(s)
  /\ Span(readers[s]) \subseteq (base[s] + 1)..Len(journal[s])
  /\ Span(evicted[s]) \subseteq (base[s] + 1)..Len(journal[s])
  /\ Positions(buffer, s) \subseteq New(s)
  /\ Written(s) \subseteq New(s)
  /\ alive => New(s) \subseteq Dispatched(s) \cup Span(readers[s])
                \cup Span(evicted[s]) \cup Positions(buffer, s) \cup Written(s)
Rising(o) == \A j, k \in 1..Len(o) : j < k => o[j] < o[k]
LineInv == \A s \in Sources : Line(s) /\ Rising(order[s])

\* The buffer is in the order of each journal.
Sorted(b) ==
  \A i, j \in 1..Len(b) : i < j /\ b[i].source = b[j].source =>
                            b[i].position < b[j].position
BufferInv == Sorted(buffer)

\* Nothing is read, recovered or translated beyond the end of a journal.
BoundsInv ==
  \A s \in Sources :
    /\ base[s] <= Len(journal[s])
    /\ advanced[s] <= Len(journal[s])
    /\ bound[s] \in {0, base[s]}
    /\ snapshot[s] <= Len(journal[s])

\* While recovery is discovering, a journal has grown only behind a cutoff.
FindingInv ==
  alive /\ finding =>
    /\ task = "recovery"
    /\ \A s \in Sources :
         /\ cutoffs[s] = Unset => Len(journal[s]) = base[s]
         /\ cutoffs[s] # Unset => cutoffs[s] = base[s]
         /\ snapshot[s] # Unset => snapshot[s] >= base[s]
         /\ advanced[s] = 0
         /\ s \in todo \/ committed[s] >= base[s] \/ bound[s] = base[s]
    /\ \A c \in Captures :
         cap[c].at = "marked" => cutoffs[cap[c].source] # Unset

\* The worker starts when recovery has dispatched every candidate.
RecoveredInv ==
  /\ task # "recovery" => ~finding /\ todo = {}
  /\ task \notin {"replay", "stopped"} => readers = Nothing
  /\ alive /\ ~finding => \A s \in Sources :
       \/ committed[s] >= base[s]
       \/ bound[s] = base[s] /\ (s \in todo \/ advanced[s] >= base[s])

\* What was acknowledged is in its journal and past the buffer's entrance.
AckInv ==
  /\ \A c \in Captures : cap[c].at \in {"appended", "pushed"} =>
       cap[c].position \in Events(cap[c].source)
  /\ \A e \in acked : e.position \in Events(e.source) \ Written(e.source)

Stops(box) == \E i \in 1..Len(box) : box[i] = "stop"

\* A drain that has closed the gate keeps hooks out; the stop message is the
\* last of it.
GateInv ==
  /\ drain = "none" => gate = "open"
  /\ drain = "quiesced" => gate = "waiting"
  /\ drain \notin {"none", "quiesced"} =>
       gate = "held" /\ \A c \in Hooks : cap[c].at = "idle"
  /\ msg = "stop" \/ Stops(mailbox) => drain \in {"stopping", "drained"}

Inv ==
  /\ TypeOK /\ DownInv /\ LockInv /\ LineInv /\ BufferInv /\ BoundsInv
  /\ FindingInv /\ RecoveredInv /\ AckInv /\ GateInv
  /\ FlushCoversAcknowledged /\ ShutdownSettlesAcknowledged

-----------------------------------------------------------------------------
(* Lemmas about the operators of the model.                                 *)

\* Capture c becomes r, the others stay.
CapBecomes(c, r) ==
  /\ cap' \in [Captures -> CapSet]
  /\ cap'[c] = r
  /\ \A d \in Captures : d # c => cap'[d] = cap[d]

\* What a capture knows at each of its stages.
LEMMA CapRecords ==
  ASSUME NEW r \in CapSet
  PROVE  /\ r.at \in {"entered", "locked", "marked"} => r.source \in Sources
         /\ r.at \in {"appended", "pushed"} =>
              r.source \in Sources /\ r.position \in Nat
         /\ r.at \in {"idle", "entered", "locked", "marked", "appended", "pushed"}
BY DEF CapSet, Idle

\* An assignment to the record of one capture.
LEMMA CapChanges ==
  ASSUME TypeOK, NEW c \in Captures, NEW r \in CapSet,
         cap' = [cap EXCEPT ![c] = r]
  PROVE  CapBecomes(c, r)
BY DEF TypeOK, CapBecomes

\* Where each step of a capture leads.
LEMMA CaptureMoves ==
  ASSUME TypeOK, NEW c \in Captures
  PROVE  /\ \A s \in Sources : Enter(c, s) =>
              CapBecomes(c, [at |-> "entered", source |-> s])
         /\ Lock(c) => CapBecomes(c, [at |-> "locked", source |-> cap[c].source])
         /\ Mark(c) => CapBecomes(c, [at |-> "marked", source |-> cap[c].source])
         /\ AppendEvent(c) =>
              CapBecomes(c, [at |-> "appended", source |-> cap[c].source,
                             position |-> Len(journal[cap[c].source]) + 1])
         /\ Push(c) =>
              CapBecomes(c, [at |-> "pushed", source |-> cap[c].source,
                             position |-> cap[c].position])
         /\ Wake(c) => CapBecomes(c, Idle)
<1>1. cap[c] \in CapSet
  BY DEF TypeOK
<1>2. \A s \in Sources, at \in {"entered", "locked", "marked"} :
        [at |-> at, source |-> s] \in CapSet
  BY DEF CapSet
<1>3. \A s \in Sources, p \in Nat, at \in {"appended", "pushed"} :
        [at |-> at, source |-> s, position |-> p] \in CapSet
  BY DEF CapSet
<1>4. ASSUME NEW s \in Sources, Enter(c, s)
      PROVE  CapBecomes(c, [at |-> "entered", source |-> s])
  BY <1>2, <1>4, CapChanges, Zenon DEF Enter
<1>5. ASSUME Lock(c)
      PROVE  CapBecomes(c, [at |-> "locked", source |-> cap[c].source])
  <2>1. [cap[c] EXCEPT !.at = "locked"] = [at |-> "locked", source |-> cap[c].source]
    BY <1>1, <1>5 DEF Lock, CapSet, Idle
  <2>2. cap' = [cap EXCEPT ![c] = [cap[c] EXCEPT !.at = "locked"]]
    BY <1>5 DEF Lock
  <2> QED BY <1>1, <1>2, <1>5, <2>1, <2>2, CapRecords, CapChanges, ZenonT(40) DEF Lock
<1>6. ASSUME Mark(c)
      PROVE  CapBecomes(c, [at |-> "marked", source |-> cap[c].source])
  <2>1. [cap[c] EXCEPT !.at = "marked"] = [at |-> "marked", source |-> cap[c].source]
    BY <1>1, <1>6 DEF Mark, CapSet, Idle
  <2>2. cap' = [cap EXCEPT ![c] = [cap[c] EXCEPT !.at = "marked"]]
    BY <1>6 DEF Mark
  <2> QED BY <1>1, <1>2, <1>6, <2>1, <2>2, CapRecords, CapChanges, ZenonT(40) DEF Mark
<1>7. ASSUME AppendEvent(c)
      PROVE  CapBecomes(c, [at |-> "appended", source |-> cap[c].source,
                            position |-> Len(journal[cap[c].source]) + 1])
  <2>1. cap[c].source \in Sources
    BY <1>1, <1>7, CapRecords DEF AppendEvent
  <2>2. Len(journal[cap[c].source]) + 1 \in Nat
    BY <2>1, LenProperties DEF TypeOK
  <2> QED BY <1>3, <1>7, <2>1, <2>2, CapChanges, Zenon DEF AppendEvent
<1>8. ASSUME Push(c)
      PROVE  CapBecomes(c, [at |-> "pushed", source |-> cap[c].source,
                            position |-> cap[c].position])
  <2>1. [cap[c] EXCEPT !.at = "pushed"]
          = [at |-> "pushed", source |-> cap[c].source, position |-> cap[c].position]
    BY <1>1, <1>8 DEF Push, CapSet, Idle
  <2>2. cap' = [cap EXCEPT ![c] = [cap[c] EXCEPT !.at = "pushed"]]
    BY <1>8 DEF Push
  <2>3. cap[c].source \in Sources /\ cap[c].position \in Nat
    BY <1>1, <1>8, CapRecords DEF Push
  <2>4. [cap[c] EXCEPT !.at = "pushed"] \in CapSet
    BY <1>3, <2>1, <2>3, Zenon
  <2> QED BY <2>1, <2>2, <2>4, CapChanges, Zenon
<1>9. ASSUME Wake(c) PROVE CapBecomes(c, Idle)
  <2>1. Idle \in CapSet
    BY DEF CapSet
  <2> QED BY <1>9, <2>1, CapChanges, Zenon DEF Wake
<1> QED BY <1>4, <1>5, <1>6, <1>7, <1>8, <1>9

\* What a sequence of positions holds after one more.
LEMMA OrderAppend ==
  ASSUME NEW o \in Seq(Nat), NEW p \in Nat
  PROVE  /\ Append(o, p) \in Seq(Nat)
         /\ {Append(o, p)[k] : k \in 1..Len(Append(o, p))}
              = {o[k] : k \in 1..Len(o)} \cup {p}
<1>1. /\ Append(o, p) \in Seq(Nat) /\ Len(o) \in Nat
      /\ Len(Append(o, p)) = Len(o) + 1
      /\ \A k \in 1..Len(o) : Append(o, p)[k] = o[k]
      /\ Append(o, p)[Len(o) + 1] = p
  BY AppendProperties
<1> QED BY <1>1

\* The records of a journal after one more.
LEMMA EventsAppend ==
  ASSUME TypeOK, NEW s \in Sources, NEW r \in {"event", "control"},
         journal' = [journal EXCEPT ![s] = Append(@, r)]
  PROVE  /\ journal' \in [Sources -> Seq({"event", "control"})]
         /\ \A t \in Sources : Len(journal[t]) \in Nat
         /\ Len(journal'[s]) = Len(journal[s]) + 1
         /\ Events(s)' = IF r = "event" THEN Events(s) \cup {Len(journal[s]) + 1}
                                        ELSE Events(s)
         /\ \A t \in Sources \ {s} : journal'[t] = journal[t]
                                     /\ Events(t)' = Events(t)
<1> DEFINE R == {"event", "control"}
<1>1. journal[s] \in Seq(R)
  BY DEF TypeOK
<1>2. journal'[s] = Append(journal[s], r)
  BY DEF TypeOK
<1>3. /\ Append(journal[s], r) \in Seq(R) /\ Len(journal[s]) \in Nat
      /\ Len(Append(journal[s], r)) = Len(journal[s]) + 1
      /\ \A k \in 1..Len(journal[s]) : Append(journal[s], r)[k] = journal[s][k]
      /\ Append(journal[s], r)[Len(journal[s]) + 1] = r
  BY <1>1, AppendProperties
<1>4. journal' \in [Sources -> Seq(R)]
  BY <1>3 DEF TypeOK
<1>5. \A t \in Sources : Len(journal[t]) \in Nat
  BY LenProperties DEF TypeOK
<1>6. \A t \in Sources \ {s} : journal'[t] = journal[t] /\ Events(t)' = Events(t)
  BY DEF TypeOK, Events
<1>7. Events(s)' = IF r = "event" THEN Events(s) \cup {Len(journal[s]) + 1}
                                  ELSE Events(s)
  BY <1>2, <1>3 DEF Events
<1> QED BY <1>2, <1>3, <1>4, <1>5, <1>6, <1>7

\* A journal only grows.
LEMMA JournalGrows ==
  ASSUME TypeOK, NEW s \in Sources, NEW r \in {"event", "control"},
         journal' = [journal EXCEPT ![s] = Append(@, r)]
  PROVE  \A t \in Sources : Len(journal[t]) <= Len(journal'[t])
                             /\ Len(journal[t]) \in Nat /\ Len(journal'[t]) \in Nat
                             /\ Events(t) \subseteq Events(t)'
<1>1. \A t \in Sources : Len(journal[t]) \in Nat
  BY EventsAppend
<1>2. Len(journal'[s]) = Len(journal[s]) + 1
  BY EventsAppend, Zenon
<1>3. Events(s) \subseteq Events(s)'
  BY EventsAppend, Zenon
<1>4. \A t \in Sources \ {s} : journal'[t] = journal[t] /\ Events(t)' = Events(t)
  BY EventsAppend, Zenon
<1>5. Len(journal[s]) <= Len(journal'[s]) /\ Len(journal'[s]) \in Nat
  BY <1>1, <1>2
<1> QED BY <1>1, <1>3, <1>4, <1>5

\* What the buffer holds of a source after one more.
LEMMA PositionsAppend ==
  ASSUME NEW b \in Seq(EntrySet), NEW e \in EntrySet, NEW s \in Sources
  PROVE  Positions(Append(b, e), s) =
           IF e.source = s THEN Positions(b, s) \cup {e.position}
                           ELSE Positions(b, s)
<1>1. /\ Len(b) \in Nat /\ Len(Append(b, e)) = Len(b) + 1
      /\ \A k \in 1..Len(b) : Append(b, e)[k] = b[k]
      /\ Append(b, e)[Len(b) + 1] = e
  BY AppendProperties
<1>2. \A p \in Nat : e = Entry(s, p) <=> e.source = s /\ e.position = p
  BY DEF EntrySet, Entry
<1>3. e.position \in Nat
  BY DEF EntrySet
<1>4. ASSUME NEW p \in Nat
      PROVE  (\E i \in 1..Len(Append(b, e)) : Append(b, e)[i] = Entry(s, p)) <=>
               \/ \E i \in 1..Len(b) : b[i] = Entry(s, p)
               \/ e = Entry(s, p)
  BY <1>1
<1> QED BY <1>2, <1>3, <1>4, Zenon DEF Positions

\* An event that comes last in its journal keeps the buffer sorted.
LEMMA SortedAppend ==
  ASSUME NEW b \in Seq(EntrySet), NEW e \in EntrySet, Sorted(b),
         \A p \in Positions(b, e.source) : p < e.position
  PROVE  Sorted(Append(b, e))
<1>1. /\ Len(b) \in Nat /\ Len(Append(b, e)) = Len(b) + 1
      /\ \A k \in 1..Len(b) : Append(b, e)[k] = b[k] /\ b[k] \in EntrySet
      /\ Append(b, e)[Len(b) + 1] = e
  BY AppendProperties, ElementOfSeq
<1>2. \A k \in 1..Len(b) : b[k].source = e.source => b[k].position < e.position
  BY <1>1 DEF Positions, Entry, EntrySet
<1> QED BY <1>1, <1>2 DEF Sorted

\* The head of a sorted buffer is the first of its source.
LEMMA PositionsTail ==
  ASSUME NEW b \in Seq(EntrySet), b # <<>>, Sorted(b), NEW s \in Sources
  PROVE  /\ Head(b) \in EntrySet /\ Tail(b) \in Seq(EntrySet) /\ Sorted(Tail(b))
         /\ Head(b).source = s =>
              /\ Head(b).position \in Positions(b, s)
              /\ \A p \in Positions(Tail(b), s) : Head(b).position < p
              /\ Positions(b, s) = Positions(Tail(b), s) \cup {Head(b).position}
         /\ Head(b).source # s => Positions(Tail(b), s) = Positions(b, s)
<1>1. /\ Head(b) \in EntrySet /\ Tail(b) \in Seq(EntrySet)
      /\ Len(Tail(b)) = Len(b) - 1
      /\ \A i \in 1..Len(Tail(b)) : Tail(b)[i] = b[i + 1]
      /\ Len(b) \in Nat \ {0} /\ Head(b) = b[1]
  BY HeadTailProperties, EmptySeq
<1>2. \A i \in 1..Len(b) : b[i] \in EntrySet
  BY ElementOfSeq
<1>3. Sorted(Tail(b))
  BY <1>1 DEF Sorted
<1>4. ASSUME NEW p \in Nat
      PROVE  (\E i \in 1..Len(b) : b[i] = Entry(s, p)) <=>
               \/ b[1] = Entry(s, p)
               \/ \E i \in 1..Len(Tail(b)) : Tail(b)[i] = Entry(s, p)
  <2>1. ASSUME NEW i \in 1..Len(b), b[i] = Entry(s, p), i # 1
        PROVE  \E j \in 1..Len(Tail(b)) : Tail(b)[j] = Entry(s, p)
    <3>1. i - 1 \in 1..Len(Tail(b)) /\ Tail(b)[i - 1] = b[i]
      BY <1>1, <2>1
    <3> QED BY <2>1, <3>1
  <2>2. ASSUME NEW i \in 1..Len(Tail(b)), Tail(b)[i] = Entry(s, p)
        PROVE  \E j \in 1..Len(b) : b[j] = Entry(s, p)
    <3>1. i + 1 \in 1..Len(b) /\ Tail(b)[i] = b[i + 1]
      BY <1>1
    <3> QED BY <2>2, <3>1
  <2>3. 1 \in 1..Len(b)
    BY <1>1
  <2> QED BY <2>1, <2>2, <2>3
<1>5. \A p \in Nat : b[1] = Entry(s, p) <=> b[1].source = s /\ b[1].position = p
  BY <1>1 DEF EntrySet, Entry
<1>6. b[1].position \in Nat
  BY <1>1 DEF EntrySet
<1>7. Positions(b, s) = IF b[1].source = s
                        THEN Positions(Tail(b), s) \cup {b[1].position}
                        ELSE Positions(Tail(b), s)
  BY <1>4, <1>5, <1>6, Zenon DEF Positions
<1>8. ASSUME b[1].source = s, NEW p \in Positions(Tail(b), s)
      PROVE  b[1].position < p
  <2>1. PICK i \in 1..Len(Tail(b)) : b[i + 1] = Entry(s, p)
    BY <1>1 DEF Positions
  <2>2. 1 \in 1..Len(b) /\ i + 1 \in 1..Len(b) /\ 1 < i + 1
    BY <1>1
  <2>3. b[i + 1].source = s /\ b[i + 1].position = p
    BY <2>1 DEF Entry
  <2> QED BY <1>8, <2>2, <2>3 DEF Sorted
<1> QED BY <1>1, <1>3, <1>7, <1>8

\* A range with nothing in it.
LEMMA EmptyRanges ==
  /\ Nothing \in [Sources -> RangeSet]
  /\ \A s \in Sources :
       Span(Nothing[s]) = {} /\ ~Busy(Nothing[s]) /\ Positions(<<>>, s) = {}
BY DEF Nothing, NoRange, RangeSet, Span, Busy, Positions

\* The buffer's head joins the range of its source.
LEMMA EvictRange ==
  ASSUME TypeOK, LineInv, buffer # <<>>
  PROVE  LET h == Head(buffer)
             r == evicted[h.source] IN
         /\ h \in EntrySet /\ h.position > 0
         /\ h.position \in Positions(buffer, h.source)
         /\ Evict(h) = [evicted EXCEPT ![h.source] =
              [from |-> IF Busy(r) THEN r.from ELSE h.position - 1,
               through |-> h.position]]
         /\ Evict(h) \in [Sources -> RangeSet]
<1> DEFINE h == Head(buffer)
           r == evicted[h.source]
<1>1. h \in EntrySet /\ buffer[1] = h /\ 1 \in 1..Len(buffer)
  BY HeadTailProperties, EmptySeq DEF TypeOK
<1>2. h.source \in Sources /\ h.position \in Nat
  BY <1>1 DEF EntrySet
<1>3. h.position \in Positions(buffer, h.source)
  BY <1>1, <1>2 DEF Positions, Entry, EntrySet
<1>4. h.position \in 1..Len(journal[h.source])
  BY <1>2, <1>3 DEF LineInv, Line, New, Events
<1>5. r \in RangeSet
  BY <1>2 DEF TypeOK
<1>6. Busy(r) => r.through < h.position
  <2>1. ASSUME Busy(r) PROVE r.through \in Span(r)
    BY <2>1, <1>5 DEF Busy, Span, RangeSet
  <2> QED BY <1>2, <1>3, <2>1 DEF LineInv, Line, InLine, Before
<1>7. Evict(h) = [evicted EXCEPT ![h.source] =
        [from |-> IF Busy(r) THEN r.from ELSE h.position - 1,
         through |-> h.position]]
  <2>1. Busy(r) => Larger(r.through, h.position) = h.position
    BY <1>2, <1>5, <1>6 DEF Larger, RangeSet
  <2> QED BY <2>1, Zenon DEF Evict
<1>8. [from |-> IF Busy(r) THEN r.from ELSE h.position - 1,
       through |-> h.position] \in RangeSet
  BY <1>2, <1>4, <1>5 DEF RangeSet
<1>9. Evict(h) \in [Sources -> RangeSet]
  BY <1>2, <1>7, <1>8, Zenon DEF TypeOK
<1> QED BY <1>1, <1>2, <1>3, <1>4, <1>7, <1>9

-----------------------------------------------------------------------------
(* Every step keeps the types.                                              *)

\* The steps of a capture.
LEMMA CaptureTypes ==
  ASSUME Inv, NEW c \in Captures, Capture(c)
  PROVE  TypeOK'
<1> USE DEF Inv
<1>1. \A d \in Captures : cap[d] \in CapSet
  BY DEF TypeOK
<1>2. cap' \in [Captures -> CapSet]
  BY CaptureMoves, Zenon DEF Capture, CapBecomes
<1>4. \A s \in Sources : Len(journal[s]) \in Nat
  BY LenProperties DEF TypeOK
<1>5. CASE \E s \in Sources : Enter(c, s)
  BY <1>2, <1>5
      DEF TypeOK, Enter, disk, queue, worker, startup, closing
<1>6. CASE Lock(c)
  BY <1>2, <1>6 DEF TypeOK, Lock, disk, queue, worker, startup, closing
<1>7. CASE Mark(c)
  <2>1. cutoffs' \in [Sources -> Nat \cup {Unset}]
    BY <1>4, <1>7, Zenon DEF TypeOK, Mark
  <2> QED BY <1>2, <1>7, <2>1, Zenon DEF TypeOK, Mark, disk, queue, worker, closing
<1>8. CASE AppendEvent(c)
  <2>1. cap[c].source \in Sources
    BY <1>1, <1>8, CapRecords DEF AppendEvent
  <2>2. journal' \in [Sources -> Seq({"event", "control"})]
    BY <1>8, <2>1, EventsAppend, Zenon DEF AppendEvent
  <2> QED BY <1>2, <1>8, <2>2, Zenon
      DEF TypeOK, AppendEvent, queue, worker, startup, closing
<1>9. CASE Push(c)
  <2> DEFINE e == Entry(cap[c].source, cap[c].position)
  <2>1. e \in EntrySet
    BY <1>1, <1>9, CapRecords DEF Push, Entry, EntrySet
  <2>2. buffer' \in Seq(EntrySet)
    <3>1. CASE Len(buffer) = Capacity
      <4>1. buffer # <<>>
        BY <3>1, IngressAssumption, EmptySeq
      <4>2. Tail(buffer) \in Seq(EntrySet)
        BY <4>1, HeadTailProperties DEF TypeOK
      <4>3. buffer' = Append(Tail(buffer), e)
        BY <1>9, <3>1 DEF Push
      <4> QED BY <2>1, <4>2, <4>3, AppendProperties
    <3>2. CASE Len(buffer) # Capacity
      <4>1. buffer' = Append(buffer, e)
        BY <1>9, <3>2 DEF Push
      <4> QED BY <2>1, <4>1, AppendProperties DEF TypeOK
    <3> QED BY <3>1, <3>2
  <2>3. evicted' \in [Sources -> RangeSet]
    <3>1. CASE Len(buffer) = Capacity
      <4>1. buffer # <<>>
        BY <3>1, IngressAssumption, EmptySeq
      <4>2. evicted' = Evict(Head(buffer))
        BY <1>9, <3>1 DEF Push
      <4> QED BY <4>1, <4>2, EvictRange
    <3>2. CASE Len(buffer) # Capacity
      BY <1>9, <3>2 DEF Push, TypeOK
    <3> QED BY <3>1, <3>2
  <2> QED BY <1>2, <1>9, <2>2, <2>3, Zenon DEF TypeOK, Push, disk, worker, startup, closing
<1>10. CASE Wake(c)
  <2>1. Entry(cap[c].source, cap[c].position) \in EntrySet
    BY <1>1, <1>10, CapRecords DEF Wake, Entry, EntrySet
  <2>2. acked' \in SUBSET EntrySet /\ acked \subseteq acked'
    BY <1>10, <2>1 DEF Wake, TypeOK
  <2>3. mailbox' \in Seq(Messages)
    BY <1>10, AppendProperties DEF Wake, TypeOK, Messages
  <2> QED BY <1>2, <1>10, <2>2, <2>3
      DEF TypeOK, Wake, disk, worker, startup, closing
<1> QED BY <1>5, <1>6, <1>7, <1>8, <1>9, <1>10 DEF Capture

\* The steps of startup recovery.
LEMMA RecoverTypes ==
  ASSUME Inv, Recover
  PROVE  TypeOK'
<1> USE DEF Inv
<1>1. \A s \in Sources : Len(journal[s]) \in Nat
  BY LenProperties DEF TypeOK
<1>2. ASSUME NEW s \in Sources, Snapshot(s) PROVE TypeOK'
  <2>1. snapshot' \in [Sources -> Nat \cup {Unset}]
    BY <1>1, <1>2 DEF TypeOK, Snapshot
  <2> QED BY <1>2, <2>1, Zenon DEF TypeOK, Snapshot, disk, queue, worker, closing
<1>3. ASSUME NEW s \in Sources, Discover(s) PROVE TypeOK'
  <2> DEFINE through == IF cutoffs[s] = Unset THEN snapshot[s]
                        ELSE Smaller(snapshot[s], cutoffs[s])
  <2>1. through \in Nat
    BY <1>3 DEF TypeOK, Discover, Unset, Smaller
  <2>2. /\ cutoffs' \in [Sources -> Nat \cup {Unset}]
        /\ bound' \in [Sources -> Nat]
    BY <1>3, <2>1 DEF TypeOK, Discover
  <2>3. todo' \in SUBSET Sources
    BY <1>3 DEF TypeOK, Discover
  <2> QED BY <1>3, <2>2, <2>3, Zenon DEF TypeOK, Discover, disk, queue, worker, closing
<1>4. ASSUME NEW s \in Sources, Overlook(s) PROVE TypeOK'
  <2>1. todo' \in SUBSET Sources
    BY <1>4 DEF TypeOK, Overlook
  <2> QED BY <1>4, <2>1, Zenon DEF TypeOK, Overlook, disk, queue, worker, closing
<1>5. ASSUME NEW s \in Sources, Resume(s) PROVE TypeOK'
  <2>1. todo' \in SUBSET Sources
    BY <1>5 DEF TypeOK, Resume
  <2>2. advanced' \in [Sources -> Nat]
    BY <1>5 DEF TypeOK, Resume, Larger
  <2> QED BY <1>5, <2>1, <2>2, Zenon DEF TypeOK, Resume, disk, queue, worker, closing
<1>6. CASE Discovered
  <2>1. todo' \in SUBSET Sources
    BY <1>6 DEF Discovered
  <2> QED BY <1>6, <2>1, Zenon DEF TypeOK, Discovered, disk, queue, worker, closing
<1>7. CASE StartDraining
  BY <1>7 DEF TypeOK, Tasks, StartDraining, disk, queue, startup, closing
<1> QED BY <1>2, <1>3, <1>4, <1>5, <1>6, <1>7 DEF Recover

\* The steps of the draining task.
LEMMA WorkTypes ==
  ASSUME Inv, Work \/ ReplayFails
  PROVE  TypeOK'
<1> USE DEF Inv
<1>1. ASSUME NEW e \in EntrySet, Dispatch(e)
      PROVE  order' \in [Sources -> Seq(Nat)] /\ advanced' \in [Sources -> Nat]
  <2>1. e.source \in Sources /\ e.position \in Nat
    BY DEF EntrySet
  <2>2. Append(order[e.source], e.position) \in Seq(Nat)
    BY <2>1, AppendProperties DEF TypeOK
  <2>3. Larger(advanced[e.source], e.position) \in Nat
    BY <2>1 DEF TypeOK, Larger
  <2> QED BY <1>1, <2>1, <2>2, <2>3, Zenon DEF Dispatch, TypeOK
<1>2. CASE Receive
  <2>1. msg' \in Messages /\ mailbox' \in Seq(Messages)
    BY <1>2, HeadTailProperties DEF Receive, TypeOK
  <2> QED BY <1>2, <2>1 DEF TypeOK, Tasks, Receive, disk, startup, closing
<1>3. CASE TakeEvicted
  <2>1. evicted' \in [Sources -> RangeSet]
    BY <1>3, EmptyRanges DEF TakeEvicted, TypeOK
  <2> QED BY <1>3, <2>1, Zenon DEF TypeOK, Tasks, TakeEvicted, disk, startup, closing
<1>4. CASE TakeEvent
  <2>1. Head(buffer) \in EntrySet /\ buffer' \in Seq(EntrySet)
    BY <1>4, HeadTailProperties DEF TakeEvent, TypeOK
  <2>2. order' \in [Sources -> Seq(Nat)] /\ advanced' \in [Sources -> Nat]
    BY <1>1, <1>4, <2>1 DEF TakeEvent
  <2> QED BY <1>4, <2>1, <2>2 DEF TypeOK, TakeEvent, disk, worker, startup, closing
<1>5. ASSUME NEW s \in Sources, ReplayNext(s) PROVE TypeOK'
  <2> DEFINE p == readers[s].from + 1
  <2>1. p \in Nat /\ [readers[s] EXCEPT !.from = p]
                       = [from |-> p, through |-> readers[s].through]
    BY DEF TypeOK, RangeSet
  <2>2. [from |-> p, through |-> readers[s].through] \in RangeSet
    BY <2>1 DEF TypeOK, RangeSet
  <2>3. readers' = [readers EXCEPT ![s] = [readers[s] EXCEPT !.from = p]]
    BY <1>5 DEF ReplayNext
  <2>4. readers' \in [Sources -> RangeSet]
    BY <2>1, <2>2, <2>3 DEF TypeOK
  <2>5. Entry(s, p) \in EntrySet
    BY <2>1 DEF Entry, EntrySet
  <2>6. order' \in [Sources -> Seq(Nat)] /\ advanced' \in [Sources -> Nat]
    BY <1>1, <1>5, <2>5, Zenon DEF ReplayNext, TypeOK
  <2> QED BY <1>5, <2>4, <2>6, Zenon DEF TypeOK, ReplayNext, disk, queue, startup, closing
<1>6. CASE Replayed
  <2>1. readers' \in [Sources -> RangeSet]
    BY <1>6, EmptyRanges DEF Replayed
  <2> QED BY <1>6, <2>1 DEF TypeOK, Tasks, Replayed, disk, queue, startup, closing
<1>7. CASE Serve
  <2>1. mailbox' \in Seq(Messages)
    BY <1>7, EmptySeq DEF Serve, TypeOK
  <2>2. task' \in Tasks /\ drain' \in Drains
    BY <1>7 DEF Serve, TypeOK, Tasks, Drains
  <2>3. flush' \in {"idle", "waiting", "done", "aborted"}
    BY <1>7 DEF Serve, TypeOK, Aborted
  <2> QED BY <1>7, <2>1, <2>2, <2>3 DEF TypeOK, Serve, disk, startup
<1>8. CASE ReplayFails
  <2>1. mailbox' \in Seq(Messages)
    BY <1>8, EmptySeq DEF ReplayFails
  <2>2. flush' \in {"idle", "waiting", "done", "aborted"}
    BY <1>8 DEF ReplayFails, TypeOK, Aborted
  <2> QED BY <1>8, <2>1, <2>2, Zenon DEF TypeOK, Tasks, ReplayFails, disk, startup
<1> QED BY <1>2, <1>3, <1>4, <1>5, <1>6, <1>7, <1>8 DEF Work

\* Translation, controls, barriers, shutdown, crash and restart.
LEMMA CloseTypes ==
  ASSUME Inv, \/ \E s \in Sources : Translate(s) \/ Control(s)
              \/ Flush \/ Drain \/ Crash \/ Start
  PROVE  TypeOK'
<1> USE DEF Inv
<1>1. \A s \in Sources : Len(journal[s]) \in Nat
  BY LenProperties DEF TypeOK
<1>2. ASSUME NEW s \in Sources, Translate(s) PROVE TypeOK'
  <2>1. committed' \in [Sources -> Nat]
    BY <1>2 DEF Translate, TypeOK
  <2> QED BY <1>2, <2>1 DEF TypeOK, Translate, queue, worker, startup, closing
<1>3. ASSUME NEW s \in Sources, Control(s) PROVE TypeOK'
  <2>1. journal' \in [Sources -> Seq({"event", "control"})]
    BY <1>3, EventsAppend, Zenon DEF Control
  <2>2. advanced' \in [Sources -> Nat]
    BY <1>1, <1>3 DEF Control, TypeOK
  <2> QED BY <1>3, <2>1, <2>2 DEF TypeOK, Control, queue, worker, startup, closing
<1>4. ASSUME NEW m \in Messages, Send(m) PROVE mailbox' \in Seq(Messages)
  BY <1>4, AppendProperties DEF Send, TypeOK
<1>5. CASE Flush
  <2>1. mailbox' \in Seq(Messages)
    BY <1>4, <1>5 DEF Flush, Messages
  <2> QED BY <1>5, <2>1 DEF TypeOK, Flush, disk, worker, startup
<1>6. ASSUME NEW from \in Drains, NEW to \in Drains, Closing(from, to),
             mailbox' \in Seq(Messages), committed' \in [Sources -> Nat],
             journal' = journal, gate' \in {"open", "waiting", "held"},
             quiescing' \in BOOLEAN
      PROVE  TypeOK'
  BY <1>6 DEF TypeOK, Closing, worker, startup
<1>7. CASE BeginDrain
  BY <1>6, <1>7, Zenon DEF BeginDrain, TypeOK, Drains, disk
<1>8. CASE CloseGate
  BY <1>6, <1>8, Zenon DEF CloseGate, TypeOK, Drains, disk
<1>9. ASSUME NEW from \in Drains, NEW during \in Drains, NEW after \in Drains,
             Settle(from, during, after)
      PROVE  TypeOK'
  <2>1. mailbox' \in Seq(Messages)
    BY <1>4, <1>9 DEF Settle, Messages, TypeOK
  <2> QED BY <1>6, <1>9, <2>1, Zenon DEF Settle, TypeOK, disk
<1>10. CASE SettleTwice
  BY <1>9, <1>10 DEF SettleTwice, Drains
<1>11. CASE Retire
  <2>1. committed' \in [Sources -> Nat]
    BY <1>11 DEF Retire, TypeOK, Larger
  <2> QED BY <1>6, <1>11, <2>1, Zenon DEF Retire, TypeOK, Drains
<1>12. CASE StopWorker
  <2>1. mailbox' \in Seq(Messages)
    BY <1>4, <1>12 DEF StopWorker, Messages, TypeOK
  <2> QED BY <1>6, <1>12, <2>1, Zenon DEF StopWorker, TypeOK, Drains, disk
<1>13. CASE Exit \/ Crash
  <2>1. Idle \in CapSet /\ Unset \in Nat \cup {Unset}
    BY DEF CapSet
  <2>2. Volatile /\ alive' = FALSE /\ UNCHANGED <<disk, base, acked>>
    BY <1>13 DEF Exit, Crash
  <2>3. /\ cap' \in [Captures -> CapSet] /\ buffer' \in Seq(EntrySet)
        /\ mailbox' \in Seq(Messages) /\ evicted' \in [Sources -> RangeSet]
        /\ readers' \in [Sources -> RangeSet] /\ order' \in [Sources -> Seq(Nat)]
        /\ cutoffs' \in [Sources -> Nat \cup {Unset}]
        /\ snapshot' \in [Sources -> Nat \cup {Unset}]
        /\ bound' \in [Sources -> Nat] /\ advanced' \in [Sources -> Nat]
    BY <2>1, <2>2, EmptyRanges, EmptySeq DEF Volatile
  <2>4. /\ quiescing' \in BOOLEAN /\ gate' \in {"open", "waiting", "held"}
        /\ task' \in Tasks /\ msg' \in Messages \cup {"startup"}
        /\ todo' \in SUBSET Sources /\ finding' \in BOOLEAN /\ drain' \in Drains
        /\ flush' \in {"idle", "waiting", "done", "aborted"}
        /\ asked' \in SUBSET acked'
    BY <2>2, Zenon DEF Volatile, Tasks, Drains
  <2> QED BY <2>2, <2>3, <2>4, Zenon DEF TypeOK, disk
<1>14. CASE Start
  <2>1. base' \in [Sources -> Nat]
    BY <1>1, <1>14 DEF Start
  <2> QED BY <1>14, <2>1 DEF Start, TypeOK, disk, queue, worker, startup, closing
<1> QED BY <1>2, <1>3, <1>5, <1>7, <1>8, <1>10, <1>11, <1>12, <1>13, <1>14 DEF Drain

\* All steps together.
LEMMA TypeStep ==
  ASSUME Inv, [Next]_vars
  PROVE  TypeOK'
<1>1. CASE UNCHANGED vars
  BY <1>1 DEF Inv, TypeOK, vars, disk, queue, worker, startup, closing
<1> QED BY <1>1, CaptureTypes, RecoverTypes, WorkTypes, CloseTypes DEF Next

-----------------------------------------------------------------------------
(* What the steps leave alone.                                              *)

Quiet ==
  \/ Recover \/ Receive \/ Serve \/ ReplayFails \/ Flush
  \/ \E s \in Sources : Translate(s)
  \/ BeginDrain \/ CloseGate \/ SettleTwice \/ Retire \/ StopWorker

\* Steps that touch neither a journal nor a place of an event.
LEMMA QuietKeeps ==
  ASSUME Quiet
  PROVE  /\ UNCHANGED <<journal, base, order, readers, evicted, buffer, cap, acked>>
         /\ alive /\ alive'
<1>1. CASE Recover
  BY <1>1 DEF Recover, Snapshot, Discover, Overlook, Resume, Discovered,
              StartDraining, disk, queue, worker
<1>2. CASE Receive \/ Serve \/ ReplayFails \/ Flush
  BY <1>2 DEF Receive, Serve, ReplayFails, Flush, disk, worker
<1>3. CASE \E s \in Sources : Translate(s)
  BY <1>3 DEF Translate, queue, worker
<1>4. CASE BeginDrain \/ CloseGate \/ SettleTwice \/ Retire \/ StopWorker
  BY <1>4 DEF BeginDrain, CloseGate, SettleTwice, Settle, Retire, StopWorker,
              Closing, disk, worker
<1> QED BY <1>1, <1>2, <1>3, <1>4 DEF Quiet

Ends == Exit \/ Crash

\* An exit and a crash lose the memory and keep the disk.
LEMMA EndsKeeps ==
  ASSUME Ends
  PROVE  Volatile /\ alive' = FALSE /\ UNCHANGED <<disk, base, acked>>
BY DEF Ends, Exit, Crash

\* The steps that are not quiet, one by one.
LEMMA StepCases ==
  ASSUME Next
  PROVE  \/ Quiet \/ Ends \/ Start
         \/ \E c \in Captures : Capture(c)
         \/ TakeEvicted \/ TakeEvent \/ Replayed
         \/ \E s \in Sources : ReplayNext(s) \/ Control(s)
BY DEF Next, Work, Drain, Quiet, Ends

\* Only a capture changes what the captures do, while the daemon runs.
LEMMA CapsKept ==
  ASSUME Next, \A c \in Captures : ~Capture(c), ~Ends
  PROVE  cap' = cap
<1>1. CASE TakeEvicted \/ TakeEvent \/ Replayed \/ Start
  BY <1>1 DEF TakeEvicted, TakeEvent, Replayed, Start
<1>2. CASE \E s \in Sources : ReplayNext(s) \/ Control(s)
  BY <1>2 DEF ReplayNext, Control
<1> QED BY <1>1, <1>2, StepCases, QuietKeeps

\* Only a start brings a daemon up, with nothing in memory.
LEMMA DownStep ==
  ASSUME Inv, [Next]_vars
  PROVE  DownInv'
<1>1. CASE UNCHANGED vars
  BY <1>1 DEF Inv, DownInv, Fresh, vars, disk, queue, worker, startup, closing
<1>2. CASE Ends
  BY <1>2, EndsKeeps DEF Volatile, DownInv, Fresh
<1>3. CASE Next /\ ~Ends
  <2>1. alive'
    <3>1. CASE \E c \in Captures : Capture(c)
      BY <3>1 DEF Capture, Enter, Lock, Mark, AppendEvent, Push, Wake
    <3>2. CASE TakeEvicted \/ TakeEvent \/ Replayed \/ Start
      BY <3>2 DEF TakeEvicted, TakeEvent, Replayed, Start
    <3>3. CASE \E s \in Sources : ReplayNext(s) \/ Control(s)
      BY <3>3 DEF ReplayNext, Control
    <3> QED BY <1>3, <3>1, <3>2, <3>3, StepCases, QuietKeeps
  <2> QED BY <2>1 DEF DownInv
<1> QED BY <1>1, <1>2, <1>3

\* A source whose lock is taken is taken by nobody else.
LEMMA LockStep ==
  ASSUME Inv, [Next]_vars
  PROVE  LockInv'
<1> USE DEF Inv
<1>1. CASE cap' = cap
  BY <1>1 DEF LockInv, Holds
<1>2. ASSUME NEW c \in Captures, Capture(c) PROVE LockInv'
  <2>1. \A d \in Captures : cap[d] \in CapSet
    BY DEF TypeOK
  <2>2. PICK r : CapBecomes(c, r)
    BY <1>2, CaptureMoves, Zenon DEF Capture
  <2>3. SUFFICES ASSUME NEW s \in Sources, Holds(c, s)',
                        NEW d \in Captures \ {c}, Holds(d, s)
                 PROVE  FALSE
    BY <2>2 DEF LockInv, Holds, CapBecomes
  <2>4. \/ Holds(c, s)
        \/ cap[c].source = s /\ \A e \in Captures : ~Holds(e, s)
    <3>1. CASE \E t \in Sources : Enter(c, t)
      <4>1. PICK t \in Sources : CapBecomes(c, [at |-> "entered", source |-> t])
        BY <3>1, CaptureMoves, Zenon
      <4> QED BY <2>3, <4>1 DEF CapBecomes, Holds
    <3>2. CASE Lock(c)
      BY <2>3, <3>2, CaptureMoves, SMTT(25) DEF CapBecomes, Holds, Lock
    <3>3. CASE Mark(c)
      BY <2>3, <3>3, CaptureMoves DEF CapBecomes, Holds, Mark
    <3>4. CASE AppendEvent(c)
      BY <2>3, <3>4, CaptureMoves DEF CapBecomes, Holds, AppendEvent
    <3>5. CASE Push(c)
      BY <2>3, <3>5, CaptureMoves DEF CapBecomes, Holds, Push
    <3>6. CASE Wake(c)
      <4>1. CapBecomes(c, Idle)
        BY <3>6, CaptureMoves, Zenon
      <4> QED BY <2>3, <4>1 DEF CapBecomes, Holds, Idle
    <3> QED BY <1>2, <3>1, <3>2, <3>3, <3>4, <3>5, <3>6 DEF Capture
  <2> QED BY <2>3, <2>4 DEF LockInv
<1>3. CASE Ends
  BY <1>3, EndsKeeps DEF Volatile, LockInv, Holds, Idle
<1>4. CASE UNCHANGED vars
  BY <1>1, <1>4 DEF vars
<1> QED BY <1>1, <1>2, <1>3, <1>4, CapsKept

-----------------------------------------------------------------------------
(* The line of the events of a source.                                      *)

\* A step that leaves the places alone leaves the line alone.
LEMMA KeepLine ==
  ASSUME LineInv, UNCHANGED <<journal, base, order, readers, evicted, buffer>>,
         alive' => alive,
         \A s \in Sources : Written(s)' = Written(s)
  PROVE  LineInv'
<1> SUFFICES ASSUME NEW s \in Sources PROVE Line(s)' /\ Rising(order[s])'
  BY DEF LineInv
<1>1. /\ Dispatched(s)' = Dispatched(s) /\ New(s)' = New(s)
      /\ Span(readers[s])' = Span(readers[s])
      /\ Span(evicted[s])' = Span(evicted[s])
      /\ Positions(buffer, s)' = Positions(buffer, s)
  BY DEF Dispatched, New, Events, Span, Positions
<1>2. Line(s) /\ Rising(order[s])
  BY DEF LineInv
<1> QED BY <1>1, <1>2 DEF Line, InLine, Before, Rising

\* The event a capture has written is the only one of its source.
LEMMA WrittenByOne ==
  ASSUME TypeOK, LockInv, NEW c \in Captures, cap[c].at = "appended"
  PROVE  /\ cap[c].source \in Sources /\ cap[c].position \in Nat
         /\ Written(cap[c].source) = {cap[c].position}
<1>1. cap[c].source \in Sources /\ cap[c].position \in Nat
  BY CapRecords DEF TypeOK
<1>2. ASSUME NEW d \in Captures, cap[d].at = "appended",
             cap[d].source = cap[c].source
      PROVE  d = c
  BY <1>1, <1>2 DEF LockInv, Holds
<1> QED BY <1>1, <1>2 DEF Written

\* What a capture does to the written events.
LEMMA WrittenMoves ==
  ASSUME TypeOK, LockInv, NEW c \in Captures, NEW s \in Sources
  PROVE  /\ (\E t \in Sources : Enter(c, t)) \/ Lock(c) \/ Mark(c) \/ Wake(c)
              => Written(s)' = Written(s)
         /\ AppendEvent(c) =>
              /\ s # cap[c].source => Written(s)' = Written(s)
              /\ s = cap[c].source => /\ Written(s) = {}
                                      /\ Written(s)' = {Len(journal[s]) + 1}
         /\ Push(c) =>
              /\ s # cap[c].source => Written(s)' = Written(s)
              /\ s = cap[c].source => /\ Written(s) = {cap[c].position}
                                      /\ Written(s)' = {}
<1>1. \A d \in Captures : cap[d].at = "appended" =>
        cap[d].source \in Sources /\ cap[d].position \in Nat
  BY CapRecords DEF TypeOK
<1>2. ASSUME NEW r, CapBecomes(c, r), r.at # "appended",
             cap[c].at # "appended" \/ cap[c].source # s
      PROVE  Written(s)' = Written(s)
  BY <1>2 DEF CapBecomes, Written
<1>3. ASSUME (\E t \in Sources : Enter(c, t)) \/ Lock(c) \/ Mark(c) \/ Wake(c)
      PROVE  Written(s)' = Written(s)
  <2>1. CASE \E t \in Sources : Enter(c, t)
    <3>1. PICK t \in Sources : Enter(c, t)
      BY <2>1
    <3>2. cap[c].at # "appended"
      BY <3>1 DEF Enter
    <3> QED BY <1>2, <3>1, <3>2, CaptureMoves, Zenon
  <2>2. CASE Lock(c)
    BY <1>2, <2>2, CaptureMoves, Zenon DEF Lock
  <2>3. CASE Mark(c)
    BY <1>2, <2>3, CaptureMoves, Zenon DEF Mark
  <2>4. CASE Wake(c)
    BY <1>2, <2>4, CaptureMoves, Zenon DEF Wake, Idle
  <2> QED BY <1>3, <2>1, <2>2, <2>3, <2>4
<1>4. ASSUME AppendEvent(c)
      PROVE  /\ s # cap[c].source => Written(s)' = Written(s)
             /\ s = cap[c].source => /\ Written(s) = {}
                                     /\ Written(s)' = {Len(journal[s]) + 1}
  <2>1. cap[c].at = "marked" /\ cap[c].source \in Sources
    BY <1>4, CapRecords DEF AppendEvent, TypeOK
  <2>2. Len(journal[s]) + 1 \in Nat
    BY LenProperties DEF TypeOK
  <2>3. CapBecomes(c, [at |-> "appended", source |-> cap[c].source,
                       position |-> Len(journal[cap[c].source]) + 1])
    BY <1>4, CaptureMoves, Zenon
  <2>4. ASSUME s # cap[c].source PROVE Written(s)' = Written(s)
    BY <2>1, <2>3, <2>4 DEF Written, CapBecomes
  <2>5. ASSUME s = cap[c].source
        PROVE  Written(s) = {} /\ Written(s)' = {Len(journal[s]) + 1}
    <3>1. \A d \in Captures \ {c} : cap[d].at = "appended" => cap[d].source # s
      BY <1>1, <2>1, <2>5 DEF LockInv, Holds
    <3>2. Written(s) = {}
      BY <2>1, <3>1 DEF Written
    <3>3. Written(s)' = {Len(journal[s]) + 1}
      BY <2>2, <2>3, <2>5, <3>1 DEF Written, CapBecomes
    <3> QED BY <3>2, <3>3
  <2> QED BY <2>4, <2>5
<1>5. ASSUME Push(c)
      PROVE  /\ s # cap[c].source => Written(s)' = Written(s)
             /\ s = cap[c].source => /\ Written(s) = {cap[c].position}
                                     /\ Written(s)' = {}
  <2>1. CapBecomes(c, [at |-> "pushed", source |-> cap[c].source,
                       position |-> cap[c].position])
    BY <1>5, CaptureMoves, Zenon
  <2>2. cap[c].at = "appended"
    BY <1>5 DEF Push
  <2>3. ASSUME s = cap[c].source
        PROVE  Written(s) = {cap[c].position} /\ Written(s)' = {}
    <3>1. \A d \in Captures \ {c} : cap[d].at = "appended" => cap[d].source # s
      BY <1>1, <2>2, <2>3 DEF LockInv, Holds
    <3>2. Written(s)' = {}
      BY <2>1, <3>1 DEF Written, CapBecomes
    <3> QED BY <2>2, <2>3, <3>2, WrittenByOne
  <2>4. ASSUME s # cap[c].source PROVE Written(s)' = Written(s)
    BY <1>2, <2>1, <2>4
  <2> QED BY <2>3, <2>4
<1> QED BY <1>3, <1>4, <1>5

\* All places lie in the journal, after the history.
LEMMA LineBounds ==
  ASSUME TypeOK, LineInv, NEW s \in Sources
  PROVE  /\ Len(journal[s]) \in Nat /\ base[s] \in Nat
         /\ New(s) \subseteq 1..Len(journal[s])
         /\ Line(s) /\ Rising(order[s])
         /\ \A p \in Dispatched(s) \cup Span(readers[s]) \cup Span(evicted[s])
                     \cup Positions(buffer, s) \cup Written(s) :
              p \in Nat /\ base[s] < p /\ p <= Len(journal[s])
<1>1. Len(journal[s]) \in Nat /\ base[s] \in Nat
  BY LenProperties DEF TypeOK
<1>2. New(s) \subseteq 1..Len(journal[s]) /\ \A p \in New(s) : base[s] < p
  BY DEF New, Events
<1> QED BY <1>1, <1>2 DEF LineInv, Line

\* A written event comes last.
LEMMA AppendLine ==
  ASSUME Inv, NEW c \in Captures, AppendEvent(c)
  PROVE  LineInv'
<1> USE DEF Inv
<1>1. cap[c].source \in Sources
  BY CapRecords DEF AppendEvent, TypeOK
<1>2. UNCHANGED <<base, alive, order, readers, evicted, buffer>>
  BY DEF AppendEvent, queue, worker
<1> SUFFICES ASSUME NEW s \in Sources PROVE Line(s)' /\ Rising(order[s])'
  BY DEF LineInv
<1>3. /\ Dispatched(s)' = Dispatched(s)
      /\ Span(readers[s])' = Span(readers[s])
      /\ Span(evicted[s])' = Span(evicted[s])
      /\ Positions(buffer, s)' = Positions(buffer, s)
      /\ Rising(order[s])' = Rising(order[s])
  BY <1>2 DEF Dispatched, Span, Positions, Rising
<1>4. journal' = [journal EXCEPT ![cap[c].source] = Append(@, "event")]
  BY DEF AppendEvent
<1>5. CASE s = cap[c].source
  <2> DEFINE n == Len(journal[s]) + 1
  <2>1. Events(s)' = Events(s) \cup {n} /\ Len(journal'[s]) = n
    BY <1>1, <1>4, <1>5, EventsAppend, Zenon
  <2>2. Written(s) = {} /\ Written(s)' = {n}
    BY <1>5, WrittenMoves
  <2>3. base[s] <= Len(journal[s]) /\ base'[s] = base[s]
    BY <1>2 DEF BoundsInv
  <2>4. New(s)' = New(s) \cup {n}
    BY <2>1, <2>3, LineBounds DEF New
  <2>5. /\ Span(readers[s]) \subseteq (base[s] + 1)..n
        /\ Span(evicted[s]) \subseteq (base[s] + 1)..n
    <3>1. /\ Len(journal[s]) \in Nat /\ base[s] \in Nat
          /\ Span(readers[s]) \subseteq (base[s] + 1)..Len(journal[s])
          /\ Span(evicted[s]) \subseteq (base[s] + 1)..Len(journal[s])
      BY LineBounds DEF Line
    <3> QED BY <3>1
  <2>6. InLine(Dispatched(s), Span(readers[s]), Span(evicted[s]),
               Positions(buffer, s), {n})
    <3>1. InLine(Dispatched(s), Span(readers[s]), Span(evicted[s]),
                 Positions(buffer, s), Written(s))
      BY LineBounds DEF Line
    <3>2. /\ Before(Dispatched(s), {n}) /\ Before(Span(readers[s]), {n})
          /\ Before(Span(evicted[s]), {n}) /\ Before(Positions(buffer, s), {n})
      <4>1. /\ Len(journal[s]) \in Nat
            /\ \A p \in Dispatched(s) \cup Span(readers[s]) \cup Span(evicted[s])
                       \cup Positions(buffer, s) :
                 p \in Nat /\ p <= Len(journal[s])
        BY LineBounds
      <4>2. \A p \in Dispatched(s) \cup Span(readers[s]) \cup Span(evicted[s])
                     \cup Positions(buffer, s) : p < n
        BY <4>1
      <4> QED BY <4>2 DEF Before
    <3> QED BY <3>1, <3>2 DEF InLine
  <2> QED BY <1>2, <1>3, <2>1, <2>2, <2>3, <2>4, <2>5, <2>6, LineBounds DEF Line
<1>6. CASE s # cap[c].source
  <2>1. Events(s)' = Events(s) /\ journal'[s] = journal[s]
    BY <1>1, <1>4, <1>6, EventsAppend, Zenon
  <2>2. New(s)' = New(s) /\ Written(s)' = Written(s)
    BY <1>2, <1>6, <2>1, WrittenMoves DEF New
  <2> QED BY <1>2, <1>3, <2>1, <2>2, LineBounds DEF Line
<1> QED BY <1>5, <1>6

\* A control is nobody's event.
LEMMA ControlLine ==
  ASSUME Inv, NEW t \in Sources, Control(t)
  PROVE  LineInv'
<1> USE DEF Inv
<1>1. UNCHANGED <<base, alive, order, readers, evicted, buffer, cap>>
  BY DEF Control, queue, worker
<1> SUFFICES ASSUME NEW s \in Sources PROVE Line(s)' /\ Rising(order[s])'
  BY DEF LineInv
<1>2. /\ Dispatched(s)' = Dispatched(s)
      /\ Span(readers[s])' = Span(readers[s])
      /\ Span(evicted[s])' = Span(evicted[s])
      /\ Positions(buffer, s)' = Positions(buffer, s)
      /\ Written(s)' = Written(s)
      /\ Rising(order[s])' = Rising(order[s])
  BY <1>1 DEF Dispatched, Span, Positions, Written, Rising
<1>3. journal' = [journal EXCEPT ![t] = Append(@, "control")]
  BY DEF Control
<1>4. /\ Events(s)' = Events(s)
      /\ Len(journal[s]) <= Len(journal'[s])
      /\ Len(journal[s]) \in Nat /\ Len(journal'[s]) \in Nat
  <2>1. CASE s = t
    BY <1>3, <2>1, EventsAppend, JournalGrows, Zenon
  <2>2. CASE s # t
    BY <1>3, <2>2, EventsAppend, JournalGrows, Zenon
  <2> QED BY <2>1, <2>2
<1>5. New(s)' = New(s)
  BY <1>1, <1>4 DEF New
<1>6. /\ Span(readers[s]) \subseteq (base[s] + 1)..Len(journal'[s])
      /\ Span(evicted[s]) \subseteq (base[s] + 1)..Len(journal'[s])
  <2>1. /\ base[s] \in Nat
        /\ Span(readers[s]) \subseteq (base[s] + 1)..Len(journal[s])
        /\ Span(evicted[s]) \subseteq (base[s] + 1)..Len(journal[s])
    BY LineBounds DEF Line
  <2> QED BY <1>4, <2>1
<1> QED BY <1>1, <1>2, <1>5, <1>6, LineBounds DEF Line

\* A push moves the written event to the end of the buffer, and, when the
\* buffer is full, its head to the end of the evicted range of its source.
LEMMA PushLine ==
  ASSUME Inv, NEW c \in Captures, Push(c)
  PROVE  LineInv' /\ BufferInv'
<1> USE DEF Inv
<1> DEFINE t == cap[c].source
           e == Entry(t, cap[c].position)
           kept == IF Len(buffer) = Capacity THEN Tail(buffer) ELSE buffer
           h == Head(buffer)
<1>1. /\ t \in Sources /\ cap[c].position \in Nat
      /\ Written(t) = {cap[c].position}
  BY WrittenByOne, Zenon DEF Push
<1>2. e \in EntrySet /\ e.source = t /\ e.position = cap[c].position
  BY <1>1 DEF Entry, EntrySet
<1>3. Len(buffer) = Capacity => buffer # <<>>
  BY IngressAssumption, EmptySeq
<1>4. UNCHANGED <<journal, base, alive, order, readers>>
  BY DEF Push, disk, worker
<1>5. buffer' = Append(kept, e)
  BY DEF Push
<1>6. kept \in Seq(EntrySet) /\ Sorted(kept)
  <2>1. CASE Len(buffer) = Capacity
    BY <1>1, <1>3, <2>1, PositionsTail DEF TypeOK, BufferInv
  <2>2. CASE Len(buffer) # Capacity
    BY <2>2 DEF TypeOK, BufferInv
  <2> QED BY <2>1, <2>2
\* The head may leave the buffer for the evicted range.
<1>7. ASSUME NEW s \in Sources
      PROVE  /\ Positions(kept, s) \subseteq Positions(buffer, s)
             /\ Span(evicted[s]) \subseteq Span(evicted'[s])
             /\ Positions(buffer, s) \subseteq Span(evicted'[s]) \cup Positions(kept, s)
             /\ Span(evicted'[s]) \subseteq (base[s] + 1)..Len(journal[s])
             /\ Before(Dispatched(s), Span(evicted'[s]))
             /\ Before(Span(readers[s]), Span(evicted'[s]))
             /\ Before(Span(evicted'[s]), Positions(kept, s))
             /\ Before(Span(evicted'[s]), Written(s))
  <2>1. CASE Len(buffer) # Capacity
    <3>1. kept = buffer /\ evicted' = evicted
      BY <2>1 DEF Push
    <3> QED BY <3>1, LineBounds, Zenon DEF Line, InLine
  <2>2. CASE Len(buffer) = Capacity /\ h.source # s
    <3>1. h.source \in Sources /\ evicted'[s] = evicted[s]
      BY <1>3, <2>2, EvictRange, Zenon DEF Push, TypeOK, EntrySet
    <3>2. Positions(kept, s) = Positions(buffer, s)
      BY <1>3, <2>2, PositionsTail, Zenon DEF TypeOK, BufferInv
    <3> QED BY <3>1, <3>2, LineBounds DEF Line, InLine
  <2>3. CASE Len(buffer) = Capacity /\ h.source = s
    <3> DEFINE r == evicted[s]
               n == h.position
               a == IF Busy(r) THEN r.from ELSE n - 1
    <3>1. evicted' = Evict(h) /\ kept = Tail(buffer)
      BY <2>3 DEF Push
    <3>2. /\ n \in Nat /\ n > 0 /\ n \in Positions(buffer, s)
          /\ evicted' = [evicted EXCEPT ![s] = [from |-> a, through |-> n]]
      BY <1>3, <2>3, <3>1, EvictRange DEF EntrySet
    <3>3. r \in RangeSet /\ r.from \in Nat /\ r.through \in Nat
      BY Zenon DEF TypeOK, RangeSet
    <3>4. evicted'[s] = [from |-> a, through |-> n]
      BY <3>2 DEF TypeOK
    <3>5. Span(evicted'[s]) = (a + 1)..n
      BY <3>4 DEF Span
    <3>6. /\ \A p \in Positions(kept, s) : n < p
          /\ Positions(buffer, s) = Positions(kept, s) \cup {n}
      BY <1>3, <2>3, <3>1, PositionsTail, Zenon DEF TypeOK, BufferInv
    <3>7. CASE Busy(r)
      <4>1. r.from + 1 \in Span(r) /\ r.through \in Span(r) /\ a = r.from
        BY <3>3, <3>7 DEF Busy, Span
      <4>2. r.through < n
        BY <3>2, <4>1, LineBounds DEF Line, InLine, Before
      <4>3. Span(r) \subseteq (a + 1)..n /\ n \in (a + 1)..n
        BY <3>2, <3>3, <4>1, <4>2 DEF Span
      <4>4. base[s] < r.from + 1
        BY <4>1, LineBounds
      <4>5. /\ \A d \in Dispatched(s) \cup Span(readers[s]) : d < r.from + 1
        BY <4>1, LineBounds DEF Line, InLine, Before
      <4>6. n <= Len(journal[s]) /\ \A w \in Written(s) : n < w
        BY <3>2, LineBounds DEF Line, InLine, Before
      <4>7. \A w \in Written(s) \cup Dispatched(s) \cup Span(readers[s])
                     \cup Positions(kept, s) : w \in Nat
        BY <3>6, LineBounds
      <4>8. (a + 1)..n \subseteq (base[s] + 1)..Len(journal[s])
        BY <3>2, <3>3, <4>1, <4>4, <4>6, LineBounds
      <4>9. /\ Before(Dispatched(s), (a + 1)..n)
            /\ Before(Span(readers[s]), (a + 1)..n)
        BY <3>3, <4>1, <4>5, <4>7 DEF Before
      <4>10. /\ Before((a + 1)..n, Positions(kept, s))
             /\ Before((a + 1)..n, Written(s))
        BY <3>2, <3>3, <3>6, <4>6, <4>7 DEF Before
      <4> HIDE DEF a, n, kept
      <4> QED BY <3>5, <3>6, <4>3, <4>8, <4>9, <4>10
    <3>8. CASE ~Busy(r)
      <4>1. Span(r) = {}
        BY <3>3, <3>8 DEF Busy, Span
      <4>2. (a + 1)..n = {n}
        BY <3>2, <3>8
      <4>3. Before(Dispatched(s), {n}) /\ Before(Span(readers[s]), {n})
        BY <3>2, LineBounds DEF Line, InLine, Before
      <4>4. Before({n}, Positions(kept, s)) /\ Before({n}, Written(s))
        BY <3>2, <3>6, LineBounds DEF Line, InLine, Before
      <4>5. n \in (base[s] + 1)..Len(journal[s])
        BY <3>2, LineBounds
      <4> HIDE DEF a, n, kept
      <4> QED BY <3>5, <3>6, <4>1, <4>2, <4>3, <4>4, <4>5, Zenon
    <3> QED BY <3>7, <3>8
  <2> QED BY <2>1, <2>2, <2>3
<1>8. BufferInv'
  <2>1. \A p \in Positions(kept, t) : p < e.position
    BY <1>1, <1>2, <1>7, LineBounds DEF Line, InLine, Before
  <2> HIDE DEF kept, e
  <2>2. Sorted(Append(kept, e))
    BY <1>2, <1>6, <2>1, SortedAppend
  <2> QED BY <1>5, <2>2 DEF BufferInv
<1>9. LineInv'
  <2> SUFFICES ASSUME NEW s \in Sources PROVE Line(s)' /\ Rising(order[s])'
    BY DEF LineInv
  <2>1. /\ Dispatched(s)' = Dispatched(s) /\ New(s)' = New(s)
        /\ Span(readers[s])' = Span(readers[s])
        /\ Rising(order[s])' = Rising(order[s])
    BY <1>4 DEF Dispatched, New, Events, Span, Rising
  <2>2. Positions(buffer, s)' = IF s = t THEN Positions(kept, s) \cup Written(s)
                                ELSE Positions(kept, s)
    <3> HIDE DEF kept
    <3>1. Positions(buffer', s) = IF e.source = s
                                  THEN Positions(kept, s) \cup {e.position}
                                  ELSE Positions(kept, s)
      BY <1>2, <1>5, <1>6, PositionsAppend, Zenon
    <3> QED BY <1>1, <1>2, <3>1
  <2>3. Written(s)' = IF s = t THEN {} ELSE Written(s)
    BY WrittenMoves
  <2>4. Span(evicted[s])' = Span(evicted'[s])
    BY DEF Span
  <2> HIDE DEF kept, t
  <2>5. InLine(Dispatched(s), Span(readers[s]), Span(evicted'[s]),
               Positions(kept, s), Written(s))
    BY <1>7, LineBounds DEF Line, InLine, Before
  <2>6. InLine(Dispatched(s), Span(readers[s]), Span(evicted[s]),
               Positions(buffer, s), Written(s))'
    <3>1. CASE s = t
      BY <2>1, <2>2, <2>3, <2>4, <2>5, <3>1 DEF InLine, Before
    <3>2. CASE s # t
      BY <2>1, <2>2, <2>3, <2>4, <2>5, <3>2
    <3> QED BY <3>1, <3>2
  <2>7. /\ Dispatched(s)' \subseteq New(s)'
        /\ Span(readers[s])' \subseteq (base[s]' + 1)..Len(journal[s])'
        /\ Span(evicted[s])' \subseteq (base[s]' + 1)..Len(journal[s])'
        /\ Positions(buffer, s)' \subseteq New(s)'
        /\ Written(s)' \subseteq New(s)'
    BY <1>4, <1>7, <2>1, <2>2, <2>3, <2>4, LineBounds DEF Line
  <2>8. alive' => New(s)' \subseteq Dispatched(s)' \cup Span(readers[s])'
               \cup Span(evicted[s])' \cup Positions(buffer, s)' \cup Written(s)'
    BY <1>4, <1>7, <2>1, <2>2, <2>3, <2>4, LineBounds DEF Line
  <2> QED BY <2>1, <2>6, <2>7, <2>8, LineBounds DEF Line
<1> QED BY <1>8, <1>9

\* The evicted ranges are taken when nothing is being replayed.
LEMMA TakeEvictedLine ==
  ASSUME Inv, TakeEvicted
  PROVE  LineInv'
<1> USE DEF Inv
<1>1. UNCHANGED <<journal, base, alive, order, buffer, cap>>
  BY DEF TakeEvicted, disk
<1> SUFFICES ASSUME NEW s \in Sources PROVE Line(s)' /\ Rising(order[s])'
  BY DEF LineInv
<1>2. /\ Dispatched(s)' = Dispatched(s) /\ New(s)' = New(s)
      /\ Positions(buffer, s)' = Positions(buffer, s)
      /\ Written(s)' = Written(s) /\ Rising(order[s])' = Rising(order[s])
  BY <1>1 DEF Dispatched, New, Events, Positions, Written, Rising
<1>3. readers = Nothing /\ readers' = evicted /\ evicted' = Nothing
  BY DEF TakeEvicted, RecoveredInv
<1>4. /\ Span(readers[s]) = {} /\ Span(readers[s])' = Span(evicted[s])
      /\ Span(evicted[s])' = {}
  BY <1>3, EmptyRanges DEF Span
<1> QED BY <1>1, <1>2, <1>4, LineBounds DEF Line, InLine, Before

\* A replay that has nothing left hands over to the queue.
LEMMA ReplayedLine ==
  ASSUME Inv, Replayed
  PROVE  LineInv'
<1> USE DEF Inv
<1>1. UNCHANGED <<journal, base, alive, order, evicted, buffer, cap>>
  BY DEF Replayed, disk, queue
<1> SUFFICES ASSUME NEW s \in Sources PROVE Line(s)' /\ Rising(order[s])'
  BY DEF LineInv
<1>2. /\ Dispatched(s)' = Dispatched(s) /\ New(s)' = New(s)
      /\ Positions(buffer, s)' = Positions(buffer, s)
      /\ Span(evicted[s])' = Span(evicted[s])
      /\ Written(s)' = Written(s) /\ Rising(order[s])' = Rising(order[s])
  BY <1>1 DEF Dispatched, New, Events, Positions, Span, Written, Rising
<1>3. Span(readers[s]) = {}
  BY DEF Replayed, Busy, Span, TypeOK, RangeSet
<1>4. Span(readers[s])' = {}
  BY EmptyRanges DEF Replayed, Span
<1> QED BY <1>1, <1>2, <1>3, <1>4, LineBounds DEF Line, InLine, Before

\* What a dispatch adds to the order of its source.
LEMMA DispatchOrder ==
  ASSUME TypeOK, NEW e \in EntrySet, Dispatch(e), NEW s \in Sources
  PROVE  /\ s # e.source => order'[s] = order[s] /\ advanced'[s] = advanced[s]
         /\ s = e.source => /\ Dispatched(s)' = Dispatched(s) \cup {e.position}
                            /\ order'[s] = Append(order[s], e.position)
                            /\ advanced'[s] = Larger(advanced[s], e.position)
                            /\ Rising(order[s])
                               /\ (\A d \in Dispatched(s) : d < e.position)
                                 => Rising(order'[s])
<1>1. e.source \in Sources /\ e.position \in Nat
  BY DEF EntrySet
<1>2. order[s] \in Seq(Nat)
  BY DEF TypeOK
<1>3. s # e.source => order'[s] = order[s] /\ advanced'[s] = advanced[s]
  BY DEF Dispatch, TypeOK
<1>4. ASSUME s = e.source
      PROVE  /\ Dispatched(s)' = Dispatched(s) \cup {e.position}
             /\ order'[s] = Append(order[s], e.position)
             /\ advanced'[s] = Larger(advanced[s], e.position)
             /\ Rising(order[s]) /\ (\A d \in Dispatched(s) : d < e.position)
                  => Rising(order'[s])
  <2>1. /\ order'[s] = Append(order[s], e.position)
        /\ advanced'[s] = Larger(advanced[s], e.position)
    BY <1>1, <1>4, Zenon DEF Dispatch, TypeOK
  <2>2. Dispatched(s)' = Dispatched(s) \cup {e.position}
    BY <1>1, <1>2, <2>1, OrderAppend DEF Dispatched
  <2>3. /\ Len(order[s]) \in Nat
        /\ Len(Append(order[s], e.position)) = Len(order[s]) + 1
        /\ \A k \in 1..Len(order[s]) :
             Append(order[s], e.position)[k] = order[s][k]
        /\ Append(order[s], e.position)[Len(order[s]) + 1] = e.position
    BY <1>1, <1>2, AppendProperties
  <2>4. ASSUME Rising(order[s]), \A d \in Dispatched(s) : d < e.position
        PROVE  Rising(Append(order[s], e.position))
    <3>1. \A k \in 1..Len(order[s]) : order[s][k] < e.position
      BY <2>4 DEF Dispatched
    <3> QED BY <2>3, <2>4, <3>1 DEF Rising
  <2> QED BY <2>1, <2>2, <2>4
<1> QED BY <1>3, <1>4

\* The head of the buffer is the next event of its source.
LEMMA TakeEventLine ==
  ASSUME Inv, TakeEvent
  PROVE  LineInv' /\ BufferInv'
<1> USE DEF Inv
<1> DEFINE h == Head(buffer)
<1>1. UNCHANGED <<journal, base, alive, evicted, readers, cap>>
  BY DEF TakeEvent, disk, worker
<1>2. /\ buffer # <<>> /\ buffer' = Tail(buffer) /\ Dispatch(h)
      /\ evicted = Nothing /\ readers = Nothing
  BY DEF TakeEvent, RecoveredInv
<1>3. buffer \in Seq(EntrySet) /\ Sorted(buffer)
  BY DEF TypeOK, BufferInv
<1>4. h \in EntrySet
  BY <1>2, <1>3, HeadTailProperties
<1>5. BufferInv'
  <2>1. CASE Sources = {}
    BY <1>4, <2>1 DEF EntrySet
  <2>2. CASE Sources # {}
    BY <1>2, <1>3, <2>2, PositionsTail DEF BufferInv
  <2> QED BY <2>1, <2>2
<1>6. ASSUME NEW s \in Sources PROVE Line(s)' /\ Rising(order[s])'
  <2>1. /\ New(s)' = New(s) /\ Written(s)' = Written(s)
        /\ Span(readers[s]) = {} /\ Span(evicted[s]) = {}
        /\ Span(readers[s])' = {} /\ Span(evicted[s])' = {}
    BY <1>1, <1>2, EmptyRanges DEF New, Events, Written, Span
  <2>2. Positions(buffer, s)' = Positions(Tail(buffer), s)
    BY <1>2 DEF Positions
  <2>3. CASE h.source # s
    <3>1. Positions(buffer, s)' = Positions(buffer, s)
      BY <1>2, <1>3, <2>2, <2>3, PositionsTail
    <3>2. order'[s] = order[s]
      BY <1>2, <1>4, <2>3, DispatchOrder
    <3>3. Dispatched(s)' = Dispatched(s)
      BY <3>2 DEF Dispatched
    <3> QED BY <1>1, <2>1, <3>1, <3>2, <3>3, LineBounds DEF Line, InLine, Before
  <2>4. CASE h.source = s
    <3> DEFINE n == h.position
    <3>1. /\ n \in Positions(buffer, s)
          /\ \A p \in Positions(Tail(buffer), s) : n < p
          /\ Positions(buffer, s) = Positions(Tail(buffer), s) \cup {n}
      BY <1>2, <1>3, <2>4, PositionsTail
    <3>2. \A d \in Dispatched(s) : d < n
      BY <3>1, LineBounds DEF Line, InLine, Before
    <3>3. Dispatched(s)' = Dispatched(s) \cup {n} /\ Rising(order'[s])
      BY <1>2, <1>4, <2>4, <3>2, LineBounds, DispatchOrder
    <3>4. /\ Before(Dispatched(s), Positions(buffer, s))
          /\ Before(Dispatched(s), Written(s))
          /\ Before(Positions(buffer, s), Written(s))
      BY LineBounds DEF Line, InLine
    <3>5. InLine(Dispatched(s), {}, {}, Positions(buffer, s), Written(s))'
      <4> HIDE DEF n, h
      <4>1. InLine(Dispatched(s) \cup {n}, {}, {}, Positions(Tail(buffer), s),
                   Written(s))
        BY <3>1, <3>4 DEF InLine, Before
      <4> QED BY <2>1, <2>2, <3>3, <4>1
    <3>6. /\ Dispatched(s) \cup Positions(buffer, s) \cup Written(s) \subseteq New(s)
          /\ alive => New(s) \subseteq Dispatched(s) \cup Positions(buffer, s)
                                       \cup Written(s)
      BY <2>1, LineBounds DEF Line
    <3>7. Dispatched(s)' \cup Positions(buffer, s)'
            = Dispatched(s) \cup Positions(buffer, s)
      BY <2>2, <3>1, <3>3
    <3> QED BY <1>1, <2>1, <3>3, <3>5, <3>6, <3>7 DEF Line
  <2> QED BY <2>3, <2>4
<1> QED BY <1>5, <1>6 DEF LineInv

\* The next record of a range is dispatched, or skipped if no event.
LEMMA ReplayLine ==
  ASSUME Inv, NEW t \in Sources, ReplayNext(t)
  PROVE  LineInv'
<1> USE DEF Inv
<1> DEFINE n == readers[t].from + 1
<1>1. UNCHANGED <<journal, base, alive, evicted, buffer, cap>>
  BY DEF ReplayNext, disk, queue
<1>2. readers[t] \in RangeSet /\ n \in Nat
  BY DEF TypeOK, RangeSet
<1>3. readers' = [readers EXCEPT ![t] = [from |-> n, through |-> readers[t].through]]
  <2>1. [readers[t] EXCEPT !.from = n] = [from |-> n, through |-> readers[t].through]
    BY <1>2 DEF RangeSet
  <2>2. readers' = [readers EXCEPT ![t] = [readers[t] EXCEPT !.from = n]]
    BY DEF ReplayNext
  <2> QED BY <2>1, <2>2, Zenon
<1>4. Entry(t, n) \in EntrySet /\ Entry(t, n).source = t /\ Entry(t, n).position = n
  BY <1>2 DEF Entry, EntrySet
<1>5. IF journal[t][n] = "event" THEN Dispatch(Entry(t, n))
                                 ELSE UNCHANGED <<order, advanced>>
  BY DEF ReplayNext
<1> SUFFICES ASSUME NEW s \in Sources PROVE Line(s)' /\ Rising(order[s])'
  BY DEF LineInv
<1>6. /\ New(s)' = New(s) /\ Written(s)' = Written(s)
      /\ Span(evicted[s])' = Span(evicted[s])
      /\ Positions(buffer, s)' = Positions(buffer, s)
  BY <1>1 DEF New, Events, Written, Span, Positions
<1>7. CASE s # t
  <2>1. Span(readers[s])' = Span(readers[s])
    BY <1>3, <1>7 DEF Span, TypeOK
  <2>2. order'[s] = order[s]
    BY <1>4, <1>5, <1>7, DispatchOrder
  <2>3. Dispatched(s)' = Dispatched(s)
    BY <2>2 DEF Dispatched
  <2> QED BY <1>1, <1>6, <2>1, <2>2, <2>3, LineBounds DEF Line
<1>8. CASE s = t
  <2> DEFINE rest == (n + 1)..readers[s].through
  <2>1. readers'[s] = [from |-> n, through |-> readers[s].through]
    BY <1>3, <1>8 DEF TypeOK
  <2>2. Span(readers[s])' = rest
    BY <2>1 DEF Span
  <2>3. Span(readers[s]) = rest \cup {n} /\ \A p \in rest : n < p
    BY <1>2, <1>8 DEF Span, RangeSet, ReplayNext, Busy
  <2>4. \A d \in Dispatched(s) : d < n
    BY <2>3, LineBounds DEF Line, InLine, Before
  <2>5. n \in 1..Len(journal[s]) /\ base[s] < n
    BY <2>3, LineBounds
  <2>6. /\ Before(Dispatched(s), Span(readers[s]))
        /\ Before(Dispatched(s), Span(evicted[s]))
        /\ Before(Dispatched(s), Positions(buffer, s))
        /\ Before(Dispatched(s), Written(s))
        /\ Before(Span(readers[s]), Span(evicted[s]))
        /\ Before(Span(readers[s]), Positions(buffer, s))
        /\ Before(Span(readers[s]), Written(s))
        /\ Before(Span(evicted[s]), Positions(buffer, s))
        /\ Before(Span(evicted[s]), Written(s))
        /\ Before(Positions(buffer, s), Written(s))
    BY LineBounds DEF Line, InLine
  <2>7. CASE journal[s][n] = "event"
    <3>1. Dispatched(s)' = Dispatched(s) \cup {n} /\ Rising(order'[s])
      BY <1>4, <1>5, <1>8, <2>4, <2>7, LineBounds, DispatchOrder
    <3>2. n \in New(s)
      BY <2>5, <2>7 DEF New, Events
    <3>3. InLine(Dispatched(s) \cup {n}, rest, Span(evicted[s]),
                 Positions(buffer, s), Written(s))
      <4> HIDE DEF n, rest
      <4> QED BY <2>3, <2>6 DEF InLine, Before
    <3> HIDE DEF n, rest
    <3> QED BY <1>1, <1>6, <2>2, <2>3, <3>1, <3>2, <3>3, LineBounds DEF Line
  <2>8. CASE journal[s][n] # "event"
    <3>1. UNCHANGED order
      BY <1>5, <1>8, <2>8
    <3>2. Dispatched(s)' = Dispatched(s)
      BY <3>1 DEF Dispatched
    <3>3. n \notin New(s)
      BY <2>8 DEF New, Events
    <3>4. InLine(Dispatched(s), rest, Span(evicted[s]),
                 Positions(buffer, s), Written(s))
      <4> HIDE DEF n, rest
      <4> QED BY <2>3, <2>6 DEF InLine, Before
    <3> HIDE DEF n, rest
    <3> QED BY <1>1, <1>6, <2>2, <2>3, <3>1, <3>2, <3>3, <3>4, LineBounds DEF Line
  <2> QED BY <2>7, <2>8
<1> QED BY <1>7, <1>8

\* A daemon that ends has dispatched nothing.
LEMMA EndsLine ==
  ASSUME Inv, Ends
  PROVE  LineInv' /\ BufferInv'
<1> USE DEF Inv
<1>1. Volatile /\ alive' = FALSE /\ UNCHANGED <<journal, base>>
  BY EndsKeeps DEF disk
<1>2. BufferInv'
  BY <1>1, EmptySeq DEF Volatile, BufferInv, Sorted
<1>3. ASSUME NEW s \in Sources PROVE Line(s)' /\ Rising(order[s])'
  <2>1. /\ Dispatched(s)' = {} /\ Rising(order[s])'
    BY <1>1 DEF Volatile, Dispatched, Rising
  <2>2. Written(s)' = {}
    BY <1>1 DEF Volatile, Written, Idle
  <2>3. /\ Span(readers[s])' = {} /\ Span(evicted[s])' = {}
        /\ Positions(buffer, s)' = {}
    BY <1>1, EmptyRanges DEF Volatile, Span
  <2> QED BY <1>1, <2>1, <2>2, <2>3 DEF Line, InLine, Before
<1> QED BY <1>2, <1>3 DEF LineInv

\* What a daemon finds in the journals is history.
LEMMA StartLine ==
  ASSUME Inv, Start
  PROVE  LineInv' /\ BufferInv'
<1> USE DEF Inv
<1>1. Fresh /\ UNCHANGED <<journal, cap, buffer, evicted, readers, order>>
  BY DEF Start, DownInv, disk, queue, worker
<1>2. BufferInv'
  BY <1>1 DEF BufferInv
<1>3. ASSUME NEW s \in Sources PROVE Line(s)' /\ Rising(order[s])'
  <2>1. /\ Dispatched(s)' = {} /\ Rising(order[s])'
    BY <1>1 DEF Fresh, Dispatched, Rising
  <2>2. Written(s)' = {}
    BY <1>1 DEF Fresh, Written, Idle
  <2>3. /\ Span(readers[s])' = {} /\ Span(evicted[s])' = {}
        /\ Positions(buffer, s)' = {}
    BY <1>1, EmptyRanges DEF Fresh, Span
  <2>4. New(s)' = {}
    <3>1. base'[s] = Len(journal'[s]) /\ Len(journal'[s]) \in Nat
      BY <1>1, LineBounds DEF Start
    <3> QED BY <3>1 DEF New, Events
  <2> QED BY <2>1, <2>2, <2>3, <2>4 DEF Line, InLine, Before
<1> QED BY <1>2, <1>3 DEF LineInv

\* All steps keep the line.
LEMMA LineStep ==
  ASSUME Inv, [Next]_vars
  PROVE  LineInv' /\ BufferInv'
<1> USE DEF Inv
<1>1. ASSUME UNCHANGED <<journal, base, order, readers, evicted, buffer>>,
             alive' => alive, \A s \in Sources : Written(s)' = Written(s)
      PROVE  LineInv' /\ BufferInv'
  BY <1>1, KeepLine DEF BufferInv
<1>2. CASE UNCHANGED vars
  BY <1>1, <1>2 DEF vars, disk, queue, worker, Written
<1>3. CASE Quiet
  BY <1>1, <1>3, QuietKeeps DEF Written
<1>4. ASSUME NEW c \in Captures, Capture(c) PROVE LineInv' /\ BufferInv'
  <2>1. CASE (\E s \in Sources : Enter(c, s)) \/ Lock(c) \/ Mark(c) \/ Wake(c)
    <3>1. UNCHANGED <<journal, base, order, readers, evicted, buffer, alive>>
      BY <2>1 DEF Enter, Lock, Mark, Wake, disk, queue, worker
    <3> QED BY <1>1, <2>1, <3>1, WrittenMoves
  <2>2. CASE AppendEvent(c)
    BY <2>2, AppendLine, Zenon DEF AppendEvent, queue, BufferInv
  <2>3. CASE Push(c)
    BY <2>3, PushLine
  <2> QED BY <1>4, <2>1, <2>2, <2>3 DEF Capture
<1>5. ASSUME NEW s \in Sources, ReplayNext(s) \/ Control(s)
      PROVE  LineInv' /\ BufferInv'
  BY <1>5, ReplayLine, ControlLine DEF ReplayNext, Control, queue, BufferInv
<1>6. CASE TakeEvicted \/ Replayed
  BY <1>6, TakeEvictedLine, ReplayedLine DEF TakeEvicted, Replayed, queue, BufferInv
<1> QED BY <1>2, <1>3, <1>4, <1>5, <1>6, StepCases, TakeEventLine, EndsLine, StartLine

-----------------------------------------------------------------------------
(* Startup recovery.                                                        *)

\* Journals only grow, and the positions taken from a line lie in them.
LEMMA BoundsStep ==
  ASSUME Inv, [Next]_vars
  PROVE  BoundsInv'
<1> USE DEF Inv
<1>1. \A s \in Sources : /\ Len(journal[s]) \in Nat /\ base[s] \in Nat
                         /\ advanced[s] \in Nat /\ bound[s] \in Nat
                         /\ snapshot[s] \in Nat \cup {Unset}
                         /\ cutoffs[s] \in Nat \cup {Unset}
  BY LenProperties DEF TypeOK
<1>2. CASE UNCHANGED <<journal, base, advanced, bound, snapshot>>
  BY <1>2 DEF BoundsInv
<1>3. ASSUME NEW c \in Captures, Capture(c) PROVE BoundsInv'
  <2>1. CASE AppendEvent(c)
    <3>1. /\ cap[c].source \in Sources
          /\ journal' = [journal EXCEPT ![cap[c].source] = Append(@, "event")]
          /\ UNCHANGED <<base, advanced, bound, snapshot>>
      BY <2>1, CapRecords DEF AppendEvent, TypeOK, startup
    <3>2. \A s \in Sources : Len(journal[s]) <= Len(journal'[s]) /\ Len(journal'[s]) \in Nat
      BY <3>1, JournalGrows
    <3> QED BY <1>1, <3>1, <3>2 DEF BoundsInv, Unset
  <2>2. CASE ~AppendEvent(c)
    BY <1>2, <1>3, <2>2 DEF Capture, Enter, Lock, Mark, Push, Wake, startup, disk
  <2> QED BY <2>1, <2>2
<1>4. CASE Recover
  <2>1. ASSUME NEW s \in Sources, Snapshot(s) PROVE BoundsInv'
    BY <1>1, <2>1 DEF Snapshot, BoundsInv, TypeOK, disk
  <2>2. ASSUME NEW s \in Sources, Discover(s) PROVE BoundsInv'
    <3>1. /\ UNCHANGED <<journal, base, advanced, snapshot>>
          /\ alive /\ finding /\ snapshot[s] # Unset
      BY <2>2 DEF Discover, disk
    <3> DEFINE through == IF cutoffs[s] = Unset THEN snapshot[s]
                          ELSE Smaller(snapshot[s], cutoffs[s])
    <3>2. through = base[s]
      BY <1>1, <3>1 DEF FindingInv, BoundsInv, Smaller, Unset
    <3>3. bound' = [bound EXCEPT ![s] = IF committed[s] < through THEN through ELSE 0]
      BY <2>2 DEF Discover
    <3>4. \A r \in Sources : bound'[r] \in {0, base[r]}
      BY <3>2, <3>3, Zenon DEF BoundsInv, TypeOK
    <3> QED BY <3>1, <3>4 DEF BoundsInv
  <2>3. ASSUME NEW s \in Sources, Resume(s) PROVE BoundsInv'
    BY <1>1, <2>3 DEF Resume, BoundsInv, TypeOK, Larger, disk
  <2>4. CASE Discovered \/ StartDraining \/ \E s \in Sources : Overlook(s)
    BY <1>2, <2>4 DEF Discovered, StartDraining, Overlook, startup, disk
  <2> QED BY <1>4, <2>1, <2>2, <2>3, <2>4 DEF Recover
<1>5. ASSUME NEW e \in EntrySet, Dispatch(e), e.position <= Len(journal[e.source]),
             UNCHANGED <<journal, base, bound, snapshot>>
      PROVE  BoundsInv'
  <2>1. e.source \in Sources /\ e.position \in Nat
    BY DEF EntrySet
  <2> QED BY <1>1, <1>5, <2>1, Zenon DEF BoundsInv, Dispatch, Larger, TypeOK
<1>6. CASE TakeEvent
  <2>1. buffer # <<>> /\ Head(buffer) \in EntrySet
    BY <1>6, HeadTailProperties DEF TakeEvent, TypeOK
  <2>2. /\ Head(buffer).position \in Positions(buffer, Head(buffer).source)
        /\ Head(buffer).source \in Sources
    BY <2>1, EvictRange DEF EntrySet
  <2>3. Head(buffer).position <= Len(journal[Head(buffer).source])
    BY <2>2, LineBounds
  <2> QED BY <1>5, <1>6, <2>1, <2>3 DEF TakeEvent, disk, startup
<1>7. ASSUME NEW s \in Sources, ReplayNext(s) PROVE BoundsInv'
  <2> DEFINE n == readers[s].from + 1
  <2>1. n \in Span(readers[s])
    BY <1>7 DEF ReplayNext, Busy, Span, TypeOK, RangeSet
  <2>2. n <= Len(journal[s]) /\ n \in Nat
    BY <2>1, LineBounds
  <2>3. Entry(s, n) \in EntrySet /\ Entry(s, n).position = n /\ Entry(s, n).source = s
    BY <2>2 DEF Entry, EntrySet
  <2>4. UNCHANGED <<journal, base, bound, snapshot>>
    BY <1>7 DEF ReplayNext, disk, startup
  <2>5. Dispatch(Entry(s, n)) \/ advanced' = advanced
    BY <1>7 DEF ReplayNext
  <2> QED BY <1>2, <1>5, <2>2, <2>3, <2>4, <2>5
<1>8. ASSUME NEW s \in Sources, Control(s) PROVE BoundsInv'
  <2>1. /\ journal' = [journal EXCEPT ![s] = Append(@, "control")]
        /\ UNCHANGED <<base, bound, snapshot>>
        /\ advanced' = [advanced EXCEPT ![s] = Len(journal[s]) + 1]
    BY <1>8 DEF Control, startup
  <2>2. /\ \A r \in Sources : Len(journal[r]) <= Len(journal'[r])
                              /\ Len(journal'[r]) \in Nat
        /\ Len(journal'[s]) = Len(journal[s]) + 1
    BY <2>1, EventsAppend, JournalGrows, Zenon
  <2>3. \A r \in Sources : advanced'[r] = IF r = s THEN Len(journal[s]) + 1
                                                   ELSE advanced[r]
    BY <2>1 DEF TypeOK
  <2>4. \A r \in Sources : advanced'[r] <= Len(journal'[r])
    BY <1>1, <2>2, <2>3 DEF BoundsInv
  <2> QED BY <1>1, <2>1, <2>2, <2>4 DEF BoundsInv, Unset
<1>9. CASE Ends
  <2>1. Volatile /\ UNCHANGED <<journal, base>>
    BY <1>9, EndsKeeps DEF disk
  <2> QED BY <1>1, <2>1 DEF Volatile, BoundsInv, Unset
<1>10. CASE Start
  <2>1. /\ Fresh /\ UNCHANGED <<journal, advanced, bound, snapshot>>
        /\ base' = [s \in Sources |-> Len(journal[s])]
    BY <1>10 DEF Start, DownInv, disk, startup
  <2> QED BY <1>1, <2>1 DEF Fresh, BoundsInv
<1>11. CASE Quiet /\ ~Recover
  BY <1>2, <1>11 DEF Quiet, Receive, Serve, ReplayFails, Flush, Translate,
       BeginDrain, CloseGate, SettleTwice, Settle, Retire, StopWorker, Closing,
       startup, disk
<1>12. CASE TakeEvicted \/ Replayed \/ UNCHANGED vars
  BY <1>2, <1>12 DEF TakeEvicted, Replayed, vars, disk, startup
<1> QED BY <1>3, <1>4, <1>6, <1>7, <1>8, <1>9, <1>10, <1>11, <1>12, StepCases

\* A capture leaves a cutoff before its journal grows.
LEMMA FindingStep ==
  ASSUME Inv, [Next]_vars
  PROVE  FindingInv'
<1> USE DEF Inv
<1>1. \A s \in Sources : /\ Len(journal[s]) \in Nat /\ base[s] \in Nat
                         /\ advanced[s] \in Nat /\ bound[s] \in Nat
                         /\ committed[s] \in Nat
                         /\ snapshot[s] \in Nat \cup {Unset}
                         /\ cutoffs[s] \in Nat \cup {Unset}
  BY LenProperties DEF TypeOK
<1>2. CASE /\ UNCHANGED <<alive, finding, task, journal, base, cutoffs, snapshot,
                          advanced, todo, committed, bound>>
           /\ \A c \in Captures : cap'[c] = cap[c] \/ cap'[c].at # "marked"
  BY <1>2 DEF FindingInv
<1>3. ASSUME NEW c \in Captures, Capture(c) PROVE FindingInv'
  <2>1. CASE (\E s \in Sources : Enter(c, s)) \/ Lock(c) \/ Push(c) \/ Wake(c)
    <3>1. UNCHANGED <<alive, finding, task, journal, base, cutoffs, snapshot,
                      advanced, todo, committed, bound>>
      BY <2>1 DEF Enter, Lock, Push, Wake, disk, startup, worker
    <3>2. \A d \in Captures : cap'[d] = cap[d] \/ cap'[d].at # "marked"
      <4>1. CASE \E s \in Sources : Enter(c, s)
        <5>1. PICK s \in Sources : CapBecomes(c, [at |-> "entered", source |-> s])
          BY <4>1, CaptureMoves, Zenon
        <5> QED BY <5>1 DEF CapBecomes
      <4>2. CASE Lock(c)
        <5>1. CapBecomes(c, [at |-> "locked", source |-> cap[c].source])
          BY <4>2, CaptureMoves, Zenon
        <5> QED BY <5>1 DEF CapBecomes
      <4>3. CASE Push(c)
        <5>1. CapBecomes(c, [at |-> "pushed", source |-> cap[c].source,
                               position |-> cap[c].position])
          BY <4>3, CaptureMoves, Zenon
        <5> QED BY <5>1 DEF CapBecomes
      <4>4. CASE Wake(c)
        <5>1. CapBecomes(c, Idle)
          BY <4>4, CaptureMoves, Zenon
        <5> QED BY <5>1 DEF CapBecomes, Idle
      <4> QED BY <2>1, <4>1, <4>2, <4>3, <4>4
    <3> QED BY <1>2, <3>1, <3>2
  <2>2. CASE Mark(c)
    <3> DEFINE t == cap[c].source
    <3>1. /\ UNCHANGED <<alive, finding, task, journal, base, snapshot, advanced,
                         todo, committed, bound>>
          /\ cutoffs' = IF ~finding \/ cutoffs[t] # Unset THEN cutoffs
                        ELSE [cutoffs EXCEPT ![t] = Len(journal[t])]
      BY <2>2 DEF Mark, disk, worker
    <3>2. t \in Sources
      BY <2>2, CapRecords DEF Mark, TypeOK
    <3>3. CapBecomes(c, [at |-> "marked", source |-> t])
      BY <2>2, CaptureMoves, Zenon
    <3>4. ASSUME finding, alive
          PROVE  /\ cutoffs'[t] # Unset
                 /\ \A s \in Sources :
                      /\ cutoffs'[s] = Unset => Len(journal[s]) = base[s]
                      /\ cutoffs'[s] # Unset => cutoffs'[s] = base[s]
                 /\ \A s \in Sources : cutoffs[s] # Unset => cutoffs'[s] # Unset
      <4>1. CASE cutoffs[t] # Unset
        BY <3>1, <3>4, <4>1 DEF FindingInv
      <4>2. CASE cutoffs[t] = Unset
        <5>1. cutoffs' = [cutoffs EXCEPT ![t] = base[t]]
          BY <3>1, <3>2, <3>4, <4>2, Zenon DEF FindingInv
        <5>2. base[t] # Unset
          BY <1>1, <3>2 DEF Unset
        <5> QED BY <3>2, <3>4, <5>1, <5>2, Zenon DEF FindingInv, TypeOK
      <4> QED BY <4>1, <4>2
    <3>5. ASSUME finding, alive, NEW d \in Captures, cap'[d].at = "marked"
          PROVE  cutoffs'[cap'[d].source] # Unset
      <4>1. CASE d = c
        BY <3>3, <3>4, <3>5, <4>1 DEF CapBecomes
      <4>2. CASE d # c
        <5>1. cap'[d] = cap[d] /\ cap[d].source \in Sources
          BY <3>3, <3>5, <4>2, CapRecords DEF CapBecomes, TypeOK
        <5>2. cutoffs[cap[d].source] # Unset
          BY <3>5, <5>1 DEF FindingInv
        <5> QED BY <3>4, <3>5, <5>1, <5>2
      <4> QED BY <4>1, <4>2
    <3> QED BY <3>1, <3>4, <3>5 DEF FindingInv
  <2>3. CASE AppendEvent(c)
    <3> DEFINE t == cap[c].source
    <3>1. /\ cap[c].at = "marked" /\ t \in Sources
          /\ journal' = [journal EXCEPT ![t] = Append(@, "event")]
          /\ UNCHANGED <<alive, finding, task, base, cutoffs, snapshot, advanced,
                         todo, committed, bound>>
      BY <2>3, CapRecords DEF AppendEvent, TypeOK, startup, worker
    <3>2. CapBecomes(c, [at |-> "appended", source |-> t,
                         position |-> Len(journal[t]) + 1])
      BY <2>3, CaptureMoves, Zenon
    <3>3. \A s \in Sources \ {t} : journal'[s] = journal[s]
      BY <3>1
    <3>4. alive /\ finding => cutoffs[t] # Unset
      BY <3>1 DEF FindingInv
    <3>5. \A d \in Captures : cap'[d] = cap[d] \/ cap'[d].at # "marked"
      BY <3>2 DEF CapBecomes
    <3> QED BY <3>1, <3>3, <3>4, <3>5 DEF FindingInv
  <2> QED BY <1>3, <2>1, <2>2, <2>3 DEF Capture
<1>4. CASE Recover
  <2>1. ASSUME NEW s \in Sources, Snapshot(s) PROVE FindingInv'
    <3>1. /\ UNCHANGED <<alive, finding, task, journal, base, cutoffs, advanced,
                         todo, committed, bound, cap>>
          /\ snapshot' = [snapshot EXCEPT ![s] = Len(journal[s])]
      BY <2>1 DEF Snapshot, disk, worker
    <3>2. \A r \in Sources : snapshot'[r] = IF r = s THEN Len(journal[s]) ELSE snapshot[r]
      BY <3>1 DEF TypeOK
    <3> QED BY <1>1, <3>1, <3>2 DEF FindingInv, BoundsInv
  <2>2. ASSUME NEW s \in Sources, Discover(s) PROVE FindingInv'
    <3> DEFINE through == IF cutoffs[s] = Unset THEN snapshot[s]
                          ELSE Smaller(snapshot[s], cutoffs[s])
    <3>1. /\ UNCHANGED <<alive, finding, task, journal, base, snapshot, advanced,
                         committed, cap>>
          /\ alive /\ finding /\ snapshot[s] # Unset /\ todo' = todo \ {s}
          /\ cutoffs' = [cutoffs EXCEPT ![s] = IF @ = Unset THEN through ELSE @]
          /\ bound' = [bound EXCEPT ![s] = IF committed[s] < through THEN through ELSE 0]
      BY <2>2 DEF Discover, disk, worker
    <3>2. through = base[s]
      BY <1>1, <3>1 DEF FindingInv, BoundsInv, Smaller, Unset
    <3> HIDE DEF through
    <3>3. /\ \A r \in Sources \ {s} : cutoffs'[r] = cutoffs[r] /\ bound'[r] = bound[r]
          /\ cutoffs'[s] = IF cutoffs[s] = Unset THEN base[s] ELSE cutoffs[s]
          /\ bound'[s] = IF committed[s] < base[s] THEN base[s] ELSE 0
      BY <3>1, <3>2 DEF TypeOK
    <3>4. base[s] # Unset
      BY <1>1 DEF Unset
    <3>5. \A r \in Sources : /\ cutoffs'[r] = Unset => Len(journal[r]) = base[r]
                             /\ cutoffs'[r] # Unset => cutoffs'[r] = base[r]
                             /\ cutoffs[r] # Unset => cutoffs'[r] # Unset
      BY <3>1, <3>3, <3>4 DEF FindingInv
    <3>6. \A r \in Sources : r \in todo' \/ committed[r] >= base[r] \/ bound'[r] = base[r]
      BY <1>1, <3>1, <3>3 DEF FindingInv
    <3>7. \A c \in Captures : cap[c].at = "marked" => cap[c].source \in Sources
      BY CapRecords DEF TypeOK
    <3> QED BY <3>1, <3>5, <3>6, <3>7 DEF FindingInv
  <2>3. ASSUME NEW s \in Sources, Overlook(s) PROVE FindingInv'
    <3>1. /\ UNCHANGED <<alive, finding, task, journal, base, cutoffs, snapshot,
                         advanced, committed, bound, cap>>
          /\ base[s] = 0 /\ todo' = todo \ {s}
      BY <2>3 DEF Overlook, disk, worker
    <3> QED BY <1>1, <3>1 DEF FindingInv
  <2>4. CASE Discovered \/ StartDraining \/ \E s \in Sources : Resume(s)
    BY <2>4, Zenon DEF Discovered, StartDraining, Resume, FindingInv, startup
  <2> QED BY <1>4, <2>1, <2>2, <2>3, <2>4 DEF Recover
\* Discovery is over once the task has left recovery or work was handed over.
<1>5. CASE /\ UNCHANGED finding
           /\ alive
           /\ task # "recovery" \/ \E s \in Sources : advanced[s] > 0
  <2>1. ~finding
    BY <1>1, <1>5 DEF FindingInv
  <2> QED BY <1>5, <2>1 DEF FindingInv
<1>6. CASE TakeEvicted \/ TakeEvent \/ Replayed
           \/ \E s \in Sources : ReplayNext(s) \/ Control(s)
  BY <1>5, <1>6 DEF TakeEvicted, TakeEvent, Replayed, ReplayNext, Control, startup
<1>7. CASE Receive \/ Serve \/ ReplayFails
  BY <1>5, <1>7 DEF Receive, Serve, ReplayFails, startup
<1>8. CASE \/ \E s \in Sources : Translate(s)
           \/ Retire
  <2>1. UNCHANGED <<alive, finding, task, journal, base, cutoffs, snapshot,
                    advanced, todo, bound, cap>>
    BY <1>8 DEF Translate, Retire, Closing, startup, worker, queue
  <2>2. \A r \in Sources : committed'[r] >= committed[r] /\ committed'[r] \in Nat
    <3>1. CASE Retire
      BY <1>1, <3>1 DEF Retire, Larger
    <3>2. ASSUME NEW s \in Sources, Translate(s)
          PROVE  \A r \in Sources : committed'[r] >= committed[r]
                                    /\ committed'[r] \in Nat
      BY <1>1, <3>2 DEF Translate, TypeOK
    <3> QED BY <1>8, <3>1, <3>2
  <2> QED BY <1>1, <2>1, <2>2 DEF FindingInv
<1>9. CASE Flush \/ BeginDrain \/ CloseGate \/ SettleTwice \/ StopWorker
  BY <1>2, <1>9 DEF Flush, BeginDrain, CloseGate, SettleTwice, Settle, StopWorker,
       Closing, disk, startup, worker
<1>10. CASE Ends
  BY <1>10, EndsKeeps DEF FindingInv
<1>11. CASE Start
  <2>1. /\ Fresh /\ UNCHANGED <<startup, worker, advanced, cap, disk>>
        /\ base' = [s \in Sources |-> Len(journal[s])]
    BY <1>11 DEF Start, DownInv
  <2>2. \A c \in Captures : cap'[c].at = "idle"
    BY <2>1 DEF Fresh, Idle
  <2> QED BY <2>1, <2>2 DEF Fresh, FindingInv, startup, worker, disk
<1>12. CASE UNCHANGED vars
  BY <1>2, <1>12 DEF vars, disk, queue, worker, startup
<1> QED BY <1>3, <1>4, <1>6, <1>7, <1>8, <1>9, <1>10, <1>11, <1>12, StepCases
    DEF Quiet

-----------------------------------------------------------------------------
(* While a daemon lives, what is settled stays settled.                     *)

\* Dispatches, boundaries and commits only grow in the life of a daemon.
LEMMA LifeGrows ==
  ASSUME Inv, Next, ~Ends, ~Start, NEW s \in Sources
  PROVE  /\ base' = base
         /\ committed[s] <= committed'[s] /\ advanced[s] <= advanced'[s]
         /\ committed'[s] \in Nat /\ advanced'[s] \in Nat
         /\ Dispatched(s) \subseteq Dispatched(s)'
<1> USE DEF Inv
<1>1. /\ committed[s] \in Nat /\ advanced[s] \in Nat /\ base[s] \in Nat
      /\ Len(journal[s]) \in Nat /\ advanced[s] <= Len(journal[s])
      /\ bound[s] \in Nat
  BY LenProperties DEF TypeOK, BoundsInv
<1>2. CASE UNCHANGED <<base, order, committed, advanced>>
  BY <1>1, <1>2 DEF Dispatched
<1>3. CASE \E c \in Captures : Capture(c)
  BY <1>2, <1>3 DEF Capture, Enter, Lock, Mark, AppendEvent, Push, Wake, disk
<1>4. CASE Recover
  <2>1. ASSUME NEW r \in Sources, Resume(r)
        PROVE  /\ UNCHANGED <<base, order, committed>>
               /\ advanced[s] <= advanced'[s] /\ advanced'[s] \in Nat
    BY <1>1, <2>1 DEF Resume, disk, Larger, TypeOK
  <2>2. CASE \E r \in Sources : Resume(r)
    BY <1>1, <2>1, <2>2 DEF Dispatched
  <2>3. CASE ~\E r \in Sources : Resume(r)
    BY <1>2, <1>4, <2>3 DEF Recover, Snapshot, Discover, Overlook, Discovered,
         StartDraining, disk
  <2> QED BY <2>2, <2>3
<1>5. ASSUME NEW e \in EntrySet, Dispatch(e)
      PROVE  /\ advanced[s] <= advanced'[s] /\ advanced'[s] \in Nat
             /\ Dispatched(s) \subseteq Dispatched(s)'
  <2>1. CASE s = e.source
    <3>1. e.position \in Nat
      BY DEF EntrySet
    <3> QED BY <1>1, <1>5, <2>1, <3>1, DispatchOrder DEF Larger
  <2>2. CASE s # e.source
    BY <1>1, <1>5, <2>2, DispatchOrder DEF Dispatched
  <2> QED BY <2>1, <2>2
<1>6. CASE TakeEvent
  <2>1. Head(buffer) \in EntrySet
    BY <1>6, HeadTailProperties DEF TakeEvent, TypeOK
  <2> QED BY <1>1, <1>5, <1>6, <2>1 DEF TakeEvent, disk
<1>7. ASSUME NEW r \in Sources, ReplayNext(r)
      PROVE  /\ base' = base /\ committed' = committed
             /\ advanced[s] <= advanced'[s] /\ advanced'[s] \in Nat
             /\ Dispatched(s) \subseteq Dispatched(s)'
  <2>1. Entry(r, readers[r].from + 1) \in EntrySet
    <3>1. readers[r] \in RangeSet
      BY DEF TypeOK
    <3>2. readers[r].from + 1 \in Nat
      BY <3>1 DEF RangeSet
    <3> QED BY <3>2 DEF Entry, EntrySet
  <2>2. base' = base /\ committed' = committed
    BY <1>7 DEF ReplayNext, disk
  <2>3. CASE Dispatch(Entry(r, readers[r].from + 1))
    BY <1>5, <2>1, <2>2, <2>3
  <2>4. CASE UNCHANGED <<order, advanced>>
    BY <1>1, <2>2, <2>4 DEF Dispatched
  <2> QED BY <1>7, <2>3, <2>4 DEF ReplayNext
<1>8. ASSUME NEW r \in Sources, Translate(r)
      PROVE  /\ UNCHANGED <<base, order, advanced>>
             /\ committed[s] <= committed'[s] /\ committed'[s] \in Nat
  BY <1>1, <1>8 DEF Translate, TypeOK
<1>9. ASSUME NEW r \in Sources, Control(r)
      PROVE  /\ UNCHANGED <<base, order, committed>>
             /\ advanced[s] <= advanced'[s] /\ advanced'[s] \in Nat
  <2>1. CASE s = r
    BY <1>1, <1>9, <2>1 DEF Control, TypeOK
  <2>2. CASE s # r
    BY <1>1, <1>9, <2>2 DEF Control, TypeOK
  <2>3. UNCHANGED <<base, order, committed>>
    BY <1>9 DEF Control
  <2> QED BY <2>1, <2>2, <2>3
<1>10. CASE Retire
  <2>1. UNCHANGED <<base, order, advanced>>
    BY <1>10 DEF Retire, Closing
  <2>2. committed[s] <= committed'[s] /\ committed'[s] \in Nat
    BY <1>1, <1>10 DEF Retire, Larger
  <2> QED BY <1>1, <2>1, <2>2 DEF Dispatched
<1>11. CASE \/ Receive \/ Serve \/ ReplayFails \/ Flush \/ BeginDrain \/ CloseGate
            \/ SettleTwice \/ StopWorker \/ TakeEvicted \/ Replayed
  BY <1>2, <1>11 DEF Receive, Serve, ReplayFails, Flush, BeginDrain, CloseGate,
       SettleTwice, Settle, StopWorker, Closing, TakeEvicted, Replayed, disk
<1>12. CASE \E r \in Sources : Translate(r) \/ Control(r)
  BY <1>1, <1>8, <1>9, <1>12 DEF Dispatched
<1>13. CASE \E r \in Sources : ReplayNext(r)
  BY <1>1, <1>7, <1>13
<1> QED BY <1>3, <1>4, <1>6, <1>10, <1>11, <1>12, <1>13, StepCases DEF Quiet

\* An event that is settled stays so.
LEMMA SettledStays ==
  ASSUME Inv, Next, ~Ends, ~Start, NEW e \in EntrySet, Settled(e)
  PROVE  Settled(e)'
<1>1. e.source \in Sources /\ e.position \in Nat
  BY DEF EntrySet
<1>2. /\ committed[e.source] \in Nat /\ advanced[e.source] \in Nat
  BY <1>1 DEF Inv, TypeOK
<1>3. /\ base'[e.source] = base[e.source]
      /\ committed[e.source] <= committed'[e.source]
      /\ advanced[e.source] <= advanced'[e.source]
      /\ committed'[e.source] \in Nat /\ advanced'[e.source] \in Nat
      /\ Dispatched(e.source) \subseteq Dispatched(e.source)'
  BY <1>1, LifeGrows
<1> QED BY <1>1, <1>2, <1>3 DEF Settled

\* Every candidate has been handed over before the task leaves recovery.
LEMMA RecoveredStep ==
  ASSUME Inv, [Next]_vars
  PROVE  RecoveredInv'
<1> USE DEF Inv
<1>1. \A s \in Sources : /\ base[s] \in Nat /\ advanced[s] \in Nat
                         /\ committed[s] \in Nat /\ bound[s] \in Nat
  BY DEF TypeOK
<1>2. ASSUME Next, ~Ends, ~Start, UNCHANGED <<finding, todo, alive, bound>>,
             task' # "recovery" => task # "recovery",
             task' \notin {"replay", "stopped"} => readers' = Nothing
      PROVE  RecoveredInv'
  <2>1. \A s \in Sources : /\ base'[s] = base[s]
                           /\ committed[s] <= committed'[s] /\ committed'[s] \in Nat
                           /\ advanced[s] <= advanced'[s] /\ advanced'[s] \in Nat
    BY <1>2, LifeGrows
  <2> QED BY <1>1, <1>2, <2>1 DEF RecoveredInv
<1>3. CASE Next /\ ~Ends /\ ~Start /\ UNCHANGED <<finding, todo, alive, bound, task, readers>>
  BY <1>2, <1>3 DEF RecoveredInv
<1>4. CASE Next /\ ~Ends /\ ~Start
  <2>1. CASE \E c \in Captures : Capture(c)
    BY <1>3, <1>4, <2>1 DEF Capture, Enter, Lock, Mark, AppendEvent, Push, Wake,
         startup, worker
  <2>2. CASE Recover
    <3>1. CASE \E s \in Sources : Snapshot(s)
      BY <1>3, <1>4, <3>1 DEF Snapshot, worker
    <3>2. CASE \E s \in Sources : Discover(s) \/ Overlook(s)
      <4>1. alive /\ finding /\ UNCHANGED <<task, readers, finding>>
        BY <3>2 DEF Discover, Overlook, worker
      <4>2. task = "recovery"
        BY <4>1 DEF FindingInv
      <4> QED BY <4>1, <4>2 DEF RecoveredInv
    <3>3. CASE Discovered
      <4>1. /\ alive /\ finding /\ todo = {}
            /\ finding' = FALSE /\ todo' = {s \in Sources : bound[s] > 0}
            /\ UNCHANGED <<task, readers, committed, base, bound, advanced>>
        BY <3>3 DEF Discovered, disk, worker
      <4>2. /\ task = "recovery"
            /\ \A s \in Sources : committed[s] >= base[s] \/ bound[s] = base[s]
        BY <4>1 DEF FindingInv
      <4>3. \A s \in Sources : bound[s] = base[s] => s \in todo' \/ committed[s] >= base[s]
        BY <1>1, <4>1
      <4> QED BY <4>1, <4>2, <4>3 DEF RecoveredInv
    <3>4. ASSUME NEW s \in Sources, Resume(s) PROVE RecoveredInv'
      <4>1. /\ alive /\ ~finding /\ todo' = todo \ {s}
            /\ advanced' = [advanced EXCEPT ![s] = Larger(@, bound[s])]
            /\ UNCHANGED <<alive, finding, task, readers, committed, base, bound>>
        BY <3>4 DEF Resume, disk, worker
      <4>2. /\ \A r \in Sources \ {s} : advanced'[r] = advanced[r]
            /\ advanced'[s] >= bound[s]
        BY <1>1, <4>1 DEF Larger, TypeOK
      <4> QED BY <1>1, <4>1, <4>2 DEF RecoveredInv
    <3>5. CASE StartDraining
      BY <3>5 DEF StartDraining, startup, disk, RecoveredInv
    <3> QED BY <2>2, <3>1, <3>2, <3>3, <3>4, <3>5 DEF Recover
  <2>3. CASE Receive \/ TakeEvicted \/ Replayed \/ Serve \/ ReplayFails
    BY <1>2, <1>4, <2>3 DEF Receive, TakeEvicted, Replayed, Serve, ReplayFails,
         startup, RecoveredInv
  <2>4. CASE TakeEvent
    BY <1>3, <1>4, <2>4 DEF TakeEvent, startup, worker
  <2>5. CASE \E s \in Sources : ReplayNext(s)
    BY <1>2, <1>4, <2>5 DEF ReplayNext, startup
  <2>6. CASE \E s \in Sources : Translate(s) \/ Control(s)
    BY <1>3, <1>4, <2>6 DEF Translate, Control, startup, worker
  <2>7. CASE Flush \/ BeginDrain \/ CloseGate \/ SettleTwice \/ Retire \/ StopWorker
    BY <1>3, <1>4, <2>7 DEF Flush, BeginDrain, CloseGate, SettleTwice, Settle,
         Retire, StopWorker, Closing, startup, worker
  <2> QED BY <1>4, <2>1, <2>2, <2>3, <2>4, <2>5, <2>6, <2>7, StepCases DEF Quiet
<1>5. CASE Ends
  BY <1>5, EndsKeeps DEF Volatile, RecoveredInv
<1>6. CASE Start
  <2>1. Fresh /\ UNCHANGED <<startup, worker>>
    BY <1>6 DEF Start, DownInv
  <2> QED BY <2>1 DEF Fresh, RecoveredInv, startup, worker
<1>7. CASE UNCHANGED vars
  BY <1>7 DEF vars, disk, worker, startup, RecoveredInv
<1> QED BY <1>4, <1>5, <1>6, <1>7

-----------------------------------------------------------------------------
(* Acknowledgements, the gate and the barriers.                             *)

\* No event leaves a journal.
LEMMA EventsGrow ==
  ASSUME Inv, [Next]_vars, NEW s \in Sources
  PROVE  Events(s) \subseteq Events(s)'
<1> USE DEF Inv
<1>1. CASE journal' = journal
  BY <1>1 DEF Events
<1>2. ASSUME NEW c \in Captures, Capture(c) PROVE Events(s) \subseteq Events(s)'
  <2>1. CASE AppendEvent(c)
    <3>1. cap[c].source \in Sources
      BY <2>1, CapRecords DEF AppendEvent, TypeOK
    <3> QED BY <2>1, <3>1, JournalGrows, Zenon DEF AppendEvent
  <2>2. CASE ~AppendEvent(c)
    BY <1>1, <1>2, <2>2 DEF Capture, Enter, Lock, Mark, Push, Wake, disk
  <2> QED BY <2>1, <2>2
<1>3. ASSUME NEW r \in Sources, Control(r) PROVE Events(s) \subseteq Events(s)'
  BY <1>3, JournalGrows, Zenon DEF Control
<1>4. CASE Ends \/ UNCHANGED vars
  BY <1>1, <1>4, EndsKeeps, Zenon DEF vars, disk
<1>5. CASE \/ TakeEvicted \/ TakeEvent \/ Replayed \/ Start
           \/ \E r \in Sources : ReplayNext(r)
  BY <1>1, <1>5 DEF TakeEvicted, TakeEvent, Replayed, ReplayNext, Start, disk
<1> QED BY <1>1, <1>2, <1>3, <1>4, <1>5, StepCases, QuietKeeps

\* A hook is answered when its event is in the journal and in the buffer.
LEMMA AckStep ==
  ASSUME Inv, [Next]_vars
  PROVE  AckInv'
<1> USE DEF Inv
<1>1. /\ \A c \in Captures : cap[c].at \in {"appended", "pushed"} =>
           cap[c].source \in Sources
      /\ \A e \in acked : e.source \in Sources
  BY CapRecords DEF TypeOK, EntrySet
<1>2. CASE UNCHANGED <<cap, acked>>
  <2>1. \A s \in Sources : Written(s)' = Written(s)
    BY <1>2 DEF Written
  <2> QED BY <1>1, <1>2, <2>1, EventsGrow DEF AckInv
<1>3. ASSUME NEW c \in Captures, Capture(c) PROVE AckInv'
  <2> DEFINE t == cap[c].source
             p == cap[c].position
  <2>1. CASE (\E s \in Sources : Enter(c, s)) \/ Lock(c) \/ Mark(c)
    <3>1. \A s \in Sources : Written(s)' = Written(s)
      BY <2>1, WrittenMoves
    <3>2. acked' = acked
      BY <2>1 DEF Enter, Lock, Mark
    <3>3. /\ cap'[c].at \notin {"appended", "pushed"}
          /\ \A d \in Captures : d # c => cap'[d] = cap[d]
      <4>1. CASE \E s \in Sources : Enter(c, s)
        <5>1. PICK s \in Sources : CapBecomes(c, [at |-> "entered", source |-> s])
          BY <4>1, CaptureMoves, Zenon
        <5> QED BY <5>1 DEF CapBecomes
      <4>2. CASE Lock(c)
        <5>1. CapBecomes(c, [at |-> "locked", source |-> t])
          BY <4>2, CaptureMoves, Zenon
        <5> QED BY <5>1 DEF CapBecomes
      <4>3. CASE Mark(c)
        <5>1. CapBecomes(c, [at |-> "marked", source |-> t])
          BY <4>3, CaptureMoves, Zenon
        <5> QED BY <5>1 DEF CapBecomes
      <4> QED BY <2>1, <4>1, <4>2, <4>3
    <3> QED BY <1>1, <3>1, <3>2, <3>3, EventsGrow DEF AckInv
  <2>2. CASE AppendEvent(c)
    <3> DEFINE n == Len(journal[t]) + 1
    <3>1. t \in Sources /\ acked' = acked
      BY <2>2, CapRecords DEF AppendEvent, TypeOK
    <3>2. /\ Len(journal[t]) \in Nat
          /\ \A s \in Sources : s = t => Events(s)' = Events(s) \cup {n}
      BY <2>2, <3>1, EventsAppend, Zenon DEF AppendEvent
    <3>3. CapBecomes(c, [at |-> "appended", source |-> t, position |-> n])
      BY <2>2, CaptureMoves, Zenon
    <3>4. /\ \A s \in Sources \ {t} : Written(s)' = Written(s)
          /\ \A s \in Sources : s = t => Written(s)' = {n}
      BY <2>2, WrittenMoves
    <3>5. n \notin Events(t)
      BY <3>2 DEF Events
    <3>6. ASSUME NEW e \in acked PROVE e.position \in Events(e.source)' \ Written(e.source)'
      <4>1. e.source \in Sources /\ e.position \in Events(e.source) \ Written(e.source)
        BY <1>1 DEF AckInv
      <4>2. CASE e.source = t
        <5>1. PICK s \in Sources : s = e.source /\ s = t
          BY <4>1, <4>2
        <5>2. Events(s)' = Events(s) \cup {n} /\ Written(s)' = {n}
          BY <3>2, <3>4, <5>1
        <5>3. e.position \in Events(s) /\ n \notin Events(s)
          BY <3>5, <4>1, <5>1
        <5> HIDE DEF n
        <5> QED BY <5>1, <5>2, <5>3
      <4>3. CASE e.source # t
        BY <3>4, <4>1, <4>3, EventsGrow
      <4> QED BY <4>2, <4>3
    <3>7. ASSUME NEW d \in Captures, cap'[d].at \in {"appended", "pushed"}
          PROVE  \A s \in Sources : s = cap'[d].source => cap'[d].position \in Events(s)'
      <4>1. CASE d = c
        BY <3>2, <3>3, <4>1 DEF CapBecomes
      <4>2. CASE d # c
        <5>1. cap'[d] = cap[d]
          BY <3>3, <4>2 DEF CapBecomes
        <5> QED BY <1>1, <3>7, <5>1, EventsGrow DEF AckInv
      <4> QED BY <4>1, <4>2
    <3>8. \A d \in Captures : cap'[d].at \in {"appended", "pushed"} =>
            cap'[d].source \in Sources
      BY <1>1, <3>1, <3>3 DEF CapBecomes
    <3> QED BY <3>1, <3>6, <3>7, <3>8 DEF AckInv
  <2>3. CASE Push(c)
    <3>1. cap[c].at = "appended" /\ t \in Sources /\ acked' = acked
      BY <1>1, <2>3 DEF Push
    <3>2. CapBecomes(c, [at |-> "pushed", source |-> t, position |-> p])
      BY <2>3, CaptureMoves, Zenon
    <3>3. \A s \in Sources : Written(s)' \subseteq Written(s)
      BY <2>3, WrittenMoves
    <3>4. \A d \in Captures : cap'[d].at \in {"appended", "pushed"} =>
            /\ cap[d].at \in {"appended", "pushed"}
            /\ cap'[d].source = cap[d].source /\ cap'[d].position = cap[d].position
      BY <3>1, <3>2 DEF CapBecomes
    <3> QED BY <1>1, <3>1, <3>3, <3>4, EventsGrow DEF AckInv
  <2>4. CASE Wake(c)
    <3>1. /\ cap[c].at = "pushed" /\ t \in Sources /\ p \in Nat
          /\ acked' \subseteq acked \cup {Entry(t, p)}
      BY <2>4, CapRecords DEF Wake, TypeOK
    <3>2. CapBecomes(c, Idle)
      BY <2>4, CaptureMoves, Zenon
    <3>3. \A s \in Sources : Written(s)' = Written(s)
      BY <2>4, WrittenMoves
    <3>4. p \notin Written(t)
      BY <3>1 DEF Written, LockInv, Holds
    <3>5. p \in Events(t)
      BY <3>1 DEF AckInv
    <3>6. Entry(t, p).source = t /\ Entry(t, p).position = p
      BY DEF Entry
    <3>7. \A d \in Captures : cap'[d].at \in {"appended", "pushed"} => cap'[d] = cap[d]
      BY <3>2 DEF CapBecomes, Idle
    <3>8. \A e \in acked' : e.source \in Sources
                            /\ e.position \in Events(e.source) \ Written(e.source)
      BY <1>1, <3>1, <3>4, <3>5, <3>6 DEF AckInv
    <3> HIDE DEF t, p
    <3> QED BY <1>1, <3>3, <3>7, <3>8, EventsGrow DEF AckInv
  <2> QED BY <1>3, <2>1, <2>2, <2>3, <2>4 DEF Capture
<1>4. CASE Ends
  <2>1. cap' = [c \in Captures |-> Idle] /\ acked' = acked
    BY <1>4, EndsKeeps DEF Volatile
  <2>2. \A s \in Sources : Written(s)' = {}
    BY <2>1 DEF Written, Idle
  <2> QED BY <1>1, <1>4, <2>1, <2>2, EventsGrow DEF AckInv, Idle, Ends, Next, Drain
<1>5. CASE UNCHANGED vars
  BY <1>2, <1>5 DEF vars
<1>6. CASE TakeEvicted \/ TakeEvent \/ Replayed \/ Start
           \/ \E s \in Sources : ReplayNext(s) \/ Control(s)
  BY <1>2, <1>6 DEF TakeEvicted, TakeEvent, Replayed, Start, ReplayNext, Control
<1> QED BY <1>2, <1>3, <1>4, <1>5, <1>6, StepCases, QuietKeeps

\* What the channel holds after a send and after a receive.
LEMMA StopsBox ==
  ASSUME NEW box \in Seq(Messages), NEW m \in Messages
  PROVE  /\ Stops(Append(box, m)) => Stops(box) \/ m = "stop"
         /\ ~Stops(<<>>)
         /\ box # <<>> => /\ Stops(Tail(box)) => Stops(box)
                          /\ Head(box) = "stop" => Stops(box)
<1>1. Stops(Append(box, m)) => Stops(box) \/ m = "stop"
  BY AppendProperties DEF Stops
<1>2. ASSUME box # <<>>
      PROVE  /\ Stops(Tail(box)) => Stops(box)
             /\ Head(box) = "stop" => Stops(box)
  <2>1. /\ Len(Tail(box)) = Len(box) - 1
        /\ \A i \in 1..Len(Tail(box)) : Tail(box)[i] = box[i + 1]
        /\ Len(box) \in Nat \ {0} /\ Head(box) = box[1]
    BY <1>2, HeadTailProperties, EmptySeq
  <2>2. \A i \in 1..Len(Tail(box)) : i + 1 \in 1..Len(box)
    BY <2>1
  <2> QED BY <2>1, <2>2 DEF Stops
<1> QED BY <1>1, <1>2 DEF Stops

\* The gate is held once the captures that passed it are done.
LEMMA GateStep ==
  ASSUME Inv, [Next]_vars
  PROVE  GateInv'
<1> USE DEF Inv
<1>1. CASE UNCHANGED <<cap, gate, drain, msg, mailbox>>
  BY <1>1 DEF GateInv
<1>2. ASSUME NEW c \in Captures, Capture(c) PROVE GateInv'
  <2>1. UNCHANGED <<gate, drain, msg>>
    BY <1>2 DEF Capture, Enter, Lock, Mark, AppendEvent, Push, Wake, closing, worker
  <2>2. \A d \in Captures : d # c => cap'[d] = cap[d]
    BY <1>2, CaptureMoves, Zenon DEF Capture, CapBecomes
  <2>3. c \in Hooks => drain \in {"none", "quiesced"}
    <3>1. CASE \E s \in Sources : Enter(c, s)
      BY <3>1 DEF Enter, GateInv
    <3>2. CASE cap[c].at # "idle"
      BY <3>2 DEF GateInv
    <3> QED BY <1>2, <3>1, <3>2 DEF Capture, Lock, Mark, AppendEvent, Push, Wake
  <2>4. Stops(mailbox') => Stops(mailbox)
    <3>1. CASE Wake(c)
      <4>1. mailbox' = mailbox \/ mailbox' = Append(mailbox, "wake")
        BY <3>1 DEF Wake
      <4> QED BY <4>1, StopsBox, Zenon DEF TypeOK, Messages
    <3>2. CASE ~Wake(c)
      BY <1>2, <3>2 DEF Capture, Enter, Lock, Mark, AppendEvent, Push, queue
    <3> QED BY <3>1, <3>2
  <2>5. \A h \in Hooks : h \in Captures
    BY DEF Captures
  <2> QED BY <2>1, <2>2, <2>3, <2>4, <2>5 DEF GateInv
<1>3. CASE Receive
  <2>1. /\ mailbox # <<>> /\ msg' = Head(mailbox) /\ mailbox' = Tail(mailbox)
        /\ UNCHANGED <<cap, gate, drain>>
    BY <1>3 DEF Receive, closing
  <2>2. (msg' = "stop" => Stops(mailbox)) /\ (Stops(mailbox') => Stops(mailbox))
    BY <2>1, StopsBox DEF TypeOK, Messages
  <2> QED BY <2>1, <2>2 DEF GateInv
<1>4. CASE Serve
  <2>1. /\ UNCHANGED <<cap, gate, msg>>
        /\ mailbox' = IF msg = "stop" THEN <<>> ELSE mailbox
        /\ drain' = CASE msg = "settle" /\ drain = "settling" -> "settled"
                      [] msg = "settle" /\ drain = "resettling" -> "resettled"
                      [] msg = "stop" -> "drained"
                      [] OTHER -> drain
    BY <1>4 DEF Serve
  <2>2. CASE msg = "stop"
    <3>1. drain' = "drained" /\ drain \in {"stopping", "drained"}
      BY <2>1, <2>2 DEF GateInv
    <3> QED BY <2>1, <3>1 DEF GateInv
  <2>3. CASE msg # "stop"
    <3>1. mailbox' = mailbox
      BY <2>1, <2>3
    <3>2. \/ drain' = drain
          \/ drain = "settling" /\ drain' = "settled"
          \/ drain = "resettling" /\ drain' = "resettled"
      BY <2>1, <2>3
    <3> QED BY <2>1, <2>3, <3>1, <3>2 DEF GateInv
  <2> QED BY <2>2, <2>3
<1>5. CASE ReplayFails
  BY <1>5, StopsBox DEF ReplayFails, GateInv, TypeOK, Stops
<1>6. ASSUME NEW m \in Messages, Send(m)
      PROVE  Stops(mailbox') => Stops(mailbox) \/ m = "stop"
  BY <1>6, StopsBox DEF Send, TypeOK
<1>7. CASE Flush
  <2>1. UNCHANGED <<cap, gate, drain, msg>> /\ Send("flush")
    BY <1>7 DEF Flush, worker
  <2>2. Stops(mailbox') => Stops(mailbox)
    BY <1>6, <2>1 DEF Messages
  <2> QED BY <2>1, <2>2 DEF GateInv
<1>8. ASSUME NEW from, NEW to, Closing(from, to),
             from \notin {"none", "quiesced"}, to \notin {"none", "quiesced"},
             from \in {"stopping", "drained"} => to \in {"stopping", "drained"},
             gate' = gate,
             Stops(mailbox') => Stops(mailbox) \/ to \in {"stopping", "drained"}
      PROVE  GateInv'
  BY <1>8 DEF Closing, GateInv, worker
<1>9. CASE BeginDrain
  BY <1>9 DEF BeginDrain, Closing, GateInv, worker
<1>10. CASE CloseGate
  BY <1>10 DEF CloseGate, Closing, GateInv, worker
<1>11. ASSUME NEW from \in {"closed", "settled"},
              NEW during \in {"settling", "resettling"},
              NEW after \in {"settled", "resettled"},
              Settle(from, during, after)
       PROVE  GateInv'
  <2>1. CASE Closing(from, during) /\ Send("settle")
    <3>1. Stops(mailbox') => Stops(mailbox)
      BY <1>6, <2>1 DEF Messages
    <3> QED BY <1>8, <1>11, <2>1, <3>1 DEF Settle
  <2>2. CASE mailbox' = mailbox
    BY <1>8, <1>11, <2>2 DEF Settle
  <2> QED BY <1>11, <2>1, <2>2 DEF Settle
<1>12. CASE SettleTwice
  BY <1>11, <1>12 DEF SettleTwice
<1>13. CASE Retire
  BY <1>8, <1>13 DEF Retire
<1>14. CASE StopWorker
  BY <1>8, <1>14 DEF StopWorker
<1>15. CASE Ends
  <2>1. Volatile
    BY <1>15, EndsKeeps
  <2>2. \A h \in Hooks : cap'[h] = Idle
    BY <2>1 DEF Volatile, Captures
  <2> QED BY <2>1, <2>2, StopsBox DEF Volatile, GateInv, Stops
<1>16. CASE UNCHANGED vars
  BY <1>1, <1>16 DEF vars, queue, worker, closing
<1>17. CASE \/ Recover \/ TakeEvicted \/ TakeEvent \/ Replayed \/ Start
            \/ \E s \in Sources : ReplayNext(s) \/ Control(s) \/ Translate(s)
  <2>1. CASE Recover
    BY <1>1, <2>1 DEF Recover, Snapshot, Discover, Overlook, Resume, Discovered,
         StartDraining, queue, worker, closing
  <2>2. CASE TakeEvicted \/ TakeEvent \/ Replayed \/ Start
    BY <1>1, <2>2 DEF TakeEvicted, TakeEvent, Replayed, Start, queue, worker, closing
  <2>3. CASE \E s \in Sources : ReplayNext(s) \/ Control(s) \/ Translate(s)
    BY <1>1, <2>3 DEF ReplayNext, Control, Translate, queue, worker, closing
  <2> QED BY <1>17, <2>1, <2>2, <2>3
<1> QED BY <1>2, <1>3, <1>4, <1>5, <1>7, <1>9, <1>10, <1>12, <1>13, <1>14, <1>15,
           <1>16, <1>17, StepCases DEF Quiet

\* When the draining task finds its queue empty, all that was acknowledged
\* has been dispatched, committed or handed over by recovery.
LEMMA ServeSettles ==
  ASSUME Inv, Serve, NEW e \in acked
  PROVE  Settled(e)
<1> USE DEF Inv
<1> DEFINE s == e.source
           p == e.position
<1>1. /\ alive /\ task = "drain" /\ evicted = Nothing /\ buffer = <<>>
  BY DEF Serve
<1>2. s \in Sources /\ p \in Nat
  BY DEF TypeOK, EntrySet
<1>3. readers = Nothing /\ ~finding /\ todo = {}
  BY <1>1 DEF RecoveredInv
<1>4. p \in Events(s) /\ p \notin Written(s)
  BY DEF AckInv
<1>5. CASE base[s] < p
  <2>1. p \in New(s)
    BY <1>4, <1>5 DEF New
  <2>2. Span(readers[s]) = {} /\ Span(evicted[s]) = {} /\ Positions(buffer, s) = {}
    BY <1>1, <1>2, <1>3, EmptyRanges
  <2>3. New(s) \subseteq Dispatched(s) \cup Written(s)
    BY <1>1, <1>2, <2>2, LineBounds, Zenon DEF Line
  <2> QED BY <1>4, <2>1, <2>3 DEF Settled
<1>6. CASE ~(base[s] < p)
  <2>1. committed[s] \in Nat /\ advanced[s] \in Nat /\ base[s] \in Nat
    BY <1>2 DEF TypeOK
  <2>2. committed[s] >= base[s] \/ advanced[s] >= base[s]
    BY <1>1, <1>2, <1>3 DEF RecoveredInv
  <2> QED BY <1>2, <1>6, <2>1, <2>2 DEF Settled
<1> QED BY <1>5, <1>6

Closed == {"settled", "resettling", "resettled", "retired", "stopping", "drained"}

\* A flush is answered by a worker that found its queue empty.
LEMMA FlushStep ==
  ASSUME Inv, [Next]_vars
  PROVE  FlushCoversAcknowledged'
<1> USE DEF Inv
<1>1. CASE UNCHANGED vars
  BY <1>1 DEF vars, disk, worker, closing, FlushCoversAcknowledged, Settled, Dispatched
<1>2. ASSUME Next, ~Ends, ~Start, asked' = asked, flush' = "done" => flush = "done"
      PROVE  FlushCoversAcknowledged'
  <2> SUFFICES ASSUME flush' = "done", NEW e \in asked PROVE Settled(e)'
    BY <1>2 DEF FlushCoversAcknowledged
  <2>1. e \in EntrySet
    BY DEF TypeOK
  <2>2. Settled(e)
    BY <1>2 DEF FlushCoversAcknowledged
  <2> QED BY <1>2, <2>1, <2>2, SettledStays
<1>3. CASE Serve
  <2> SUFFICES ASSUME NEW e \in asked PROVE Settled(e)'
    BY <1>3 DEF Serve, FlushCoversAcknowledged
  <2>1. e \in EntrySet /\ e \in acked
    BY DEF TypeOK
  <2>2. Settled(e)
    BY <1>3, <2>1, ServeSettles
  <2> QED BY <1>3, <2>2 DEF Serve, disk, Settled, Dispatched
<1>4. CASE ReplayFails
  BY <1>2, <1>4 DEF ReplayFails, Aborted, Ends, Exit, Crash, Start, Next
<1>5. CASE Flush
  BY <1>5 DEF Flush, FlushCoversAcknowledged
<1>6. CASE Ends
  BY <1>6, EndsKeeps DEF Volatile, FlushCoversAcknowledged
<1>7. CASE Start
  <2>1. Fresh /\ flush' = flush
    BY <1>7 DEF Start, DownInv, closing
  <2> QED BY <2>1 DEF Fresh, FlushCoversAcknowledged
<1>8. CASE Next /\ ~Ends /\ ~Start /\ ~Serve /\ ~ReplayFails /\ ~Flush
  <2>1. UNCHANGED <<flush, asked>>
    <3>1. CASE \E c \in Captures : Capture(c)
      BY <3>1 DEF Capture, Enter, Lock, Mark, AppendEvent, Push, Wake, closing
    <3>2. CASE Recover
      BY <3>2 DEF Recover, Snapshot, Discover, Overlook, Resume, Discovered,
           StartDraining, closing
    <3>3. CASE \/ Receive \/ TakeEvicted \/ TakeEvent \/ Replayed
               \/ \E s \in Sources : ReplayNext(s) \/ Control(s) \/ Translate(s)
      BY <3>3 DEF Receive, TakeEvicted, TakeEvent, Replayed, ReplayNext, Control,
           Translate, closing
    <3>4. CASE BeginDrain \/ CloseGate \/ SettleTwice \/ Retire \/ StopWorker
      BY <3>4 DEF BeginDrain, CloseGate, SettleTwice, Settle, Retire, StopWorker, Closing
    <3> QED BY <1>8, <3>1, <3>2, <3>3, <3>4, StepCases DEF Quiet
  <2> QED BY <1>2, <1>8, <2>1
<1> QED BY <1>1, <1>3, <1>4, <1>5, <1>6, <1>7, <1>8

\* A settled drain has no capture to wait for.
LEMMA ShutdownStep ==
  ASSUME Inv, [Next]_vars
  PROVE  ShutdownSettlesAcknowledged'
<1> USE DEF Inv
<1>1. CASE UNCHANGED vars
  BY <1>1 DEF vars, disk, worker, closing, ShutdownSettlesAcknowledged, ReplayFailed,
       Settled, Dispatched
<1>2. ASSUME Next, ~Ends, ~Start, drain' \in Closed => drain \in Closed,
             ReplayFailed => ReplayFailed', drain \in Closed => acked' = acked
      PROVE  ShutdownSettlesAcknowledged'
  <2> SUFFICES ASSUME drain' \in Closed, ~ReplayFailed', NEW e \in acked'
               PROVE  Settled(e)'
    BY DEF ShutdownSettlesAcknowledged, Closed
  <2>1. e \in acked /\ e \in EntrySet
    BY <1>2 DEF TypeOK
  <2>2. Settled(e)
    BY <1>2, <2>1 DEF ShutdownSettlesAcknowledged, Closed
  <2> QED BY <1>2, <2>1, <2>2, SettledStays
<1>3. CASE Serve
  <2> SUFFICES ASSUME NEW e \in acked PROVE Settled(e)'
    BY <1>3 DEF Serve, ShutdownSettlesAcknowledged
  <2>1. Settled(e)
    BY <1>3, ServeSettles
  <2> QED BY <1>3, <2>1 DEF Serve, disk, Settled, Dispatched
<1>4. CASE Ends
  BY <1>4, EndsKeeps DEF Volatile, ShutdownSettlesAcknowledged
<1>5. CASE Start
  <2>1. Fresh /\ drain' = drain
    BY <1>5 DEF Start, DownInv, closing
  <2> QED BY <2>1 DEF Fresh, ShutdownSettlesAcknowledged
<1>6. ASSUME NEW c \in Captures, Capture(c), ~Ends, ~Start
      PROVE  ShutdownSettlesAcknowledged'
  <2>1. UNCHANGED <<drain, task, msg>>
    BY <1>6 DEF Capture, Enter, Lock, Mark, AppendEvent, Push, Wake, closing, worker
  <2>2. drain \in Closed => acked' = acked
    BY <1>6 DEF Capture, Enter, Lock, Mark, AppendEvent, Push, Wake, GateInv, Closed
  <2> QED BY <1>2, <1>6, <2>1, <2>2 DEF Next, ReplayFailed
\* A barrier that is dropped with the worker shows that a replay has failed.
<1>7. ASSUME NEW from \in {"closed", "settled"}, NEW during \in {"settling", "resettling"},
             NEW after \in {"settled", "resettled"}, SettleTwice, ~Ends, ~Start,
             Settle(from, during, after),
             \/ from = "closed" /\ during = "settling" /\ after = "settled"
             \/ from = "settled" /\ during = "resettling" /\ after = "resettled"
      PROVE  ShutdownSettlesAcknowledged'
  <2>1. UNCHANGED <<task, msg, acked>>
    BY <1>7 DEF Settle, Closing, worker
  <2>2. CASE drain \in Closed
    BY <1>2, <1>7, <2>1, <2>2 DEF Next, Drain, ReplayFailed
  <2>3. CASE drain \notin Closed /\ drain' \notin Closed
    BY <2>3 DEF ShutdownSettlesAcknowledged, Closed
  <2>4. CASE drain \notin Closed /\ drain' \in Closed
    <3>1. task = "stopped" /\ drain \in {"closed", "settling"}
      BY <1>7, <2>4 DEF Settle, Closing, Closed
    <3>2. msg # "stop"
      BY <3>1 DEF GateInv
    <3> QED BY <2>1, <3>1, <3>2 DEF ReplayFailed, ShutdownSettlesAcknowledged
  <2> QED BY <2>2, <2>3, <2>4
<1>8. CASE SettleTwice /\ ~Ends /\ ~Start
  <2>1. CASE Settle("closed", "settling", "settled")
    BY <1>7, <1>8, <2>1
  <2>2. CASE Settle("settled", "resettling", "resettled")
    BY <1>7, <1>8, <2>2
  <2> QED BY <1>8, <2>1, <2>2 DEF SettleTwice
<1>9. CASE ReplayFails /\ ~Ends /\ ~Start
  <2>1. UNCHANGED <<drain, acked>> /\ task # "stopped"
    BY <1>9 DEF ReplayFails
  <2> QED BY <1>2, <1>9, <2>1 DEF Next, ReplayFailed
<1>10. CASE Next /\ ~Ends /\ ~Start /\ ~Serve /\ ~SettleTwice /\ ~ReplayFails
            /\ \A c \in Captures : ~Capture(c)
  <2>1. acked' = acked
    <3>1. CASE TakeEvicted \/ TakeEvent \/ Replayed
               \/ \E s \in Sources : ReplayNext(s) \/ Control(s)
      BY <3>1 DEF TakeEvicted, TakeEvent, Replayed, ReplayNext, Control
    <3> QED BY <1>10, <3>1, StepCases, QuietKeeps
  <2>2. (drain' \in Closed => drain \in Closed) /\ (ReplayFailed => ReplayFailed')
    <3>1. CASE Recover
      BY <3>1 DEF Recover, Snapshot, Discover, Overlook, Resume, Discovered,
           StartDraining, closing, worker, ReplayFailed
    <3>2. CASE \/ Receive \/ TakeEvicted \/ TakeEvent \/ Replayed
               \/ \E s \in Sources : ReplayNext(s) \/ Control(s) \/ Translate(s)
      BY <3>2 DEF Receive, TakeEvicted, TakeEvent, Replayed, ReplayNext, Control,
           Translate, closing, worker, ReplayFailed
    <3>3. CASE Flush \/ BeginDrain \/ CloseGate \/ Retire \/ StopWorker
      BY <3>3 DEF Flush, BeginDrain, CloseGate, Retire, StopWorker, Closing, worker,
           ReplayFailed, Closed
    <3> QED BY <1>10, <3>1, <3>2, <3>3, StepCases DEF Quiet
  <2> QED BY <1>2, <1>10, <2>1, <2>2
<1> QED BY <1>1, <1>3, <1>4, <1>5, <1>6, <1>8, <1>9, <1>10

-----------------------------------------------------------------------------
(* The theorems.                                                            *)

\* The first daemon finds empty journals.
LEMMA InitInv ==
  ASSUME Init
  PROVE  Inv
<1>1. TypeOK
  <2>1. Idle \in CapSet
    BY DEF CapSet
  <2> QED BY <2>1, EmptyRanges, EmptySeq, Zenon DEF Init, TypeOK, Tasks, Drains
<1>2. \A s \in Sources : journal[s] = <<>> /\ Len(journal[s]) = 0
                         /\ base[s] = 0 /\ bound[s] = 0 /\ advanced[s] = 0
                         /\ committed[s] = 0
                         /\ snapshot[s] = Unset /\ cutoffs[s] = Unset
  BY EmptySeq DEF Init
<1>3. \A c \in Captures : cap[c].at = "idle"
  BY DEF Init, Idle
<1>4. DownInv /\ LockInv
  BY <1>3 DEF Init, DownInv, LockInv, Holds
<1>5. LineInv
  <2> SUFFICES ASSUME NEW s \in Sources PROVE Line(s) /\ Rising(order[s])
    BY DEF LineInv
  <2>1. /\ Dispatched(s) = {} /\ Rising(order[s]) /\ Written(s) = {}
    BY <1>3 DEF Init, Dispatched, Rising, Written
  <2>2. Span(readers[s]) = {} /\ Span(evicted[s]) = {} /\ Positions(buffer, s) = {}
    BY EmptyRanges DEF Init
  <2>3. New(s) = {}
    BY <1>2 DEF New, Events
  <2> QED BY <2>1, <2>2, <2>3 DEF Line, InLine, Before
<1>6. BufferInv
  BY EmptySeq DEF Init, BufferInv, Sorted
<1>7. BoundsInv
  BY <1>2 DEF BoundsInv, Unset
<1>8. FindingInv
  BY <1>2, <1>3 DEF FindingInv, Init
<1>9. RecoveredInv /\ AckInv
  BY <1>3 DEF Init, RecoveredInv, AckInv
<1>10. GateInv
  <2>1. \A h \in Hooks : cap[h].at = "idle"
    BY <1>3 DEF Captures
  <2> QED BY <2>1 DEF Init, GateInv, Stops
<1>11. FlushCoversAcknowledged /\ ShutdownSettlesAcknowledged
  BY DEF Init, FlushCoversAcknowledged, ShutdownSettlesAcknowledged
<1> QED BY <1>1, <1>4, <1>5, <1>6, <1>7, <1>8, <1>9, <1>10, <1>11 DEF Inv

\* The invariant is inductive.
LEMMA StepInv ==
  ASSUME Inv, [Next]_vars
  PROVE  Inv'
BY TypeStep, DownStep, LockStep, LineStep, BoundsStep, FindingStep, RecoveredStep,
   AckStep, GateStep, FlushStep, ShutdownStep DEF Inv

\* Every reachable state satisfies the invariant.
THEOREM Inductive == Spec => []Inv
BY InitInv, StepInv, PTL DEF Spec

\* However captures, evictions, replays and restarts interleave, a daemon
\* dispatches the events of a source one by one in journal order, skipping
\* none and repeating none (server/ingress.rs).
THEOREM DispatchesInOrder == Spec => []DispatchedInSourceOrder
<1>1. Inv => DispatchedInSourceOrder
  <2> SUFFICES ASSUME Inv, NEW s \in Sources
               PROVE  /\ Rising(order[s])
                      /\ \A d \in Dispatched(s) : \A p \in Events(s) :
                           base[s] < p /\ p <= d => p \in Dispatched(s)
    BY DEF DispatchedInSourceOrder, Rising
  <2>1. Rising(order[s]) /\ Line(s)
    BY LineBounds DEF Inv
  <2>2. ASSUME NEW d \in Dispatched(s), NEW p \in Events(s), base[s] < p, p <= d
        PROVE  p \in Dispatched(s)
    <3>1. p \in New(s) /\ d \in Nat /\ p \in Nat
      BY <2>2, LineBounds DEF New, Events, Inv
    <3>2. CASE alive
      <4>1. \A x \in Span(readers[s]) \cup Span(evicted[s]) \cup Positions(buffer, s)
                     \cup Written(s) : d < x
        BY <2>1 DEF Line, InLine, Before
      <4> QED BY <2>1, <2>2, <3>1, <3>2, <4>1 DEF Line
    <3>3. CASE ~alive
      <4>1. order[s] = <<>>
        BY <3>3 DEF Inv, DownInv, Fresh
      <4> QED BY <4>1, EmptySeq DEF Dispatched
    <3> QED BY <3>2, <3>3
  <2> QED BY <2>1, <2>2
<1> QED BY <1>1, Inductive, PTL

\* Startup recovery dispatches what the journals held when the daemon
\* started, whatever captures race with its discovery (server/recovery.rs).
THEOREM RecoversHistory == Spec => []RecoveryIsHistory
<1>1. Inv => RecoveryIsHistory
  BY DEF Inv, RecoveryIsHistory, BoundsInv, RecoveredInv, DownInv, Fresh
<1> QED BY <1>1, Inductive, PTL

\* An answered flush covers what was acknowledged before it was requested.
THEOREM FlushCovers == Spec => []FlushCoversAcknowledged
<1>1. Inv => FlushCoversAcknowledged
  BY DEF Inv
<1> QED BY <1>1, Inductive, PTL

\* A shutdown that has settled ingress leaves nothing acknowledged behind,
\* unless a replay failed (server/maintenance.rs, drain_all).
THEOREM ShutdownSettles == Spec => []ShutdownSettlesAcknowledged
<1>1. Inv => ShutdownSettlesAcknowledged
  BY DEF Inv
<1> QED BY <1>1, Inductive, PTL
=============================================================================
